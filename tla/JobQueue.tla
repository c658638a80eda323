------------------------------ MODULE JobQueue ------------------------------
(***************************************************************************)
(* What the control slave promises to the cores.  A core asks for a job;   *)
(* the job enters a queue with exactly the parameters that were asked for; *)
(* jobs are finished in the order in which they entered and nothing        *)
(* changes them in between; the core that asked is told when its job has   *)
(* finished.  A soft clear drops the queue.                                *)
(***************************************************************************)
EXTENDS Naturals, Sequences

CONSTANTS
  Capacity,   (* The number of jobs the queue holds.     *)
  Core,       (* Who asks for jobs.                      *)
  Job,        (* The parameters of a job.                *)
  NoJob       (* A core that asks for nothing.           *)

VARIABLES
  request,   (* What each core asks for and has not been queued yet.       *)
  queue,     (* The queued jobs, each with the core that asked for it.     *)
  event      (* The cores that are being told that a job has finished.     *)

vars == <<request, queue, event>>

Init ==
  /\ request = [c \in Core |-> NoJob]
  /\ queue = << >>
  /\ event = {}

Ask(c, j) ==
  /\ request[c] = NoJob
  /\ request' = [request EXCEPT ![c] = j]
  /\ UNCHANGED <<queue, event>>

Entry(c) == [core |-> c, job |-> request[c]]

Submit(c) ==
  /\ request[c] # NoJob
  /\ Len(queue) < Capacity
  /\ queue' = Append(queue, Entry(c))
  /\ request' = [request EXCEPT ![c] = NoJob]
  /\ event' = {}

Finish ==
  /\ queue # << >>
  /\ queue' = Tail(queue)
  /\ event' = {Head(queue).core}
  /\ UNCHANGED request

(* A job enters while another one finishes.                                *)
SubmitFinish(c) ==
  /\ request[c] # NoJob
  /\ queue # << >> /\ Len(queue) < Capacity
  /\ queue' = Append(Tail(queue), Entry(c))
  /\ event' = {Head(queue).core}
  /\ request' = [request EXCEPT ![c] = NoJob]

(* An event lasts for one cycle.                                           *)
Quiet == event' = {} /\ UNCHANGED <<request, queue>>

Clear == queue' = << >> /\ event' = {} /\ UNCHANGED request

Next ==
  \/ \E c \in Core, j \in Job : Ask(c, j)
  \/ \E c \in Core : Submit(c) \/ SubmitFinish(c)
  \/ Finish
  \/ Quiet
  \/ Clear

Spec == Init /\ [][Next]_vars
=============================================================================
