----------------------------- MODULE HwpeOffload -----------------------------
(***************************************************************************)
(* The control slave at work: cores that offload jobs over the peripheral  *)
(* bus and an engine that executes them.  A core runs aes_hwpe_start for   *)
(* one job after the other; the engine is aes_fsm reduced to what the      *)
(* slave sees of it.                                                       *)
(***************************************************************************)
EXTENDS HwpeCtrlSlave, Sequences

CONSTANTS
  NoJob,           (* A core that is not in aes_hwpe_start.                *)
  PROGRAM_FIRST,   (* TRUE: the order of aes_hwpe_start, which writes the  *)
                   (* registers and then reads ACQUIRE.  FALSE: ACQUIRE is *)
                   (* read first, as fsm_context of the slave expects.     *)
  SLEEP            (* TRUE: after each job the core executes wfi, as       *)
                   (* test_application.c does.                             *)

ASSUME OffloadAssumption ==
  /\ NoJob \notin Job
  /\ PROGRAM_FIRST \in BOOLEAN
  /\ SLEEP \in BOOLEAN
  /\ ID_MOD > N_CONTEXT + 1

VARIABLES
  pc,       (* Where each core is.                                         *)
  request,  (* The job it wants to run: the aes_config_t it was given.     *)
  todo,     (* The registers it still has to write.                        *)
  engine    (* aes_fsm: idle, busy or done (state AES_FINISHED).           *)

coreVars == <<pc, request, todo>>
vars == <<slaveVars, coreVars, engine>>

CoreTypeOK ==
  /\ pc \in [Core -> {"idle", "program", "acquire", "trigger", "sleep"}]
  /\ request \in [Core -> Job \cup {NoJob}]
  /\ todo \in [Core -> SUBSET Reg]
  /\ engine \in {"idle", "busy", "done"}

FirstStep    == IF PROGRAM_FIRST THEN "program" ELSE "acquire"
AfterProgram == IF PROGRAM_FIRST THEN "acquire" ELSE "trigger"
AfterAcquire == IF PROGRAM_FIRST THEN "trigger" ELSE "program"
AfterTrigger == IF SLEEP THEN "sleep" ELSE "idle"

(* A core that sleeps wakes up when its event line, the interrupt, rises.  *)
Woken(d) == pc[d] = "sleep" /\ d \in evt

Cores(c, next) ==
  pc' = [d \in Core |-> IF d = c THEN next
                        ELSE IF Woken(d) THEN "idle" ELSE pc[d]]

OtherCores == pc' = [d \in Core |-> IF Woken(d) THEN "idle" ELSE pc[d]]

(* The engine takes any number of cycles for a job and drops it when it is *)
(* cleared.                                                                *)
Engine ==
  engine' \in IF clear_o THEN {"idle"}
              ELSE IF engine = "idle" THEN {IF start THEN "busy" ELSE "idle"}
              ELSE IF engine = "busy" THEN {"busy", "done"}
              ELSE {"idle"}

Done == engine = "done"

(* No soft clear is under way.  A core that issues one stays off the bus   *)
(* until it has ended; nothing in the slave makes it wait.                 *)
Settled == s_clear = 0 /\ ~clear_o

-----------------------------------------------------------------------------
(* aes_hwpe_start is called: software only, no edge.                       *)
CallStart(c, j) ==
  /\ pc[c] = "idle"
  /\ Settled
  /\ pc' = [pc EXCEPT ![c] = FirstStep]
  /\ request' = [request EXCEPT ![c] = j]
  /\ todo' = [todo EXCEPT ![c] = Reg]
  /\ UNCHANGED <<slaveVars, engine>>

(* Edges at which no core uses the bus.                                    *)
BusIdle ==
  /\ NoAccess(Done) /\ Engine /\ OtherCores
  /\ UNCHANGED <<request, todo>>

(* One of hwpe_input_addr_set .. hwpe_key_set.                             *)
Program(c, r) ==
  /\ pc[c] = "program" /\ r \in todo[c]
  /\ Settled
  /\ WriteReg(r, request[c][r], Done) /\ Engine
  /\ todo' = [todo EXCEPT ![c] = @ \ {r}]
  /\ Cores(c, IF todo[c] = {r} THEN AfterProgram ELSE "program")
  /\ UNCHANGED request

(* One turn of the loop on hwpe_acquire_job.                               *)
AcquireJob(c) ==
  /\ pc[c] = "acquire"
  /\ Settled
  /\ Acquire(Done) /\ Engine
  /\ Cores(c, IF Granted THEN AfterAcquire ELSE "acquire")
  /\ UNCHANGED <<request, todo>>

(* hwpe_trigger_job.                                                       *)
TriggerJob(c) ==
  /\ pc[c] = "trigger"
  /\ Settled
  /\ WriteTrigger(c, "trigger", Done) /\ Engine
  /\ Cores(c, AfterTrigger)
  /\ request' = [request EXCEPT ![c] = NoJob]
  /\ UNCHANGED todo

(* hwpe_soft_clear, by a core while no core is in aes_hwpe_start.          *)
SoftClearJobs ==
  /\ \A c \in Core : pc[c] = "idle"
  /\ Settled
  /\ WriteSoftClear("clear", Done) /\ Engine
  /\ UNCHANGED coreVars

(* A read of FINISHED, or any access whose low address bits match it.      *)
TouchFinished ==
  /\ Settled
  /\ AccessFinished(Done) /\ Engine /\ OtherCores
  /\ UNCHANGED <<request, todo>>

OffloadInit ==
  /\ Init
  /\ pc = [c \in Core |-> "idle"]
  /\ request = [c \in Core |-> NoJob]
  /\ todo = [c \in Core |-> {}]
  /\ engine = "idle"

OffloadNext ==
  \/ \E c \in Core, j \in Job : CallStart(c, j)
  \/ BusIdle
  \/ \E c \in Core, r \in Reg : Program(c, r)
  \/ \E c \in Core : AcquireJob(c) \/ TriggerJob(c)
  \/ SoftClearJobs
  \/ TouchFinished

OffloadSpec == OffloadInit /\ [][OffloadNext]_vars

(* The clock never stops and the bus is not used at every edge, the engine *)
(* does not run a job for ever, and a core in aes_hwpe_start goes on       *)
(* executing it.  No core has to call it again or to clear the slave.      *)
EngineFinishes == BusIdle /\ engine = "busy" /\ engine' = "done"

CoreSteps(c) == AcquireJob(c) \/ TriggerJob(c) \/ \E r \in Reg : Program(c, r)

Fairness ==
  /\ WF_vars(BusIdle)
  /\ WF_vars(EngineFinishes)
  /\ \A c \in Core : WF_vars(CoreSteps(c))

FairSpec == OffloadSpec /\ Fairness

-----------------------------------------------------------------------------
OffloadTypeOK == TypeOK /\ CoreTypeOK

(* How far a context is from the one that runs (next), and the k-th one.   *)
Offset(x) == IF x >= running_context THEN x - running_context
             ELSE x - running_context + N_CONTEXT

Ctx(k) == IF running_context + k < N_CONTEXT THEN running_context + k
          ELSE running_context + k - N_CONTEXT

IsPending(x) == Offset(x) < counter_pending

(* The cores that have been granted the context at pointer_context and     *)
(* have not triggered it yet.                                              *)
Holders == {c \in Core : \/ pc[c] = "trigger"
                        \/ (pc[c] = "program" /\ ~PROGRAM_FIRST)}

(* fsm_context and the answers to ACQUIRE, given by two different files,   *)
(* agree: at most one core offloads at a time, and the slave knows it.     *)
CriticalSection ==
  /\ \A c, d \in Holders : c = d
  /\ is_critical <=> Holders # {}

(* There are never more jobs than contexts, so the counter of pending      *)
(* contexts never wraps, and a core that has been granted a context is     *)
(* granted one that no pending job uses.                                   *)
PendingBounded ==
  /\ counter_pending <= N_CONTEXT
  /\ is_critical => ~IsPending(pointer_context)

(* STATUS tells exactly the contexts that are triggered and not done, even *)
(* when one job is triggered at the edge at which another one is done.     *)
StatusAgrees == \A x \in Context : status[x] = 1 <=> IsPending(x)

(* The job ids: every id that was handed out is running, pending or being  *)
(* programmed, or its job is done.  The two 8-bit counters live in the     *)
(* register file and are incremented one edge late.                        *)
AsNat(b) == IF b THEN 1 ELSE 0

JobIdsAgree ==
  (offload_job_id + AsNat(offload_job_id_incr))
    - (running_job_id + AsNat(running_job_id_incr))
    - (counter_pending + AsNat(is_critical))
  \in {- ID_MOD, 0, ID_MOD}

(* The slave waits for a done exactly while the engine executes a job, so  *)
(* neither is left waiting for the other, a soft clear included.           *)
EngineInStep ==
  /\ engine # "idle" => running_state = "RUN_RUN"
  /\ running_state = "RUN_RUN" => (start \/ engine # "idle")

(* The jobs of the pending contexts, the one that runs first.              *)
Entry(x) == [core |-> offloading_core[x], job |-> hwpe_params[x]]

Contents == [k \in 1 .. counter_pending |-> Entry(Ctx(k - 1))]

(* The contexts behave as a queue of the jobs that were asked for.         *)
Jobs == INSTANCE JobQueue WITH
  Capacity <- N_CONTEXT, queue <- Contents, event <- evt

JobQueueSpec == Jobs!Spec

(* Every triggered job is eventually done (or dropped by a soft clear).    *)
JobsFinish == \A x \in Context : status[x] = 1 ~> status[x] = 0

(* The loop of aes_hwpe_start on ACQUIRE ends.                             *)
AcquireEnds == \A c \in Core : pc[c] = "acquire" ~> pc[c] # "acquire"

(* A core that sleeps from the trigger of its job on is woken up.          *)
SleepEnds == \A c \in Core : pc[c] = "sleep" ~> pc[c] # "sleep"
=============================================================================
