---------------------------- MODULE BoundedQueue ----------------------------
(***************************************************************************)
(* What a HWPE-Stream FIFO promises: a bounded first-in first-out queue.   *)
(* In one clock cycle a word may enter at the tail, a word may leave at    *)
(* the head, or both; a full queue accepts nothing, an empty one delivers  *)
(* nothing, and a clear drops everything that is queued.                   *)
(***************************************************************************)
EXTENDS Naturals, Sequences

CONSTANTS
  Capacity,   (* The number of words the queue holds.   *)
  Word        (* The set of words that can be queued.   *)

VARIABLE queue

Init == queue = << >>

Push(d) ==
  /\ Len(queue) < Capacity
  /\ queue' = Append(queue, d)

Pop ==
  /\ queue # << >>
  /\ queue' = Tail(queue)

(* A word enters a queue that is neither empty nor full while the oldest   *)
(* one leaves.                                                             *)
PushPop(d) ==
  /\ queue # << >>
  /\ Len(queue) < Capacity
  /\ queue' = Append(Tail(queue), d)

Clear == queue' = << >>

Next ==
  \/ \E d \in Word : Push(d) \/ PushPop(d)
  \/ Pop
  \/ Clear

Spec == Init /\ [][Next]_queue
=============================================================================
