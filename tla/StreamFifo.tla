----------------------------- MODULE StreamFifo -----------------------------
(***************************************************************************)
(* hwpe_stream_fifo: the flip-flop queue that decouples every stage of the *)
(* AES streamer.  One step is one rising clock edge.  The environment      *)
(* chooses push_i.valid, push_i.data, pop_o.ready and clear_i; an edge at  *)
(* which no word moves leaves every register unchanged and is a            *)
(* stuttering step.                                                        *)
(***************************************************************************)
EXTENDS Naturals, Sequences

CONSTANTS
  FIFO_DEPTH,   (* The design-time parameter of the same name.             *)
  POINTER_MOD,  (* 2^ADDR_DEPTH: the range of a pointer register.          *)
  Word,         (* The values of { data, strb }.                           *)
  ZERO          (* The value of the registers after a reset or a clear.    *)

ASSUME FifoAssumption ==
  /\ FIFO_DEPTH \in Nat /\ FIFO_DEPTH >= 2
  /\ POINTER_MOD \in Nat /\ POINTER_MOD >= FIFO_DEPTH
  /\ ZERO \in Word

VARIABLES
  cs,              (* The occupancy state: EMPTY, MIDDLE or FULL.          *)
  pop_pointer,     (* pop_pointer_q                                        *)
  push_pointer,    (* push_pointer_q                                       *)
  fifo_registers   (* The storage.                                         *)

vars == <<cs, pop_pointer, push_pointer, fifo_registers>>

Slots == 0 .. FIFO_DEPTH - 1
Pointers == 0 .. POINTER_MOD - 1

TypeOK ==
  /\ cs \in {"EMPTY", "MIDDLE", "FULL"}
  /\ pop_pointer \in Pointers
  /\ push_pointer \in Pointers
  /\ fifo_registers \in [Slots -> Word]

-----------------------------------------------------------------------------
(* Combinational outputs. *)
PushReady == cs # "FULL"
PopValid  == cs # "EMPTY"

(* Mutant: the increment is one bit wider than the pointer.                *)
IncRegNoWrap(p) == p + 1

(* "+ 1'b1" on a pointer: it wraps with the width of the register.  The    *)
(* push pointer of an EMPTY queue moves by this alone, without a look at   *)
(* the depth of the queue.                                                 *)
IncReg(p) == IF p = POINTER_MOD - 1 THEN 0 ELSE p + 1

(* Elsewhere a pointer goes back to slot 0 after the last slot.            *)
Inc(p) == IF p = FIFO_DEPTH - 1 THEN 0 ELSE IncReg(p)

(* Mutants of the two comparisons: the second disjunct is forgotten.       *)
LastWordNoWrap == push_pointer > 0 /\ pop_pointer = push_pointer - 1
LastSlotNoWrap == pop_pointer > 0 /\ push_pointer = pop_pointer - 1

(* The word leaving is the only one: the pop pointer is just behind the    *)
(* push pointer.  (The comparison is done on integers, so a push pointer   *)
(* of 0 is the second disjunct.)                                           *)
LastWord ==
  \/ push_pointer > 0 /\ pop_pointer = push_pointer - 1
  \/ pop_pointer = FIFO_DEPTH - 1 /\ push_pointer = 0

(* The word arriving takes the last free slot.                             *)
LastSlot ==
  \/ pop_pointer > 0 /\ push_pointer = pop_pointer - 1
  \/ push_pointer = FIFO_DEPTH - 1 /\ pop_pointer = 0

(* A write to a slot that does not exist is lost.                          *)
Store(d) ==
  fifo_registers' = [i \in Slots |-> IF i = push_pointer
                                     THEN d ELSE fifo_registers[i]]

Init ==
  /\ cs = "EMPTY"
  /\ pop_pointer = 0
  /\ push_pointer = 0
  /\ fifo_registers = [i \in Slots |-> ZERO]

(* push_i.valid in state EMPTY; pop_o.ready is not looked at.              *)
PushEmpty(d) ==
  /\ cs = "EMPTY"
  /\ cs' = "MIDDLE"
  /\ push_pointer' = IncReg(push_pointer)
  /\ Store(d)
  /\ UNCHANGED pop_pointer

(* {push_i.valid, pop_o.ready} = 2'b10 in state MIDDLE.                    *)
PushMiddle(d) ==
  /\ cs = "MIDDLE"
  /\ cs' = IF LastSlot THEN "FULL" ELSE "MIDDLE"
  /\ push_pointer' = Inc(push_pointer)
  /\ Store(d)
  /\ UNCHANGED pop_pointer

(* {push_i.valid, pop_o.ready} = 2'b01 in state MIDDLE.                    *)
PopMiddle ==
  /\ cs = "MIDDLE"
  /\ cs' = IF LastWord THEN "EMPTY" ELSE "MIDDLE"
  /\ pop_pointer' = Inc(pop_pointer)
  /\ UNCHANGED <<push_pointer, fifo_registers>>

(* {push_i.valid, pop_o.ready} = 2'b11 in state MIDDLE.                    *)
PushPopMiddle(d) ==
  /\ cs = "MIDDLE"
  /\ pop_pointer' = Inc(pop_pointer)
  /\ push_pointer' = Inc(push_pointer)
  /\ Store(d)
  /\ UNCHANGED cs

(* pop_o.ready in state FULL; push_i.ready is low, so nothing enters.      *)
PopFull ==
  /\ cs = "FULL"
  /\ cs' = "MIDDLE"
  /\ pop_pointer' = Inc(pop_pointer)
  /\ UNCHANGED <<push_pointer, fifo_registers>>

(* clear_i has priority over everything else; a word offered in the same   *)
(* cycle is accepted by the handshake and dropped.                         *)
Clear ==
  /\ cs' = "EMPTY"
  /\ pop_pointer' = 0
  /\ push_pointer' = 0
  /\ fifo_registers' = [i \in Slots |-> ZERO]

Next ==
  \/ \E d \in Word : PushEmpty(d) \/ PushMiddle(d) \/ PushPopMiddle(d)
  \/ PopMiddle
  \/ PopFull
  \/ Clear

Spec == Init /\ [][Next]_vars

-----------------------------------------------------------------------------
(* The queued words, oldest first.                                         *)
Count ==
  IF cs = "EMPTY" THEN 0
  ELSE IF push_pointer > pop_pointer THEN push_pointer - pop_pointer
  ELSE push_pointer + FIFO_DEPTH - pop_pointer

Slot(p, k) == IF p + k < FIFO_DEPTH THEN p + k ELSE p + k - FIFO_DEPTH

Contents == [k \in 1 .. Count |-> fifo_registers[Slot(pop_pointer, k - 1)]]

(* The state register and the two pointers agree: the pointers meet        *)
(* exactly when the queue is empty or full, so a word is never overwritten *)
(* before it is popped and a slot never read before it is written          *)
(* (lines 139-223 of hwpe_stream_fifo.sv).                                 *)
OccupancyOK ==
  /\ pop_pointer \in Slots
  /\ push_pointer \in Slots
  /\ cs = "MIDDLE" <=> push_pointer # pop_pointer

(* Every word that is pushed comes out once, in order: the circular buffer *)
(* behaves as the bounded queue of module BoundedQueue.                    *)
Queue == INSTANCE BoundedQueue WITH Capacity <- FIFO_DEPTH, queue <- Contents

QueueSpec == Queue!Spec
=============================================================================
