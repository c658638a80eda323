-------------------------- MODULE StreamFifoProofs --------------------------
(***************************************************************************)
(* Proofs about hwpe_stream_fifo for every depth.  Type correctness holds  *)
(* whatever the width of the pointers; that the circular buffer is a queue *)
(* needs the pointers to wrap at the depth, that is a depth which is a     *)
(* power of two (POINTER_MOD = FIFO_DEPTH).                                *)
(***************************************************************************)
EXTENDS StreamFifo, SequenceTheorems, TLAPS

(* The registers keep their types in every reachable state, whatever the   *)
(* depth and the width of the pointers.                                    *)
THEOREM TypeCorrect == Spec => []TypeOK
<1> USE FifoAssumption DEF TypeOK, Slots, Pointers
<1>1. Init => TypeOK
  BY DEF Init
<1>2. TypeOK /\ [Next]_vars => TypeOK'
  <2> SUFFICES ASSUME TypeOK, [Next]_vars PROVE TypeOK'
    OBVIOUS
  <2>1. ASSUME NEW d \in Word, PushEmpty(d) PROVE TypeOK'
    BY <2>1 DEF PushEmpty, IncReg, Store
  <2>2. ASSUME NEW d \in Word, PushMiddle(d) PROVE TypeOK'
    BY <2>2 DEF PushMiddle, Inc, IncReg, Store
  <2>3. ASSUME NEW d \in Word, PushPopMiddle(d) PROVE TypeOK'
    BY <2>3 DEF PushPopMiddle, Inc, IncReg, Store
  <2>4. CASE PopMiddle
    BY <2>4 DEF PopMiddle, Inc, IncReg
  <2>5. CASE PopFull
    BY <2>5 DEF PopFull, Inc, IncReg
  <2>6. CASE Clear
    BY <2>6 DEF Clear
  <2>7. CASE UNCHANGED vars
    BY <2>7 DEF vars
  <2>8. QED
    BY <2>1, <2>2, <2>3, <2>4, <2>5, <2>6, <2>7 DEF Next
<1>3. QED
  BY <1>1, <1>2, PTL DEF Spec

-----------------------------------------------------------------------------
(* For a depth that is a power of two, the occupancy state and the         *)
(* pointers agree in every reachable state.                                *)
THEOREM Occupancy ==
  ASSUME POINTER_MOD = FIFO_DEPTH
  PROVE  Spec => []OccupancyOK
<1> USE FifoAssumption DEF OccupancyOK, TypeOK, Slots, Pointers
<1>1. Init => OccupancyOK
  BY DEF Init
<1>2. TypeOK /\ OccupancyOK /\ [Next]_vars => OccupancyOK'
  <2> SUFFICES ASSUME TypeOK, OccupancyOK, [Next]_vars PROVE OccupancyOK'
    OBVIOUS
  <2>1. ASSUME NEW d \in Word, PushEmpty(d) PROVE OccupancyOK'
    BY <2>1 DEF PushEmpty, IncReg
  <2>2. ASSUME NEW d \in Word, PushMiddle(d) PROVE OccupancyOK'
    BY <2>2 DEF PushMiddle, Inc, IncReg, LastSlot
  <2>3. ASSUME NEW d \in Word, PushPopMiddle(d) PROVE OccupancyOK'
    BY <2>3 DEF PushPopMiddle, Inc, IncReg
  <2>4. CASE PopMiddle
    BY <2>4 DEF PopMiddle, Inc, IncReg, LastWord
  <2>5. CASE PopFull
    BY <2>5 DEF PopFull, Inc, IncReg
  <2>6. CASE Clear
    BY <2>6 DEF Clear
  <2>7. CASE UNCHANGED vars
    BY <2>7 DEF vars
  <2>8. QED
    BY <2>1, <2>2, <2>3, <2>4, <2>5, <2>6, <2>7 DEF Next
<1>3. QED
  BY <1>1, <1>2, TypeCorrect, PTL DEF Spec

-----------------------------------------------------------------------------
(* The queued words form a sequence as long as the count says.             *)
ContentsShape ==
  /\ Count \in 0 .. FIFO_DEPTH
  /\ cs = "EMPTY" <=> Count = 0
  /\ cs = "FULL" <=> Count = FIFO_DEPTH
  /\ Contents \in Seq(Word)
  /\ Len(Contents) = Count
  /\ \A k \in 1 .. Count :
       /\ Slot(pop_pointer, k - 1) \in Slots
       /\ Contents[k] = fifo_registers[Slot(pop_pointer, k - 1)]

(* The slots between the pointers are a sequence of words.                 *)
LEMMA ContentsAreSequence == TypeOK /\ OccupancyOK => ContentsShape
<1> SUFFICES ASSUME TypeOK, OccupancyOK PROVE ContentsShape
  OBVIOUS
<1> USE FifoAssumption DEF TypeOK, OccupancyOK, Slots
<1>1. /\ Count \in 0 .. FIFO_DEPTH
      /\ cs = "EMPTY" <=> Count = 0
      /\ cs = "FULL" <=> Count = FIFO_DEPTH
  BY DEF Count
<1>2. \A k \in 1 .. Count : Slot(pop_pointer, k - 1) \in Slots
  BY <1>1 DEF Slot
<1>3. \A k \in 1 .. Count : fifo_registers[Slot(pop_pointer, k - 1)] \in Word
  BY <1>2
<1>4. Contents \in Seq(Word) /\ Len(Contents) = Count
  BY <1>1, <1>3 DEF Contents
<1>5. QED
  BY <1>1, <1>2, <1>4 DEF Contents, ContentsShape

-----------------------------------------------------------------------------
(* What an edge at which one word enters, leaves, or both does to the      *)
(* queued words.                                                           *)
LEMMA EnterTail ==
  ASSUME TypeOK, OccupancyOK, ContentsShape, TypeOK', ContentsShape',
         NEW d \in Word, Store(d), Count' = Count + 1,
         pop_pointer' = pop_pointer, push_pointer = Slot(pop_pointer, Count)
  PROVE  Contents' = Append(Contents, d)
<1> USE FifoAssumption DEF TypeOK, OccupancyOK, Slots, ContentsShape
<1>1. Append(Contents, d) \in Seq(Word) /\ Len(Append(Contents, d)) = Count'
  OBVIOUS
<1>2. ASSUME NEW k \in 1 .. Count'
      PROVE  Contents'[k] = Append(Contents, d)[k]
  <2>1. CASE k = Count'
    BY <2>1 DEF Store, Slot
  <2>2. CASE k \in 1 .. Count
    <3>1. Slot(pop_pointer, k - 1) # push_pointer
      BY <2>2 DEF Slot
    <3>2. QED
      BY <2>2, <3>1 DEF Store
  <2>3. QED
    BY <2>1, <2>2
<1>3. QED
  BY <1>1, <1>2, SeqEqual

(* A pop removes the head of that sequence.                                *)
LEMMA LeaveHead ==
  ASSUME TypeOK, OccupancyOK, ContentsShape, TypeOK', ContentsShape',
         Count > 0, Count' = Count - 1,
         pop_pointer' = Slot(pop_pointer, 1), UNCHANGED fifo_registers
  PROVE  Contents' = Tail(Contents)
<1> USE FifoAssumption DEF TypeOK, OccupancyOK, Slots, ContentsShape
<1>1. /\ Tail(Contents) \in Seq(Word)
      /\ Len(Tail(Contents)) = Count'
      /\ \A k \in 1 .. Count' : Tail(Contents)[k] = Contents[k + 1]
  BY HeadTailProperties, EmptySeq
<1>2. ASSUME NEW k \in 1 .. Count'
      PROVE  Contents'[k] = Tail(Contents)[k]
  <2>1. Slot(pop_pointer', k - 1) = Slot(pop_pointer, k)
    BY DEF Slot
  <2>2. QED
    BY <1>1, <2>1
<1>3. QED
  BY <1>1, <1>2, SeqEqual
(* At an edge of a queue in MIDDLE a word can enter and another leave.     *)
LEMMA EnterAndLeave ==
  ASSUME TypeOK, OccupancyOK, ContentsShape, TypeOK', ContentsShape',
         NEW d \in Word, Store(d), Count > 0, Count' = Count,
         pop_pointer' = Slot(pop_pointer, 1),
         push_pointer = Slot(pop_pointer, Count), Count < FIFO_DEPTH
  PROVE  Contents' = Append(Tail(Contents), d)
<1> USE FifoAssumption DEF TypeOK, OccupancyOK, Slots, ContentsShape
<1>1. /\ Tail(Contents) \in Seq(Word)
      /\ Len(Tail(Contents)) = Count - 1
      /\ \A k \in 1 .. Count - 1 : Tail(Contents)[k] = Contents[k + 1]
  BY HeadTailProperties, EmptySeq
<1>2. /\ Append(Tail(Contents), d) \in Seq(Word)
      /\ Len(Append(Tail(Contents), d)) = Count'
      /\ \A k \in 1 .. Count - 1 : Append(Tail(Contents), d)[k] = Contents[k + 1]
      /\ Append(Tail(Contents), d)[Count] = d
  BY <1>1, AppendProperties
<1>3. ASSUME NEW k \in 1 .. Count'
      PROVE  Contents'[k] = Append(Tail(Contents), d)[k]
  <2>1. Slot(pop_pointer', k - 1) = Slot(pop_pointer, k)
    BY DEF Slot
  <2>2. CASE k = Count
    BY <1>2, <2>1, <2>2 DEF Store
  <2>3. CASE k \in 1 .. Count - 1
    <3>1. Slot(pop_pointer, k) # push_pointer
      BY <2>3 DEF Slot
    <3>2. fifo_registers'[Slot(pop_pointer, k)] = fifo_registers[Slot(pop_pointer, k)]
      BY <2>1, <3>1 DEF Store
    <3>3. Contents[k + 1] = fifo_registers[Slot(pop_pointer, k)]
      BY <2>3
    <3>4. QED
      BY <1>2, <2>1, <2>3, <3>2, <3>3
  <2>4. QED
    BY <2>2, <2>3
<1>4. QED
  BY <1>2, <1>3, SeqEqual

-----------------------------------------------------------------------------
(* Where the next word goes, and how far the pointers move.                *)
LEMMA PointerFacts ==
  ASSUME POINTER_MOD = FIFO_DEPTH, TypeOK, OccupancyOK
  PROVE  /\ cs # "FULL" => push_pointer = Slot(pop_pointer, Count)
         /\ Inc(pop_pointer) = Slot(pop_pointer, 1)
  BY FifoAssumption DEF TypeOK, OccupancyOK, Slots, Count, Slot, Inc, IncReg

(* One step of the circular buffer is one step of the queue.               *)
LEMMA StepSimulation ==
  ASSUME POINTER_MOD = FIFO_DEPTH,
         TypeOK, OccupancyOK, ContentsShape,
         TypeOK', OccupancyOK', ContentsShape', [Next]_vars
  PROVE  [Queue!Next]_Contents
<1> USE FifoAssumption DEF TypeOK, OccupancyOK, Slots
<1>c. Count \in Nat /\ Count' \in Nat /\ Contents \in Seq(Word)
      /\ Len(Contents) = Count /\ (Count = 0 <=> Contents = << >>)
  BY EmptySeq DEF ContentsShape
<1>1. ASSUME NEW d \in Word, PushEmpty(d) PROVE Queue!Push(d)
  <2>1. Count = 0 /\ Count' = 1 /\ pop_pointer' = pop_pointer /\ Store(d)
    BY <1>1 DEF PushEmpty, IncReg, Count
  <2>2. QED
    BY <1>1, <1>c, <2>1, EnterTail, PointerFacts DEF PushEmpty, Queue!Push
<1>2. ASSUME NEW d \in Word, PushMiddle(d) PROVE Queue!Push(d)
  <2>1. Count < FIFO_DEPTH /\ Count' = Count + 1 /\ pop_pointer' = pop_pointer
        /\ Store(d)
    BY <1>2 DEF PushMiddle, Inc, IncReg, LastSlot, Count
  <2>2. QED
    BY <1>2, <1>c, <2>1, EnterTail, PointerFacts DEF PushMiddle, Queue!Push
<1>3. ASSUME NEW d \in Word, PushPopMiddle(d) PROVE Queue!PushPop(d)
  <2>1. Count > 0 /\ Count < FIFO_DEPTH /\ Count' = Count /\ Store(d)
        /\ pop_pointer' = Inc(pop_pointer)
    BY <1>3 DEF PushPopMiddle, Inc, IncReg, Count
  <2>2. QED
    BY <1>3, <1>c, <2>1, EnterAndLeave, PointerFacts
       DEF PushPopMiddle, Queue!PushPop
<1>4. CASE PopMiddle
  <2>1. Count > 0 /\ Count' = Count - 1 /\ pop_pointer' = Inc(pop_pointer)
        /\ UNCHANGED fifo_registers
    BY <1>4 DEF PopMiddle, Inc, IncReg, LastWord, Count
  <2>2. Queue!Pop
    BY <1>c, <2>1, LeaveHead, PointerFacts DEF Queue!Pop
  <2>3. QED
    BY <2>2 DEF Queue!Next
<1>5. CASE PopFull
  <2>1. Count > 0 /\ Count' = Count - 1 /\ pop_pointer' = Inc(pop_pointer)
        /\ UNCHANGED fifo_registers
    BY <1>5 DEF PopFull, Inc, IncReg, Count
  <2>2. Queue!Pop
    BY <1>c, <2>1, LeaveHead, PointerFacts DEF Queue!Pop
  <2>3. QED
    BY <2>2 DEF Queue!Next
<1>6. CASE Clear
  <2>1. Count' = 0
    BY <1>6 DEF Clear, Count
  <2>2. Contents' = << >>
    BY <2>1, EmptySeq DEF ContentsShape
  <2>3. QED
    BY <2>2 DEF Queue!Next, Queue!Clear
<1>7. CASE UNCHANGED vars
  BY <1>7 DEF vars, Contents, Count, Slot
<1>8. QED
  BY <1>1, <1>2, <1>3, <1>4, <1>5, <1>6, <1>7 DEF Next, Queue!Next

(* The circular buffer implements the bounded queue, for every depth that  *)
(* is a power of two.                                                      *)
THEOREM ImplementsQueue ==
  ASSUME POINTER_MOD = FIFO_DEPTH
  PROVE  Spec => QueueSpec
<1>1. Init => Queue!Init
  BY EmptySeq DEF Init, Queue!Init, Contents, Count
<1>2. Spec => [](TypeOK /\ OccupancyOK /\ ContentsShape)
  BY TypeCorrect, Occupancy, ContentsAreSequence, PTL
<1>3. /\ TypeOK /\ OccupancyOK /\ ContentsShape
      /\ TypeOK' /\ OccupancyOK' /\ ContentsShape' /\ [Next]_vars
      => [Queue!Next]_Contents
  BY StepSimulation
<1>4. QED
  BY <1>1, <1>2, <1>3, PTL DEF Spec, QueueSpec, Queue!Spec
=============================================================================
