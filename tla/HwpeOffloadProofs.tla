-------------------------- MODULE HwpeOffloadProofs --------------------------
(***************************************************************************)
(* Proofs about cores and engine around the control slave, for every       *)
(* number of contexts, cores and registers, for both orders of ACQUIRE and *)
(* programming, with and without sleeping.                                 *)
(*                                                                         *)
(* The inductive invariant ties the registers of the slave, the program    *)
(* counters of the cores and the state of the engine together.             *)
(***************************************************************************)
EXTENDS HwpeOffload, HwpeCtrlSlaveProofs, SequenceTheorems

(* Both soft clears run in step: the cores only write 0 to SOFT_CLEAR.     *)
Lockstep == s_clear_regfile = s_clear /\ clear_regfile = clear_o

(* No core is in aes_hwpe_start while a clear is under way.                *)
ClearQuiet == ~Settled => \A c \in Core : pc[c] = "idle"

(* A core in aes_hwpe_start has a job to run.                              *)
Requested ==
  \A c \in Core : pc[c] \in {"program", "acquire", "trigger"}
                   => request[c] \in Job

(* A core that is granted a context finds room for its job.                *)
Room ==
  /\ counter_pending <= N_CONTEXT
  /\ is_critical => counter_pending < N_CONTEXT

(* The slave works on a job that is pending.                               *)
WorkPending == IsWorking => counter_pending >= 1

StartPulse ==
  /\ start => running_state = "RUN_RUN"
  /\ engine # "idle" => ~start

IInv ==
  /\ OffloadTypeOK
  /\ ContextRing
  /\ Lockstep
  /\ ClearQuiet
  /\ Requested
  /\ CriticalSection
  /\ Room
  /\ WorkPending
  /\ StartPulse
  /\ EngineInStep
  /\ StatusAgrees
  /\ JobIdsAgree

(* What the cores guarantee to the slave at every edge.                    *)
BusEdge(op) ==
  /\ op \in Access \ {"commit", "clear_keep"}
  /\ Edge(op, Done) /\ Engine
  /\ op # "none" => Settled
  /\ op = "trigger" => is_critical

-----------------------------------------------------------------------------
(* The side of the slave and the engine: one lemma per conjunct.           *)
LEMMA LockstepEdge ==
  ASSUME IInv, NEW op, BusEdge(op) PROVE Lockstep'
  BY DEF IInv, Lockstep, BusEdge, Access, Edge, SoftClear, SoftClearRegfile

(* The ring of contexts at an edge.                                        *)
LEMMA RingEdge ==
  ASSUME IInv, NEW op, BusEdge(op) PROVE ContextRing'
  BY EdgeRing DEF IInv, OffloadTypeOK, BusEdge

(* Slave and engine at an edge.                                            *)
LEMMA EngineEdge ==
  ASSUME IInv, NEW op, BusEdge(op)
  PROVE  StartPulse' /\ EngineInStep' /\ engine' \in {"idle", "busy", "done"}
<1> USE DEF IInv, OffloadTypeOK, TypeOK, CoreTypeOK, StartPulse, EngineInStep,
        BusEdge, Edge, RunningFsm, Engine, Done, TrueDone, IsWorking
<1>1. CASE clear_o
  BY <1>1
<1>2. CASE ~clear_o /\ running_state = "RUN_IDLE"
  BY <1>2
<1>3. CASE ~clear_o /\ running_state = "RUN_STARTING"
  BY <1>3
<1>4. CASE ~clear_o /\ running_state = "RUN_RUN"
  BY <1>4
<1>5. QED
  BY <1>1, <1>2, <1>3, <1>4

(* The counter falls only when a job is done and rises only for a core     *)
(* that holds the critical section.                                        *)
LEMMA CounterEdge ==
  ASSUME IInv, NEW op, BusEdge(op), ~clear_o
  PROVE  counter_pending' =
           counter_pending + (IF op = "trigger" THEN 1 ELSE 0)
                           - (IF Done THEN 1 ELSE 0)
<1>1. Done => IsWorking /\ counter_pending >= 1
  BY DEF IInv, EngineInStep, Done, WorkPending, IsWorking
<1>2. IsCommit(op) <=> op = "trigger"
  BY DEF BusEdge, IsCommit
<1>3. counter_pending \in 0 .. N_CONTEXT
      /\ (op = "trigger" => counter_pending < N_CONTEXT)
  BY SlaveAssumption DEF IInv, OffloadTypeOK, TypeOK, Room, BusEdge
<1>4. QED
  BY <1>1, <1>2, <1>3, SlaveAssumption
     DEF BusEdge, Edge, PendingCounter, TrueDone

(* Room in the queue for the core that offloads, at an edge.               *)
LEMMA RoomEdge ==
  ASSUME IInv, NEW op, BusEdge(op) PROVE Room'
<1>1. CASE clear_o
  <2>1. counter_pending' = 0 /\ ~is_critical'
    BY <1>1 DEF BusEdge, Edge, PendingCounter, ContextFsm
  <2>2. QED
    BY <2>1, SlaveAssumption DEF Room
<1>2. CASE ~clear_o
  <2>1. /\ counter_pending \in 0 .. N_CONTEXT
        /\ is_critical => counter_pending < N_CONTEXT
        /\ op = "trigger" => is_critical
    BY SlaveAssumption DEF IInv, OffloadTypeOK, TypeOK, Room, BusEdge
  <2>2. is_critical' => IF is_critical THEN op # "trigger"
                        ELSE op = "acquire" /\ counter_pending # N_CONTEXT
    BY <1>2 DEF BusEdge, Edge, ContextFsm, IsCommit, FullContext
  <2>3. QED
    BY <1>2, <2>1, <2>2, CounterEdge, SlaveAssumption DEF Room
<1>3. QED
  BY <1>1, <1>2

(* A running job is a pending one, at an edge.                             *)
LEMMA WorkEdge ==
  ASSUME IInv, NEW op, BusEdge(op) PROVE WorkPending'
<1> USE DEF WorkPending, IsWorking
<1>1. CASE clear_o
  BY <1>1 DEF BusEdge, Edge, RunningFsm
<1>2. CASE ~clear_o /\ IsWorking'
  <2>1. counter_pending \in Nat /\ counter_pending >= 1
    <3>1. CASE IsWorking
      BY <3>1 DEF IInv, OffloadTypeOK, TypeOK
    <3>2. CASE ~IsWorking
      <4>1. ~(running_context = pointer_context /\ ~FullContext)
        BY <1>2, <3>2 DEF BusEdge, Edge, RunningFsm
      <4>2. QED
        BY <4>1, SlaveAssumption
           DEF IInv, OffloadTypeOK, TypeOK, ContextRing, Context, FullContext
    <3>3. QED
      BY <3>1, <3>2
  <2>2. ~Done
    BY <1>2 DEF IInv, EngineInStep, Done, BusEdge, Edge, RunningFsm, TrueDone
  <2>3. QED
    BY <1>2, <2>1, <2>2, CounterEdge
<1>3. QED
  BY <1>1, <1>2

(* At one edge a context can become pending and another one stop being so. *)
LEMMA StatusEdge ==
  ASSUME IInv, NEW op, BusEdge(op) PROVE StatusAgrees'
<1> SUFFICES ASSUME NEW x \in Context PROVE (status[x] = 1 <=> IsPending(x))'
  BY DEF StatusAgrees
<1>1. CASE clear_o
  <2>1. status'[x] = 0 /\ counter_pending' = 0 /\ running_context' = 0
    BY <1>1 DEF IInv, Lockstep, BusEdge, Edge, Status, PendingCounter,
                RunningContext
  <2>2. QED
    BY <2>1, SlaveAssumption DEF IsPending, Offset, Context
<1>2. CASE ~clear_o
  <2>1. status'[x] = IF op = "trigger" /\ x = pointer_context THEN 1
                     ELSE IF Done /\ x = running_context THEN 0
                     ELSE status[x]
    <3>1. ~clear_regfile /\ (TrueDone(Done) <=> Done)
      BY <1>2 DEF IInv, Lockstep, EngineInStep, TrueDone, Done, IsWorking
    <3>2. QED
      BY <3>1 DEF BusEdge, Edge, Status
  <2>2. running_context' = IF Done THEN NextContext(running_context)
                           ELSE running_context
    BY <1>2 DEF BusEdge, Edge, RunningContext, IInv, EngineInStep, TrueDone,
                Done, IsWorking
  <2>3. /\ counter_pending \in 0 .. N_CONTEXT
        /\ op = "trigger" => counter_pending < N_CONTEXT
        /\ Done => counter_pending >= 1
    BY SlaveAssumption DEF IInv, OffloadTypeOK, TypeOK, Room, BusEdge,
       EngineInStep, WorkPending, IsWorking, Done
  <2>4. /\ running_context \in Context /\ pointer_context \in Context
        /\ status[x] = 1 <=> Offset(x) < counter_pending
        /\ running_context + counter_pending - pointer_context
             \in {0, N_CONTEXT, 2 * N_CONTEXT}
    BY DEF IInv, OffloadTypeOK, TypeOK, StatusAgrees, IsPending, ContextRing
  <2>5. QED
    BY <1>2, <2>1, <2>2, <2>3, <2>4, CounterEdge, SlaveAssumption
       DEF IsPending, Offset, NextContext, Context
<1>3. QED
  BY <1>1, <1>2

(* The constants are numbers.                                              *)
LEMMA Sizes ==
  N_CONTEXT \in Nat /\ ID_MOD \in Nat /\ ID_MOD > N_CONTEXT + 1
  BY SlaveAssumption, OffloadAssumption

(* Job ids at an edge.                                                     *)
LEMMA IdsEdge ==
  ASSUME IInv, NEW op, BusEdge(op) PROVE JobIdsAgree'
<1>1. CASE clear_o
  <2>1. /\ offload_job_id' = 0 /\ running_job_id' = 0 /\ counter_pending' = 0
        /\ ~running_job_id_incr' /\ ~is_critical'
    BY <1>1 DEF IInv, Lockstep, BusEdge, Edge, OffloadId, RunningId,
                PendingCounter, ContextFsm
  <2>2. ~offload_job_id_incr'
    BY <1>1 DEF BusEdge, Settled, Edge, OffloadId
  <2>3. QED
    BY <2>1, <2>2, Sizes DEF JobIdsAgree, AsNat
<1>2. CASE ~clear_o
  <2> DEFINE grant == IF op = "acquire" /\ Granted THEN 1 ELSE 0
             done  == IF Done THEN 1 ELSE 0
             trig  == IF op = "trigger" THEN 1 ELSE 0
  <2>1. /\ offload_job_id' = IF offload_job_id_incr THEN NextId(offload_job_id)
                             ELSE offload_job_id
        /\ running_job_id' = IF running_job_id_incr THEN NextId(running_job_id)
                             ELSE running_job_id
    BY <1>2 DEF IInv, Lockstep, BusEdge, Edge, OffloadId, RunningId
  <2>2. /\ offload_job_id_incr' <=> (op = "acquire" /\ Granted)
        /\ running_job_id_incr' <=> Done
        /\ is_critical' <=> IF is_critical THEN op # "trigger"
                            ELSE op = "acquire" /\ ~FullContext
    BY <1>2 DEF IInv, Lockstep, BusEdge, Edge, OffloadId, RunningId, ContextFsm,
                IsCommit, EngineInStep, TrueDone, IsWorking, Done
  <2>3. /\ AsNat(offload_job_id_incr') = grant
        /\ AsNat(running_job_id_incr') = done
    BY <2>2 DEF AsNat
  <2>4. AsNat(is_critical') = AsNat(is_critical) + grant - trig
    <3>1. op = "trigger" => is_critical
      BY DEF BusEdge
    <3>2. QED
      BY <2>2, <3>1 DEF AsNat, Granted
  <2>5. offload_job_id \in 0 .. ID_MOD - 1 /\ running_job_id \in 0 .. ID_MOD - 1
    BY DEF IInv, OffloadTypeOK, TypeOK
  <2>6. /\ offload_job_id' - offload_job_id - AsNat(offload_job_id_incr)
             \in {0, - ID_MOD}
        /\ running_job_id' - running_job_id - AsNat(running_job_id_incr)
             \in {0, - ID_MOD}
        /\ offload_job_id' \in 0 .. ID_MOD - 1
        /\ running_job_id' \in 0 .. ID_MOD - 1
    BY <2>1, <2>5, Sizes DEF AsNat, NextId
  <2>7. /\ counter_pending \in 0 .. N_CONTEXT
        /\ counter_pending' = counter_pending + trig - done
        /\ counter_pending + AsNat(is_critical) \in 0 .. N_CONTEXT
        /\ counter_pending' + AsNat(is_critical') \in 0 .. N_CONTEXT
    <3>1. Room /\ Room' /\ (Done => counter_pending >= 1)
      BY RoomEdge DEF IInv, EngineInStep, WorkPending, IsWorking, Done
    <3>2. counter_pending \in 0 .. N_CONTEXT
      BY Sizes DEF IInv, OffloadTypeOK, TypeOK, Room
    <3>3. QED
      BY <1>2, <3>1, <3>2, CounterEdge, Sizes DEF Room, AsNat
  <2>8. /\ AsNat(is_critical) \in {0, 1} /\ AsNat(offload_job_id_incr) \in {0, 1}
        /\ AsNat(running_job_id_incr) \in {0, 1}
        /\ AsNat(is_critical') \in {0, 1} /\ grant \in {0, 1}
        /\ done \in {0, 1} /\ trig \in {0, 1}
    BY DEF AsNat
  <2> HIDE DEF grant, done, trig
  <2>9. (offload_job_id + AsNat(offload_job_id_incr))
          - (running_job_id + AsNat(running_job_id_incr))
          - (counter_pending + AsNat(is_critical)) \in {- ID_MOD, 0, ID_MOD}
    BY DEF IInv, JobIdsAgree
  <2> DEFINE p  == counter_pending + AsNat(is_critical)
             p2 == counter_pending' + AsNat(is_critical')
  <2>10. p \in 0 .. N_CONTEXT /\ p2 \in 0 .. N_CONTEXT /\ p2 = p + grant - done
    BY <2>4, <2>7, <2>8, Sizes
  <2>11. (offload_job_id' + grant) - (running_job_id' + done) - p2
           \in {- ID_MOD, 0, ID_MOD}
    <3> DEFINE i == AsNat(offload_job_id_incr)
               j == AsNat(running_job_id_incr)
    <3>1. (offload_job_id + i) - (running_job_id + j) - p \in {- ID_MOD, 0, ID_MOD}
      BY <2>9
    <3>2. i \in {0, 1} /\ j \in {0, 1}
      BY <2>8
    <3>3. /\ offload_job_id' - offload_job_id - i \in {0, - ID_MOD}
          /\ running_job_id' - running_job_id - j \in {0, - ID_MOD}
          /\ offload_job_id' \in 0 .. ID_MOD - 1
          /\ running_job_id' \in 0 .. ID_MOD - 1
      BY <2>6
    <3> DEFINE offload == offload_job_id' + grant
               running == running_job_id' + done
               before  == (offload_job_id + i) - (running_job_id + j) - p
    <3>4. /\ offload \in 0 .. ID_MOD /\ running \in 0 .. ID_MOD
          /\ offload - running - p2 - before \in {- ID_MOD, 0, ID_MOD}
          /\ p2 \in 0 .. N_CONTEXT /\ before \in {- ID_MOD, 0, ID_MOD}
      <4> HIDE DEF p, p2, i, j
      <4>1. offload \in 0 .. ID_MOD /\ running \in 0 .. ID_MOD
        <5>1. \A x \in 0 .. ID_MOD - 1, y \in {0, 1} : x + y \in 0 .. ID_MOD
          BY Sizes
        <5>2. QED
          BY <2>8, <3>3, <5>1
      <4>2. offload - running - p2 - before
              = (offload_job_id' - offload_job_id - i)
                - (running_job_id' - running_job_id - j)
        BY <2>5, <2>8, <2>10, <3>2, <3>3, Sizes
      <4>3. QED
        BY <2>10, <3>1, <3>3, <4>1, <4>2, Sizes
    <3> HIDE DEF p2, before, offload, running
    <3>5. /\ offload - running - p2 <= ID_MOD
          /\ offload - running - p2 > - ID_MOD - ID_MOD
      BY <3>4, Sizes
    <3>6. offload - running - p2 \in {- ID_MOD, 0, ID_MOD}
      BY <3>4, <3>5, Sizes
    <3>7. QED
      BY <3>6 DEF offload, running
  <2>12. (offload_job_id' + AsNat(offload_job_id_incr'))
          - (running_job_id' + AsNat(running_job_id_incr'))
          - (counter_pending' + AsNat(is_critical')) \in {- ID_MOD, 0, ID_MOD}
    BY <2>3, <2>11
  <2>13. QED
    BY <2>12 DEF JobIdsAgree, AsNat
<1>3. QED
  BY <1>1, <1>2
-----------------------------------------------------------------------------
(* The side of the cores.                                                  *)
Places == {"idle", "program", "acquire", "trigger", "sleep"}

(* At these places a core holds a context.                                 *)
Holding(place) == place = "trigger" \/ (place = "program" /\ ~PROGRAM_FIRST)

(* The cores that hold the critical section, by what they are doing.       *)
LEMMA HoldersHold == \A c \in Core : c \in Holders <=> Holding(pc[c])
  BY DEF Holders, Holding

(* Cores that are not on the bus only wake up.                             *)
LEMMA OthersKeep ==
  ASSUME pc \in [Core -> Places], OtherCores
  PROVE  /\ pc' \in [Core -> Places]
         /\ \A d \in Core : \/ pc'[d] = pc[d]
                            \/ pc[d] = "sleep" /\ pc'[d] = "idle"
  BY DEF OtherCores, Woken, Places

(* One core moves, others only wake up.                                    *)
LEMMA CoreMoves ==
  ASSUME pc \in [Core -> Places], NEW c \in Core, NEW next \in Places,
         Cores(c, next)
  PROVE  /\ pc' \in [Core -> Places]
         /\ pc'[c] = next
         /\ \A d \in Core \ {c} : \/ pc'[d] = pc[d]
                                  \/ pc[d] = "sleep" /\ pc'[d] = "idle"
  BY DEF Cores, Woken, Places

(* Only the core that gets the context, or gives it back, changes who      *)
(* holds it.                                                               *)
LEMMA CriticalKept ==
  ASSUME CriticalSection, is_critical' <=> is_critical,
         \A d \in Core : Holding(pc'[d]) <=> Holding(pc[d])
  PROVE  CriticalSection'
<1>1. Holders' = Holders
  BY DEF Holders, Holding
<1>2. QED
  BY <1>1 DEF CriticalSection

(* No access but a soft clear starts one.                                  *)
LEMMA ClearStays ==
  ASSUME IInv, NEW op, BusEdge(op), op # "clear", op # "none"
  PROVE  Settled' /\ ~clear_o
  BY DEF IInv, OffloadTypeOK, TypeOK, BusEdge, Access, Edge, SoftClear, Settled

(* What each action of a core or of the bus shows on its own.              *)
CoreSide ==
  /\ ArraysTyped
  /\ pc \in [Core -> Places]
  /\ request \in [Core -> Job \cup {NoJob}]
  /\ todo \in [Core -> SUBSET Reg]
  /\ ClearQuiet
  /\ Requested
  /\ CriticalSection

(* What the bus and the cores show separately makes the invariant.         *)
LEMMA EdgeKeeps ==
  ASSUME IInv, NEW op, BusEdge(op), CoreSide' PROVE IInv'
<1>1. TypeOK'
  BY EdgeTyped DEF IInv, OffloadTypeOK, BusEdge, CoreSide, Done
<1>2. CoreTypeOK'
  BY EngineEdge DEF CoreTypeOK, CoreSide, Places
<1>3. QED
  BY <1>1, <1>2, LockstepEdge, RingEdge, EngineEdge, RoomEdge, WorkEdge,
     StatusEdge, IdsEdge DEF IInv, OffloadTypeOK, CoreSide

(* The invariant holds the part of the cores.                              *)
LEMMA IInvCoreSide == IInv => CoreSide
  BY DEF IInv, OffloadTypeOK, TypeOK, CoreTypeOK, CoreSide, ArraysTyped, Places

(* An edge at which the cores do nothing but wake up.                      *)
LEMMA QuietEdge ==
  ASSUME IInv, NEW op \in {"none", "finished"}, BusEdge(op),
         OtherCores, Params, UNCHANGED <<offloading_core, request, todo>>
  PROVE  IInv'
<1>1. CoreSide
  BY IInvCoreSide
<1>2. pc' \in [Core -> Places] /\ ArraysTyped'
  BY <1>1, OthersKeep, ParamsTyped
     DEF CoreSide, ArraysTyped, IInv, OffloadTypeOK
<1>3. \A d \in Core : Holding(pc'[d]) <=> Holding(pc[d])
  BY <1>1, OthersKeep DEF CoreSide, Holding
<1>4. ClearQuiet'
  <2>1. CASE Settled
    <3>1. s_clear' = 0 /\ ~clear_o'
      BY <2>1 DEF BusEdge, Edge, SoftClear, Settled
    <3>2. QED
      BY <3>1 DEF ClearQuiet, Settled
  <2>2. CASE ~Settled
    <3>1. \A d \in Core : pc'[d] = "idle"
      BY <1>1, <2>2, OthersKeep DEF CoreSide, ClearQuiet
    <3>2. QED
      BY <3>1 DEF ClearQuiet
  <2>3. QED
    BY <2>1, <2>2
<1>5. CriticalSection'
  <2>1. CASE clear_o
    <3>1. \A d \in Core : ~Holding(pc[d])
      BY <1>1, <2>1 DEF CoreSide, ClearQuiet, Settled, Holding
    <3>2. Holders = {} /\ ~is_critical /\ ~is_critical'
      BY <1>1, <2>1, <3>1, HoldersHold
         DEF CoreSide, CriticalSection, BusEdge, Edge, ContextFsm, Holders
    <3>3. QED
      BY <1>1, <1>3, <3>2, CriticalKept DEF CoreSide
  <2>2. CASE ~clear_o
    <3>1. is_critical' <=> is_critical
      BY <2>2 DEF BusEdge, Edge, ContextFsm, IsCommit
    <3>2. QED
      BY <1>1, <1>3, <3>1, CriticalKept DEF CoreSide
  <2>3. QED
    BY <2>1, <2>2
<1>6. Requested'
  BY <1>1, OthersKeep DEF CoreSide, Requested
<1>7. CoreSide'
  BY <1>1, <1>2, <1>4, <1>5, <1>6 DEF CoreSide
<1>8. QED
  BY <1>7, EdgeKeeps

-----------------------------------------------------------------------------
(* One lemma per action of OffloadNext.                                    *)
LEMMA CallStartKeeps ==
  ASSUME IInv, NEW c \in Core, NEW j \in Job, CallStart(c, j) PROVE IInv'
<1>1. CoreSide
  BY IInvCoreSide
<1>2. /\ pc' \in [Core -> Places]
      /\ request' \in [Core -> Job \cup {NoJob}]
      /\ todo' \in [Core -> SUBSET Reg]
      /\ Requested'
  BY <1>1 DEF CallStart, CoreSide, Places, FirstStep, Requested
<1>3. \A d \in Core : Holding(pc'[d]) <=> Holding(pc[d])
  BY <1>1 DEF CallStart, CoreSide, FirstStep, Holding
<1>4. CriticalSection'
  BY <1>1, <1>3, CriticalKept DEF CoreSide, CallStart, slaveVars, queueVars
<1>5. ClearQuiet'
  BY DEF CallStart, ClearQuiet, Settled, slaveVars, clearVars
<1>6. OffloadTypeOK'
  BY <1>2 DEF IInv, OffloadTypeOK, TypeOK, CoreTypeOK, CallStart, Places,
     slaveVars, queueVars, clearVars, idVars
<1>7. (/\ ContextRing /\ Lockstep /\ Room /\ WorkPending /\ StartPulse
       /\ EngineInStep /\ StatusAgrees /\ JobIdsAgree)'
  BY DEF IInv, CallStart, slaveVars, queueVars, clearVars, idVars, ContextRing,
     Lockstep, Room, WorkPending, IsWorking, StartPulse, EngineInStep,
     StatusAgrees, IsPending, Offset, JobIdsAgree, AsNat
<1>8. QED
  BY <1>2, <1>4, <1>5, <1>6, <1>7 DEF IInv

(* The invariant is kept at an edge without an access.                     *)
LEMMA BusIdleKeeps ==
  ASSUME IInv, BusIdle PROVE IInv'
<1>1. BusEdge("none")
  BY DEF BusIdle, NoAccess, BusEdge, Access
<1>2. QED
  BY <1>1, QuietEdge DEF BusIdle, NoAccess

(* It is kept by an access to FINISHED.                                    *)
LEMMA TouchFinishedKeeps ==
  ASSUME IInv, TouchFinished PROVE IInv'
<1>1. BusEdge("finished")
  BY DEF TouchFinished, AccessFinished, BusEdge, Access
<1>2. QED
  BY <1>1, QuietEdge DEF TouchFinished, AccessFinished

(* It is kept when a core writes a register.                               *)
LEMMA ProgramKeeps ==
  ASSUME IInv, NEW c \in Core, NEW r \in Reg, Program(c, r) PROVE IInv'
<1>1. CoreSide
  BY IInvCoreSide
<1>2. BusEdge("param")
  BY DEF Program, WriteReg, BusEdge, Access
<1>3. ArraysTyped'
  <2>1. request[c][r] \in Value
    BY <1>1 DEF Program, CoreSide, Requested, Job
  <2>2. QED
    BY <2>1, ParamsTyped DEF IInv, OffloadTypeOK, TypeOK, Program, WriteReg,
       ArraysTyped
<1>4. PICK next \in {"program", AfterProgram} : Cores(c, next)
  BY DEF Program
<1>5. next \in Places
  BY DEF AfterProgram, Places
<1>6. /\ pc' \in [Core -> Places]
      /\ pc'[c] = next
      /\ \A d \in Core \ {c} : \/ pc'[d] = pc[d]
                               \/ pc[d] = "sleep" /\ pc'[d] = "idle"
  BY <1>1, <1>4, <1>5, CoreMoves DEF CoreSide
<1>7. CriticalSection'
  <2>1. is_critical' <=> is_critical
    BY DEF Program, WriteReg, Settled, Edge, ContextFsm, IsCommit
  <2>2. \A d \in Core : Holding(pc'[d]) <=> Holding(pc[d])
    BY <1>6 DEF Holding, AfterProgram, Program
  <2>3. QED
    BY <1>1, <2>1, <2>2, CriticalKept DEF CoreSide
<1>8. ClearQuiet'
  BY <1>2, ClearStays DEF ClearQuiet
<1>9. Requested' /\ todo' \in [Core -> SUBSET Reg]
  BY <1>1, <1>6 DEF Requested, CoreSide, Program, AfterProgram
<1>10. CoreSide'
  BY <1>1, <1>3, <1>6, <1>7, <1>8, <1>9 DEF CoreSide, Program
<1>11. QED
  BY <1>2, <1>10, EdgeKeeps

(* It is kept by a read of ACQUIRE, granted or not.                        *)
LEMMA AcquireJobKeeps ==
  ASSUME IInv, NEW c \in Core, AcquireJob(c) PROVE IInv'
<1>1. CoreSide
  BY IInvCoreSide
<1>2. BusEdge("acquire")
  BY DEF AcquireJob, Acquire, BusEdge, Access
<1>3. ArraysTyped'
  BY <1>1, ParamsTyped DEF IInv, OffloadTypeOK, AcquireJob, Acquire, CoreSide,
     ArraysTyped
<1>4. PICK next : next = (IF Granted THEN AfterAcquire ELSE "acquire")
  OBVIOUS
<1>5. next \in Places /\ Cores(c, next)
  BY <1>4 DEF AfterAcquire, Places, AcquireJob
<1>6. /\ pc' \in [Core -> Places]
      /\ pc'[c] = next
      /\ \A d \in Core \ {c} : \/ pc'[d] = pc[d]
                               \/ pc[d] = "sleep" /\ pc'[d] = "idle"
  BY <1>1, <1>5, CoreMoves DEF CoreSide
<1>7. CriticalSection'
  <2>1. is_critical' <=> is_critical \/ ~FullContext
    BY DEF AcquireJob, Acquire, Settled, Edge, ContextFsm, IsCommit
  <2>2. pc[c] = "acquire" /\ ~Holding(pc[c])
    BY DEF AcquireJob, Holding
  <2>3. CASE Granted
    <3>1. \A d \in Core : ~Holding(pc[d])
      BY <1>1, <2>3, HoldersHold DEF CoreSide, CriticalSection, Granted
    <3>2. \A d \in Core : Holding(pc'[d]) <=> d = c
      BY <1>4, <1>6, <2>3, <3>1 DEF Holding, AfterAcquire
    <3>3. Holders' = {c}
      BY <3>2 DEF Holders, Holding
    <3>4. QED
      BY <2>1, <2>3, <3>3 DEF CriticalSection, Granted
  <2>4. CASE ~Granted
    <3>1. is_critical' <=> is_critical
      BY <2>1, <2>4 DEF Granted
    <3>2. \A d \in Core : Holding(pc'[d]) <=> Holding(pc[d])
      BY <1>4, <1>6, <2>2, <2>4 DEF Holding
    <3>3. QED
      BY <1>1, <3>1, <3>2, CriticalKept DEF CoreSide
  <2>5. QED
    BY <2>3, <2>4
<1>8. ClearQuiet'
  BY <1>2, ClearStays DEF ClearQuiet
<1>9. Requested'
  BY <1>1, <1>6 DEF Requested, CoreSide, AcquireJob
<1>10. CoreSide'
  BY <1>1, <1>3, <1>6, <1>7, <1>8, <1>9 DEF CoreSide, AcquireJob
<1>11. QED
  BY <1>2, <1>10, EdgeKeeps

(* It is kept by a trigger.                                                *)
LEMMA TriggerJobKeeps ==
  ASSUME IInv, NEW c \in Core, TriggerJob(c) PROVE IInv'
<1>1. CoreSide
  BY IInvCoreSide
<1>2. Holding(pc[c]) /\ is_critical /\ \A d \in Core : Holding(pc[d]) => d = c
  BY <1>1, HoldersHold DEF TriggerJob, Holding, CoreSide, CriticalSection
<1>3. BusEdge("trigger")
  BY <1>2 DEF TriggerJob, WriteTrigger, BusEdge, Access
<1>4. ArraysTyped'
  BY <1>1, ParamsTyped DEF IInv, OffloadTypeOK, TypeOK, TriggerJob,
     WriteTrigger, OffloadingCore, CoreSide, ArraysTyped
<1>5. AfterTrigger \in Places /\ Cores(c, AfterTrigger)
  BY DEF AfterTrigger, Places, TriggerJob
<1>6. /\ pc' \in [Core -> Places]
      /\ pc'[c] = AfterTrigger
      /\ \A d \in Core \ {c} : \/ pc'[d] = pc[d]
                               \/ pc[d] = "sleep" /\ pc'[d] = "idle"
  BY <1>1, <1>5, CoreMoves DEF CoreSide
<1>7. CriticalSection'
  <2>1. ~is_critical'
    BY <1>2 DEF TriggerJob, WriteTrigger, Edge, ContextFsm, IsCommit
  <2>2. \A d \in Core : ~Holding(pc'[d])
    BY <1>2, <1>6 DEF Holding, AfterTrigger
  <2>3. Holders' = {}
    BY <2>2 DEF Holders, Holding
  <2>4. QED
    BY <2>1, <2>3 DEF CriticalSection
<1>8. ClearQuiet'
  BY <1>3, ClearStays DEF ClearQuiet
<1>9. Requested' /\ request' \in [Core -> Job \cup {NoJob}]
  BY <1>1, <1>6 DEF Requested, CoreSide, TriggerJob, AfterTrigger
<1>10. CoreSide'
  BY <1>1, <1>4, <1>6, <1>7, <1>8, <1>9 DEF CoreSide, TriggerJob
<1>11. QED
  BY <1>3, <1>10, EdgeKeeps

(* It is kept by a soft clear that no core is disturbed by.                *)
LEMMA SoftClearJobsKeeps ==
  ASSUME IInv, SoftClearJobs PROVE IInv'
<1>1. CoreSide
  BY IInvCoreSide
<1>2. BusEdge("clear")
  BY DEF SoftClearJobs, WriteSoftClear, BusEdge, Access
<1>3. ArraysTyped'
  BY <1>1, ParamsTyped DEF IInv, OffloadTypeOK, SoftClearJobs, WriteSoftClear,
     CoreSide, ArraysTyped
<1>4. CriticalSection'
  <2>1. is_critical' <=> is_critical
    BY DEF SoftClearJobs, WriteSoftClear, Settled, Edge, ContextFsm, IsCommit
  <2>2. QED
    BY <1>1, <2>1, CriticalKept DEF CoreSide, SoftClearJobs, coreVars
<1>5. ClearQuiet' /\ Requested'
  BY <1>1 DEF ClearQuiet, Requested, CoreSide, SoftClearJobs, coreVars
<1>6. CoreSide'
  BY <1>1, <1>3, <1>4, <1>5 DEF CoreSide, SoftClearJobs, coreVars
<1>7. QED
  BY <1>2, <1>6, EdgeKeeps

(* It holds in the beginning.                                              *)
LEMMA InitIInv == OffloadInit => IInv
<1> SUFFICES ASSUME OffloadInit PROVE IInv
  OBVIOUS
<1>1. OffloadTypeOK
  BY InitTyped DEF OffloadInit, OffloadTypeOK, CoreTypeOK
<1>2. ContextRing /\ Room /\ StatusAgrees /\ JobIdsAgree
  BY SlaveAssumption DEF OffloadInit, Init, ContextRing, Room, StatusAgrees,
     IsPending, Offset, Context, JobIdsAgree, AsNat
<1>3. CriticalSection
  BY DEF OffloadInit, Init, CriticalSection, Holders
<1>4. QED
  BY <1>1, <1>2, <1>3 DEF OffloadInit, Init, IInv, Lockstep, ClearQuiet,
     Requested, WorkPending, IsWorking, StartPulse, EngineInStep

(* Every step keeps it.                                                    *)
LEMMA StepIInv == IInv /\ [OffloadNext]_vars => IInv'
<1> SUFFICES ASSUME IInv, [OffloadNext]_vars PROVE IInv'
  OBVIOUS
<1>1. CASE OffloadNext
  BY <1>1, CallStartKeeps, BusIdleKeeps, ProgramKeeps, AcquireJobKeeps,
     TriggerJobKeeps, SoftClearJobsKeeps, TouchFinishedKeeps DEF OffloadNext
<1>2. CASE UNCHANGED vars
  <2>1. OffloadTypeOK'
    BY <1>2 DEF vars, slaveVars, queueVars, clearVars, idVars, coreVars, IInv,
       OffloadTypeOK, TypeOK, CoreTypeOK
  <2>2. (CriticalSection /\ StatusAgrees /\ JobIdsAgree)'
    BY <1>2 DEF vars, slaveVars, queueVars, clearVars, idVars, coreVars, IInv,
       CriticalSection, Holders, StatusAgrees, IsPending, Offset, JobIdsAgree,
       AsNat
  <2>3. QED
    BY <1>2, <2>1, <2>2 DEF vars, slaveVars, queueVars, clearVars, idVars,
       coreVars, IInv, ContextRing, Lockstep, ClearQuiet, Settled, Requested,
       Room, WorkPending, IsWorking, StartPulse, EngineInStep
<1>3. QED
  BY <1>1, <1>2

(* It holds in every state.                                                *)
LEMMA InvariantHolds == OffloadSpec => []IInv
  BY InitIInv, StepIInv, PTL DEF OffloadSpec

-----------------------------------------------------------------------------
(* All registers, program counters and the engine keep their types.        *)
THEOREM OffloadTypeCorrect == OffloadSpec => []OffloadTypeOK
<1>1. IInv => OffloadTypeOK
  BY DEF IInv
<1>2. QED
  BY <1>1, InvariantHolds, PTL

(* At most one core at a time is between its ACQUIRE and its TRIGGER, and  *)
(* the slave's fsm_context is in its critical section exactly then.        *)
THEOREM OneOffloader == OffloadSpec => []CriticalSection
<1>1. IInv => CriticalSection
  BY DEF IInv
<1>2. QED
  BY <1>1, InvariantHolds, PTL

(* The counter of pending contexts never wraps, and the context a core is  *)
(* granted is not one of a job that is pending.                            *)
THEOREM NeverTooManyJobs == OffloadSpec => []PendingBounded
<1>1. IInv => PendingBounded
  <2> SUFFICES ASSUME IInv PROVE PendingBounded
    OBVIOUS
  <2>1. /\ counter_pending \in 0 .. N_CONTEXT
        /\ pointer_context \in Context /\ running_context \in Context
    BY SlaveAssumption DEF IInv, OffloadTypeOK, TypeOK, Room
  <2>2. CASE is_critical
    <3>1. counter_pending < N_CONTEXT
      BY <2>2 DEF IInv, Room
    <3>2. QED
      BY <2>1, <3>1, SlaveAssumption
         DEF IInv, ContextRing, PendingBounded, IsPending, Offset, Context
  <2>3. CASE ~is_critical
    BY <2>1, <2>3, SlaveAssumption DEF PendingBounded
  <2>4. QED
    BY <2>2, <2>3
<1>2. QED
  BY <1>1, InvariantHolds, PTL

(* STATUS tells exactly the contexts that are pending, whatever coincides  *)
(* with the end of a job.                                                  *)
THEOREM StatusAlways == OffloadSpec => []StatusAgrees
<1>1. IInv => StatusAgrees
  BY DEF IInv
<1>2. QED
  BY <1>1, InvariantHolds, PTL

(* The ids handed out minus the ids executed are the contexts in use, with *)
(* counters that wrap.                                                     *)
THEOREM JobIdsAlways == OffloadSpec => []JobIdsAgree
<1>1. IInv => JobIdsAgree
  BY DEF IInv
<1>2. QED
  BY <1>1, InvariantHolds, PTL

(* The slave waits for the engine exactly while the engine works.          *)
THEOREM EngineAlwaysInStep == OffloadSpec => []EngineInStep
<1>1. IInv => EngineInStep
  BY DEF IInv
<1>2. QED
  BY <1>1, InvariantHolds, PTL
-----------------------------------------------------------------------------
(* The queue of jobs.                                                      *)
(* What the cores and the registers of the contexts add to the invariant:  *)
(* a core that is not in aes_hwpe_start asks for nothing, and what it has  *)
(* written is in the context that it offloads.                             *)
Loading(c) == pc[c] \in {"program", "trigger"}
              \/ (PROGRAM_FIRST /\ pc[c] = "acquire")

Loaded(c) == pc[c] = "trigger" \/ (PROGRAM_FIRST /\ pc[c] = "acquire")

Programmed(c) ==
  \A r \in Reg \ todo[c] : hwpe_params[pointer_context][r] = request[c][r]

LoadOK(c) ==
  /\ pc[c] \in {"idle", "sleep"} <=> request[c] = NoJob
  /\ ~PROGRAM_FIRST /\ pc[c] = "acquire" => todo[c] = Reg
  /\ Loading(c) => Programmed(c)
  /\ Loaded(c) => todo[c] = {}

LoadInv == \A c \in Core : LoadOK(c)

(* A core that programs before it acquires has no other job under way.     *)
OneAtATime ==
  PROGRAM_FIRST =>
    /\ counter_pending <= 1
    /\ counter_pending = 1 => evt = {} /\ \A c \in Core : pc[c] = "sleep"

QInv == IInv /\ LoadInv /\ OneAtATime

(* The programs that keep to the protocol of the slave: ACQUIRE first, or  *)
(* a single core that sleeps until its job is done.                        *)
Disciplined == \/ ~PROGRAM_FIRST
               \/ SLEEP /\ \A c, d \in Core : c = d

(* What the queue holds.                                                   *)
Entries == [core : Core, job : Job]

(* The contexts that are pending, in the order in which they are.          *)
LEMMA PendingContexts ==
  ASSUME IInv
  PROVE  /\ counter_pending \in 0 .. N_CONTEXT
         /\ running_context \in Context /\ pointer_context \in Context
         /\ \A k \in 0 .. counter_pending - 1 :
              Ctx(k) \in Context /\ IsPending(Ctx(k))
         /\ counter_pending < N_CONTEXT =>
              pointer_context = Ctx(counter_pending)
         /\ Ctx(0) = running_context
  BY SlaveAssumption DEF IInv, OffloadTypeOK, TypeOK, Room, ContextRing,
     Context, Ctx, IsPending, Offset

(* Their jobs are a sequence.                                              *)
ContentsShape ==
  /\ Contents \in Seq(Entries)
  /\ Len(Contents) = counter_pending
  /\ \A k \in 1 .. counter_pending : Contents[k] = Entry(Ctx(k - 1))

LEMMA ContentsSeq == IInv => ContentsShape
<1> SUFFICES ASSUME IInv PROVE ContentsShape
  OBVIOUS
<1>1. counter_pending \in Nat
  BY PendingContexts, SlaveAssumption
<1>2. ASSUME NEW k \in 1 .. counter_pending
      PROVE  Contents[k] = Entry(Ctx(k - 1)) /\ Contents[k] \in Entries
  <2>1. Ctx(k - 1) \in Context
    <3>1. k - 1 \in 0 .. counter_pending - 1
      BY <1>1
    <3>2. QED
      BY <3>1, PendingContexts
  <2>2. Contents[k] = Entry(Ctx(k - 1))
    BY DEF Contents, Entry
  <2>3. QED
    BY <2>1, <2>2 DEF Entry, Entries, IInv, OffloadTypeOK, TypeOK
<1>3. Contents \in [1 .. counter_pending -> Entries]
  <2>1. Contents = [k \in 1 .. counter_pending |-> Contents[k]]
    BY DEF Contents
  <2>2. QED
    BY <1>2, <2>1
<1>4. Contents \in Seq(Entries) /\ Len(Contents) = counter_pending
  BY <1>1, <1>3
<1>5. QED
  BY <1>2, <1>4 DEF ContentsShape

(* How the queue changes at an edge at which no clear is under way: its    *)
(* head leaves when the engine is done, the job of the context that is     *)
(* being offloaded enters when it is triggered.                            *)
After(base, op, entry) == IF op = "trigger" THEN Append(base, entry) ELSE base

EntryAfter(x) == [core |-> offloading_core'[x], job |-> hwpe_params'[x]]

LEMMA ContentsEdge ==
  ASSUME IInv, IInv', ContentsShape, ContentsShape',
         NEW op, BusEdge(op), ~clear_o,
         \A x \in Context : IsPending(x) => EntryAfter(x) = Entry(x)
  PROVE  /\ Done => Contents # << >> /\ evt' = {Head(Contents).core}
         /\ ~Done => evt' = {}
         /\ Contents' = After(IF Done THEN Tail(Contents) ELSE Contents, op,
                              EntryAfter(pointer_context))
<1> DEFINE d == IF Done THEN 1 ELSE 0
           n == counter_pending
           base == IF Done THEN Tail(Contents) ELSE Contents
<1>1. /\ n \in 0 .. N_CONTEXT
      /\ Done => n >= 1
      /\ op = "trigger" => n < N_CONTEXT
      /\ counter_pending' = n + (IF op = "trigger" THEN 1 ELSE 0) - d
  BY PendingContexts, CounterEdge DEF IInv, EngineInStep, WorkPending,
     IsWorking, Done, Room, BusEdge
<1>2. running_context' = (IF Done THEN NextContext(running_context)
                                  ELSE running_context)
      /\ evt' = (IF Done THEN {offloading_core[running_context]} ELSE {})
  BY DEF BusEdge, Edge, RunningContext, Event, IInv, EngineInStep, TrueDone,
     Done, IsWorking
<1>3. Done => Contents # << >> /\ Head(Contents).core = offloading_core[running_context]
  <2> SUFFICES ASSUME Done
               PROVE  Contents # << >>
                      /\ Head(Contents).core = offloading_core[running_context]
    OBVIOUS
  <2>1. 1 \in 1 .. n /\ Len(Contents) = n /\ Contents \in Seq(Entries)
    BY <1>1, SlaveAssumption DEF ContentsShape
  <2>2. Contents[1] = Entry(running_context)
    BY <2>1, PendingContexts DEF ContentsShape
  <2>3. QED
    BY <2>1, <2>2, EmptySeq DEF Entry
<1>4. /\ base \in Seq(Entries)
      /\ Len(base) = n - d
      /\ \A k \in 1 .. n - d : base[k] = Entry(Ctx(k - 1 + d))
  <2>1. CASE Done
    <3>1. /\ Tail(Contents) \in Seq(Entries)
          /\ Len(Tail(Contents)) = n - 1
          /\ \A k \in 1 .. n - 1 : Tail(Contents)[k] = Contents[k + 1]
      BY <1>1, <1>3, <2>1, HeadTailProperties DEF ContentsShape
    <3>2. \A k \in 1 .. n - 1 : Contents[k + 1] = Entry(Ctx(k - 1 + 1))
      <4>1. TAKE k \in 1 .. n - 1
      <4>2. k + 1 \in 1 .. n /\ k + 1 - 1 = k - 1 + 1
        BY <1>1
      <4>3. QED
        BY <4>2 DEF ContentsShape
    <3>3. QED
      BY <2>1, <3>1, <3>2
  <2>2. CASE ~Done
    <3>1. \A k \in 1 .. n : k - 1 + 0 = k - 1
      BY <1>1
    <3>2. QED
      BY <1>1, <2>2, <3>1 DEF ContentsShape
  <2>3. QED
    BY <2>1, <2>2
<1>5. \A k \in 0 .. n - d : k <= N_CONTEXT - 1 => Ctx(k)' = Ctx(k + d)
  BY <1>1, <1>2, PendingContexts, SlaveAssumption DEF Ctx, NextContext, Context
<1>6. ASSUME NEW k \in 1 .. counter_pending'
      PROVE  Contents'[k] = EntryAfter(Ctx(k - 1 + d))
  <2>1. k - 1 \in 0 .. n - d /\ k - 1 <= N_CONTEXT - 1
    BY <1>1, SlaveAssumption
  <2>2. Contents'[k] = EntryAfter(Ctx(k - 1)')
    BY DEF ContentsShape, Entry, EntryAfter
  <2>3. Ctx(k - 1)' = Ctx(k - 1 + d)
    BY <1>5, <2>1
  <2>4. QED
    BY <2>2, <2>3
<1>7. ASSUME NEW k \in 1 .. n - d PROVE Contents'[k] = base[k]
  <2>1. k \in 1 .. counter_pending' /\ k - 1 + d \in 0 .. n - 1
    BY <1>1, SlaveAssumption
  <2>2. EntryAfter(Ctx(k - 1 + d)) = Entry(Ctx(k - 1 + d))
    BY <2>1, PendingContexts
  <2>3. QED
    BY <1>4, <1>6, <2>1, <2>2
<1>8. Contents' \in Seq(Entries) /\ Len(Contents') = counter_pending'
  BY DEF ContentsShape
<1> HIDE DEF base, d
<1>9. CASE op = "trigger"
  <2> DEFINE entry == EntryAfter(pointer_context)
  <2>1. entry \in Entries
    BY PendingContexts DEF IInv, OffloadTypeOK, TypeOK, EntryAfter, Entries
  <2>2. n - d \in Nat /\ counter_pending' = n - d + 1
    BY <1>1, <1>9, SlaveAssumption DEF d
  <2> HIDE DEF entry
  <2>3. /\ Append(base, entry) \in Seq(Entries)
        /\ Len(Append(base, entry)) = n - d + 1
        /\ \A k \in 1 .. n - d : Append(base, entry)[k] = base[k]
        /\ Append(base, entry)[n - d + 1] = entry
    BY <1>4, <2>1, AppendProperties
  <2>4. Contents'[n - d + 1] = entry
    <3>1. n - d + 1 \in 1 .. counter_pending' /\ n - d + 1 - 1 + d = n
          /\ d \in Nat /\ n \in Nat
      BY <1>1, <2>2, SlaveAssumption DEF d
    <3>2. Ctx(n) = pointer_context
      BY <1>1, <1>9, PendingContexts
    <3>3. \A k \in 1 .. counter_pending' : k - 1 + d = n =>
            Contents'[k] = EntryAfter(Ctx(n))
      BY <1>6
    <3>4. QED
      BY <3>1, <3>2, <3>3 DEF entry
  <2>5. \A k \in 1 .. Len(Contents') : Contents'[k] = Append(base, entry)[k]
    BY <1>7, <1>8, <2>2, <2>3, <2>4
  <2>6. Contents' = Append(base, entry)
    BY <1>8, <2>2, <2>3, <2>5, SeqEqual
  <2>7. QED
    BY <1>2, <1>3, <1>9, <2>6 DEF After, base, entry
<1>10. CASE op # "trigger"
  <2>1. Len(Contents') = n - d
    BY <1>1, <1>8, <1>10, SlaveAssumption DEF d
  <2>2. Contents' = base
    BY <1>4, <1>7, <1>8, <2>1, SeqEqual
  <2>3. QED
    BY <1>2, <1>3, <1>10, <2>2 DEF After, base
<1>11. QED
  BY <1>9, <1>10

(* The context that a core is granted is not that of a pending job.        *)
LEMMA GrantedIsFree ==
  ASSUME IInv, is_critical PROVE ~IsPending(pointer_context)
<1>1. counter_pending < N_CONTEXT
  BY DEF IInv, Room
<1>2. QED
  BY <1>1, PendingContexts, SlaveAssumption
     DEF IInv, ContextRing, IsPending, Offset, Context

-----------------------------------------------------------------------------
(* An edge without a trigger is a step of the queue.                       *)
LEMMA EdgeSimulates ==
  ASSUME IInv, IInv', ContentsShape, ContentsShape',
         NEW op, BusEdge(op), op # "trigger", UNCHANGED request,
         ~clear_o => \A x \in Context : IsPending(x) => EntryAfter(x) = Entry(x)
  PROVE  Jobs!Next
<1>1. CASE clear_o
  <2>1. counter_pending' = 0 /\ evt' = {}
    BY <1>1 DEF BusEdge, Edge, PendingCounter, Event
  <2>2. Contents' = << >>
    BY <2>1, EmptySeq DEF ContentsShape
  <2>3. QED
    BY <2>1, <2>2 DEF Jobs!Next, Jobs!Clear
<1>2. CASE ~clear_o
  <2>1. /\ Done => Contents # << >> /\ evt' = {Head(Contents).core}
        /\ ~Done => evt' = {}
        /\ Contents' = IF Done THEN Tail(Contents) ELSE Contents
    BY <1>2, ContentsEdge DEF After
  <2>2. CASE Done
    BY <2>1, <2>2 DEF Jobs!Next, Jobs!Finish
  <2>3. CASE ~Done
    BY <2>1, <2>3 DEF Jobs!Next, Jobs!Quiet
  <2>4. QED
    BY <2>2, <2>3
<1>3. QED
  BY <1>1, <1>2

(* An access that writes none of the contexts keeps the pending jobs.      *)
LEMMA ReadsKeepEntries ==
  ASSUME IInv, ~clear_o, Params, UNCHANGED offloading_core
  PROVE  \A x \in Context : IsPending(x) => EntryAfter(x) = Entry(x)
  BY DEF IInv, Lockstep, Params, EntryAfter, Entry

(* Asking for a job.                                                       *)
LEMMA CallStartSimulates ==
  ASSUME QInv, NEW c \in Core, NEW j \in Job, CallStart(c, j)
  PROVE  Jobs!Next
<1>1. request[c] = NoJob
  BY DEF QInv, LoadInv, LoadOK, CallStart
<1>2. UNCHANGED <<Contents, evt>>
  BY DEF CallStart, slaveVars, queueVars, Contents, Entry, Ctx
<1>3. Jobs!Ask(c, j)
  BY <1>1, <1>2 DEF CallStart, Jobs!Ask
<1>4. QED
  BY <1>3 DEF Jobs!Next

(* Writing a register leaves the jobs that are queued alone.               *)
LEMMA ProgramSimulates ==
  ASSUME QInv, IInv', ContentsShape, ContentsShape',
         NEW c \in Core, NEW r \in Reg, Program(c, r)
  PROVE  Jobs!Next
<1>1. BusEdge("param")
  BY DEF Program, WriteReg, BusEdge, Access
<1>2. ~clear_regfile /\ ~clear_o
  BY DEF QInv, IInv, Lockstep, Program, Settled
<1>3. ~IsPending(pointer_context)
  <2>1. CASE PROGRAM_FIRST
    <3>1. counter_pending # 1
      BY <2>1 DEF QInv, OneAtATime, Program
    <3>2. counter_pending = 0
      BY <2>1, <3>1, PendingContexts, SlaveAssumption DEF QInv, OneAtATime
    <3>3. QED
      BY <3>2, PendingContexts, SlaveAssumption
         DEF QInv, IsPending, Offset, Context
  <2>2. CASE ~PROGRAM_FIRST
    <3>1. c \in Holders
      BY <2>2 DEF Holders, Program
    <3>2. is_critical
      BY <3>1 DEF QInv, IInv, CriticalSection
    <3>3. QED
      BY <3>2, GrantedIsFree DEF QInv
  <2>3. QED
    BY <2>1, <2>2
<1>4. \A x \in Context : IsPending(x) => EntryAfter(x) = Entry(x)
  <2>1. \A x \in Context : x # pointer_context => hwpe_params'[x] = hwpe_params[x]
    BY <1>2 DEF Program, WriteReg, WriteParam, QInv, IInv, OffloadTypeOK, TypeOK
  <2>2. QED
    BY <1>3, <2>1 DEF Program, WriteReg, EntryAfter, Entry
<1>5. QED
  BY <1>1, <1>2, <1>4, EdgeSimulates DEF QInv, Program

(* A trigger queues the job that the core was asked to run.                *)
LEMMA TriggerSimulates ==
  ASSUME QInv, IInv', ContentsShape, ContentsShape',
         NEW c \in Core, TriggerJob(c)
  PROVE  Jobs!Next
<1>1. c \in Holders /\ is_critical
  BY DEF TriggerJob, Holders, QInv, IInv, CriticalSection
<1>2. BusEdge("trigger")
  BY <1>1 DEF TriggerJob, WriteTrigger, BusEdge, Access
<1>3. ~clear_regfile /\ ~clear_o
  BY DEF QInv, IInv, Lockstep, TriggerJob, Settled
<1>4. /\ hwpe_params' = hwpe_params
      /\ offloading_core' = [offloading_core EXCEPT ![pointer_context] = c]
  BY <1>3 DEF TriggerJob, WriteTrigger, Params, OffloadingCore
<1>5. ~IsPending(pointer_context)
  BY <1>1, GrantedIsFree DEF QInv
<1>6. \A x \in Context : IsPending(x) => EntryAfter(x) = Entry(x)
  BY <1>4, <1>5 DEF EntryAfter, Entry, QInv, IInv, OffloadTypeOK, TypeOK
<1>7. hwpe_params[pointer_context] = request[c] /\ request[c] # NoJob
  <2>1. /\ \A r \in Reg : hwpe_params[pointer_context][r] = request[c][r]
        /\ request[c] # NoJob
    BY DEF QInv, LoadInv, LoadOK, Loading, Loaded, Programmed, TriggerJob
  <2>2. hwpe_params[pointer_context] \in [Reg -> Value]
    BY DEF QInv, IInv, OffloadTypeOK, TypeOK, Job
  <2>3. request[c] \in [Reg -> Value]
    BY <2>1 DEF QInv, IInv, Requested, TriggerJob, Job
  <2>4. QED
    BY <2>1, <2>2, <2>3
<1>8. EntryAfter(pointer_context) = Jobs!Entry(c)
  BY <1>4, <1>7 DEF EntryAfter, Jobs!Entry, QInv, IInv, OffloadTypeOK, TypeOK
<1>9. Len(Contents) < N_CONTEXT
  BY <1>1 DEF QInv, IInv, Room, ContentsShape
<1>10. /\ Done => Contents # << >> /\ evt' = {Head(Contents).core}
       /\ ~Done => evt' = {}
       /\ Contents' = Append(IF Done THEN Tail(Contents) ELSE Contents,
                             Jobs!Entry(c))
  BY <1>2, <1>3, <1>6, <1>8, ContentsEdge DEF After, QInv
<1>11. request' = [request EXCEPT ![c] = NoJob]
  BY DEF TriggerJob
<1>12. CASE Done
  <2>1. Jobs!SubmitFinish(c)
    BY <1>7, <1>9, <1>10, <1>11, <1>12 DEF Jobs!SubmitFinish
  <2>2. QED
    BY <2>1 DEF Jobs!Next
<1>13. CASE ~Done
  <2>1. Jobs!Submit(c)
    BY <1>7, <1>9, <1>10, <1>11, <1>13 DEF Jobs!Submit
  <2>2. QED
    BY <2>1 DEF Jobs!Next
<1>14. QED
  BY <1>12, <1>13

(* Every step of cores, slave and engine is a step of the queue.           *)
LEMMA StepSimulates ==
  ASSUME QInv, IInv', ContentsShape, ContentsShape', [OffloadNext]_vars
  PROVE  [Jobs!Next]_<<request, Contents, evt>>
<1>1. ASSUME NEW op \in {"none", "finished", "acquire", "clear"}, BusEdge(op),
             Params, UNCHANGED <<offloading_core, request>>
      PROVE  Jobs!Next
  BY <1>1, ReadsKeepEntries, EdgeSimulates DEF QInv
<1>2. CASE BusIdle
  BY <1>1, <1>2 DEF BusIdle, NoAccess, BusEdge, Access
<1>3. CASE TouchFinished
  BY <1>1, <1>3 DEF TouchFinished, AccessFinished, BusEdge, Access
<1>4. ASSUME NEW c \in Core, AcquireJob(c) PROVE Jobs!Next
  BY <1>1, <1>4 DEF AcquireJob, Acquire, BusEdge, Access
<1>5. CASE SoftClearJobs
  BY <1>1, <1>5 DEF SoftClearJobs, WriteSoftClear, BusEdge, Access, coreVars
<1>6. CASE UNCHANGED vars
  BY <1>6 DEF vars, slaveVars, queueVars, coreVars, Contents, Entry, Ctx
<1>7. QED
  BY <1>2, <1>3, <1>4, <1>5, <1>6, CallStartSimulates, ProgramSimulates,
     TriggerSimulates DEF OffloadNext

-----------------------------------------------------------------------------
(* The cores keep to the protocol.                                         *)
(* The invariant gives what follows needs of the types.                    *)
LEMMA CoreTypes ==
  ASSUME QInv
  PROVE  /\ pc \in [Core -> Places]
         /\ request \in [Core -> Job \cup {NoJob}]
         /\ todo \in [Core -> SUBSET Reg]
         /\ hwpe_params \in [Context -> Job]
         /\ pointer_context \in Context
  BY DEF QInv, IInv, OffloadTypeOK, TypeOK, CoreTypeOK, Places

(* What a core has written stays when the core does nothing but wake up.   *)
LEMMA LoadKept ==
  ASSUME NEW c, LoadOK(c),
         request'[c] = request[c], todo'[c] = todo[c],
         pc'[c] = pc[c] \/ (pc[c] = "sleep" /\ pc'[c] = "idle"),
         Loading(c) =>
           hwpe_params'[pointer_context'] = hwpe_params[pointer_context]
  PROVE  LoadOK(c)'
  BY DEF LoadOK, Loading, Loaded, Programmed

(* One core at a time loads a context.                                     *)
LEMMA OneLoader ==
  ASSUME QInv, Disciplined, NEW c \in Core, NEW d \in Core,
         Loading(c), Loading(d)
  PROVE  c = d
<1>1. CASE ~PROGRAM_FIRST
  <2>1. c \in Holders /\ d \in Holders
    BY <1>1 DEF Loading, Holders
  <2>2. QED
    BY <2>1 DEF QInv, IInv, CriticalSection
<1>2. QED
  BY <1>1 DEF Disciplined

(* A core that programs first does so while no job is pending.             *)
LEMMA OneAtATimeEdge ==
  ASSUME QInv, NEW op, BusEdge(op), op # "trigger",
         \A d \in Core : pc[d] = "sleep" => pc'[d] = "sleep" \/ Woken(d)
  PROVE  OneAtATime'
<1> SUFFICES ASSUME PROGRAM_FIRST PROVE OneAtATime'
  BY DEF OneAtATime
<1>1. CASE clear_o
  <2>1. counter_pending' = 0
    BY <1>1 DEF BusEdge, Edge, PendingCounter
  <2>2. QED
    BY <2>1 DEF OneAtATime
<1>2. CASE ~clear_o
  <2>1. counter_pending' = counter_pending - (IF Done THEN 1 ELSE 0)
        /\ counter_pending \in 0 .. 1
    BY <1>2, CounterEdge, PendingContexts, SlaveAssumption
       DEF QInv, OneAtATime
  <2>2. Done => counter_pending >= 1
    BY DEF QInv, IInv, EngineInStep, WorkPending, IsWorking, Done
  <2>3. CASE Done
    BY <2>1, <2>2, <2>3 DEF OneAtATime
  <2>4. CASE ~Done /\ counter_pending = 0
    BY <2>1, <2>4 DEF OneAtATime
  <2>5. CASE ~Done /\ counter_pending = 1
    <3>1. evt = {} /\ \A d \in Core : pc[d] = "sleep"
      BY <2>5 DEF QInv, OneAtATime
    <3>2. evt' = {}
      BY <2>5 DEF BusEdge, Edge, Event, TrueDone
    <3>3. \A d \in Core : pc'[d] = "sleep"
      BY <3>1 DEF Woken
    <3>4. QED
      BY <2>1, <2>5, <3>2, <3>3 DEF OneAtATime
  <2>6. QED
    BY <2>1, <2>3, <2>4, <2>5
<1>3. QED
  BY <1>1, <1>2

(* The protocol is kept at an edge at which the cores only wake up.        *)
LEMMA QuietQueue ==
  ASSUME QInv, NEW op \in {"none", "finished", "clear"}, BusEdge(op), Params,
         UNCHANGED <<request, todo>>, OtherCores \/ UNCHANGED pc
  PROVE  LoadInv' /\ OneAtATime'
<1>1. \A d \in Core : \/ pc'[d] = pc[d] /\ (pc[d] = "sleep" => ~Woken(d) \/ UNCHANGED pc)
                      \/ pc[d] = "sleep" /\ pc'[d] = "idle" /\ Woken(d)
  BY CoreTypes DEF OtherCores, Woken
<1>2. OneAtATime'
  BY <1>1, OneAtATimeEdge
<1>3. ASSUME NEW d \in Core PROVE LoadOK(d)'
  <2>1. ASSUME Loading(d)
        PROVE  hwpe_params'[pointer_context'] = hwpe_params[pointer_context]
    <3>1. pc[d] # "idle"
      BY <2>1 DEF Loading
    <3>2. ~clear_o /\ ~clear_regfile
      BY <3>1 DEF QInv, IInv, ClearQuiet, Lockstep, Settled
    <3>3. QED
      BY <3>2 DEF Params, BusEdge, Edge, PointerContext, IsCommit
  <2>2. QED
    BY <1>1, <2>1, LoadKept DEF QInv, LoadInv
<1>4. QED
  BY <1>2, <1>3 DEF LoadInv

(* It is kept by a call of aes_hwpe_start.                                 *)
LEMMA CallStartQueue ==
  ASSUME QInv, NEW c \in Core, NEW j \in Job, CallStart(c, j)
  PROVE  LoadInv' /\ OneAtATime'
<1>1. UNCHANGED <<hwpe_params, pointer_context, counter_pending, evt>>
  BY DEF CallStart, slaveVars, queueVars
<1>2. ASSUME NEW d \in Core PROVE LoadOK(d)'
  <2>1. CASE d = c
    <3>1. pc'[c] = FirstStep /\ request'[c] = j /\ todo'[c] = Reg /\ j # NoJob
      BY CoreTypes, OffloadAssumption DEF CallStart
    <3>2. QED
      BY <2>1, <3>1 DEF LoadOK, Loading, Loaded, Programmed, FirstStep
  <2>2. CASE d # c
    <3>1. pc'[d] = pc[d] /\ request'[d] = request[d] /\ todo'[d] = todo[d]
      BY <2>2, CoreTypes DEF CallStart
    <3>2. QED
      BY <1>1, <3>1, LoadKept DEF QInv, LoadInv
  <2>3. QED
    BY <2>1, <2>2
<1>3. OneAtATime'
  <2>1. PROGRAM_FIRST => counter_pending # 1
    BY DEF QInv, OneAtATime, CallStart
  <2>2. QED
    BY <1>1, <2>1 DEF QInv, OneAtATime
<1>4. QED
  BY <1>2, <1>3 DEF LoadInv

(* It is kept when a register is written: the core that writes is the only *)
(* one that loads a context.                                               *)
LEMMA ProgramQueue ==
  ASSUME QInv, Disciplined, NEW c \in Core, NEW r \in Reg, Program(c, r)
  PROVE  LoadInv' /\ OneAtATime'
<1>1. BusEdge("param")
  BY DEF Program, WriteReg, BusEdge, Access
<1>2. ~clear_regfile /\ ~clear_o
  BY DEF QInv, IInv, Lockstep, Program, Settled
<1>3. /\ hwpe_params' = [hwpe_params EXCEPT ![pointer_context][r] = request[c][r]]
      /\ pointer_context' = pointer_context
  BY <1>1, <1>2 DEF Program, WriteReg, WriteParam, BusEdge, Edge,
     PointerContext, IsCommit
<1> DEFINE next == IF todo[c] = {r} THEN AfterProgram ELSE "program"
<1>4. /\ pc'[c] = next
      /\ \A d \in Core \ {c} : IF Woken(d) THEN pc'[d] = "idle"
                               ELSE pc'[d] = pc[d]
  BY CoreTypes DEF Program, Cores
<1>5. pc[c] = "program" /\ Loading(c) /\ request' = request
      /\ todo' = [todo EXCEPT ![c] = @ \ {r}]
  BY DEF Program, Loading
<1>6. ASSUME NEW d \in Core PROVE LoadOK(d)'
  <2>1. CASE d = c
    <3>1. Programmed(c)'
      <4>1. \A q \in Reg : hwpe_params'[pointer_context'][q] =
              IF q = r THEN request[c][r] ELSE hwpe_params[pointer_context][q]
        BY <1>3, CoreTypes DEF Job
      <4>2. todo'[c] = todo[c] \ {r} /\ Programmed(c)
        BY <1>5, CoreTypes DEF QInv, LoadInv, LoadOK
      <4>3. QED
        BY <1>5, <4>1, <4>2 DEF Programmed
    <3>2. todo[c] = {r} => todo'[c] = {}
      BY <1>5, CoreTypes
    <3>3. request[c] # NoJob
      BY <1>5 DEF QInv, LoadInv, LoadOK
    <3>4. QED
      BY <1>4, <1>5, <2>1, <3>1, <3>2, <3>3
         DEF LoadOK, Loading, Loaded, AfterProgram
  <2>2. CASE d # c
    <3>1. ~Loading(d)
      BY <1>5, <2>2, OneLoader
    <3>2. request'[d] = request[d] /\ todo'[d] = todo[d]
      BY <1>5, <2>2, CoreTypes
    <3>3. QED
      BY <1>4, <2>2, <3>1, <3>2, LoadKept DEF QInv, LoadInv, Woken
  <2>3. QED
    BY <2>1, <2>2
<1>7. OneAtATime'
  BY <1>1, <1>4, <1>5, OneAtATimeEdge
<1>8. QED
  BY <1>6, <1>7 DEF LoadInv

(* It is kept by a read of ACQUIRE.                                        *)
LEMMA AcquireQueue ==
  ASSUME QInv, NEW c \in Core, AcquireJob(c)
  PROVE  LoadInv' /\ OneAtATime'
<1>1. BusEdge("acquire")
  BY DEF AcquireJob, Acquire, BusEdge, Access
<1>2. hwpe_params' = hwpe_params /\ pointer_context' = pointer_context
  BY <1>1 DEF AcquireJob, Acquire, Params, QInv, IInv, Lockstep, Settled,
     BusEdge, Edge, PointerContext, IsCommit
<1>3. /\ pc'[c] = IF Granted THEN AfterAcquire ELSE "acquire"
      /\ \A d \in Core \ {c} : IF Woken(d) THEN pc'[d] = "idle"
                               ELSE pc'[d] = pc[d]
  BY CoreTypes DEF AcquireJob, Cores
<1>4. pc[c] = "acquire" /\ request' = request /\ todo' = todo
  BY DEF AcquireJob
<1>5. ASSUME NEW d \in Core PROVE LoadOK(d)'
  <2>1. CASE d = c
    BY <1>2, <1>3, <1>4, <2>1 DEF QInv, LoadInv, LoadOK, Loading, Loaded,
       Programmed, AfterAcquire
  <2>2. CASE d # c
    BY <1>2, <1>3, <1>4, <2>2, LoadKept DEF QInv, LoadInv, Woken
  <2>3. QED
    BY <2>1, <2>2
<1>6. OneAtATime'
  BY <1>1, <1>3, <1>4, OneAtATimeEdge
<1>7. QED
  BY <1>5, <1>6 DEF LoadInv

(* It is kept by a trigger, after which a core that programs first sleeps. *)
LEMMA TriggerQueue ==
  ASSUME QInv, Disciplined, NEW c \in Core, TriggerJob(c)
  PROVE  LoadInv' /\ OneAtATime'
<1>1. /\ pc'[c] = AfterTrigger
      /\ \A d \in Core \ {c} : IF Woken(d) THEN pc'[d] = "idle"
                               ELSE pc'[d] = pc[d]
  BY CoreTypes DEF TriggerJob, Cores
<1>2. /\ pc[c] = "trigger" /\ Loading(c) /\ todo' = todo
      /\ request' = [request EXCEPT ![c] = NoJob]
  BY DEF TriggerJob, Loading
<1>3. ASSUME NEW d \in Core PROVE LoadOK(d)'
  <2>1. CASE d = c
    <3>1. request'[c] = NoJob
      BY <1>2, CoreTypes
    <3>2. QED
      BY <1>1, <2>1, <3>1 DEF LoadOK, Loading, Loaded, AfterTrigger
  <2>2. CASE d # c
    <3>1. ~Loading(d)
      BY <1>2, <2>2, OneLoader
    <3>2. request'[d] = request[d] /\ todo'[d] = todo[d]
      BY <1>2, <2>2, CoreTypes
    <3>3. QED
      BY <1>1, <2>2, <3>1, <3>2, LoadKept DEF QInv, LoadInv, Woken
  <2>3. QED
    BY <2>1, <2>2
<1>4. OneAtATime'
  <2> SUFFICES ASSUME PROGRAM_FIRST PROVE OneAtATime'
    BY DEF OneAtATime
  <2>1. counter_pending = 0
    BY <1>2, PendingContexts, SlaveAssumption DEF QInv, OneAtATime
  <2>2. ~Done
    BY <2>1 DEF QInv, IInv, EngineInStep, WorkPending, IsWorking, Done
  <2>3. BusEdge("trigger") /\ ~clear_o
    BY DEF TriggerJob, WriteTrigger, BusEdge, Access, Holders, QInv, IInv,
       CriticalSection, Settled
  <2>4. counter_pending' = 1
    BY <2>1, <2>2, <2>3, CounterEdge DEF QInv
  <2>5. evt' = {}
    BY <2>2, <2>3 DEF BusEdge, Edge, Event, TrueDone
  <2>6. \A d \in Core : pc'[d] = "sleep"
    BY <1>1 DEF Disciplined, AfterTrigger
  <2>7. QED
    BY <2>4, <2>5, <2>6 DEF OneAtATime
<1>5. QED
  BY <1>3, <1>4 DEF LoadInv

(* The protocol is kept in the beginning and by every step.                *)
LEMMA InitQueue == OffloadInit => LoadInv /\ OneAtATime
  BY DEF OffloadInit, Init, LoadInv, LoadOK, Loading, Loaded, OneAtATime

(* Every step keeps it.                                                    *)
LEMMA StepQueue ==
  ASSUME Disciplined
  PROVE  QInv /\ [OffloadNext]_vars => LoadInv' /\ OneAtATime'
<1> SUFFICES ASSUME QInv, [OffloadNext]_vars PROVE LoadInv' /\ OneAtATime'
  OBVIOUS
<1>1. CASE BusIdle
  BY <1>1, QuietQueue DEF BusIdle, NoAccess, BusEdge, Access
<1>2. CASE TouchFinished
  BY <1>2, QuietQueue DEF TouchFinished, AccessFinished, BusEdge, Access
<1>3. CASE SoftClearJobs
  BY <1>3, QuietQueue DEF SoftClearJobs, WriteSoftClear, BusEdge, Access,
     coreVars
<1>4. CASE UNCHANGED vars
  <2>1. \A d : LoadOK(d)' <=> LoadOK(d)
    BY <1>4 DEF vars, slaveVars, queueVars, coreVars, LoadOK, Loading, Loaded,
       Programmed
  <2>2. QED
    BY <1>4, <2>1 DEF vars, slaveVars, queueVars, coreVars, QInv, LoadInv,
       OneAtATime
<1>5. QED
  BY <1>1, <1>2, <1>3, <1>4, CallStartQueue, ProgramQueue, AcquireQueue,
     TriggerQueue DEF OffloadNext

-----------------------------------------------------------------------------
(* The contexts are a queue of the jobs that the cores asked for, with     *)
(* their parameters unchanged, for every number of contexts and of cores   *)
(* that acquire a context before they program it, and for a single core    *)
(* that programs first, as aes_hwpe_start does, and sleeps until its job   *)
(* is done, as test_application.c does.                                    *)
THEOREM ImplementsJobQueue ==
  ASSUME Disciplined
  PROVE  OffloadSpec => JobQueueSpec
<1>1. OffloadInit => QInv
  BY InitIInv, InitQueue DEF QInv
<1>2. QInv /\ [OffloadNext]_vars => QInv'
  BY StepIInv, StepQueue DEF QInv
<1>3. OffloadSpec => []QInv
  BY <1>1, <1>2, PTL DEF OffloadSpec
<1>4. QInv => ContentsShape /\ IInv
  BY ContentsSeq DEF QInv
<1>5. OffloadInit => Jobs!Init
  <2> SUFFICES ASSUME OffloadInit PROVE Jobs!Init
    OBVIOUS
  <2>1. ContentsShape
    BY InitIInv, ContentsSeq
  <2>2. Contents = << >>
    BY <2>1, EmptySeq DEF ContentsShape, OffloadInit, Init
  <2>3. QED
    BY <2>2 DEF OffloadInit, Init, Jobs!Init
<1>6. /\ QInv /\ IInv' /\ ContentsShape /\ ContentsShape' /\ [OffloadNext]_vars
      => [Jobs!Next]_<<request, Contents, evt>>
  BY StepSimulates
<1>7. QED
  BY <1>3, <1>4, <1>5, <1>6, PTL DEF OffloadSpec, JobQueueSpec, Jobs!Spec,
     Jobs!vars

-----------------------------------------------------------------------------
(* What a job waits for.                                                   *)
(* The trigger of a job is remembered for as long as one is pending: the   *)
(* end of another job does not take it away.                               *)
StillTriggered == counter_pending > 0 => triggered

(* A core that sleeps is told already, or waits for a pending job that is  *)
(* its own.                                                                *)
WakesUp(c) ==
  pc[c] = "sleep" =>
    c \in evt \/ \E x \in Context : IsPending(x) /\ offloading_core[x] = c

WakeUpComes == \A c \in Core : WakesUp(c)

(* The way of a job through slave and engine, backwards from its end, and  *)
(* what is left of it for the job of a pending context: five stages for    *)
(* each job up to its own.                                                 *)
Stage == IF running_state = "RUN_IDLE" THEN 4
         ELSE IF running_state = "RUN_STARTING" THEN 3
         ELSE IF start THEN 2
         ELSE IF engine = "busy" THEN 1
         ELSE 0

StagesLeft(x) == 5 * Offset(x) + Stage

(* It advances at every edge but those at which the engine works, and its  *)
(* end raises the event of its own core.                                   *)
Advances(x) ==
  IF StagesLeft(x) = 0
  THEN ~IsPending(x)' /\ evt' = {offloading_core[x]}
  ELSE /\ IsPending(x)'
       /\ \/ StagesLeft(x)' = StagesLeft(x) - 1
          \/ /\ engine = "busy" /\ engine' = "busy"
             /\ StagesLeft(x)' = StagesLeft(x)

(* A core in software does not hold it up, a soft clear drops it.          *)
JobAdvances(x) ==
  \/ clear_o
  \/ UNCHANGED <<slaveVars, engine>>
  \/ Advances(x)

(* All but the call of aes_hwpe_start is an edge of the clock.             *)
LEMMA EdgeOrCall ==
  ASSUME IInv, OffloadNext
  PROVE  \/ UNCHANGED <<slaveVars, engine>>
         \/ \E op \in Access : BusEdge(op)
<1>1. ASSUME NEW c \in Core, TriggerJob(c)
      PROVE  BusEdge("trigger")
  <2>1. c \in Holders
    BY <1>1 DEF Holders, TriggerJob
  <2>2. is_critical
    BY <2>1 DEF IInv, CriticalSection
  <2> QED  BY <1>1, <2>2 DEF TriggerJob, WriteTrigger, BusEdge, Access
<1>2. ASSUME NEW c \in Core, NEW j \in Job, CallStart(c, j)
      PROVE  UNCHANGED <<slaveVars, engine>>
  BY <1>2 DEF CallStart
<1>3. BusIdle => BusEdge("none")
  BY DEF BusIdle, NoAccess, BusEdge, Access
<1>4. TouchFinished => BusEdge("finished")
  BY DEF TouchFinished, AccessFinished, BusEdge, Access
<1>5. ASSUME NEW c \in Core, NEW r \in Reg, Program(c, r)
      PROVE  BusEdge("param")
  BY <1>5 DEF Program, WriteReg, BusEdge, Access
<1>6. ASSUME NEW c \in Core, AcquireJob(c)
      PROVE  BusEdge("acquire")
  BY <1>6 DEF AcquireJob, Acquire, BusEdge, Access
<1>7. SoftClearJobs => BusEdge("clear")
  BY DEF SoftClearJobs, WriteSoftClear, BusEdge, Access
<1>8. {"trigger", "none", "finished", "param", "acquire", "clear"} \subseteq Access
  BY DEF Access
<1>9. QED
  BY <1>1, <1>2, <1>3, <1>4, <1>5, <1>6, <1>7, <1>8 DEF OffloadNext

(* What an edge does to a pending context.                                 *)
LEMMA PendingEdge ==
  ASSUME IInv, NEW op, BusEdge(op), ~clear_o,
         NEW x \in Context, IsPending(x)
  PROVE  /\ Offset(x) \in 0 .. N_CONTEXT - 1
         /\ Offset(x) = 0 <=> x = running_context
         /\ IF Done /\ x = running_context
            THEN ~IsPending(x)' /\ evt' = {offloading_core[x]}
            ELSE /\ IsPending(x)'
                 /\ Offset(x)' = Offset(x) - (IF Done THEN 1 ELSE 0)
<1>1. /\ counter_pending' = counter_pending + (IF op = "trigger" THEN 1 ELSE 0)
                                            - (IF Done THEN 1 ELSE 0)
      /\ op = "trigger" => counter_pending < N_CONTEXT
      /\ counter_pending \in 0 .. N_CONTEXT
      /\ running_context \in Context
      /\ Offset(x) < counter_pending
  BY CounterEdge, PendingContexts DEF BusEdge, IInv, Room, IsPending
<1>2. /\ running_context' = (IF Done THEN NextContext(running_context)
                             ELSE running_context)
      /\ Done => evt' = {offloading_core[running_context]}
  BY DEF BusEdge, Edge, RunningContext, Event, IInv, EngineInStep, TrueDone,
     Done, IsWorking
<1>3. QED
  BY <1>1, <1>2, SlaveAssumption DEF Offset, IsPending, NextContext, Context

(* While jobs are pending the slave does not take the queue for empty.     *)
LEMMA NotEmpty ==
  ASSUME IInv, counter_pending > 0
  PROVE  ~(running_context = pointer_context /\ ~FullContext)
<1>1. /\ counter_pending \in 0 .. N_CONTEXT
      /\ running_context \in Nat /\ pointer_context \in Nat
      /\ running_context + counter_pending - pointer_context
           \in {0, N_CONTEXT, 2 * N_CONTEXT}
  BY PendingContexts, SlaveAssumption DEF IInv, ContextRing, Context
<1>2. QED
  BY <1>1, SlaveAssumption DEF FullContext

(* What an edge does to the stage of the job that runs.                    *)
LEMMA StageEdge ==
  ASSUME IInv, StillTriggered, NEW op, BusEdge(op), ~clear_o,
         counter_pending > 0
  PROVE  IF Done THEN Stage = 0 /\ Stage' = 4
         ELSE /\ Stage \in 1 .. 4
              /\ \/ Stage' = Stage - 1
                 \/ engine = "busy" /\ engine' = "busy" /\ Stage' = Stage
<1> USE DEF Stage
<1>1. /\ engine \in {"idle", "busy", "done"}
      /\ running_state \in {"RUN_IDLE", "RUN_STARTING", "RUN_RUN"}
      /\ engine # "idle" => running_state = "RUN_RUN" /\ ~start
      /\ running_state = "RUN_RUN" => start \/ engine # "idle"
      /\ start => running_state = "RUN_RUN"
  BY DEF IInv, OffloadTypeOK, TypeOK, CoreTypeOK, StartPulse, EngineInStep
<1>2. engine' \in IF engine = "idle" THEN {IF start THEN "busy" ELSE "idle"}
                  ELSE IF engine = "busy" THEN {"busy", "done"}
                  ELSE {"idle"}
  BY DEF BusEdge, Engine
<1>3. start' <=> running_state = "RUN_STARTING"
  BY DEF BusEdge, Edge, RunningFsm
<1>4. CASE running_state = "RUN_IDLE"
  <2>1. ~(running_context = pointer_context /\ ~FullContext)
    BY NotEmpty
  <2>2. running_state' = "RUN_STARTING"
    BY <1>4, <2>1 DEF BusEdge, Edge, RunningFsm, StillTriggered
  <2> QED  BY <1>1, <1>4, <2>2 DEF Done
<1>5. CASE running_state = "RUN_STARTING"
  <2>1. running_state' = "RUN_RUN"
    BY <1>5 DEF BusEdge, Edge, RunningFsm
  <2> QED  BY <1>1, <1>3, <1>5, <2>1 DEF Done
<1>6. CASE running_state = "RUN_RUN" /\ Done
  <2>1. running_state' = "RUN_IDLE"
    BY <1>6 DEF BusEdge, Edge, RunningFsm, TrueDone, IsWorking
  <2> QED  BY <1>1, <1>6, <2>1 DEF Done
<1>7. CASE running_state = "RUN_RUN" /\ ~Done
  <2>1. running_state' = "RUN_RUN" /\ ~start'
    BY <1>3, <1>7 DEF BusEdge, Edge, RunningFsm, TrueDone
  <2>2. CASE start
    BY <1>1, <1>2, <1>7, <2>1, <2>2
  <2>3. CASE ~start
    <3>1. engine = "busy"
      BY <1>1, <1>7, <2>3 DEF Done
    <3> QED  BY <1>2, <1>7, <2>1, <2>3, <3>1
  <2> QED  BY <2>2, <2>3
<1> QED  BY <1>1, <1>4, <1>5, <1>6, <1>7

(* Every pending job advances at an edge.                                  *)
LEMMA AdvanceEdge ==
  ASSUME IInv, StillTriggered, NEW op, BusEdge(op), ~clear_o,
         NEW x \in Context, IsPending(x)
  PROVE  Advances(x)
<1>1. counter_pending > 0
  BY PendingContexts, PendingEdge, SlaveAssumption DEF IsPending
<1>2. Done => Stage = 0 /\ Stage' = 4
  BY <1>1, StageEdge
<1>3. ~Done => /\ Stage \in 1 .. 4
               /\ \/ Stage' = Stage - 1
                  \/ engine = "busy" /\ engine' = "busy" /\ Stage' = Stage
  BY <1>1, StageEdge
<1>4. /\ Offset(x) \in Int /\ Offset(x) >= 0
      /\ Offset(x) = 0 <=> x = running_context
  BY PendingEdge, SlaveAssumption
<1>5. CASE Done /\ x = running_context
  <2>1. ~IsPending(x)' /\ evt' = {offloading_core[x]}
    BY <1>5, PendingEdge
  <2> QED  BY <1>2, <1>4, <1>5, <2>1 DEF Advances, StagesLeft
<1>6. CASE ~(Done /\ x = running_context)
  <2>1. IsPending(x)' /\ Offset(x)' = Offset(x) - (IF Done THEN 1 ELSE 0)
    BY <1>6, PendingEdge
  <2>2. StagesLeft(x)' = 5 * Offset(x)' + Stage'
    BY DEF StagesLeft
  <2>3. CASE Done
    BY <1>2, <1>4, <1>6, <2>1, <2>2, <2>3 DEF Advances, StagesLeft
  <2>4. CASE ~Done
    BY <1>3, <1>4, <2>1, <2>2, <2>4 DEF Advances, StagesLeft
  <2> QED  BY <2>3, <2>4
<1> QED  BY <1>5, <1>6

(* The trigger is remembered.                                              *)
LEMMA TriggeredEdge ==
  ASSUME IInv, StillTriggered, NEW op, BusEdge(op) PROVE StillTriggered'
<1>1. CASE clear_o
  BY <1>1, SlaveAssumption DEF BusEdge, Edge, PendingCounter, StillTriggered
<1>2. CASE ~clear_o /\ op = "trigger"
  BY <1>2 DEF BusEdge, Edge, TriggeredQ, StillTriggered
<1>3. CASE ~clear_o /\ op # "trigger" /\ counter_pending' > 0
  <2>1. counter_pending \in 0 .. N_CONTEXT /\ counter_pending > 0
    BY <1>3, CounterEdge, PendingContexts, SlaveAssumption
  <2>2. ~(running_context = pointer_context /\ ~FullContext)
    BY <2>1, NotEmpty
  <2> QED
    BY <1>3, <2>1, <2>2 DEF BusEdge, Edge, TriggeredQ, StillTriggered
<1> QED
  BY <1>1, <1>2, <1>3 DEF StillTriggered

(* It is, at every step.                                                   *)
LEMMA StepTriggered ==
  IInv /\ StillTriggered /\ [OffloadNext]_vars => StillTriggered'
<1> SUFFICES ASSUME IInv, StillTriggered, [OffloadNext]_vars
             PROVE  StillTriggered'
  OBVIOUS
<1>1. CASE UNCHANGED slaveVars
  BY <1>1 DEF slaveVars, queueVars, StillTriggered
<1>2. ASSUME NEW op \in Access, BusEdge(op) PROVE StillTriggered'
  BY <1>2, TriggeredEdge
<1> QED
  BY <1>1, <1>2, EdgeOrCall DEF vars

(* No pending job is ever left behind: at every edge of the clock it comes *)
(* a stage nearer to its end, unless the engine is at work, and no access  *)
(* of a core delays it.                                                    *)
THEOREM JobsAdvance ==
  OffloadSpec => [][\A x \in Context : IsPending(x) => JobAdvances(x)]_vars
<1>1. OffloadInit => StillTriggered
  BY DEF OffloadInit, Init, StillTriggered
<1>2. ASSUME IInv, StillTriggered, OffloadNext
      PROVE  \A x \in Context : IsPending(x) => JobAdvances(x)
  <2>1. ASSUME NEW op \in Access, BusEdge(op), ~clear_o,
               NEW x \in Context, IsPending(x)
        PROVE  Advances(x)
    BY <1>2, <2>1, AdvanceEdge
  <2> QED  BY <1>2, <2>1, EdgeOrCall DEF JobAdvances
<1>3. IInv /\ StillTriggered /\ [OffloadNext]_vars
        => [\A x \in Context : IsPending(x) => JobAdvances(x)]_vars
  BY <1>2
<1> QED
  BY <1>1, <1>3, StepTriggered, InvariantHolds, PTL DEF OffloadSpec

-----------------------------------------------------------------------------
(* What a core waits for.                                                  *)
(* A sleeping core whose event line is low is still to be told after an    *)
(* edge.                                                                   *)
LEMMA SleeperEdge ==
  ASSUME IInv, WakeUpComes, NEW op, BusEdge(op),
         NEW d \in Core, pc[d] = "sleep", d \notin evt,
         \A x \in Context : IsPending(x) => offloading_core'[x] = offloading_core[x]
  PROVE  WakesUp(d)'
<1>1. PICK x \in Context : IsPending(x) /\ offloading_core[x] = d
  BY DEF WakeUpComes, WakesUp
<1>2. ~clear_o
  BY DEF IInv, ClearQuiet, Settled
<1>3. CASE Done /\ x = running_context
  <2>1. evt' = {d}
    BY <1>1, <1>2, <1>3, PendingEdge
  <2> QED  BY <2>1 DEF WakesUp
<1>4. CASE ~(Done /\ x = running_context)
  <2>1. IsPending(x)' /\ offloading_core'[x] = d
    BY <1>1, <1>2, <1>4, PendingEdge
  <2> QED  BY <2>1 DEF WakesUp
<1> QED  BY <1>3, <1>4

(* The others at an edge at which no core starts to sleep.                 *)
LEMMA OthersWake ==
  ASSUME IInv, WakeUpComes, NEW op, BusEdge(op), NEW d \in Core,
         pc'[d] = "sleep" => pc[d] = "sleep" /\ d \notin evt,
         UNCHANGED offloading_core
  PROVE  WakesUp(d)'
<1>1. CASE pc'[d] = "sleep"
  BY <1>1, SleeperEdge
<1>2. CASE pc'[d] # "sleep"
  BY <1>2 DEF WakesUp
<1> QED  BY <1>1, <1>2

(* An edge at which the cores do nothing but wake up.                      *)
LEMMA QuietWake ==
  ASSUME IInv, WakeUpComes, NEW op, BusEdge(op), OtherCores,
         UNCHANGED offloading_core
  PROVE  WakeUpComes'
<1>1. \A d \in Core : pc'[d] = "sleep" => pc[d] = "sleep" /\ d \notin evt
  BY DEF OtherCores, Woken
<1> QED  BY <1>1, OthersWake DEF WakeUpComes

(* One core moves on without going to sleep.                               *)
LEMMA MoveWake ==
  ASSUME IInv, WakeUpComes, NEW op, BusEdge(op), NEW c \in Core,
         NEW next, next # "sleep", Cores(c, next), UNCHANGED offloading_core
  PROVE  WakeUpComes'
<1>1. \A d \in Core : pc'[d] = "sleep" => pc[d] = "sleep" /\ d \notin evt
  BY DEF Cores, Woken
<1> QED  BY <1>1, OthersWake DEF WakeUpComes

(* A core triggers its job, and goes to sleep if it does so.               *)
LEMMA TriggerWake ==
  ASSUME IInv, WakeUpComes, NEW c \in Core, TriggerJob(c)
  PROVE  WakeUpComes'
<1>1. is_critical /\ ~clear_o
  <2>1. c \in Holders
    BY DEF Holders, TriggerJob
  <2> QED  BY <2>1 DEF IInv, CriticalSection, TriggerJob, Settled
<1>2. BusEdge("trigger")
  BY <1>1 DEF TriggerJob, WriteTrigger, BusEdge, Access
<1> PICK p \in Context : p = pointer_context
  BY PendingContexts
<1>3. /\ \A x \in Context : IsPending(x) => offloading_core'[x] = offloading_core[x]
      /\ offloading_core'[p] = c
  <2>1. ~IsPending(p)
    BY <1>1, GrantedIsFree
  <2> QED
    BY <2>1 DEF TriggerJob, WriteTrigger, OffloadingCore, IInv, OffloadTypeOK,
       TypeOK
<1>4. IsPending(p)'
  <2>1. /\ counter_pending \in 0 .. N_CONTEXT /\ counter_pending < N_CONTEXT
        /\ running_context \in Context
        /\ counter_pending' = counter_pending + 1 - (IF Done THEN 1 ELSE 0)
        /\ Done => counter_pending >= 1
    BY <1>1, <1>2, CounterEdge, PendingContexts DEF IInv, Room, EngineInStep,
       WorkPending, IsWorking, Done
  <2>2. running_context' = (IF Done THEN NextContext(running_context)
                            ELSE running_context)
    BY <1>1, <1>2 DEF BusEdge, Edge, RunningContext, IInv, EngineInStep,
       TrueDone, Done, IsWorking
  <2>3. running_context + counter_pending - p \in {0, N_CONTEXT, 2 * N_CONTEXT}
    BY DEF IInv, ContextRing
  <2>4. Offset(p) = counter_pending
    BY <2>1, <2>3, SlaveAssumption DEF Offset, Context
  <2> QED
    BY <2>1, <2>2, <2>4, SlaveAssumption
       DEF IsPending, Offset, NextContext, Context
<1>5. ASSUME NEW d \in Core PROVE WakesUp(d)'
  <2>1. CASE pc'[d] = "sleep" /\ d = c
    BY <1>3, <1>4, <2>1 DEF WakesUp
  <2>2. CASE pc'[d] = "sleep" /\ d # c
    <3>1. pc[d] = "sleep" /\ d \notin evt
      BY <2>2 DEF TriggerJob, Cores, Woken
    <3> QED  BY <1>2, <1>3, <3>1, SleeperEdge
  <2>3. CASE pc'[d] # "sleep"
    BY <2>3 DEF WakesUp
  <2> QED  BY <2>1, <2>2, <2>3
<1> QED  BY <1>5 DEF WakeUpComes

(* Nothing changes for the others when a core calls aes_hwpe_start.        *)
LEMMA StillWake ==
  ASSUME WakeUpComes, UNCHANGED slaveVars,
         \A d \in Core : pc'[d] = "sleep" => pc[d] = "sleep"
  PROVE  WakeUpComes'
<1>1. \A x \in Context : IsPending(x)' <=> IsPending(x)
  BY DEF slaveVars, queueVars, IsPending, Offset
<1>2. UNCHANGED <<evt, offloading_core>>
  BY DEF slaveVars, queueVars
<1> QED  BY <1>1, <1>2 DEF WakeUpComes, WakesUp

(* Every step keeps it.                                                    *)
LEMMA StepWake ==
  IInv /\ WakeUpComes /\ [OffloadNext]_vars => WakeUpComes'
<1> SUFFICES ASSUME IInv, WakeUpComes, [OffloadNext]_vars PROVE WakeUpComes'
  OBVIOUS
<1>1. ASSUME NEW c \in Core, NEW j \in Job, CallStart(c, j) PROVE WakeUpComes'
  <2>1. \A d \in Core : pc'[d] = "sleep" => pc[d] = "sleep"
    BY <1>1 DEF CallStart, FirstStep, IInv, OffloadTypeOK, CoreTypeOK
  <2> QED  BY <1>1, <2>1, StillWake DEF CallStart
<1>2. CASE BusIdle
  <2>1. BusEdge("none")
    BY <1>2 DEF BusIdle, NoAccess, BusEdge, Access
  <2> QED  BY <1>2, <2>1, QuietWake DEF BusIdle, NoAccess
<1>3. CASE TouchFinished
  <2>1. BusEdge("finished")
    BY <1>3 DEF TouchFinished, AccessFinished, BusEdge, Access
  <2> QED  BY <1>3, <2>1, QuietWake DEF TouchFinished, AccessFinished
<1>4. ASSUME NEW c \in Core, NEW r \in Reg, Program(c, r) PROVE WakeUpComes'
  <2>1. BusEdge("param")
    BY <1>4 DEF Program, WriteReg, BusEdge, Access
  <2>2. PICK next \in {"program", AfterProgram} : Cores(c, next)
    BY <1>4 DEF Program
  <2>3. next # "sleep"
    BY DEF AfterProgram
  <2> QED  BY <1>4, <2>1, <2>2, <2>3, MoveWake DEF Program, WriteReg
<1>5. ASSUME NEW c \in Core, AcquireJob(c) PROVE WakeUpComes'
  <2>1. BusEdge("acquire")
    BY <1>5 DEF AcquireJob, Acquire, BusEdge, Access
  <2>2. PICK next \in {AfterAcquire, "acquire"} : Cores(c, next)
    BY <1>5 DEF AcquireJob
  <2>3. next # "sleep"
    BY DEF AfterAcquire
  <2> QED  BY <1>5, <2>1, <2>2, <2>3, MoveWake DEF AcquireJob, Acquire
<1>6. ASSUME NEW c \in Core, TriggerJob(c) PROVE WakeUpComes'
  BY <1>6, TriggerWake
<1>7. CASE SoftClearJobs
  BY <1>7 DEF SoftClearJobs, coreVars, WakeUpComes, WakesUp
<1>8. CASE UNCHANGED vars
  BY <1>8, StillWake DEF vars, coreVars
<1> QED
  BY <1>1, <1>2, <1>3, <1>4, <1>5, <1>6, <1>7, <1>8 DEF OffloadNext

(* No wake-up is lost: the event of a sleeping core is high, or a pending  *)
(* job, which advances, will raise it.                                     *)
THEOREM NoWakeUpLost == OffloadSpec => []WakeUpComes
<1>1. OffloadInit => WakeUpComes
  BY DEF OffloadInit, WakeUpComes, WakesUp
<1> QED
  BY <1>1, StepWake, InvariantHolds, PTL DEF OffloadSpec

-----------------------------------------------------------------------------
(* Whom a read of ACQUIRE lets wait: another core that has been granted a  *)
(* context and has not triggered it, or the jobs in all of the contexts.   *)
AcquireAnswered(c) ==
  \/ pc'[c] # "acquire"
  \/ \E d \in Core \ {c} : d \in Holders
  \/ \A x \in Context : status[x] = 1

(* ACQUIRE is never refused without reason: a core gets a context unless   *)
(* another core is between ACQUIRE and TRIGGER or every context has a job, *)
(* of which JobsAdvance says that it is on its way to its end.  The slave  *)
(* decides by is_critical and counter_pending alone.                       *)
THEOREM AcquireNotRefused ==
  OffloadSpec => [][\A c \in Core : AcquireJob(c) => AcquireAnswered(c)]_vars
<1>1. ASSUME IInv, NEW c \in Core, AcquireJob(c) PROVE AcquireAnswered(c)
  <2>1. CASE Granted
    <3>1. pc'[c] = AfterAcquire
      BY <1>1, <2>1 DEF AcquireJob, Cores
    <3>2. QED
      BY <3>1 DEF AfterAcquire, AcquireAnswered
  <2>2. CASE is_critical
    <3>1. Holders # {} /\ c \notin Holders
      BY <1>1, <2>2 DEF IInv, CriticalSection, Holders, AcquireJob
    <3>2. QED
      BY <3>1 DEF Holders, AcquireAnswered
  <2>3. CASE FullContext
    <3>1. ASSUME NEW x \in Context PROVE IsPending(x)
      BY <1>1, <2>3, SlaveAssumption
         DEF IsPending, Offset, Context, FullContext, IInv, OffloadTypeOK, TypeOK
    <3>2. QED
      BY <1>1, <3>1 DEF IInv, StatusAgrees, AcquireAnswered
  <2>4. QED
    BY <2>1, <2>2, <2>3 DEF Granted
<1>2. IInv => \A c \in Core : AcquireJob(c) => AcquireAnswered(c)
  BY <1>1
<1>3. QED
  BY <1>2, InvariantHolds, PTL DEF OffloadSpec

=============================================================================
