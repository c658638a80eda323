------------------------- MODULE HwpeCtrlSlaveProofs -------------------------
(***************************************************************************)
(* Proofs about the control slave for every number of contexts, cores and  *)
(* registers, whatever accesses the bus carries and whenever the engine    *)
(* raises done.                                                            *)
(***************************************************************************)
EXTENDS HwpeCtrlSlave, TLAPS

(* The registers that only one kind of access writes keep their types.     *)
ArraysTyped ==
  /\ offloading_core \in [Context -> Core]
  /\ hwpe_params \in [Context -> Job]

(* One lemma for all the other registers: whatever the access.             *)
LEMMA EdgeTyped ==
  ASSUME TypeOK, NEW op \in Access, NEW done \in BOOLEAN,
         Edge(op, done), ArraysTyped'
  PROVE  TypeOK'
<1> USE SlaveAssumption DEF Edge, Context
<1>1. pointer_context' \in Context
  BY DEF TypeOK, PointerContext, NextContext
<1>2. running_context' \in Context
  BY DEF TypeOK, RunningContext, NextContext
<1>3. counter_pending' \in 0 .. 2 * N_CONTEXT - 1
  BY DEF TypeOK, PendingCounter
<1>4. triggered' \in BOOLEAN
  BY DEF TypeOK, TriggeredQ
<1>5. /\ running_state' \in {"RUN_IDLE", "RUN_STARTING", "RUN_RUN"}
      /\ start' \in BOOLEAN
  BY DEF TypeOK, RunningFsm
<1>6. is_critical' \in BOOLEAN
  BY DEF TypeOK, ContextFsm
<1>7. evt' \in SUBSET Core
  BY DEF TypeOK, Event
<1>8. /\ s_clear' \in 0 .. 3 /\ clear_o' \in BOOLEAN
      /\ s_clear_regfile' \in 0 .. 3 /\ clear_regfile' \in BOOLEAN
  BY DEF TypeOK, SoftClear, SoftClearRegfile
<1>9. status' \in [Context -> 0 .. 1]
  BY DEF TypeOK, Status
<1>10. /\ offload_job_id' \in 0 .. ID_MOD - 1
       /\ running_job_id' \in 0 .. ID_MOD - 1
  BY DEF TypeOK, OffloadId, RunningId, NextId
<1>11. offload_job_id_incr' \in BOOLEAN /\ running_job_id_incr' \in BOOLEAN
  BY DEF TypeOK, OffloadId, RunningId
<1>12. finished_cnt' \in 0 .. 2
  BY DEF TypeOK, FinishedCnt
<1>13. QED
  BY <1>1, <1>2, <1>3, <1>4, <1>5, <1>6, <1>7, <1>8, <1>9, <1>10, <1>11,
     <1>12 DEF TypeOK, ArraysTyped

(* The registers of a context after a clear are a job.                     *)
LEMMA EmptyJobTyped == EmptyJob \in Job
  BY SlaveAssumption DEF EmptyJob, Job

(* The latches hold a job in each context, written to or not.              *)
LEMMA ParamsTyped ==
  ASSUME TypeOK
  PROVE  /\ Params => hwpe_params' \in [Context -> Job]
         /\ \A r \in Reg, v \in Value :
              WriteParam(r, v) => hwpe_params' \in [Context -> Job]
<1>1. Params => hwpe_params' \in [Context -> Job]
  BY EmptyJobTyped DEF TypeOK, Params
<1>2. ASSUME NEW r \in Reg, NEW v \in Value, WriteParam(r, v)
      PROVE  hwpe_params' \in [Context -> Job]
  <2>1. [hwpe_params[pointer_context] EXCEPT ![r] = v] \in Job
    BY DEF TypeOK, Job
  <2>2. QED
    BY <1>2, <2>1, EmptyJobTyped DEF TypeOK, WriteParam
<1>3. QED
  BY <1>1, <1>2

(* The registers have their types after reset.                             *)
LEMMA InitTyped == Init => TypeOK
<1> SUFFICES ASSUME Init PROVE TypeOK
  OBVIOUS
<1>1. hwpe_params \in [Context -> Job]
  BY EmptyJobTyped DEF Init
<1>2. offloading_core \in [Context -> Core]
  BY DEF Init
<1>3. status \in [Context -> 0 .. 1]
  BY DEF Init
<1>4. evt \in SUBSET Core
  BY DEF Init
<1>5. 0 \in Context
  BY SlaveAssumption DEF Context
<1>6. /\ 0 \in 0 .. 2 * N_CONTEXT - 1
      /\ 0 \in 0 .. ID_MOD - 1
      /\ 0 \in 0 .. 3
      /\ 0 \in 0 .. 2
  BY SlaveAssumption
<1>7. QED
  BY <1>1, <1>2, <1>3, <1>4, <1>5, <1>6 DEF Init, TypeOK

(* No access takes a register out of its type.                             *)
LEMMA NextTyped == TypeOK /\ [Next]_slaveVars => TypeOK'
<1> SUFFICES ASSUME TypeOK, [Next]_slaveVars PROVE TypeOK'
  OBVIOUS
<1>1. ASSUME NEW done \in BOOLEAN, NoAccess(done) PROVE TypeOK'
  BY <1>1, EdgeTyped, ParamsTyped DEF NoAccess, ArraysTyped, TypeOK, Access
<1>2. ASSUME NEW done \in BOOLEAN, Acquire(done) PROVE TypeOK'
  BY <1>2, EdgeTyped, ParamsTyped DEF Acquire, ArraysTyped, TypeOK, Access
<1>3. ASSUME NEW done \in BOOLEAN, NEW c \in Core,
             NEW op \in {"trigger", "commit"}, WriteTrigger(c, op, done)
      PROVE  TypeOK'
  <2>1. offloading_core' \in [Context -> Core]
    BY <1>3 DEF WriteTrigger, OffloadingCore, TypeOK
  <2>2. QED
    BY <1>3, <2>1, EdgeTyped, ParamsTyped DEF WriteTrigger, ArraysTyped, Access
<1>4. ASSUME NEW done \in BOOLEAN, NEW r \in Reg, NEW v \in Value,
             WriteReg(r, v, done)
      PROVE  TypeOK'
  BY <1>4, EdgeTyped, ParamsTyped DEF WriteReg, ArraysTyped, TypeOK, Access
<1>5. ASSUME NEW done \in BOOLEAN, AccessFinished(done) PROVE TypeOK'
  BY <1>5, EdgeTyped, ParamsTyped DEF AccessFinished, ArraysTyped, TypeOK, Access
<1>6. ASSUME NEW done \in BOOLEAN, NEW op \in {"clear", "clear_keep"},
             WriteSoftClear(op, done)
      PROVE  TypeOK'
  BY <1>6, EdgeTyped, ParamsTyped DEF WriteSoftClear, ArraysTyped, TypeOK, Access
<1>7. CASE UNCHANGED slaveVars
  BY <1>7 DEF slaveVars, queueVars, clearVars, idVars, TypeOK
<1>8. QED
  BY <1>1, <1>2, <1>3, <1>4, <1>5, <1>6, <1>7 DEF Next

(* The registers of the slave keep their types.                            *)
THEOREM TypeCorrect == Spec => []TypeOK
  BY InitTyped, NextTyped, PTL DEF Spec

-----------------------------------------------------------------------------
(* The pointers and the counter move together at every edge.               *)
LEMMA EdgeRing ==
  ASSUME TypeOK, ContextRing, NEW op, NEW done, Edge(op, done)
  PROVE  ContextRing'
<1> USE SlaveAssumption DEF TypeOK, ContextRing, Context, Edge,
        PointerContext, RunningContext, PendingCounter, NextContext
<1>1. CASE clear_o
  BY <1>1
<1>2. CASE ~clear_o /\ IsCommit(op) /\ TrueDone(done)
  BY <1>2
<1>3. CASE ~clear_o /\ IsCommit(op) /\ ~TrueDone(done)
  BY <1>3
<1>4. CASE ~clear_o /\ ~IsCommit(op) /\ TrueDone(done)
  BY <1>4
<1>5. CASE ~clear_o /\ ~IsCommit(op) /\ ~TrueDone(done)
  BY <1>5
<1>6. QED
  BY <1>1, <1>2, <1>3, <1>4, <1>5

(* The pointers and the counter describe the same ring, in every reachable *)
(* state and for every sequence of accesses.                               *)
THEOREM RingAlways == Spec => []ContextRing
<1>1. Init => ContextRing
  BY SlaveAssumption DEF Init, ContextRing
<1>2. TypeOK /\ ContextRing /\ [Next]_slaveVars => ContextRing'
  <2> SUFFICES ASSUME TypeOK, ContextRing, [Next]_slaveVars PROVE ContextRing'
    OBVIOUS
  <2>1. CASE Next
    BY <2>1, EdgeRing DEF Next, NoAccess, Acquire, WriteTrigger, WriteReg,
       AccessFinished, WriteSoftClear
  <2>2. CASE UNCHANGED slaveVars
    BY <2>2 DEF slaveVars, queueVars, ContextRing
  <2>3. QED
    BY <2>1, <2>2
<1>3. QED
  BY <1>1, <1>2, TypeCorrect, PTL DEF Spec

-----------------------------------------------------------------------------
(* Every register of the queue is reset while clear_o is high.             *)
LEMMA EdgeClears ==
  ASSUME clear_o, NEW op, NEW done, Edge(op, done)
  PROVE  QueueEmpty'
  BY DEF Edge, QueueEmpty, PointerContext, RunningContext, PendingCounter,
         TriggeredQ, RunningFsm, ContextFsm, Event

(* A soft clear ends with the slave as after reset, whatever the accesses  *)
(* of other cores and the engine during the clear.                         *)
THEOREM SoftClearAlwaysEnds == Spec => SoftClearEnds
<1>1. [Next]_slaveVars => [clear_o /\ ~clear_o' => QueueEmpty']_slaveVars
  <2> SUFFICES ASSUME Next, clear_o PROVE QueueEmpty'
    OBVIOUS
  <2>1. QED
    BY EdgeClears DEF Next, NoAccess, Acquire, WriteTrigger, WriteReg,
       AccessFinished, WriteSoftClear
<1>2. QED
  BY <1>1, PTL DEF Spec, SoftClearEnds
=============================================================================
