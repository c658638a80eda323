---------------------------- MODULE HwpeCtrlSlave ----------------------------
(***************************************************************************)
(* hwpe_ctrl_slave with its register file hwpe_ctrl_regfile: the queue of  *)
(* job contexts between the cores on the peripheral bus and the engine.    *)
(* One step is one rising clock edge.  At every edge the bus carries at    *)
(* most one access and the engine may raise done; each always_ff process   *)
(* of the two files is one operator below, and Edge is their conjunction.  *)
(* This module leaves the accesses free; HwpeOffload restricts them to     *)
(* what cores really do.                                                   *)
(***************************************************************************)
EXTENDS Integers

CONSTANTS
  N_CONTEXT,   (* Job contexts; a power of two, so pointers wrap there.    *)
  Core,        (* The cores on the peripheral bus.                         *)
  Reg,         (* The contexted (job-dependent) registers.                 *)
  Value,       (* What such a register holds.                              *)
  ZERO,        (* Its value after a clear.                                 *)
  ID_MOD       (* 2^8: the range of the job id counters.                   *)

ASSUME SlaveAssumption ==
  /\ N_CONTEXT \in Nat /\ N_CONTEXT >= 2
  /\ ID_MOD \in Nat /\ ID_MOD >= 2
  /\ Core # {}
  /\ ZERO \in Value

VARIABLES
  pointer_context,      (* The context being offloaded.                    *)
  running_context,      (* The context being (or next to be) executed.     *)
  counter_pending,      (* Contexts committed and not done; LOG_CONTEXT+1  *)
                        (* bits.                                           *)
  triggered,            (* triggered_q                                     *)
  running_state,        (* RUN_IDLE, RUN_STARTING or RUN_RUN.              *)
  start,                (* flags_o.start                                   *)
  is_critical,          (* context_state is CXT_PROGRAM.                   *)
  offloading_core,      (* Who committed each context.                     *)
  evt,                  (* The cores whose event line 0 is high.           *)
  s_clear, clear_o,                  (* Soft clear of slave and engine.    *)
  s_clear_regfile, clear_regfile,    (* Soft clear of the register file.   *)
  hwpe_params,          (* The contexted registers, per context.           *)
  status,               (* The byte of STATUS of each context.             *)
  offload_job_id, offload_job_id_incr,
  running_job_id, running_job_id_incr,
  finished_cnt          (* r_finished_cnt                                  *)

queueVars == <<pointer_context, running_context, counter_pending, triggered,
               running_state, start, is_critical, evt>>
clearVars == <<s_clear, clear_o, s_clear_regfile, clear_regfile>>
idVars == <<offload_job_id, offload_job_id_incr, running_job_id,
            running_job_id_incr, finished_cnt>>
slaveVars == <<queueVars, clearVars, idVars, status, hwpe_params,
               offloading_core>>

Context == 0 .. N_CONTEXT - 1
Job == [Reg -> Value]
EmptyJob == [r \in Reg |-> ZERO]

(* What an access is to the slave.  A write to TRIGGER is a trigger when   *)
(* the data is 0 and a commit otherwise, a write to SOFT_CLEAR a clear or  *)
(* a clear_keep alike.  "finished" is an address of register FINISHED,     *)
(* with or without a request.  Accesses that change nothing are "none".    *)
Access == {"none", "acquire", "trigger", "commit", "param", "finished",
           "clear", "clear_keep"}

TypeOK ==
  /\ pointer_context \in Context
  /\ running_context \in Context
  /\ counter_pending \in 0 .. 2 * N_CONTEXT - 1
  /\ triggered \in BOOLEAN
  /\ running_state \in {"RUN_IDLE", "RUN_STARTING", "RUN_RUN"}
  /\ start \in BOOLEAN
  /\ is_critical \in BOOLEAN
  /\ offloading_core \in [Context -> Core]
  /\ evt \in SUBSET Core
  /\ s_clear \in 0 .. 3 /\ clear_o \in BOOLEAN
  /\ s_clear_regfile \in 0 .. 3 /\ clear_regfile \in BOOLEAN
  /\ hwpe_params \in [Context -> Job]
  /\ status \in [Context -> 0 .. 1]
  /\ offload_job_id \in 0 .. ID_MOD - 1 /\ offload_job_id_incr \in BOOLEAN
  /\ running_job_id \in 0 .. ID_MOD - 1 /\ running_job_id_incr \in BOOLEAN
  /\ finished_cnt \in 0 .. 2

-----------------------------------------------------------------------------
(* Combinational flags.                                                    *)
IsCommit(op)   == op \in {"trigger", "commit"}
IsWorking      == running_state # "RUN_IDLE"
TrueDone(done) == done /\ IsWorking
FullContext    == counter_pending = N_CONTEXT

(* Mutant: ACQUIRE is granted to a core when the queue is full.            *)
GrantedIgnoresFull == ~is_critical

(* What a read of ACQUIRE is answered: a job id, or a negative number.     *)
Granted == ~is_critical /\ ~FullContext

NextContext(x) == IF x = N_CONTEXT - 1 THEN 0 ELSE x + 1
NextId(i)      == IF i = ID_MOD - 1 THEN 0 ELSE i + 1

-----------------------------------------------------------------------------
(* The processes of hwpe_ctrl_slave.                                       *)
(* Mutants: the trigger is forgotten by the end of any job, or not kept at *)
(* all for a job that finds the engine busy.                               *)
TriggeredQEveryDone(op, done) ==
  triggered' = IF clear_o THEN FALSE
               ELSE IF op = "trigger" THEN TRUE
               ELSE IF TrueDone(done) THEN FALSE
               ELSE triggered

TriggeredQNotLatched(op, done) == triggered' = FALSE

TriggeredQ(op, done) ==
  triggered' =
    IF clear_o THEN FALSE
    ELSE IF op = "trigger" THEN TRUE
    ELSE IF running_context = pointer_context /\ ~FullContext /\ TrueDone(done)
         THEN FALSE
    ELSE triggered

PointerContext(op) ==
  pointer_context' = IF clear_o THEN 0
                     ELSE IF IsCommit(op) THEN NextContext(pointer_context)
                     ELSE pointer_context

(* Mutant: the pointer stays when the last pending job is done.            *)
RunningContextIfPending(done) ==
  running_context' = IF clear_o THEN 0
                     ELSE IF TrueDone(done) /\ counter_pending > 1
                     THEN NextContext(running_context)
                     ELSE running_context

RunningContext(done) ==
  running_context' = IF clear_o THEN 0
                     ELSE IF TrueDone(done) THEN NextContext(running_context)
                     ELSE running_context

(* Mutant: a commit and a completion at the same edge are not told apart.  *)
PendingCounterRace(op, done) ==
  counter_pending' =
    IF clear_o THEN 0
    ELSE IF IsCommit(op)
         THEN IF counter_pending = 2 * N_CONTEXT - 1 THEN 0
              ELSE counter_pending + 1
    ELSE IF TrueDone(done)
         THEN IF counter_pending = 0 THEN 2 * N_CONTEXT - 1
              ELSE counter_pending - 1
    ELSE counter_pending

PendingCounter(op, done) ==
  counter_pending' =
    IF clear_o THEN 0
    ELSE IF IsCommit(op) /\ ~TrueDone(done)
         THEN IF counter_pending = 2 * N_CONTEXT - 1 THEN 0
              ELSE counter_pending + 1
    ELSE IF ~IsCommit(op) /\ TrueDone(done)
         THEN IF counter_pending = 0 THEN 2 * N_CONTEXT - 1
              ELSE counter_pending - 1
    ELSE counter_pending

(* offloading_core is not touched by a clear.  The id on the bus has one   *)
(* bit for each core; the model's accesses come from one core, whose bit   *)
(* is the only one set.                                                    *)
OffloadingCore(c) ==
  offloading_core' = [offloading_core EXCEPT ![pointer_context] = c]

(* Mutant: a soft clear does not stop the FSM.                             *)
RunningFsmNoClear(op, done) ==
  /\ start' = (~clear_o /\ running_state = "RUN_STARTING")
  /\ running_state' =
       IF running_state = "RUN_IDLE"
       THEN IF /\ ~(running_context = pointer_context /\ ~FullContext)
               /\ op = "trigger" \/ triggered
            THEN "RUN_STARTING" ELSE "RUN_IDLE"
       ELSE IF running_state = "RUN_RUN" /\ TrueDone(done)
       THEN "RUN_IDLE" ELSE "RUN_RUN"

RunningFsm(op, done) ==
  /\ start' = (~clear_o /\ running_state = "RUN_STARTING")
  /\ running_state' =
       IF clear_o THEN "RUN_IDLE"
       ELSE IF running_state = "RUN_IDLE"
       THEN IF /\ ~(running_context = pointer_context /\ ~FullContext)
               /\ op = "trigger" \/ triggered
            THEN "RUN_STARTING" ELSE "RUN_IDLE"
       ELSE IF running_state = "RUN_RUN" /\ TrueDone(done)
       THEN "RUN_IDLE" ELSE "RUN_RUN"

(* Mutants of the critical section: it is left by the next access, or a    *)
(* test-and-set of a full queue enters it.                                 *)
ContextFsmNoHold(op) ==
  is_critical' = (~clear_o /\ op = "acquire" /\ ~FullContext)

ContextFsmIgnoresFull(op) ==
  is_critical' = (~clear_o /\ IF is_critical THEN ~IsCommit(op)
                             ELSE op = "acquire")

ContextFsm(op) ==
  is_critical' = (~clear_o /\ IF is_critical THEN ~IsCommit(op)
                             ELSE op = "acquire" /\ ~FullContext)

(* Mutant: the event goes to the core of the context being offloaded.      *)
EventToPointer(done) ==
  evt' = IF ~clear_o /\ TrueDone(done) THEN {offloading_core[pointer_context]}
         ELSE {}

Event(done) ==
  evt' = IF ~clear_o /\ TrueDone(done) THEN {offloading_core[running_context]}
         ELSE {}

(* A write to SOFT_CLEAR is seen while s_clear is 0; clear_o is high from  *)
(* the second to the fourth cycle after it.  The register file has a copy  *)
(* of this logic that looks at writes of 0 only.                           *)
SoftClear(op) ==
  /\ s_clear' = IF s_clear = 0
                THEN IF op \in {"clear", "clear_keep"} THEN 1 ELSE 0
                ELSE IF s_clear = 3 THEN 0 ELSE s_clear + 1
  /\ clear_o' = (s_clear # 0)

SoftClearRegfile(op) ==
  /\ s_clear_regfile' = IF s_clear_regfile = 0
                        THEN IF op = "clear" THEN 1 ELSE 0
                        ELSE IF s_clear_regfile = 3 THEN 0
                        ELSE s_clear_regfile + 1
  /\ clear_regfile' = (s_clear_regfile # 0)

-----------------------------------------------------------------------------
(* The processes of hwpe_ctrl_regfile.                                     *)
(* Mutants: the counters of job ids count what was asked for, or at the    *)
(* wrong event.                                                            *)
OffloadIdAnyAcquire(op) ==
  /\ offload_job_id' = IF clear_regfile THEN 0
                       ELSE IF offload_job_id_incr THEN NextId(offload_job_id)
                       ELSE offload_job_id
  /\ offload_job_id_incr' = (op = "acquire")

OffloadId(op) ==
  /\ offload_job_id' = IF clear_regfile THEN 0
                       ELSE IF offload_job_id_incr THEN NextId(offload_job_id)
                       ELSE offload_job_id
  /\ offload_job_id_incr' = (op = "acquire" /\ Granted)

RunningId(done) ==
  /\ running_job_id' = IF clear_regfile THEN 0
                       ELSE IF running_job_id_incr THEN NextId(running_job_id)
                       ELSE running_job_id
  /\ running_job_id_incr' = (~clear_regfile /\ TrueDone(done))

(* Mutants: both branches of the test for the running context are merged   *)
(* into the first, so a done loses against a trigger of another context;   *)
(* and the other way round.                                                *)
StatusTriggerOnly(op, done) ==
  status' = [x \in Context |->
    IF clear_regfile THEN 0
    ELSE IF op = "trigger" THEN IF x = pointer_context THEN 1 ELSE status[x]
    ELSE IF TrueDone(done) /\ x = running_context THEN 0
    ELSE status[x]]

Status(op, done) ==
  status' = [x \in Context |->
    IF clear_regfile THEN 0
    ELSE IF op = "trigger" /\ x = pointer_context THEN 1
    ELSE IF TrueDone(done) /\ x = running_context THEN 0
    ELSE status[x]]

(* Mutant: the saturation at 2 is off by one.                              *)
FinishedCntOffByOne(op, done) ==
  finished_cnt' = IF clear_regfile \/ op = "finished" THEN 0
                  ELSE IF TrueDone(done) /\ finished_cnt <= 2
                       THEN finished_cnt + 1
                  ELSE finished_cnt

FinishedCnt(op, done) ==
  finished_cnt' = IF clear_regfile \/ op = "finished" THEN 0
                  ELSE IF TrueDone(done) /\ finished_cnt < 2
                       THEN finished_cnt + 1
                  ELSE finished_cnt

(* The latches always belong to the context being offloaded when written.  *)
Params == hwpe_params' = IF clear_regfile THEN [x \in Context |-> EmptyJob]
                         ELSE hwpe_params

(* Mutant: writes go to the context that runs next.                        *)
WriteParamRunning(r, v) ==
  hwpe_params' = IF clear_regfile THEN [x \in Context |-> EmptyJob]
                 ELSE [hwpe_params EXCEPT ![running_context][r] = v]

WriteParam(r, v) ==
  hwpe_params' = IF clear_regfile THEN [x \in Context |-> EmptyJob]
                 ELSE [hwpe_params EXCEPT ![pointer_context][r] = v]

-----------------------------------------------------------------------------
(* The state after reset_n and the three cycles of the enable delay and of *)
(* the first clear of the latches.                                         *)
Init ==
  /\ pointer_context = 0 /\ running_context = 0 /\ counter_pending = 0
  /\ triggered = FALSE
  /\ running_state = "RUN_IDLE" /\ start = FALSE
  /\ is_critical = FALSE
  /\ \E c \in Core : offloading_core = [x \in Context |-> c]
  /\ evt = {}
  /\ s_clear = 0 /\ clear_o = FALSE
  /\ s_clear_regfile = 0 /\ clear_regfile = FALSE
  /\ hwpe_params = [x \in Context |-> EmptyJob]
  /\ status = [x \in Context |-> 0]
  /\ offload_job_id = 0 /\ offload_job_id_incr = FALSE
  /\ running_job_id = 0 /\ running_job_id_incr = FALSE
  /\ finished_cnt = 0

(* Everything that changes at an edge whatever the access, but for the two *)
(* register arrays that only one kind of access writes.                    *)
Edge(op, done) ==
  /\ TriggeredQ(op, done)
  /\ PointerContext(op)
  /\ RunningContext(done)
  /\ PendingCounter(op, done)
  /\ RunningFsm(op, done)
  /\ ContextFsm(op)
  /\ Event(done)
  /\ SoftClear(op)
  /\ SoftClearRegfile(op)
  /\ OffloadId(op)
  /\ RunningId(done)
  /\ Status(op, done)
  /\ FinishedCnt(op, done)

(* One action per kind of access.                                          *)
NoAccess(done)       == Edge("none", done) /\ Params
                        /\ UNCHANGED offloading_core
Acquire(done)        == Edge("acquire", done) /\ Params
                        /\ UNCHANGED offloading_core
WriteTrigger(c, op, done) ==
  IsCommit(op) /\ Edge(op, done) /\ OffloadingCore(c) /\ Params
WriteReg(r, v, done) == Edge("param", done) /\ WriteParam(r, v)
                        /\ UNCHANGED offloading_core
AccessFinished(done) == Edge("finished", done) /\ Params
                        /\ UNCHANGED offloading_core
WriteSoftClear(op, done) ==
  op \in {"clear", "clear_keep"} /\ Edge(op, done) /\ Params
                        /\ UNCHANGED offloading_core

Next ==
  \E done \in BOOLEAN :
    \/ NoAccess(done)
    \/ Acquire(done)
    \/ \E c \in Core, op \in {"trigger", "commit"} : WriteTrigger(c, op, done)
    \/ \E r \in Reg, v \in Value : WriteReg(r, v, done)
    \/ AccessFinished(done)
    \/ \E op \in {"clear", "clear_keep"} : WriteSoftClear(op, done)

Spec == Init /\ [][Next]_slaveVars

-----------------------------------------------------------------------------
(* The two context pointers and the counter of pending contexts, three     *)
(* registers of three processes, describe the same ring of contexts,       *)
(* whatever the cores write and even if the counter overflows.             *)
ContextRing ==
  running_context + counter_pending - pointer_context
    \in {0, N_CONTEXT, 2 * N_CONTEXT}

(* A soft clear leaves the slave as a reset does, whatever the cores and   *)
(* the engine did in its four cycles: a trigger, a commit or a completion  *)
(* that comes too late to be cleared with the rest would start a job of    *)
(* which nobody knows.                                                     *)
QueueEmpty ==
  /\ pointer_context = 0 /\ running_context = 0 /\ counter_pending = 0
  /\ ~triggered /\ running_state = "RUN_IDLE" /\ ~start
  /\ ~is_critical /\ evt = {}

SoftClearEnds == [][clear_o /\ ~clear_o' => QueueEmpty']_slaveVars
=============================================================================
