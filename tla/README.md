# Formal models of the AES HWPE

TLA+ models, TLC configurations and TLAPS proofs for the AES Hardware Processing
Engine: the accelerator's RTL (SystemVerilog and Verilog under `src/hwpe-tb/hw/ips`),
its C driver and the test application (`src/hwpe-tb/sw`), the Python reference model of
the cipher (`ips/aes/src/model/python`) and the micro-code loop scripts
(`ips/hwpe-ctrl/uloop-example`).

Paths below are shortened: `ips/` is `src/hwpe-tb/hw/ips/`.

## 1. The system

A zero-riscy core runs `test_application.c`, which calls `aes_hwpe_start`. The driver
writes the job's parameters over the peripheral bus into the register file of the HWPE
and triggers a job. The control slave queues up to two jobs ("contexts") and pulses
`start` to `aes_fsm`, which reads the input from the shared memory (TCDM) one 32-bit
word at a time, collects blocks of four words, has `aes_core` encrypt or decrypt each
block and writes the four words of the result back. When the job is over `aes_fsm`
raises `done` for one cycle; the slave frees the context and raises the event line of
the core that triggered it, which is that core's interrupt.

    core --periph--> hwpe_ctrl_slave + regfile --start/params--> aes_fsm --core_start--> aes_engine/aes_core
     ^                        |      ^                            |    ^                   |         ^
     |____ evt (irq) _________|      |_______ done _______________|    |___ ready/valid ___|         |
                                                                  v                          aes_input
                              TCDM <- store FIFO <- sink <- output FIFO <--- aes_output        FIFO
                              TCDM -> load FIFO -> source ---------------------------------->__|

Everything runs on one clock with one asynchronous reset. There are no threads: the
concurrency is that of processes which all step at every edge, against cores, a memory
and a cipher core that answer after any number of cycles.

Beside the hardware there are Python programs: `aes.py`, the reference model of the
cipher, `aes_key_gen.py`, which is its key expansion alone, `rcon.py`, a study of key
expansions, and a generator, reference nest and bytecode compiler for the micro-code loop
of the control library.

### 1.1 Inventory

| Component (source) | State it keeps | Operations | What makes it correct |
|---|---|---|---|
| **Stream FIFO** `ips/hwpe-stream/rtl/fifo/hwpe_stream_fifo.sv` | EMPTY/MIDDLE/FULL, two pointers, storage | push, pop, both, clear | it is a bounded queue; no word lost, doubled or reordered |
| **Control slave** `ips/hwpe-ctrl/rtl/hwpe_ctrl_slave.sv` | context pointers, pending counter, `triggered_q`, running FSM, critical section, offloading cores, event, soft-clear counters | ACQUIRE, TRIGGER/commit, SOFT_CLEAR, done | one offloader at a time, jobs in order, no overflow, event to the right core, every job started once |
| **Register file** `hwpe_ctrl_regfile.sv`, `hwpe_ctrl_regfile_latch.sv` | job registers per context, STATUS bytes, job ids, FINISHED counter | register writes and reads, acquire answers | a queued job's registers do not change; STATUS, ids and the queue of the slave agree although they are kept in another file |
| **Driver and HAL** `sw/aes_driver` | none in hardware; the order of its accesses | `aes_hwpe_start`, soft clear, init | each call runs exactly the job it was given |
| **Test application** `sw/test_application.c` | - | start, `wfi`, twice | wakes up |
| **AES FSM** `ips/hwpe-aes-engine/rtl/aes_fsm.sv` | state, word and block counters, bytes left | one per state, clear | right words in right blocks at right addresses; ends; never misses a handshake |
| **AES engine** `aes_engine.sv` | input, core-input and output registers | word in, result out, clear | no word of an earlier block or job in a later one |
| **AES core control** `ips/aes/src/rtl/aes_core.v` | IDLE/INIT/NEXT, ready, result_valid | init, next | result is that of the block started |
| **Key memory, round blocks** `aes_key_mem.v`, `aes_encipher_block.v`, `aes_decipher_block.v` | round counters, round keys, block registers | key expansion, rounds | decryption undoes encryption; round keys per key length |
| **Source** `ips/hwpe-stream/rtl/streamer/hwpe_stream_source.sv` | FSM, request counter, `kill_req`, `overall_none`, done | start, request, word, done, clear | each word requested once, however late it is granted; done only after it |
| **Sink** `hwpe_stream_sink.sv` | FSM, inner FIFO | start, word, drain, clear | each word stored once, at the address of its own transfer |
| **Address generator** `hwpe_stream_addressgen.sv` | overall, word, line and feature counters, flags | next address | the transfer ends when it should, and the next one starts afresh |
| **TCDM load/store FIFOs** `ips/hwpe-stream/rtl/tcdm` | request and response queues, one late answer | request, response, clear | order; room for every response; nothing stale after a clear |
| **Cipher reference model** `ips/aes/src/model/python/aes.py` | round keys, block | `key_gen`, `encipher`, `decipher`, tests | the standard's schedule; decipher undoes encipher; the published vectors |
| **Key expansion scripts** `aes_key_gen.py`, `rcon.py` | round keys | `key_gen` for two and for three key lengths | the same schedules |
| **Micro-code loop scripts** `ips/hwpe-ctrl/uloop-example/*.py`, `code.yml` | loop indices, program counter, registers | one round of the loop processor, one point of the nest, compile | additions alone yield the addresses of the nest; ends; the hardware decodes what was compiled |
| Top, control glue, wrapper `aes_top.sv`, `aes_ctrl.sv`, `aes_top_wrap.sv`, `aes_streamer.sv` | none of their own | wiring | - |
| Testbench, dummy memory | - | grant, answer, interrupt | any timing |
| zero-riscy, cell libraries, build and conversion scripts (`s19tomem.py`, `generate-scripts.py`, ...) | - | - | outside |

### 1.2 The hard behaviours

They are listed one by one, at their lines, in `PROJECT.json` under `hazards`. The kinds
that matter here:

* **Same-edge races** between a core's access and the engine's `done`: the pending
  counter, STATUS, the context pointers and the event are updated by separate processes
  in two files.
* **Interleaved cores** around ACQUIRE, decided in one file and answered in the other.
* **A job triggered while another runs**, which must be started later from
  `triggered_q` alone.
* **Soft clear**, which is seen two cycles later, lasts three, and is implemented twice
  (slave and register file), with the engine in any state, loads on their way and other
  cores on the bus.
* **Counters that move on without waiting for the data they describe**: addresses and
  slots in `aes_fsm` follow `request_counter` at every moment; the sink captures the
  address only when it takes the word; `core_start` and `aes_output.valid` are one-cycle
  pulses that do not look at the other side's ready.
* **Late grants and answers**: the source goes on requesting until its counter has been
  seen, and kills what is too much; the flags of one transfer decide when the next ends.
* **Boundaries**: pointer wrap-around, equal pointers (empty or full), `data_size` at 0,
  a partial last block, 16 bits of block counter, 8-bit ids.
* **Sequential programs with an off-by-one in reach**: the grouping of rounds and the order
  of round keys in `decipher`, the two-at-a-time schedule for 256 bits, last operation and
  last iteration of a micro-code loop, packed fields written in one language and read in
  another.

## 2. Modules

| Module | Models | Actions |
|---|---|---|
| `BoundedQueue` | abstract: what a stream FIFO promises | `Push`, `Pop`, `PushPop`, `Clear` |
| `StreamFifo` | `hwpe_stream_fifo.sv`, flip-flop variant | one per state and handshake: `PushEmpty`, `PushMiddle`, `PopMiddle`, `PushPopMiddle`, `PopFull`, `Clear` |
| `HwpeCtrlSlave` | `hwpe_ctrl_slave.sv` + `hwpe_ctrl_regfile.sv`; one operator per `always_ff` process (`TriggeredQ`, `PointerContext`, `RunningContext`, `PendingCounter`, `OffloadingCore`, `RunningFsm`, `ContextFsm`, `Event`, `SoftClear`, `OffloadId`, `RunningId`, `Status`, `FinishedCnt`, `Params`); `Edge` is their conjunction | one per kind of access: `NoAccess`, `Acquire`, `WriteTrigger`, `WriteReg`, `AccessFinished`, `WriteSoftClear`, each with or without `done` |
| `JobQueue` | abstract: what the slave promises to the cores | `Ask`, `Submit`, `Finish`, `SubmitFinish`, `Quiet`, `Clear` |
| `HwpeOffload` (extends `HwpeCtrlSlave`) | cores running `aes_hwpe_start` (`aes_hwpe.c`, `hal_aes_hwpe.h`, `test_application.c`) and the engine as the slave sees it | `CallStart`, `Program`, `AcquireJob`, `TriggerJob`, `SoftClearJobs`, `TouchFinished`, `BusIdle` |
| `StreamerHandshake` | abstract: what `aes_streamer` promises to `aes_fsm` and the engine for transfers of one word | `SourceStep`, `SinkStep`, `Clear` |
| `AesFsm` (instantiates `StreamerHandshake`) | `aes_fsm.sv`, the registers of `aes_engine.sv`, `aes_core_ctrl` | `StartJob`, one per state of the FSM, `Clear` |
| `AesStreamer` | `aes_streamer.sv`: source, sink, their address generators, all FIFOs, against the FSM as they see it and the memory; one operator per process (`SourceFsm`, `OverallNone`, `KillReq`, `RequestCnt`, `SourceAddressgen`, `LoadFifos`, `SinkFsm`, `SinkAddressgen`, `StoreFifos`, `Memory`) | `Run`, `Clear`, each with or without a grant of a load, an answer and a grant of a store |
| `AesWords` | the words, bytes and round steps of `aes.py` | operators |
| `AesKeys` (extends `AesWords`, instantiates `RconKeys`) | `key_gen` of `aes.py` and `aes_key_gen.py`, next to that of `rcon.py` | one step per round of each expansion |
| `AesCipher` (extends `AesKeys`) | `encipher` and `decipher`, called one after the other as in the tests | `ExpandKey`, `InitRound`, `MainRound`, `FinalRound`, `Decipher`, `InvInitRound`, `InvMainRound`, `InvFinalRound` |
| `RconKeys` | `key_gen` of `rcon.py`, the list of round keys after each run of its loop (`KeysAfter`) | operators |
| `MCAes` | the S-boxes, keys, blocks and expected values of the test functions | - |
| `LoopNest` | `iterate_hl_loop` of `uloop_check.py`: the reference nest | `Iterate` for each loop, `StopIteration` |
| `Uloop` (extends `LoopNest`) | `uloop_state_machine`, `uloop_execute`, `uloop_bytecode` and the main loops of `uloop_check.py` and `uloop_run.py`, with the micro-code of `code.yml` | `Update`, `IterateLoop0`, `IterateAndGotoLoop0`, `GotoNextLoop`, `Terminate` |
| `StreamFifoProofs`, `HwpeCtrlSlaveProofs`, `HwpeOffloadProofs`, `AesFsmProofs`, `AesStreamerProofs`, `AesWordsProofs`, `AesCipherProofs`, `UloopProofs` | theorems | |

**How the hardware models compose.** `StreamFifo` implements `BoundedQueue`; the FIFOs of
`AesStreamer` are such queues. `AesStreamer` implements `StreamerHandshake`, on which
`AesFsm` is built. `HwpeOffload` uses of the engine that it is either idle or ends a job
some time after `start`, which is what `JobEnds` of `AesFsm` establishes, and implements
`JobQueue`, what the software relies on.

**A step is a rising clock edge** in the hardware models. Combinational logic is an
operator over the current state; every register gets its value from the process that
drives it. In `HwpeOffload` one step is no edge: `CallStart`, a C function being entered.
In the Python models a step is one round of the program's loop. Operators whose comment
starts with "Mutant" are not part of the model: they are deliberately broken variants of
the definition that follows them, used to see that each property notices the bug.

### Abstractions, and why they are sound

* Data words in `StreamFifo` and `HwpeCtrlSlave` are members of a small set; neither
  looks at them. In `AesFsm` an input word is its position and the cipher is the identity
  on blocks tagged with the word sent: a property about which word of which block is
  stored where needs nothing more. In `AesStreamer` a word is the address it was read
  from or is meant for.
* `STATUS`, `RUNNING` and parameter reads change nothing and are part of "no access". The
  software-event register, the extension registers and the generic registers are not used
  by the AES engine or its driver and are left out.
* The enable delay and the first clear of the latches after reset are folded into `Init`
  (they end before the first access can do anything).
* `N_CONTEXT` is taken to be a power of two, as in the project (2), so that a pointer of
  `$clog2(N_CONTEXT)` bits wraps there.
* In `HwpeOffload` a core that issues a soft clear stays off the bus until it has ended
  (`Settled`), and issues none while another core is in `aes_hwpe_start`. Nothing in the
  hardware enforces this; it is a rule for the software. `HwpeCtrlSlave` has no such rule.
* `FINISHED` is reset by any access whose address bits match, and the address is not gated
  by the request; `TouchFinished` is that.
* `test_application.c` executes `wfi` after the driver returns; the model lets the core
  sleep right at the trigger. A job that ends between the trigger and `wfi`, and whose event
  is over before the core sleeps, is therefore not in the model: how many cycles lie between
  the two is a matter of the compiled driver and the pipeline of the core.
* An access carries the id of one core: `periph.id` is taken to be one-hot, as the models of
  the cores make it. With no bit or several bits set `hwpe_ctrl_slave.sv:114-116` would store
  no core, or the last one.
* `data_size` in `aes_fsm.sv` is assigned in an `always_comb` process in some states only;
  it is modelled as the latch that synthesis infers (`DataSizeNow`).
* `data_reg_i` of `aes_engine.sv` is written by a clearing process and by a loading one;
  when both are active either may win.
* Transfers in `AesStreamer` are those that `aes_fsm` configures: `trans_size` 1, all
  strides 0, aligned addresses. The realigners and the one-port fence then pass everything
  on, every address is `base_addr`, and `request_cnt` and the overall counters only matter
  as 0 or not 0. `trans_size - 2` is the 32-bit number 0xffffffff
  (`trans_size_m2`), for which `in_progress` tells whether the count is still 0.
* The engine takes a word from `aes_input_fifo` in the cycle in which it is offered
  (`aes_input.ready` is `aes_input.valid`, `aes_engine.sv:139`).
* A byte or a word of the cipher is the set of its one bits: exclusive or is symmetric
  difference, a shift moves the members. The S-boxes are constants with the assumption
  that one inverts the other; `MCAes` gives them the values of `aes.py`.
* `AesCipher` keeps the blocks and round keys of the first call in two history variables.
* `Uloop` chooses the shape of the convolution in `Init` where the scripts take it from
  the command line. The number of rounds after which the scripts give up (10^6) is never
  reached within the bounds and left out, as are operands given by register number and
  the fallback for unknown mnemonics, which `code.yml` does not use.

## 3. What is checked

The hardware never stops by itself, so deadlock is checked in all its runs; the Python
programs end, so `aes`, `uloop` and `uloop_loops` say `CHECK_DEADLOCK FALSE`.

| Run | Instance | Shows |
|---|---|---|
| `fifo` | depth 4, 3 words | `OccupancyOK`: state and pointers agree. `QueueSpec`: refinement of `BoundedQueue` |
| `slave` | 2 contexts, 1 core, 1 register of 2 values, ids modulo 2, arbitrary accesses and `done` | `ContextRing`: pointers and pending counter describe one ring even when the software misbehaves and the counter overflows. `SoftClearEnds`: whatever other accesses do meanwhile, a soft clear ends with the slave as after reset |
| `offload` | 2 cores, 2 contexts, 2 registers, ids modulo 4, ACQUIRE before programming, soft clears | `CriticalSection`, `PendingBounded`, `StatusAgrees`, `JobIdsAgree`, `EngineInStep`, and `JobQueueSpec`: refinement of `JobQueue`, i.e. jobs run in order, unchanged, and the right core is told |
| `driver_live` | 1 core in the driver's own order, not waiting between calls | `JobsFinish`: every triggered job is executed; `AcquireEnds`: the loop on ACQUIRE ends |
| `driver_sleep` | 1 core in the driver's own order, `wfi` after each call, as in the test application | `JobQueueSpec` for the driver; `SleepEnds`: a core that sleeps from its trigger on is woken up |
| `driver_overwrite` (violation) | the driver without the `wfi` | see findings |
| `fsm` | lengths 1, 4, 12, 16, 17, 35, 64; every timing of core and memory; a clear at any moment | `OutputRight` (right word of the right block at the right address, all there at `done`), `OutputAccepted`, `StartSeen`, `ReadsInput`, `JobEnds` |
| `fsm_zero_length` (violation) | lengths 0 and 4 | see findings |
| `streamer` | 3 addresses, FIFO depths 2 and 4, answers after at most 2 cycles, clears of 3 cycles at any moment | `InputRight`: the engine is only given the word it is waiting for, once. `StoresRight`: a word finds the sink working, and its store has its own address. `HandshakeSpec`: refinement of `StreamerHandshake`. `TransfersEnd`: a word asked for arrives, a word offered is taken |
| `aes` | the 9 keys of the tests, of both lengths, and the 4 blocks of `test_aes`, with the real S-boxes | `FollowsFips`: round keys computed four words at a time are those of the standard's word-by-word schedule. `KeyVectorsMatch`, `NistVectorsMatch`: the published round keys and cipher texts. `Rcon128Agrees`: `rcon.py` has the same keys for 128 bits. `DecipherRetraces`: after each round of `decipher` the block is one that `encipher` went through |
| `uloop` | all shapes up to 3 x 3 outputs, filters up to 3 x 3, up to 3 tiles of input and output channels, tiles of 128 | `NoErrors`: at every point the registers are the addresses of the nest. `EveryPointShown`, `Terminates`. `ImplementsNest`: the loop processor by itself refines `LoopNest`. `CodeDecodes`: the hardware's packed type reads the operation at the program counter |
| `uloop_loops` (violation) | shapes with up to 2 tiles | see findings |

The invariant `TypeOK` (`OffloadTypeOK`) of each module is part of its run; in `AesKeys`,
`Uloop` and `HwpeOffload` it relates counters to the data they count.

### Bounds

* FIFO depth 4 wraps both pointers, meets full and empty at every pointer position, and
  is the depth the streamer uses for its TCDM FIFOs. Depth 2 and all powers of two are
  covered by the proofs.
* Two contexts and two cores are the hardware's numbers for contexts and the smallest
  number of cores that compete; two registers allow a half-programmed job.
  `ID_MOD` stands for 256. It only has to exceed `N_CONTEXT + 1` to tell the live ids
  apart, so 4 makes the counters wrap often.
* `BLOCK_MOD` and `SIZE_MOD = 128` stand for 2^16 and 2^32. In `fsm` `BLOCK_MOD` is 4 and
  the largest length, 64, fills four blocks: it is the longest job that `block_counter` can
  count, which wraps when the last block has been written. A longer one would write over
  its own first blocks (observations in section 5).
* The lengths cover less than a word, one word, a partial block, exact blocks, a block
  and a byte, a last block with a partial word, and four blocks.
* `streamer` has the FIFO depths of `aes_streamer.sv`. Three addresses tell the word
  before, the present and the next one apart. An answer in 1 or 2 cycles comes before and
  after each of the source's own steps; a grant may take any number of cycles. A clear of
  three cycles is the slave's; that no answer takes longer than a clear is an assumption
  (`StreamerAssumption`) without which `InputRight` would be false.
* `MAX_OUT`, `MAX_FS` and `MAX_TILES` of 3 let every loop run once, twice (first and last)
  and with an iteration in the middle, with all loops inside and outside of it doing each.
* No state constraint is used; every state space is finite by itself.

### Fairness

* `WF(BusIdle)`: the clock runs and the bus is not used at every edge for ever.
* `WF(EngineFinishes)`: a job ends (what `JobEnds` of `AesFsm` establishes for it).
* `WF(CoreSteps(c))`: a core inside `aes_hwpe_start` goes on executing it. No core is
  obliged to call it again or to clear the slave.
* In `AesFsm`: `WF(Advance)`, the clock; `CoreEnds`, every key expansion and block takes a
  bounded number of cycles (fixed round counts in `aes_key_mem.v` and the round blocks);
  `SourceMoves`, `SinkMoves`, `MemoryWrites`, which `TransfersEnd` of `AesStreamer` stands
  behind. No fairness of `Clear` or `StartJob`.
* In `AesStreamer`: `WF(Advance)`, the clock, without ever having to start a clear;
  `WF(GrantsLoad)` and `WF(GrantsStore)`, the memory grants what is requested for long
  enough. That it answers is part of the model (`MAX_LATENCY`).
* `Uloop` has `WF(Next)`: a sequential program that is not stopped.

## 4. What is proved

All theorems hold for every value of the constants that satisfies the named assumptions.

**`StreamFifoProofs`** under `FifoAssumption` and `POINTER_MOD = FIFO_DEPTH` (the depth is
a power of two, as everywhere in the streamer): `TypeCorrect`, `Occupancy`, and
`ImplementsQueue`: `Spec => QueueSpec`. `OccupancyOK` is inductive together with the types.
For the refinement, each action is shown to map the sequence `Contents` (count, then
element by element through `Slot`) to the matching action of `BoundedQueue`.

**`HwpeCtrlSlaveProofs`** under `SlaveAssumption`: `TypeCorrect`, `RingAlways` and
`SoftClearAlwaysEnds`. The ring equation is inductive with the types for arbitrary
accesses, since its three registers move by the same commits, dones and clears, even past
an overflow. That a soft clear leaves nothing behind is an action property: the last edge
of the clear resets every register of the queue, whatever access comes with it.

**`HwpeOffloadProofs`** under `SlaveAssumption` and `OffloadAssumption`, for any number of
cores, contexts and registers, both orders of ACQUIRE and programming, with or without
sleeping: `OffloadTypeCorrect`, `OneOffloader`, `NeverTooManyJobs`, `StatusAlways`,
`JobIdsAlways`, `EngineAlwaysInStep`. The inductive invariant `IInv` is their conjunction
and the following, each with the reason it is there:

* `ContextRing`: turns "how many are pending" into "which are pending" (`Offset`);
* `Lockstep`: the slave and the register file clear at the same edges, else STATUS and ids
  would survive a clear of the queue. It needs that the driver only writes 0 to SOFT_CLEAR;
* `ClearQuiet`: no core is between ACQUIRE and TRIGGER when a clear resets the critical
  section;
* `Requested`: the request of a core that programs is a job, for the type of the registers;
* `Room`: whoever holds the critical section finds a free context, so the counter never
  passes `N_CONTEXT`;
* `WorkPending`: while the slave works, some context is pending, so a `done` never
  decrements 0;
* `StartPulse`: `start` is high only in the first cycle of RUN_RUN with an idle engine,
  which links `RUN_RUN` to the engine.

The proof has one lemma per conjunct about the edge seen from the slave and the engine
(`LockstepEdge` ... `IdsEdge`, under `BusEdge`, which is all the cores promise to the
slave), and one lemma per action of the cores (`CallStartKeeps` ... `SoftClearJobsKeeps`).

The same module proves the refinement `ImplementsJobQueue`: `OffloadSpec => JobQueueSpec`
under the hypothesis `Disciplined`: every core acquires before it programs, or there is one
core and it sleeps until its job is done. The first is the protocol of the slave (run
`offload`), the second is what the test application does with the driver (`driver_sleep`);
without either the refinement is false, which is finding 1. For the proof `IInv` is
strengthened to `QInv`:

* `LoadInv`: a core outside of `aes_hwpe_start` asks for nothing, and what a core inside it
  has written so far is, unchanged, in the context at `pointer_context` (`LoadOK`);
* `OneAtATime`: in the driver's order at most one job is pending, and while one is, every
  core sleeps and no event is up.

`ContentsEdge` says what an edge does to the queue of the refinement mapping (its contexts,
counted from `running_context`, with their cores and registers): it loses its first
entry with `done`, gains one with a commit, both, or is emptied. `ReadsKeepEntries`,
`ProgramSimulates` and `TriggerSimulates` map the actions of the cores to those of
`JobQueue`; the lemmas `CallStartQueue` ... `TriggerQueue` keep `QInv`.

Three theorems at the end of the module say why the liveness properties of this component
hold (see *Progress* below), each for every configuration, disciplined or not:

* `JobsAdvance`: a pending job has `StagesLeft(x)` stages before it, five for each job up
  to its own, and comes exactly one nearer at every edge, except while the engine works on
  the first; at 0 it leaves and the event of its own core is raised. It needs
  `StillTriggered`: the end of one job does not take the trigger of the next one away;
* `NoWakeUpLost`: a core that sleeps has its event high or a pending job of its own
  (`WakeUpComes`), the core sleeping from its trigger on;
* `AcquireNotRefused`: ACQUIRE is refused only while another core is between its ACQUIRE
  and its TRIGGER, or while STATUS shows a job in every context.

**`AesFsmProofs`** under `FsmAssumption`, for any FIFO depths and every timing. Two of its
theorems have the hypothesis `NoEmptyJob`, no job has length 0, and no bound on the
lengths but the 32 bits of the register: `ReadsOnlyInput`, no word behind the input is read, and `NoOverflow`, `data_size`
never wraps (`NoSizeOverflow`), the counterpart of finding 2. Both are false for the empty
job, which reads the word at position 0. The others have the hypothesis `LengthsFit`: no job
has length 0 or more blocks than `block_counter` counts. These are `FsmTypeCorrect`,
`OutputAlwaysRight`, `OutputAlwaysAccepted`, `StartAlwaysSeen` and `JobProgresses`. Their
inductive invariant is, by what it relates:

* `StreamsInStep`: the phase of source and sink to the state of the FSM. The FSM cannot
  see either of them; that the sink works exactly in two states is why an offered word is
  taken;
* `CoreInStep`: the core is only at work in the two waiting states, or after a soft clear,
  in which case the next `START_KEY` waits for it;
* `CountersRight`: `data_size` is what is left after the words read so far (`Left`), and
  the block counter stays below the number of blocks;
* `DataRight`: the input register holds the words read of this block and zeros behind them
  (`Filled`), the core and the output register the block that is being sent;
* `StoredRight`: exactly the first so many words of the result are stored (`StoredUpTo`),
  the number depending on the state.

Four lemmas say what an edge does to the surroundings (`SourceEdge`, `SinkEdge`,
`CoreEdge`, `EngineEdge`), then each state of the FSM has a lemma with one step per
conjunct (`RequestDataKeeps` and so on), and `ClearKeeps` is the soft clear.

`ReadsOnlyInput` and `NoOverflow` have a smaller invariant, `ReadInv`, which survives a wrap
of `block_counter`: while a block is read, some bytes are left and four times the position
plus these bytes is at most the length. That is an inequality where `CountersRight` has an
equation, so a position that falls back keeps it.

`JobProgresses` counts what is left of a job: at most 6 stages for the key and 41 for each
block (`StagesLeft`). The count is 0 exactly when the FSM is idle, and an edge without a
soft clear decreases it, or keeps it while the FSM waits for the core, the memory or the
sink (`Waits`). It rests on `StreamsInStep` and `CoreInStep`: these say that whoever the FSM
waits for is indeed at work.

**`AesStreamerProofs`** under `StreamerAssumption`, for any depths, latencies, addresses
and clears longer than the latency: `StreamerTypeCorrect`, `InputAlwaysRight`,
`StoresAlwaysRight` and the refinement `StreamerImplements`: `Spec => HandshakeSpec`, with
which the abstraction under `AesFsm` rests on the RTL. The invariant says that a read is in
exactly one place (`WordIn`: request queue, memory, response queue, misaligned FIFO, input
FIFO), which flags of the source belong to which place (`SourceRequests`, `SourceWaits`,
`SourceRests`), the phases of the sink (`SinkRests`, `SinkExpects`, `SinkDrains`), and that
a load which a clear has overtaken is old enough to be answered before the clear ends
(`ClearInv`). `LoadEdge` and `WordMoves` follow the word through the FIFOs for one edge;
`SourceRuns`, `SinkRuns` and `ClearKeeps` keep the parts of the invariant;
`SourceImplements` and `SinkImplements` map the edge to the abstract steps.
`TransfersAdvance` counts the edges of a transfer: a word that `aes_fsm` awaits is at most
`MAX_LATENCY + 5` edges away (`EdgesToWord`, by the place the word is in), the sink is at
most 5 edges from taking the next word (`EdgesToSink`). Every edge without a soft clear brings
it nearer, unless the memory does not grant the load, or grants no store while the
queue of stores is full (`ReadEdge`, `OfferEdge`).

**`AesWordsProofs`** under `SboxAssumption` (the tables have the types of bytes and one
inverts the other): `RoundInverse`, a round of `decipher` undoes one of `encipher`. The
hard part is `inv_mixw(mixw(w)) = w`: doubling in GF(2^8) is linear over exclusive or, so
every byte of the product is a sum of multiples of the four bytes in which everything but
one byte cancels.

**`AesCipherProofs`** under `KeysAssumption` and `BlocksAssumption`, for any keys of 128 or
256 bits and any blocks: `TypeCorrect`, `FollowsStandard` and `Retraces`. The round keys
satisfy a recurrence on whole round keys (`Recurrence`), which implies the standard's on
words by cases on the word's place. `decipher` expands the key again, so the invariant says
that its round keys are those used before as far as they have been computed (`SameKeys`)
and that the trace is a chain of rounds with them (`TraceRight`); `RoundInverse` then takes
`decipher` from each block of the trace to the one before.
`RconAgrees` is the equivalence of two programs: for every key of 128 bits the loop of
`rcon.py`, which has one rule for all key lengths, ends with the round keys of `key_gen`. The rules are the same on words (`SameRule`), and a
list that follows the recurrence is the one that the loop builds, run by run (`SameList`).

**`UloopProofs`** under `NestAssumption`, for every shape of convolution and every tile
size: `UloopTypeCorrect`, `AddressesAgree`, `AllPoints`, `BytecodeDecodes` and the
refinement `UloopIsANest`: `Spec => ImplementsNest`. The invariant `UInv` consists of the
types and

* `SamePoint`: processor and reference nest are at the same point, the loops within the
  current one have come to their end, and operations are only executed in a loop that goes
  on. It is what makes `NestNext` possible in exactly the loop that the processor is in;
* `RegistersFollow`: the registers hold the addresses of the point, and, in the middle of
  a loop's operations, what those done so far have added or reset; `x_major` is the first
  input of the row under the filters;
* `PointsShown`: the number of points shown is the number of points before this one, in
  the mixed radix of the loop bounds (`Number`).

The heart of it is `Growth`: when a loop goes on and all those within it start over, every
address changes by the constant that the micro-code adds (or starts from `x_major`),
although it is a sum of products of the shape's parameters; the lemmas `GrowW`, `GrowX`,
`GrowY` and `GrowMajor` isolate the products. `Counting` does the same for the number of
points. `Executed` says what each operation of the micro-code does to the registers, and
there is one lemma per step of the processor (`UpdateStep`, `IterateStep`,
`GotoNextLoopStep`, `TerminateStep`). For `BytecodeDecodes`, `CodeBitsStep` puts the
bits of one more operation in front of the others, `FieldValue` computes what a packed
field of one or five bits holds, and `Decodes` joins them for each of the 17 addresses; the
invariant says that the program counter stays among these. `RoundsBounded` is about the
number of rounds: `24 * (Points - nb_iter) - 4 * loop - op` is a natural number that every
step decreases, so the processor stops after at most 24 rounds for each point.

**Progress.** For each liveness property a theorem states what does not depend on fairness:
a count that every step decreases, or the one process that is waited for.

| liveness property | theorem | what fairness adds |
|---|---|---|
| `JobsFinish` | `JobsAdvance` | the clock runs and the engine finishes a job |
| `AcquireEnds` | `AcquireNotRefused`, `JobsAdvance` | the same, and the core asks again |
| `SleepEnds` | `NoWakeUpLost`, `JobsAdvance` | the same, and a core that is told wakes up |
| `JobEnds` | `JobProgresses` | the clock runs, core and memory answer |
| `TransfersEnd` | `TransfersAdvance` | the clock runs, the memory grants |
| `Terminates` | `RoundsBounded` | the script is not stopped |

**Only model-checked:** the liveness properties themselves, since fairness and ENABLED are
outside what the prover does, and the test vectors (`KeyVectorsMatch`, `NistVectorsMatch`:
statements about the particular tables of `aes.py` and nine keys, which TLC computes). Every
other property that a passing run checks is a theorem. The three properties of the violation
runs are false as they stand; for two of them a theorem says under which hypothesis they
hold (`ImplementsJobQueue`, `NoOverflow`).

## 5. Findings

Each is the counterexample of a run and is detailed in `PROJECT.json`.

1. `driver_overwrite`: `aes_hwpe_start` writes the job registers before it acquires a
   context; when both contexts are in use it overwrites the parameters of a pending job.
2. `fsm_zero_length`: a length of 0 wraps `data_size`.
3. `uloop_loops`: `uloop_compile.py` packs a loop into 5 + 3 bits; `uloop_loops_t` of the
   hardware has 5 + 4, so from the second loop on the fields come from the wrong bits.

Observations made while modelling, which no run reports:

* `hwpe_stream_fifo.sv`: from EMPTY, `push_pointer` is incremented without a comparison
  with `FIFO_DEPTH-1` (line 152), so depths that are multiples of 2 but not powers of two,
  which the comment on line 37 allows, lose words: with depth 6 and pointers of 3 bits the
  push pointer comes to 6 where the pop pointer wraps to 0. `StreamFifo` can be given such
  constants (`POINTER_MOD = 8`), and `QueueSpec` fails then; the run and the proof have
  powers of two. The AES streamer only uses 2 and 4.
* `hwpe_ctrl_slave.sv`: `triggered_q` is cleared only by a soft clear (lines 92, 198), so
  after the first trigger a plain commit starts the engine as well.
* `hwpe_ctrl_regfile.sv`: a completion at an edge at which FINISHED is addressed is not
  counted (406, 416); the registers 32 to 47 of a context alias those of the other (171).
* An ACQUIRE at the last edge of a soft clear is answered with an id although the critical
  section is not entered; hence `Settled`.
* `aes_fsm.sv`: jobs of more than 2^16 blocks (1 MB) write over their first blocks (line
  46), while the repository's `README.md:23` speaks of 4 GB.
* `aes_fsm.sv` raises `done` when the last word has been accepted by the sink; stores may
  still be on their way (`inflight` of `AesFsm` can be above 0 in FINISHED).
* `hwpe_stream_source.sv`: with `trans_size` 1 and a consumer that stalls for three cycles
  the source would stay in STREAM_WORKING for ever. The AES engine never stalls it.
* `rcon.py`: `key_gen` applies the 128-bit rule to keys of 256 bits (line 169); the
  vectors for those are commented out. `sam_128_bit_key_expansion` (219-246) advances its
  index once for each word instead of each byte; its result is only printed.
* `aes_key_gen.py` and `aes.py` have the same functions for the key expansion, line by line.

## 6. Not modelled, and the plan

Not modelled for good: the zero-riscy core, clock generation and file loading of the
testbench, the vendored cell libraries and the parts of the HWPE libraries that the
accelerator does not instantiate (micro-code loop in hardware, address generators v2/v3,
serializers, muxes), latch-based FIFO variants, the single-context variant of the slave,
transfers of more than one word or with strides or misaligned addresses, which `aes_fsm`
never configures, and the build and conversion scripts (`generate-scripts.py`,
`ipstools_cfg.py`, `s19tomem.py`), which run tools or convert a file line by line.
Printing, logging and the YAML reader of the scripts are left out.

What the Verilog key memory and round blocks compute is modelled from the reference model,
not from those files.

What is left, most important first:

1. The controllers of `aes_key_mem.v`, `aes_encipher_block.v` and `aes_decipher_block.v`
   with `aes_core_ctrl`: round keys written before they are read, and the ready/valid
   behaviour that `AesFsm` assumes, as a refinement; then that they compute the rounds of
   `AesCipher`.
2. A composition of `HwpeOffload` and `AesFsm` over their `start`/`done` interface.
3. The address generator for general transfers, for other users of the library.
4. Soft clears without `Settled` and with non-zero data.
