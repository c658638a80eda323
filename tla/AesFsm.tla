------------------------------- MODULE AesFsm -------------------------------
(***************************************************************************)
(* aes_fsm with the data registers of aes_engine, and the AES core and the *)
(* streamers reduced to their handshakes.  One step is one rising clock    *)
(* edge.  A job reads its input in blocks of four words, hands each block  *)
(* to the core and writes the four words of the result.                    *)
(*                                                                         *)
(* A word of input is represented by its position in the input, and the    *)
(* ciphertext of a block by the block: what is checked is which words are  *)
(* put into which block and where the words of each result go.             *)
(***************************************************************************)
EXTENDS Naturals, Sequences

CONSTANTS
  Lengths,      (* The values of DATA_BYTE_LENGTH that jobs have.          *)
  SIZE_MOD,     (* 2^32: the range of data_size.                           *)
  BLOCK_MOD,    (* 2^16: the range of block_counter.                       *)
  FIFO_DEPTH,   (* Words in aes_output_fifo.                               *)
  STORE_DEPTH,  (* Stores in aes_output_tcdm_fifo_store.                   *)
  ZERO,         (* A cleared word.                                         *)
  NoBlock       (* The core has not produced a result yet.                 *)

ASSUME FsmAssumption ==
  /\ SIZE_MOD \in Nat /\ SIZE_MOD >= 4
  /\ Lengths \subseteq 0 .. SIZE_MOD - 1
  /\ BLOCK_MOD \in Nat \ {0}
  /\ FIFO_DEPTH \in Nat \ {0} /\ STORE_DEPTH \in Nat \ {0}
  /\ ZERO \notin Nat

VARIABLES
  state,            (* current_state                                       *)
  request_counter,  (* Word of the block; two bits.                        *)
  block_counter,
  data_size,        (* Bytes still to be read.                             *)
  length,           (* hwpe_params[DATA_BYTE_LENGTH] of the running job.   *)
  data_reg_i, core_input, data_reg_o,   (* Registers of aes_engine.        *)
  core,             (* aes_core: idle, init, load (the first cycle of      *)
                    (* CTRL_NEXT, which samples the block) or next.        *)
  core_block,       (* The block in the core.                              *)
  result_valid,
  source,           (* The streamers, as StreamerHandshake describes them. *)
  source_word,
  sink,
  output_fifo,
  inflight,
  stored            (* What the sink accepted in this job, by position.    *)

fsmVars == <<state, request_counter, block_counter, data_size, length>>
engineVars == <<data_reg_i, core_input, data_reg_o>>
coreVars == <<core, core_block, result_valid>>
streamVars == <<source, source_word, sink, output_fifo, inflight, stored>>
vars == <<fsmVars, engineVars, coreVars, streamVars>>

Words == 0 .. 3
Positions == 0 .. 4 * BLOCK_MOD - 1
Block == [Words -> Positions \cup {ZERO}]
OutWord == (Block \cup {NoBlock}) \X Words
NoStore == [p \in {} |-> ZERO]

States == {"IDLE", "START_KEY", "WAIT_KEY", "REQUEST_DATA",
           "REQUEST_DATA_WAIT", "START_CORE", "WAIT_CORE", "SEND_DATA",
           "SEND_DATA_WAIT", "MEMORY_WRITE_WAIT", "MEMORY_WRITE_DONE",
           "FINISHED"}

TypeOK ==
  /\ state \in States
  /\ request_counter \in Words
  /\ block_counter \in 0 .. BLOCK_MOD - 1
  /\ data_size \in 0 .. SIZE_MOD - 1
  /\ length \in Lengths
  /\ data_reg_i \in Block
  /\ core_input \in Block
  /\ data_reg_o \in Block \cup {NoBlock}
  /\ core \in {"idle", "init", "load", "next"}
  /\ core_block \in Block \cup {NoBlock}
  /\ result_valid \in BOOLEAN
  /\ source \in {"idle", "fetch", "word", "done"}
  /\ source_word \in Positions \cup {ZERO}
  /\ sink \in {"idle", "working", "drain"}
  /\ output_fifo \in Seq(OutWord) /\ Len(output_fifo) <= FIFO_DEPTH
  /\ inflight \in 0 .. STORE_DEPTH + 1
  /\ DOMAIN stored \subseteq Positions
  /\ \A p \in DOMAIN stored : stored[p] \in OutWord

-----------------------------------------------------------------------------
(* Outputs of the FSM, and flags it is given.                              *)
EngineClear  == state \in {"IDLE", "MEMORY_WRITE_DONE"}
SourceStart  == state = "REQUEST_DATA"
SinkStart    == state = "SEND_DATA"
DataOutValid == state = "SEND_DATA_WAIT"
SlaveDone    == state = "FINISHED"

CoreReady   == core = "idle"
SourceReady == source \in {"idle", "done"}
SourceDone  == source = "done"
SinkReady   == sink = "idle"

(* base_addr of both streamers, in words and without the base: it follows  *)
(* the counters at every moment.                                           *)
Position == request_counter + 4 * block_counter

-----------------------------------------------------------------------------
(* The surroundings of the FSM at an edge at which it is not cleared.      *)
Core ==
  /\ \/ core = "idle" /\ core' = (IF state = "START_KEY" THEN "init"
                                  ELSE IF state = "START_CORE" THEN "load"
                                  ELSE "idle")
     \/ core = "load" /\ core' = "next"
     \/ core \in {"init", "next"} /\ core' \in {core, "idle"}
  /\ core_block' = IF core = "load" THEN core_input ELSE core_block
  /\ result_valid' = IF core = "idle" /\ state \in {"START_KEY", "START_CORE"}
                     THEN FALSE
                     ELSE result_valid \/ (core = "next" /\ core' = "idle")

(* The streamers, as AesStreamer implements them.                          *)
Streams ==
  INSTANCE StreamerHandshake
    WITH source_start <- SourceStart, sink_start <- SinkStart,
         out_valid <- DataOutValid, out_word <- <<data_reg_o, request_counter>>,
         position <- Position

Stored ==
  stored' = IF state = "IDLE" THEN NoStore
            ELSE IF Streams!SinkAccepts
            THEN [p \in DOMAIN stored \cup {Position} |->
                    IF p = Position THEN Head(output_fifo) ELSE stored[p]]
            ELSE stored

(* data_reg_i has two drivers: when both are active, either may win.       *)
ZeroBlock == [w \in Words |-> ZERO]

EngineRegisters ==
  /\ data_reg_i' \in
       LET Put(b) == [b EXCEPT ![request_counter] = source_word]
       IN  IF source = "word"
           THEN IF EngineClear THEN {ZeroBlock, Put(ZeroBlock)}
                ELSE {Put(data_reg_i)}
           ELSE {IF EngineClear THEN ZeroBlock ELSE data_reg_i}
  /\ core_input' = data_reg_i
  /\ data_reg_o' = IF result_valid THEN core_block ELSE data_reg_o

Surroundings ==
  Core /\ Streams!SourceStep /\ Streams!SinkStep /\ Stored /\ EngineRegisters

-----------------------------------------------------------------------------
(* The registers of the FSM.                                               *)
(* Mutants: the counter has a third bit, or is not reset when the core is  *)
(* started.                                                                *)
NextRequestWide ==
  IF state \in {"START_CORE", "START_KEY"} THEN 0
  ELSE IF (state = "REQUEST_DATA_WAIT" /\ SourceDone) \/ state = "MEMORY_WRITE_WAIT"
       THEN request_counter + 1
  ELSE request_counter

NextRequestKeyOnly ==
  IF state = "START_KEY" THEN 0
  ELSE IF (state = "REQUEST_DATA_WAIT" /\ SourceDone) \/ state = "MEMORY_WRITE_WAIT"
       THEN (request_counter + 1) % 4
  ELSE request_counter

NextRequest ==
  IF state \in {"START_CORE", "START_KEY"} THEN 0
  ELSE IF (state = "REQUEST_DATA_WAIT" /\ SourceDone) \/ state = "MEMORY_WRITE_WAIT"
       THEN (request_counter + 1) % 4
  ELSE request_counter

NextBlock ==
  IF state = "IDLE" THEN 0
  ELSE IF state = "MEMORY_WRITE_DONE" THEN (block_counter + 1) % BLOCK_MOD
  ELSE block_counter

(* A word has been read.  The first decrement is not guarded, the next     *)
(* three stop at 0.  Mutant: none of them is guarded.                      *)
AfterWordUnguarded(n) == (n + SIZE_MOD - 4) % SIZE_MOD

AfterWord(n) ==
  LET m == IF n = 0 THEN SIZE_MOD - 1 ELSE n - 1
  IN  IF m >= 3 THEN m - 3 ELSE 0

(* data_size is assigned in an always_comb process that does not assign it *)
(* in every state: it keeps its value there, and takes the new one in the  *)
(* very cycle in which the process writes it.                              *)
DataSizeNow ==
  IF state = "START_KEY" THEN length
  ELSE IF state = "REQUEST_DATA_WAIT" /\ SourceDone THEN AfterWord(data_size)
  ELSE data_size

Registers ==
  /\ request_counter' = NextRequest
  /\ block_counter' = NextBlock
  /\ data_size' = DataSizeNow

Step(next) ==
  /\ state' = next
  /\ Registers
  /\ Surroundings

Stay(c, next) == IF c THEN next ELSE state

-----------------------------------------------------------------------------
(* One action per state of the FSM.                                        *)
StartJob(l) == state = "IDLE" /\ Step("START_KEY") /\ length' = l

WaitForStart == state = "IDLE" /\ Step("IDLE") /\ UNCHANGED length

StartKey == state = "START_KEY" /\ Step(Stay(CoreReady, "WAIT_KEY"))
            /\ UNCHANGED length

(* Mutant: the key expansion is not waited for.                            *)
WaitKeyNotReady == state = "WAIT_KEY" /\ Step("REQUEST_DATA") /\ UNCHANGED length

WaitKey == state = "WAIT_KEY" /\ Step(Stay(CoreReady, "REQUEST_DATA"))
           /\ UNCHANGED length

RequestData == state = "REQUEST_DATA"
               /\ Step(Stay(SourceReady, "REQUEST_DATA_WAIT"))
               /\ UNCHANGED length

(* The block is complete with its fourth word or with the last of the job. *)
(* Mutant: only with its fourth.                                           *)
BlockCompleteFourOnly == request_counter = 3

BlockComplete == DataSizeNow = 0 \/ request_counter = 3

RequestDataWait ==
  /\ state = "REQUEST_DATA_WAIT"
  /\ Step(Stay(SourceDone, IF BlockComplete THEN "START_CORE" ELSE "REQUEST_DATA"))
  /\ UNCHANGED length

StartCore == state = "START_CORE" /\ Step("WAIT_CORE") /\ UNCHANGED length

WaitCore == state = "WAIT_CORE" /\ Step(Stay(CoreReady, "SEND_DATA"))
            /\ UNCHANGED length

(* Mutant: the sink is not waited for.                                     *)
SendDataNotReady == state = "SEND_DATA" /\ Step("SEND_DATA_WAIT")
                    /\ UNCHANGED length

SendData == state = "SEND_DATA" /\ Step(Stay(SinkReady, "SEND_DATA_WAIT"))
            /\ UNCHANGED length

SendDataWait == state = "SEND_DATA_WAIT" /\ Step("MEMORY_WRITE_WAIT")
                /\ UNCHANGED length

MemoryWriteWait ==
  /\ state = "MEMORY_WRITE_WAIT"
  /\ Step(IF request_counter = 3 THEN "MEMORY_WRITE_DONE" ELSE "SEND_DATA")
  /\ UNCHANGED length

MemoryWriteDone ==
  /\ state = "MEMORY_WRITE_DONE"
  /\ Step(IF data_size = 0 THEN "FINISHED" ELSE "REQUEST_DATA")
  /\ UNCHANGED length

Finished == state = "FINISHED" /\ Step("IDLE") /\ UNCHANGED length

(* The soft clear of the slave reaches the FSM and the streamers, but not  *)
(* request_counter, data_size, the core or the registers of the engine.    *)
Clear ==
  /\ state' = "IDLE"
  /\ block_counter' = 0
  /\ request_counter' = NextRequest
  /\ data_size' = DataSizeNow
  /\ Core /\ EngineRegisters
  /\ Streams!Clear
  /\ UNCHANGED <<length, stored>>

Init ==
  /\ state = "IDLE" /\ request_counter = 0 /\ block_counter = 0
  /\ data_size = 0 /\ length \in Lengths
  /\ data_reg_i = ZeroBlock /\ core_input = ZeroBlock /\ data_reg_o = NoBlock
  /\ core = "idle" /\ core_block = NoBlock /\ result_valid = FALSE
  /\ Streams!Init
  /\ stored = NoStore

(* An edge at which the slave neither starts a job nor clears.             *)
Advance ==
  \/ WaitForStart \/ StartKey \/ WaitKey
  \/ RequestData \/ RequestDataWait
  \/ StartCore \/ WaitCore
  \/ SendData \/ SendDataWait \/ MemoryWriteWait \/ MemoryWriteDone
  \/ Finished

Next ==
  \/ \E l \in Lengths : StartJob(l)
  \/ Advance
  \/ Clear

Spec == Init /\ [][Next]_vars

(* The clock does not stop, the core ends every operation and the memory   *)
(* answers every request.  Nobody has to clear a job that does not end.    *)
CoreEnds == Advance /\ core # "idle" /\ core' = "idle"
SourceMoves == Advance /\ source # "idle" /\ source' # source
SinkMoves == Advance /\ sink = "drain" /\ sink' = "idle"
MemoryWrites == Advance /\ inflight > 0 /\ inflight' < inflight

FairSpec ==
  /\ Spec
  /\ WF_vars(Advance) /\ WF_vars(CoreEnds) /\ WF_vars(SourceMoves)
  /\ WF_vars(SinkMoves) /\ WF_vars(MemoryWrites)

-----------------------------------------------------------------------------
(* What a job of l bytes has to write: the words of ECB over the input,    *)
(* the last block filled up with zeros.                                    *)
InputWords(l) == (l + 3) \div 4
Blocks(l) == (l + 15) \div 16

PlainBlock(l, b) == [w \in Words |-> IF 4 * b + w < InputWords(l)
                                     THEN 4 * b + w ELSE ZERO]

Expected(l) == [p \in 0 .. 4 * Blocks(l) - 1 |-> <<PlainBlock(l, p \div 4), p % 4>>]

(* Every word that is stored is the right word of the right block at the   *)
(* right address, although addresses, input slots and output words all     *)
(* follow counters that move on without waiting for the streams; and when  *)
(* the FSM is done nothing is missing.                                     *)
OutputRight ==
  /\ \A p \in DOMAIN stored :
       p \in DOMAIN Expected(length) /\ stored[p] = Expected(length)[p]
  /\ SlaveDone => DOMAIN stored = DOMAIN Expected(length)

(* The FSM does not look at aes_output.ready: a word must find room, and   *)
(* the sink ready to take it, for it is there for one cycle with its       *)
(* address.                                                                *)
OutputAccepted == DataOutValid => output_fifo = << >> /\ sink = "working"

(* START_CORE lasts one cycle and does not look at core_ready: the core    *)
(* must be able to see core_start, even after a soft clear in mid-block.   *)
StartSeen == state = "START_CORE" => CoreReady

(* No word is read outside the input.                                      *)
ReadsInput ==
  [][source = "fetch" /\ source' = "word" => Position < InputWords(length)]_vars

(* A job that has started ends: the FSM is never left waiting for a        *)
(* handshake that does not come.                                           *)
JobEnds == state = "START_KEY" ~> state = "IDLE"

(* "Make sure data size does not overflow" (aes_fsm.sv:241).               *)
NoSizeOverflow == [][state # "START_KEY" => data_size' <= data_size]_vars
=============================================================================
