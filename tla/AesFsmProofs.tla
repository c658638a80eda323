---------------------------- MODULE AesFsmProofs ----------------------------
(***************************************************************************)
(* Proofs about aes_fsm, for every timing of the core, the streamers and   *)
(* the memory, and with soft clears at any edge: for jobs that are not     *)
(* empty and fit the block counter (LengthsFit), and for what is read, for *)
(* all jobs that are not empty (NoEmptyJob).                               *)
(***************************************************************************)
EXTENDS AesFsm, Integers, TLAPS

(* What a job must not be: empty, or longer than block_counter can count.  *)
LengthsFit == \A l \in Lengths : l > 0 /\ Blocks(l) <= BLOCK_MOD

Reading == state \in {"REQUEST_DATA", "REQUEST_DATA_WAIT"}
Ciphering == state \in {"START_CORE", "WAIT_CORE"}
Sending == state \in {"SEND_DATA", "SEND_DATA_WAIT", "MEMORY_WRITE_WAIT"}

-----------------------------------------------------------------------------
(* The inductive invariant.  The streams follow the FSM in lockstep.       *)
StreamsInStep ==
  /\ source = "idle" <=> state # "REQUEST_DATA_WAIT"
  /\ source = "word" => source_word = Position
  /\ sink = "working" <=> state \in {"SEND_DATA_WAIT", "MEMORY_WRITE_WAIT"}
  /\ output_fifo = IF state = "MEMORY_WRITE_WAIT"
                   THEN <<<<data_reg_o, request_counter>>>> ELSE << >>
  /\ inflight > STORE_DEPTH => sink = "drain"

(* Only a soft clear leaves the core at work without the FSM.              *)
CoreInStep ==
  /\ state = "WAIT_KEY" => core \in {"init", "idle"}
  /\ state = "WAIT_CORE" => core \in {"load", "next", "idle"}
  /\ (Reading \/ Sending \/ state \in {"START_CORE", "MEMORY_WRITE_DONE"}) =>
       core = "idle"

(* The bytes that are left when n words have been read.                    *)
Left(n) == IF length > 4 * n THEN length - 4 * n ELSE 0

CountersRight ==
  /\ state \in {"START_KEY", "WAIT_KEY"} => block_counter = 0
  /\ state = "WAIT_KEY" => data_size = length
  /\ state \in {"WAIT_KEY", "WAIT_CORE", "MEMORY_WRITE_DONE"} => request_counter = 0
  /\ Reading => Position < InputWords(length) /\ data_size = Left(Position)
  /\ (Ciphering \/ Sending \/ state = "MEMORY_WRITE_DONE") =>
       /\ block_counter < Blocks(length)
       /\ data_size = Left(4 * block_counter + 4)

(* The block of which the first n words have been read.                    *)
Filled(n) == [w \in Words |-> IF w < n THEN 4 * block_counter + w ELSE ZERO]

DataRight ==
  /\ state \in {"START_KEY", "WAIT_KEY"} => data_reg_i = ZeroBlock
  /\ Reading => data_reg_i = Filled(IF source = "done" THEN request_counter + 1
                                    ELSE request_counter)
  /\ Ciphering => data_reg_i = PlainBlock(length, block_counter)
  /\ state = "WAIT_CORE" =>
       /\ core_input = data_reg_i
       /\ core # "load" => core_block = data_reg_i
       /\ core = "idle" => result_valid
  /\ Sending => /\ result_valid
                /\ core_block = PlainBlock(length, block_counter)
                /\ data_reg_o = PlainBlock(length, block_counter)

(* Of the result exactly the first n words have been stored.               *)
StoredUpTo(n) ==
  /\ DOMAIN stored = 0 .. n - 1
  /\ \A p \in 0 .. n - 1 : stored[p] = <<PlainBlock(length, p \div 4), p % 4>>

StoredRight ==
  /\ state = "IDLE" => \E n \in 0 .. 4 * Blocks(length) : StoredUpTo(n)
  /\ state \in {"START_KEY", "WAIT_KEY"} => StoredUpTo(0)
  /\ (Reading \/ Ciphering) => StoredUpTo(4 * block_counter)
  /\ Sending => StoredUpTo(Position)
  /\ state = "MEMORY_WRITE_DONE" => StoredUpTo(4 * block_counter + 4)
  /\ state = "FINISHED" => StoredUpTo(4 * Blocks(length))

IInv == /\ TypeOK /\ StreamsInStep /\ CoreInStep /\ CountersRight
        /\ DataRight /\ StoredRight

-----------------------------------------------------------------------------
(* What an edge does to the surroundings of the FSM in each of its states. *)
LEMMA SourceEdge ==
  ASSUME TypeOK, StreamsInStep, Streams!SourceStep
  PROVE  /\ source' \in {"idle", "fetch", "word", "done"}
         /\ source_word' \in Positions \cup {ZERO}
         /\ source' = "word" => source_word' = Position
         /\ state = "REQUEST_DATA" => source' = "fetch"
         /\ state \notin {"REQUEST_DATA", "REQUEST_DATA_WAIT"} => source' = "idle"
         /\ state = "REQUEST_DATA_WAIT" /\ source = "done" => source' = "idle"
         /\ state = "REQUEST_DATA_WAIT" /\ source # "done" => source' # "idle"
         /\ source' = "done" <=> source = "word"
<1>1. Position \in Positions
  BY FsmAssumption DEF TypeOK, Position, Positions, Words
<1>2. QED
  BY <1>1 DEF TypeOK, StreamsInStep, Streams!SourceStep, SourceStart

LEMMA SinkEdge ==
  ASSUME TypeOK, StreamsInStep, Streams!SinkStep
  PROVE  /\ sink' \in {"idle", "working", "drain"}
         /\ inflight' \in 0 .. STORE_DEPTH + 1
         /\ inflight' > STORE_DEPTH => sink' = "drain"
         /\ Streams!SinkAccepts <=> state = "MEMORY_WRITE_WAIT"
         /\ sink' = "working" <=> \/ state = "SEND_DATA" /\ SinkReady
                                  \/ state = "SEND_DATA_WAIT"
         /\ output_fifo' = IF state = "SEND_DATA_WAIT"
                           THEN <<<<data_reg_o, request_counter>>>> ELSE << >>
<1> USE FsmAssumption DEF TypeOK, StreamsInStep
<1>1. Streams!SinkAccepts <=> state = "MEMORY_WRITE_WAIT"
  BY DEF Streams!SinkAccepts
<1>2. sink' = "working" <=> \/ state = "SEND_DATA" /\ SinkReady
                            \/ state = "SEND_DATA_WAIT"
  BY <1>1 DEF Streams!SinkStep, SinkStart, SinkReady
<1>3. sink' \in {"idle", "working", "drain"}
  BY <1>1 DEF Streams!SinkStep
<1>4. inflight' \in 0 .. STORE_DEPTH + 1 /\ (inflight' > STORE_DEPTH => sink' = "drain")
  <2>1. PICK written \in 0 .. 1 :
          /\ written <= inflight
          /\ inflight' = (inflight - written) + (IF Streams!SinkAccepts THEN 1 ELSE 0)
    BY DEF Streams!SinkStep
  <2>2. inflight \in Nat /\ STORE_DEPTH \in Nat
    OBVIOUS
  <2>3. CASE sink = "drain"
    <3>1. ~Streams!SinkAccepts
      BY <2>3 DEF Streams!SinkAccepts
    <3>2. sink' = "drain" \/ inflight <= STORE_DEPTH
      BY <2>3 DEF Streams!SinkStep
    <3>3. QED
      BY <2>1, <2>2, <3>1, <3>2
  <2>4. CASE sink # "drain"
    <3>1. inflight <= STORE_DEPTH
      BY <2>4, <2>2
    <3>2. Streams!SinkAccepts => sink' = "drain"
      BY DEF Streams!SinkStep, Streams!SinkAccepts
    <3>3. QED
      BY <2>1, <2>2, <3>1, <3>2
  <2>5. QED
    BY <2>3, <2>4
<1>5. output_fifo' = IF state = "SEND_DATA_WAIT"
                     THEN <<<<data_reg_o, request_counter>>>> ELSE << >>
  <2>1. PICK word : word = <<data_reg_o, request_counter>>
    OBVIOUS
  <2>2. Tail(<<word>>) = << >> /\ Append(<< >>, word) = <<word>> /\ Len(<< >>) = 0
    OBVIOUS
  <2>3. CASE state = "MEMORY_WRITE_WAIT"
    <3>1. output_fifo = <<word>> /\ ~DataOutValid
      BY <2>1, <2>3 DEF DataOutValid
    <3>2. output_fifo' = Tail(output_fifo)
      BY <1>1, <2>3, <3>1 DEF Streams!SinkStep
    <3>3. QED
      BY <2>2, <2>3, <3>1, <3>2
  <2>4. CASE state # "MEMORY_WRITE_WAIT"
    <3>1. output_fifo = << >>
      BY <2>4
    <3>2. output_fifo' = IF DataOutValid THEN Append(output_fifo, word) ELSE output_fifo
      BY <1>1, <2>1, <2>2, <2>4, <3>1 DEF Streams!SinkStep
    <3>3. QED
      BY <2>1, <2>2, <3>1, <3>2 DEF DataOutValid
  <2>5. QED
    BY <2>3, <2>4
<1>6. QED
  BY <1>1, <1>2, <1>3, <1>4, <1>5

LEMMA CoreEdge ==
  ASSUME TypeOK, CoreInStep, Core
  PROVE  /\ core' \in {"idle", "init", "load", "next"}
         /\ core_block' = IF core = "load" THEN core_input ELSE core_block
         /\ result_valid' \in BOOLEAN
         /\ state = "START_KEY" /\ CoreReady => core' = "init"
         /\ state = "WAIT_KEY" => core' \in {"init", "idle"}
         /\ state = "WAIT_KEY" /\ CoreReady => core' = "idle"
         /\ state = "START_CORE" => core' = "load"
         /\ state = "WAIT_CORE" =>
              /\ core = "load" => core' = "next"
              /\ core' \in {"next", "idle"}
              /\ core = "idle" => core' = "idle"
              /\ result_valid \/ (core = "next" /\ core' = "idle") => result_valid'
         /\ (Reading \/ Sending \/ state = "MEMORY_WRITE_DONE") =>
              core' = "idle" /\ (result_valid => result_valid')
<1> USE DEF TypeOK, CoreInStep, Core, CoreReady, Reading, Sending
<1>1. core' \in {"idle", "init", "load", "next"}
  OBVIOUS
<1>2. result_valid' \in BOOLEAN
  BY Zenon
<1>3. core_block' = IF core = "load" THEN core_input ELSE core_block
  OBVIOUS
<1>4. state = "START_KEY" /\ CoreReady => core' = "init"
  OBVIOUS
<1>5. state = "WAIT_KEY" => core' \in {"init", "idle"} /\ (CoreReady => core' = "idle")
  OBVIOUS
<1>6. state = "START_CORE" => core' = "load"
  OBVIOUS
<1>7. ASSUME state = "WAIT_CORE"
      PROVE  /\ core = "load" => core' = "next"
             /\ core' \in {"next", "idle"}
             /\ core = "idle" => core' = "idle"
             /\ result_valid \/ (core = "next" /\ core' = "idle") => result_valid'
  BY <1>7
<1>8. ASSUME Reading \/ Sending \/ state = "MEMORY_WRITE_DONE"
      PROVE  core' = "idle" /\ (result_valid => result_valid')
  BY <1>8
<1>9. QED
  BY <1>1, <1>2, <1>3, <1>4, <1>5, <1>6, <1>7, <1>8

LEMMA EngineEdge ==
  ASSUME TypeOK, StreamsInStep, EngineRegisters
  PROVE  /\ data_reg_i' \in Block /\ core_input' \in Block
         /\ data_reg_o' \in Block \cup {NoBlock}
         /\ data_reg_i' = IF source = "word"
                          THEN [data_reg_i EXCEPT ![request_counter] = Position]
                          ELSE IF EngineClear THEN ZeroBlock ELSE data_reg_i
         /\ core_input' = data_reg_i
         /\ data_reg_o' = IF result_valid THEN core_block ELSE data_reg_o
<1> USE DEF TypeOK, StreamsInStep, EngineRegisters
<1>1. core_input' = data_reg_i
  OBVIOUS
<1>2. data_reg_o' = IF result_valid THEN core_block ELSE data_reg_o
  OBVIOUS
<1>3. source = "word" => ~EngineClear /\ source_word = Position
  BY DEF EngineClear
<1>4. data_reg_i' = IF source = "word"
                    THEN [data_reg_i EXCEPT ![request_counter] = Position]
                    ELSE IF EngineClear THEN ZeroBlock ELSE data_reg_i
  BY <1>3
<1>5. Position \in Positions
  BY FsmAssumption DEF Position, Positions, Words
<1>6. ZeroBlock \in Block
  BY DEF ZeroBlock, Block
<1>7. data_reg_i' \in Block
  BY <1>4, <1>5, <1>6 DEF Block
<1>8. QED
  BY <1>1, <1>2, <1>4, <1>7

(* Only in MEMORY_WRITE_WAIT a word is stored, and it is the right one.    *)
LEMMA StoredEdge ==
  ASSUME TypeOK, StreamsInStep, Stored,
         Streams!SinkAccepts <=> state = "MEMORY_WRITE_WAIT"
  PROVE  /\ state = "IDLE" => stored' = NoStore
         /\ state \notin {"IDLE", "MEMORY_WRITE_WAIT"} => stored' = stored
         /\ state = "MEMORY_WRITE_WAIT" =>
              /\ DOMAIN stored' = DOMAIN stored \cup {Position}
              /\ \A p \in DOMAIN stored' :
                   stored'[p] = IF p = Position THEN <<data_reg_o, request_counter>>
                                ELSE stored[p]
<1>1. state = "MEMORY_WRITE_WAIT" => Head(output_fifo) = <<data_reg_o, request_counter>>
  <2>1. PICK word : word = <<data_reg_o, request_counter>>
    OBVIOUS
  <2>2. Head(<<word>>) = word
    OBVIOUS
  <2>3. QED
    BY <2>1, <2>2 DEF StreamsInStep
<1>2. QED
  BY <1>1 DEF Stored

-----------------------------------------------------------------------------
(* The numbers behind the counters: a block that has been begun has a      *)
(* first word, and four words at least are left as long as a block is.     *)
LEMMA Sizes ==
  ASSUME NEW l \in Nat, NEW b \in Nat
  PROVE  /\ InputWords(l) \in Nat /\ Blocks(l) \in Nat
         /\ b < Blocks(l) <=> 4 * b < InputWords(l)
         /\ InputWords(l) <= 4 * Blocks(l)
         /\ b < InputWords(l) <=> l > 4 * b
BY DEF InputWords, Blocks

(* A word read takes four bytes off what is left, or the rest.             *)
LEMMA AfterWordLeft ==
  ASSUME NEW l \in Nat, l < SIZE_MOD, NEW n \in Nat, n < InputWords(l),
         SIZE_MOD \in Nat
  PROVE  AfterWord(IF l > 4 * n THEN l - 4 * n ELSE 0)
           = IF l > 4 * (n + 1) THEN l - 4 * (n + 1) ELSE 0
BY DEF AfterWord, InputWords

(* The lengths of jobs and what they are to the counters.                  *)
LEMMA LengthFits ==
  ASSUME LengthsFit, TypeOK
  PROVE  /\ length \in Nat /\ length > 0 /\ length < SIZE_MOD
         /\ Blocks(length) \in Nat /\ Blocks(length) <= BLOCK_MOD
         /\ SIZE_MOD \in Nat /\ BLOCK_MOD \in Nat
         /\ request_counter \in 0 .. 3 /\ block_counter \in Nat
         /\ block_counter < BLOCK_MOD
         /\ Position \in Nat
BY FsmAssumption, Sizes DEF LengthsFit, TypeOK, Words, Position

-----------------------------------------------------------------------------
(* The registers keep their types at every edge.                           *)
LEMMA EdgeTyped ==
  ASSUME IInv, Surroundings, Registers, state' \in States, length' \in Lengths
  PROVE  TypeOK'
<1> USE FsmAssumption
<1>1. TypeOK /\ StreamsInStep /\ CoreInStep
  BY DEF IInv
<1>2. request_counter' \in Words
  BY <1>1 DEF Registers, NextRequest, TypeOK, Words
<1>3. block_counter' \in 0 .. BLOCK_MOD - 1
  BY <1>1 DEF Registers, NextBlock, TypeOK
<1>4. data_size' \in 0 .. SIZE_MOD - 1
  BY <1>1 DEF Registers, DataSizeNow, AfterWord, TypeOK
<1>5. source' \in {"idle", "fetch", "word", "done"} /\ source_word' \in Positions \cup {ZERO}
  BY <1>1, SourceEdge DEF Surroundings
<1>6. sink' \in {"idle", "working", "drain"} /\ inflight' \in 0 .. STORE_DEPTH + 1
  BY <1>1, SinkEdge DEF Surroundings
<1>7. output_fifo' \in Seq(OutWord) /\ Len(output_fifo') <= FIFO_DEPTH
  <2>1. PICK word \in OutWord : word = <<data_reg_o, request_counter>>
    BY <1>1 DEF TypeOK, OutWord
  <2>2. output_fifo' = <<word>> \/ output_fifo' = << >>
    BY <1>1, <2>1, SinkEdge DEF Surroundings
  <2>3. <<word>> \in Seq(OutWord) /\ Len(<<word>>) = 1
    BY <2>1
  <2>4. << >> \in Seq(OutWord) /\ Len(<< >>) = 0
    OBVIOUS
  <2>5. CASE output_fifo' = <<word>>
    BY <2>3, <2>5
  <2>6. CASE output_fifo' = << >>
    BY <2>4, <2>6
  <2>7. QED
    BY <2>2, <2>5, <2>6
<1>8. core' \in {"idle", "init", "load", "next"} /\ result_valid' \in BOOLEAN
      /\ core_block' \in Block \cup {NoBlock}
  BY <1>1, CoreEdge DEF Surroundings, TypeOK
<1>9. /\ data_reg_i' \in Block /\ core_input' \in Block
      /\ data_reg_o' \in Block \cup {NoBlock}
  BY <1>1, EngineEdge DEF Surroundings
<1>10. DOMAIN stored' \subseteq Positions /\ \A p \in DOMAIN stored' : stored'[p] \in OutWord
  <2>1. Position \in Positions /\ <<data_reg_o, request_counter>> \in OutWord
    BY <1>1 DEF TypeOK, Position, Positions, Words, OutWord
  <2>2. Stored /\ (Streams!SinkAccepts <=> state = "MEMORY_WRITE_WAIT")
    BY <1>1, SinkEdge DEF Surroundings
  <2>3. CASE state = "IDLE"
    BY <1>1, <2>2, <2>3, StoredEdge DEF NoStore
  <2>4. CASE state = "MEMORY_WRITE_WAIT"
    BY <1>1, <2>1, <2>2, <2>4, StoredEdge DEF TypeOK
  <2>5. CASE state \notin {"IDLE", "MEMORY_WRITE_WAIT"}
    BY <1>1, <2>2, <2>5, StoredEdge DEF TypeOK
  <2>6. QED
    BY <2>3, <2>4, <2>5
<1>11. QED
  BY <1>2, <1>3, <1>4, <1>5, <1>6, <1>7, <1>8, <1>9, <1>10 DEF TypeOK

-----------------------------------------------------------------------------
(* Every action keeps the invariant.                                       *)

(* Nothing has been asked for.                                             *)
LEMMA WaitForStartKeeps ==
  ASSUME LengthsFit, IInv, WaitForStart
  PROVE  IInv'
<1> USE DEF Reading, Ciphering, Sending
<1>1. /\ TypeOK /\ StreamsInStep /\ CoreInStep /\ CountersRight
      /\ DataRight /\ StoredRight
  BY DEF IInv
<1>2. /\ state = "IDLE" /\ length' = length
      /\ Surroundings /\ Registers
  BY DEF WaitForStart, Step
<1>3. /\ request_counter' = NextRequest /\ block_counter' = NextBlock
      /\ data_size' = DataSizeNow
  BY <1>2 DEF Registers
<1>4. state' = "IDLE"
  BY <1>1, <1>2 DEF WaitForStart, Step, Stay, StreamsInStep, SourceReady
<1>5. TypeOK'
  BY <1>1, <1>2, <1>4, EdgeTyped DEF IInv, States, TypeOK
<1>6. StreamsInStep'
  BY <1>1, <1>2, <1>3, <1>4, SourceEdge, SinkEdge, EngineEdge
     DEF Surroundings, StreamsInStep, NextRequest, NextBlock, Position, SourceDone, DataRight, SinkReady
<1>7. CoreInStep'
  BY <1>1, <1>2, <1>4, CoreEdge DEF Surroundings, CoreInStep, CoreReady
<1>8. CountersRight'
  BY <1>1, <1>2, <1>3, <1>4, LengthFits, Sizes
     DEF CountersRight, NextRequest, NextBlock, DataSizeNow, Position, Left
<1>9. DataRight'
  BY <1>1, <1>2, <1>3, <1>4, CoreEdge, EngineEdge, SourceEdge
     DEF Surroundings, DataRight, NextRequest, NextBlock, EngineClear, StreamsInStep, CoreInStep
<1>10. StoredRight'
  <2>1. Blocks(length) \in Nat
    BY <1>1, LengthFits
  <2>2. stored' = NoStore
    BY <1>1, <1>2, StoredEdge, SinkEdge DEF Surroundings
  <2>3. StoredUpTo(0)'
    BY <2>2 DEF StoredUpTo, NoStore
  <2>4. \E n \in 0 .. 4 * Blocks(length') : StoredUpTo(n)'
    BY <1>2, <2>1, <2>3
  <2>5. QED
    BY <1>4, <2>4 DEF StoredRight
<1>11. QED
  BY <1>5, <1>6, <1>7, <1>8, <1>9, <1>10 DEF IInv

(* The length becomes the number of bytes that are left.                   *)
LEMMA StartKeyKeeps ==
  ASSUME LengthsFit, IInv, StartKey
  PROVE  IInv'
<1> USE DEF Reading, Ciphering, Sending
<1>1. /\ TypeOK /\ StreamsInStep /\ CoreInStep /\ CountersRight
      /\ DataRight /\ StoredRight
  BY DEF IInv
<1>2. /\ state = "START_KEY" /\ length' = length
      /\ Surroundings /\ Registers
  BY DEF StartKey, Step
<1>3. /\ request_counter' = NextRequest /\ block_counter' = NextBlock
      /\ data_size' = DataSizeNow
  BY <1>2 DEF Registers
<1>4. state' = IF CoreReady THEN "WAIT_KEY" ELSE "START_KEY"
  BY <1>1, <1>2 DEF StartKey, Step, Stay, StreamsInStep, SourceReady
<1>5. TypeOK'
  BY <1>1, <1>2, <1>4, EdgeTyped DEF IInv, States, TypeOK
<1>6. StreamsInStep'
  BY <1>1, <1>2, <1>3, <1>4, SourceEdge, SinkEdge, EngineEdge
     DEF Surroundings, StreamsInStep, NextRequest, NextBlock, Position, SourceDone, DataRight, SinkReady
<1>7. CoreInStep'
  BY <1>1, <1>2, <1>4, CoreEdge DEF Surroundings, CoreInStep, CoreReady
<1>8. CountersRight'
  BY <1>1, <1>2, <1>3, <1>4, LengthFits, Sizes
     DEF CountersRight, NextRequest, NextBlock, DataSizeNow, Position, Left
<1>9. DataRight'
  BY <1>1, <1>2, <1>3, <1>4, CoreEdge, EngineEdge, SourceEdge
     DEF Surroundings, DataRight, NextRequest, NextBlock, EngineClear, StreamsInStep, CoreInStep
<1>10. StoredRight'
  BY <1>1, <1>2, <1>3, <1>4, StoredEdge, SinkEdge
     DEF Surroundings, StoredRight, NextRequest, NextBlock, StoredUpTo, NoStore, Position
<1>11. QED
  BY <1>5, <1>6, <1>7, <1>8, <1>9, <1>10 DEF IInv

(* The first word of the job is asked for, and there is one.               *)
LEMMA WaitKeyKeeps ==
  ASSUME LengthsFit, IInv, WaitKey
  PROVE  IInv'
<1> USE DEF Reading, Ciphering, Sending
<1>1. /\ TypeOK /\ StreamsInStep /\ CoreInStep /\ CountersRight
      /\ DataRight /\ StoredRight
  BY DEF IInv
<1>2. /\ state = "WAIT_KEY" /\ length' = length
      /\ Surroundings /\ Registers
  BY DEF WaitKey, Step
<1>3. /\ request_counter' = NextRequest /\ block_counter' = NextBlock
      /\ data_size' = DataSizeNow
  BY <1>2 DEF Registers
<1>4. state' = IF CoreReady THEN "REQUEST_DATA" ELSE "WAIT_KEY"
  BY <1>1, <1>2 DEF WaitKey, Step, Stay, StreamsInStep, SourceReady
<1>5. TypeOK'
  BY <1>1, <1>2, <1>4, EdgeTyped DEF IInv, States, TypeOK
<1>6. StreamsInStep'
  BY <1>1, <1>2, <1>3, <1>4, SourceEdge, SinkEdge, EngineEdge
     DEF Surroundings, StreamsInStep, NextRequest, NextBlock, Position, SourceDone, DataRight, SinkReady
<1>7. CoreInStep'
  BY <1>1, <1>2, <1>4, CoreEdge DEF Surroundings, CoreInStep, CoreReady
<1>8. CountersRight'
  BY <1>1, <1>2, <1>3, <1>4, LengthFits, Sizes
     DEF CountersRight, NextRequest, NextBlock, DataSizeNow, Position, Left
<1>9. DataRight'
  <2>1. data_reg_i' = ZeroBlock /\ source' = "idle"
    BY <1>1, <1>2, EngineEdge, SourceEdge DEF Surroundings, DataRight, EngineClear, StreamsInStep
  <2>2. request_counter' = 0
    BY <1>1, <1>2, <1>3 DEF NextRequest, CountersRight
  <2>3. ZeroBlock = Filled(0)'
    BY DEF ZeroBlock, Filled, Words
  <2>4. QED
    BY <1>2, <1>4, <2>1, <2>2, <2>3 DEF DataRight
<1>10. StoredRight'
  <2>1. stored' = stored /\ StoredUpTo(0)
    BY <1>1, <1>2, StoredEdge, SinkEdge DEF Surroundings, StoredRight
  <2>2. block_counter' = 0
    BY <1>1, <1>2, <1>3 DEF NextBlock, CountersRight
  <2>3. StoredUpTo(0)'
    BY <1>2, <2>1 DEF StoredUpTo
  <2>4. QED
    BY <1>4, <2>2, <2>3 DEF StoredRight
<1>11. QED
  BY <1>5, <1>6, <1>7, <1>8, <1>9, <1>10 DEF IInv

(* The source is idle whenever a word is asked for.                        *)
LEMMA RequestDataKeeps ==
  ASSUME LengthsFit, IInv, RequestData
  PROVE  IInv'
<1> USE DEF Reading, Ciphering, Sending
<1>1. /\ TypeOK /\ StreamsInStep /\ CoreInStep /\ CountersRight
      /\ DataRight /\ StoredRight
  BY DEF IInv
<1>2. /\ state = "REQUEST_DATA" /\ length' = length
      /\ Surroundings /\ Registers
  BY DEF RequestData, Step
<1>3. /\ request_counter' = NextRequest /\ block_counter' = NextBlock
      /\ data_size' = DataSizeNow
  BY <1>2 DEF Registers
<1>4. state' = "REQUEST_DATA_WAIT"
  BY <1>1, <1>2 DEF RequestData, Step, Stay, StreamsInStep, SourceReady
<1>5. TypeOK'
  BY <1>1, <1>2, <1>4, EdgeTyped DEF IInv, States, TypeOK
<1>6. StreamsInStep'
  BY <1>1, <1>2, <1>3, <1>4, SourceEdge, SinkEdge, EngineEdge
     DEF Surroundings, StreamsInStep, NextRequest, NextBlock, Position, SourceDone, DataRight, SinkReady
<1>7. CoreInStep'
  BY <1>1, <1>2, <1>4, CoreEdge DEF Surroundings, CoreInStep, CoreReady
<1>8. CountersRight'
  BY <1>1, <1>2, <1>3, <1>4, LengthFits, Sizes
     DEF CountersRight, NextRequest, NextBlock, DataSizeNow, Position, Left
<1>9. DataRight'
  <2>1. source = "idle" /\ source' = "fetch"
    BY <1>1, <1>2, SourceEdge DEF Surroundings, StreamsInStep
  <2>2. data_reg_i' = data_reg_i /\ data_reg_i = Filled(request_counter)
    BY <1>1, <1>2, <2>1, EngineEdge DEF Surroundings, DataRight, EngineClear
  <2>3. Filled(request_counter) = Filled(request_counter)'
    BY <1>2, <1>3 DEF Filled, NextRequest, NextBlock
  <2>4. QED
    BY <1>4, <2>1, <2>2, <2>3 DEF DataRight
<1>10. StoredRight'
  BY <1>1, <1>2, <1>3, <1>4, StoredEdge, SinkEdge
     DEF Surroundings, StoredRight, NextRequest, NextBlock, StoredUpTo, NoStore, Position
<1>11. QED
  BY <1>5, <1>6, <1>7, <1>8, <1>9, <1>10 DEF IInv

(* The word comes at one edge and is counted at the next.                  *)
LEMMA RequestDataWaitKeeps ==
  ASSUME LengthsFit, IInv, RequestDataWait
  PROVE  IInv'
<1> USE DEF Reading, Ciphering, Sending
<1>1. /\ TypeOK /\ StreamsInStep /\ CoreInStep /\ CountersRight
      /\ DataRight /\ StoredRight
  BY DEF IInv
<1>2. /\ state = "REQUEST_DATA_WAIT" /\ length' = length
      /\ Surroundings /\ Registers
  BY DEF RequestDataWait, Step
<1>3. /\ request_counter' = NextRequest /\ block_counter' = NextBlock
      /\ data_size' = DataSizeNow
  BY <1>2 DEF Registers
<1>4. state' = IF SourceDone THEN IF BlockComplete THEN "START_CORE" ELSE "REQUEST_DATA" ELSE "REQUEST_DATA_WAIT"
  BY <1>1, <1>2 DEF RequestDataWait, Step, Stay, StreamsInStep, SourceReady
<1>5. TypeOK'
  BY <1>1, <1>2, <1>4, EdgeTyped DEF IInv, States, TypeOK
<1>6. StreamsInStep'
  BY <1>1, <1>2, <1>3, <1>4, SourceEdge, SinkEdge, EngineEdge
     DEF Surroundings, StreamsInStep, NextRequest, NextBlock, Position, SourceDone, DataRight, SinkReady
<1>7. CoreInStep'
  BY <1>1, <1>2, <1>4, CoreEdge DEF Surroundings, CoreInStep, CoreReady
<1>8. CountersRight'
  <2>1. block_counter' = block_counter
    BY <1>2, <1>3 DEF NextBlock
  <2>2. Position < InputWords(length) /\ data_size = Left(Position)
    BY <1>1, <1>2 DEF CountersRight
  <2>3. /\ length \in Nat /\ length < SIZE_MOD /\ SIZE_MOD \in Nat
        /\ request_counter \in 0 .. 3 /\ block_counter \in Nat
        /\ Position \in Nat /\ Position = request_counter + 4 * block_counter
    BY <1>1, LengthFits DEF Position
  <2>4. CASE ~SourceDone
    <3>1. /\ state' = "REQUEST_DATA_WAIT" /\ request_counter' = request_counter
          /\ data_size' = data_size
      BY <1>2, <1>3, <1>4, <2>4 DEF NextRequest, DataSizeNow
    <3>2. Position' = Position
      BY <2>1, <3>1 DEF Position
    <3>3. QED
      BY <1>2, <2>2, <3>1, <3>2 DEF CountersRight, Left
  <2>5. CASE SourceDone
    <3>1. request_counter' = (request_counter + 1) % 4 /\ data_size' = AfterWord(data_size)
      BY <1>2, <1>3, <2>5 DEF NextRequest, DataSizeNow
    <3>2. DataSizeNow = data_size' /\ data_size' = Left(Position + 1)
      BY <1>3, <2>2, <2>3, <3>1, AfterWordLeft DEF Left
    <3>3. block_counter < Blocks(length)
      BY <2>2, <2>3, Sizes
    <3>4. CASE BlockComplete
      <4>1. data_size' = 0 \/ request_counter = 3
        BY <3>2, <3>4 DEF BlockComplete
      <4>2. Left(Position + 1) = Left(4 * block_counter + 4)
        BY <2>3, <3>2, <4>1 DEF Left
      <4>3. state' = "START_CORE"
        BY <1>4, <2>5, <3>4
      <4>4. QED
        BY <1>2, <2>1, <3>2, <3>3, <4>2, <4>3 DEF CountersRight, Left
    <3>5. CASE ~BlockComplete
      <4>1. data_size' # 0 /\ request_counter # 3
        BY <3>2, <3>5 DEF BlockComplete
      <4>2. Position' = Position + 1
        BY <2>1, <2>3, <3>1, <4>1 DEF Position
      <4>3. Position + 1 < InputWords(length)
        BY <2>3, <3>2, <4>1, Sizes DEF Left
      <4>4. state' = "REQUEST_DATA"
        BY <1>4, <2>5, <3>5
      <4>5. QED
        BY <1>2, <3>2, <4>2, <4>3, <4>4 DEF CountersRight, Left
    <3>6. QED
      BY <3>4, <3>5
  <2>6. QED
    BY <2>4, <2>5
<1>9. DataRight'
  <2>1. /\ block_counter' = block_counter /\ block_counter \in Nat
        /\ request_counter \in 0 .. 3 /\ length \in Nat
    BY <1>1, <1>2, <1>3, LengthFits DEF NextBlock
  <2>2. data_reg_i' = IF source = "word"
                      THEN [data_reg_i EXCEPT ![request_counter] = Position]
                      ELSE data_reg_i
    BY <1>1, <1>2, EngineEdge DEF Surroundings, EngineClear
  <2>3. data_reg_i = Filled(IF source = "done" THEN request_counter + 1
                            ELSE request_counter)
    BY <1>1, <1>2 DEF DataRight
  <2>4. source' = "done" <=> source = "word"
    BY <1>1, <1>2, SourceEdge DEF Surroundings
  <2>5. CASE ~SourceDone
    <3>1. state' = "REQUEST_DATA_WAIT" /\ request_counter' = request_counter
      BY <1>2, <1>3, <1>4, <2>5 DEF NextRequest
    <3>2. data_reg_i = Filled(request_counter)
      BY <2>3, <2>5 DEF SourceDone
    <3>3. CASE source = "word"
      <4>1. data_reg_i' = [data_reg_i EXCEPT ![request_counter] = Position]
        BY <2>2, <3>3
      <4>2. [data_reg_i EXCEPT ![request_counter] = Position]
              = [w \in Words |-> IF w < request_counter + 1
                                 THEN 4 * block_counter + w ELSE ZERO]
        BY <2>1, <3>2 DEF Filled, Words, Position
      <4>3. data_reg_i' = Filled(request_counter + 1)'
        BY <2>1, <3>1, <4>1, <4>2 DEF Filled
      <4>4. QED
        BY <2>4, <3>1, <3>3, <4>3 DEF DataRight
    <3>4. CASE source # "word"
      <4>1. data_reg_i' = Filled(request_counter)'
        BY <2>1, <2>2, <3>1, <3>2, <3>4 DEF Filled
      <4>2. QED
        BY <2>4, <3>1, <3>4, <4>1 DEF DataRight
    <3>5. QED
      BY <3>3, <3>4
  <2>6. CASE SourceDone
    <3>1. data_reg_i' = Filled(request_counter + 1) /\ source' # "done"
      BY <2>2, <2>3, <2>4, <2>6 DEF SourceDone
    <3>2. request_counter' = (request_counter + 1) % 4 /\ data_size' = DataSizeNow
      BY <1>2, <1>3, <2>6 DEF NextRequest
    <3>3. CASE BlockComplete
      <4>1. state' = "START_CORE"
        BY <1>4, <2>6, <3>3
      <4>2. Filled(request_counter + 1) = PlainBlock(length, block_counter)
        <5>1. Position < InputWords(length) /\ Position = request_counter + 4 * block_counter
          BY <1>1, <1>2 DEF CountersRight, Position
        <5>2. request_counter = 3 \/ 4 * (Position + 1) >= length
          <6>1. CASE data_size' = 0
            <7>1. AfterWord(data_size) = 0 /\ data_size = Left(Position)
              BY <1>1, <1>2, <2>6, <3>2, <6>1 DEF DataSizeNow, CountersRight
            <7>2. AfterWord(data_size) = Left(Position + 1)
              BY <1>1, <5>1, <7>1, LengthFits, AfterWordLeft DEF Left
            <7>3. QED
              BY <1>1, <7>1, <7>2, LengthFits DEF Left
          <6>2. CASE request_counter = 3
            BY <6>2
          <6>3. QED
            BY <3>2, <3>3, <6>1, <6>2 DEF BlockComplete
        <5>3. \A w \in 0 .. 3 : w < request_counter + 1 <=> 4 * block_counter + w < InputWords(length)
          BY <2>1, <5>1, <5>2 DEF InputWords
        <5>4. QED
          BY <5>3 DEF Filled, PlainBlock, Words
      <4>3. QED
        BY <1>2, <2>1, <3>1, <4>1, <4>2 DEF DataRight
    <3>4. CASE ~BlockComplete
      <4>1. state' = "REQUEST_DATA" /\ request_counter' = request_counter + 1
        BY <1>4, <2>1, <2>6, <3>2, <3>4 DEF BlockComplete
      <4>2. data_reg_i' = Filled(request_counter)'
        BY <2>1, <3>1, <4>1 DEF Filled
      <4>3. QED
        BY <3>1, <4>1, <4>2 DEF DataRight
    <3>5. QED
      BY <3>3, <3>4
  <2>7. QED
    BY <2>5, <2>6
<1>10. StoredRight'
  BY <1>1, <1>2, <1>3, <1>4, StoredEdge, SinkEdge
     DEF Surroundings, StoredRight, NextRequest, NextBlock, StoredUpTo, NoStore, Position
<1>11. QED
  BY <1>5, <1>6, <1>7, <1>8, <1>9, <1>10 DEF IInv

(* The block is complete when the core samples it.                         *)
LEMMA StartCoreKeeps ==
  ASSUME LengthsFit, IInv, StartCore
  PROVE  IInv'
<1> USE DEF Reading, Ciphering, Sending
<1>1. /\ TypeOK /\ StreamsInStep /\ CoreInStep /\ CountersRight
      /\ DataRight /\ StoredRight
  BY DEF IInv
<1>2. /\ state = "START_CORE" /\ length' = length
      /\ Surroundings /\ Registers
  BY DEF StartCore, Step
<1>3. /\ request_counter' = NextRequest /\ block_counter' = NextBlock
      /\ data_size' = DataSizeNow
  BY <1>2 DEF Registers
<1>4. state' = "WAIT_CORE"
  BY <1>1, <1>2 DEF StartCore, Step, Stay, StreamsInStep, SourceReady
<1>5. TypeOK'
  BY <1>1, <1>2, <1>4, EdgeTyped DEF IInv, States, TypeOK
<1>6. StreamsInStep'
  BY <1>1, <1>2, <1>3, <1>4, SourceEdge, SinkEdge, EngineEdge
     DEF Surroundings, StreamsInStep, NextRequest, NextBlock, Position, SourceDone, DataRight, SinkReady
<1>7. CoreInStep'
  BY <1>1, <1>2, <1>4, CoreEdge DEF Surroundings, CoreInStep, CoreReady
<1>8. CountersRight'
  BY <1>1, <1>2, <1>3, <1>4, LengthFits, Sizes
     DEF CountersRight, NextRequest, NextBlock, DataSizeNow, Position, Left
<1>9. DataRight'
  BY <1>1, <1>2, <1>3, <1>4, CoreEdge, EngineEdge, SourceEdge
     DEF Surroundings, DataRight, NextRequest, NextBlock, EngineClear, StreamsInStep, CoreInStep
<1>10. StoredRight'
  BY <1>1, <1>2, <1>3, <1>4, StoredEdge, SinkEdge
     DEF Surroundings, StoredRight, NextRequest, NextBlock, StoredUpTo, NoStore, Position
<1>11. QED
  BY <1>5, <1>6, <1>7, <1>8, <1>9, <1>10 DEF IInv

(* The result is in data_reg_o when its first word is sent.                *)
LEMMA WaitCoreKeeps ==
  ASSUME LengthsFit, IInv, WaitCore
  PROVE  IInv'
<1> USE DEF Reading, Ciphering, Sending
<1>1. /\ TypeOK /\ StreamsInStep /\ CoreInStep /\ CountersRight
      /\ DataRight /\ StoredRight
  BY DEF IInv
<1>2. /\ state = "WAIT_CORE" /\ length' = length
      /\ Surroundings /\ Registers
  BY DEF WaitCore, Step
<1>3. /\ request_counter' = NextRequest /\ block_counter' = NextBlock
      /\ data_size' = DataSizeNow
  BY <1>2 DEF Registers
<1>4. state' = IF CoreReady THEN "SEND_DATA" ELSE "WAIT_CORE"
  BY <1>1, <1>2 DEF WaitCore, Step, Stay, StreamsInStep, SourceReady
<1>5. TypeOK'
  BY <1>1, <1>2, <1>4, EdgeTyped DEF IInv, States, TypeOK
<1>6. StreamsInStep'
  BY <1>1, <1>2, <1>3, <1>4, SourceEdge, SinkEdge, EngineEdge
     DEF Surroundings, StreamsInStep, NextRequest, NextBlock, Position, SourceDone, DataRight, SinkReady
<1>7. CoreInStep'
  BY <1>1, <1>2, <1>4, CoreEdge DEF Surroundings, CoreInStep, CoreReady
<1>8. CountersRight'
  BY <1>1, <1>2, <1>3, <1>4, LengthFits, Sizes
     DEF CountersRight, NextRequest, NextBlock, DataSizeNow, Position, Left
<1>9. DataRight'
  <2>1. /\ data_reg_i = PlainBlock(length, block_counter) /\ core_input = data_reg_i
        /\ core # "load" => core_block = data_reg_i
        /\ core = "idle" => result_valid
    BY <1>1, <1>2 DEF DataRight
  <2>2. data_reg_i' = data_reg_i /\ core_input' = data_reg_i
        /\ data_reg_o' = IF result_valid THEN core_block ELSE data_reg_o
    BY <1>1, <1>2, EngineEdge DEF Surroundings, EngineClear, StreamsInStep
  <2>3. PlainBlock(length, block_counter)' = PlainBlock(length, block_counter)
    BY <1>2, <1>3 DEF NextBlock, PlainBlock
  <2>4. /\ core_block' = data_reg_i
        /\ core' = "idle" => result_valid'
        /\ core' # "load"
        /\ core = "idle" => result_valid'
    BY <1>1, <1>2, <2>1, CoreEdge DEF Surroundings, CoreInStep
  <2>5. QED
    BY <1>4, <2>1, <2>2, <2>3, <2>4 DEF DataRight, CoreReady
<1>10. StoredRight'
  <2>1. stored' = stored /\ StoredUpTo(4 * block_counter)
    BY <1>1, <1>2, StoredEdge, SinkEdge DEF Surroundings, StoredRight
  <2>2. request_counter' = 0 /\ block_counter' = block_counter /\ block_counter \in Nat
    BY <1>1, <1>2, <1>3, LengthFits DEF NextRequest, NextBlock, CountersRight
  <2>3. Position' = 4 * block_counter
    BY <2>2 DEF Position
  <2>4. StoredUpTo(4 * block_counter)'
    BY <1>2, <2>1, <2>2 DEF StoredUpTo
  <2>5. QED
    BY <1>4, <2>2, <2>3, <2>4 DEF StoredRight
<1>11. QED
  BY <1>5, <1>6, <1>7, <1>8, <1>9, <1>10 DEF IInv

(* The sink starts at the edge at which the FSM sees it ready.             *)
LEMMA SendDataKeeps ==
  ASSUME LengthsFit, IInv, SendData
  PROVE  IInv'
<1> USE DEF Reading, Ciphering, Sending
<1>1. /\ TypeOK /\ StreamsInStep /\ CoreInStep /\ CountersRight
      /\ DataRight /\ StoredRight
  BY DEF IInv
<1>2. /\ state = "SEND_DATA" /\ length' = length
      /\ Surroundings /\ Registers
  BY DEF SendData, Step
<1>3. /\ request_counter' = NextRequest /\ block_counter' = NextBlock
      /\ data_size' = DataSizeNow
  BY <1>2 DEF Registers
<1>4. state' = IF SinkReady THEN "SEND_DATA_WAIT" ELSE "SEND_DATA"
  BY <1>1, <1>2 DEF SendData, Step, Stay, StreamsInStep, SourceReady
<1>5. TypeOK'
  BY <1>1, <1>2, <1>4, EdgeTyped DEF IInv, States, TypeOK
<1>6. StreamsInStep'
  BY <1>1, <1>2, <1>3, <1>4, SourceEdge, SinkEdge, EngineEdge
     DEF Surroundings, StreamsInStep, NextRequest, NextBlock, Position, SourceDone, DataRight, SinkReady
<1>7. CoreInStep'
  BY <1>1, <1>2, <1>4, CoreEdge DEF Surroundings, CoreInStep, CoreReady
<1>8. CountersRight'
  BY <1>1, <1>2, <1>3, <1>4, LengthFits, Sizes
     DEF CountersRight, NextRequest, NextBlock, DataSizeNow, Position, Left
<1>9. DataRight'
  BY <1>1, <1>2, <1>3, <1>4, CoreEdge, EngineEdge, SourceEdge
     DEF Surroundings, DataRight, NextRequest, NextBlock, EngineClear, StreamsInStep, CoreInStep
<1>10. StoredRight'
  BY <1>1, <1>2, <1>3, <1>4, StoredEdge, SinkEdge
     DEF Surroundings, StoredRight, NextRequest, NextBlock, StoredUpTo, NoStore, Position
<1>11. QED
  BY <1>5, <1>6, <1>7, <1>8, <1>9, <1>10 DEF IInv

(* The word enters the empty output FIFO.                                  *)
LEMMA SendDataWaitKeeps ==
  ASSUME LengthsFit, IInv, SendDataWait
  PROVE  IInv'
<1> USE DEF Reading, Ciphering, Sending
<1>1. /\ TypeOK /\ StreamsInStep /\ CoreInStep /\ CountersRight
      /\ DataRight /\ StoredRight
  BY DEF IInv
<1>2. /\ state = "SEND_DATA_WAIT" /\ length' = length
      /\ Surroundings /\ Registers
  BY DEF SendDataWait, Step
<1>3. /\ request_counter' = NextRequest /\ block_counter' = NextBlock
      /\ data_size' = DataSizeNow
  BY <1>2 DEF Registers
<1>4. state' = "MEMORY_WRITE_WAIT"
  BY <1>1, <1>2 DEF SendDataWait, Step, Stay, StreamsInStep, SourceReady
<1>5. TypeOK'
  BY <1>1, <1>2, <1>4, EdgeTyped DEF IInv, States, TypeOK
<1>6. StreamsInStep'
  BY <1>1, <1>2, <1>3, <1>4, SourceEdge, SinkEdge, EngineEdge
     DEF Surroundings, StreamsInStep, NextRequest, NextBlock, Position, SourceDone, DataRight, SinkReady
<1>7. CoreInStep'
  BY <1>1, <1>2, <1>4, CoreEdge DEF Surroundings, CoreInStep, CoreReady
<1>8. CountersRight'
  BY <1>1, <1>2, <1>3, <1>4, LengthFits, Sizes
     DEF CountersRight, NextRequest, NextBlock, DataSizeNow, Position, Left
<1>9. DataRight'
  BY <1>1, <1>2, <1>3, <1>4, CoreEdge, EngineEdge, SourceEdge
     DEF Surroundings, DataRight, NextRequest, NextBlock, EngineClear, StreamsInStep, CoreInStep
<1>10. StoredRight'
  BY <1>1, <1>2, <1>3, <1>4, StoredEdge, SinkEdge
     DEF Surroundings, StoredRight, NextRequest, NextBlock, StoredUpTo, NoStore, Position
<1>11. QED
  BY <1>5, <1>6, <1>7, <1>8, <1>9, <1>10 DEF IInv

(* The sink takes the word with its address before the counter moves.      *)
LEMMA MemoryWriteWaitKeeps ==
  ASSUME LengthsFit, IInv, MemoryWriteWait
  PROVE  IInv'
<1> USE DEF Reading, Ciphering, Sending
<1>1. /\ TypeOK /\ StreamsInStep /\ CoreInStep /\ CountersRight
      /\ DataRight /\ StoredRight
  BY DEF IInv
<1>2. /\ state = "MEMORY_WRITE_WAIT" /\ length' = length
      /\ Surroundings /\ Registers
  BY DEF MemoryWriteWait, Step
<1>3. /\ request_counter' = NextRequest /\ block_counter' = NextBlock
      /\ data_size' = DataSizeNow
  BY <1>2 DEF Registers
<1>4. state' = IF request_counter = 3 THEN "MEMORY_WRITE_DONE" ELSE "SEND_DATA"
  BY <1>1, <1>2 DEF MemoryWriteWait, Step, Stay, StreamsInStep, SourceReady
<1>5. TypeOK'
  BY <1>1, <1>2, <1>4, EdgeTyped DEF IInv, States, TypeOK
<1>6. StreamsInStep'
  BY <1>1, <1>2, <1>3, <1>4, SourceEdge, SinkEdge, EngineEdge
     DEF Surroundings, StreamsInStep, NextRequest, NextBlock, Position, SourceDone, DataRight, SinkReady
<1>7. CoreInStep'
  BY <1>1, <1>2, <1>4, CoreEdge DEF Surroundings, CoreInStep, CoreReady
<1>8. CountersRight'
  BY <1>1, <1>2, <1>3, <1>4, LengthFits, Sizes
     DEF CountersRight, NextRequest, NextBlock, DataSizeNow, Position, Left
<1>9. DataRight'
  BY <1>1, <1>2, <1>3, <1>4, CoreEdge, EngineEdge, SourceEdge
     DEF Surroundings, DataRight, NextRequest, NextBlock, EngineClear, StreamsInStep, CoreInStep
<1>10. StoredRight'
  <2>1. /\ block_counter' = block_counter /\ block_counter \in Nat
        /\ request_counter \in 0 .. 3 /\ request_counter' = (request_counter + 1) % 4
        /\ Position = request_counter + 4 * block_counter /\ Position \in Nat
    BY <1>1, <1>2, <1>3, LengthFits DEF NextBlock, NextRequest, Position
  <2>2. StoredUpTo(Position)
    BY <1>1, <1>2 DEF StoredRight
  <2>3. /\ DOMAIN stored' = DOMAIN stored \cup {Position}
        /\ \A p \in DOMAIN stored' :
             stored'[p] = IF p = Position THEN <<data_reg_o, request_counter>>
                          ELSE stored[p]
    BY <1>1, <1>2, StoredEdge, SinkEdge DEF Surroundings
  <2>4. data_reg_o = PlainBlock(length, Position \div 4) /\ request_counter = Position % 4
    <3>1. Position \div 4 = block_counter /\ Position % 4 = request_counter
      BY <2>1
    <3>2. QED
      BY <1>1, <1>2, <3>1 DEF DataRight
  <2>5. DOMAIN stored' = 0 .. Position
    <3>1. ASSUME NEW k \in Nat PROVE (0 .. k - 1) \cup {k} = 0 .. k
      OBVIOUS
    <3>2. (0 .. Position - 1) \cup {Position} = 0 .. Position
      BY <2>1, <3>1
    <3>3. QED
      BY <2>2, <2>3, <3>2 DEF StoredUpTo
  <2>6. \A p \in 0 .. Position : stored'[p] = <<PlainBlock(length, p \div 4), p % 4>>
    BY <2>1, <2>2, <2>3, <2>4, <2>5 DEF StoredUpTo
  <2>7. PICK n : n = Position + 1
    OBVIOUS
  <2>8. 0 .. n - 1 = 0 .. Position
    BY <2>1, <2>7
  <2>9. \A p \in 0 .. n - 1 : PlainBlock(length, p \div 4)' = PlainBlock(length, p \div 4)
    BY <1>2 DEF PlainBlock
  <2>10. StoredUpTo(n)'
    BY <2>5, <2>6, <2>8, <2>9 DEF StoredUpTo
  <2>11. CASE request_counter = 3
    <3>1. n = 4 * block_counter' + 4
      BY <2>1, <2>7, <2>11
    <3>2. QED
      BY <1>4, <2>10, <2>11, <3>1 DEF StoredRight
  <2>12. CASE request_counter # 3
    <3>1. Position' = n
      BY <2>1, <2>7, <2>12 DEF Position
    <3>2. QED
      BY <1>4, <2>10, <2>12, <3>1 DEF StoredRight
  <2>13. QED
    BY <2>11, <2>12
<1>11. QED
  BY <1>5, <1>6, <1>7, <1>8, <1>9, <1>10 DEF IInv

(* Bytes are left exactly when another block has to be read.               *)
LEMMA MemoryWriteDoneKeeps ==
  ASSUME LengthsFit, IInv, MemoryWriteDone
  PROVE  IInv'
<1> USE DEF Reading, Ciphering, Sending
<1>1. /\ TypeOK /\ StreamsInStep /\ CoreInStep /\ CountersRight
      /\ DataRight /\ StoredRight
  BY DEF IInv
<1>2. /\ state = "MEMORY_WRITE_DONE" /\ length' = length
      /\ Surroundings /\ Registers
  BY DEF MemoryWriteDone, Step
<1>3. /\ request_counter' = NextRequest /\ block_counter' = NextBlock
      /\ data_size' = DataSizeNow
  BY <1>2 DEF Registers
<1>4. state' = IF data_size = 0 THEN "FINISHED" ELSE "REQUEST_DATA"
  BY <1>1, <1>2 DEF MemoryWriteDone, Step, Stay, StreamsInStep, SourceReady
<1>5. TypeOK'
  BY <1>1, <1>2, <1>4, EdgeTyped DEF IInv, States, TypeOK
<1>6. StreamsInStep'
  BY <1>1, <1>2, <1>3, <1>4, SourceEdge, SinkEdge, EngineEdge
     DEF Surroundings, StreamsInStep, NextRequest, NextBlock, Position, SourceDone, DataRight, SinkReady
<1>7. CoreInStep'
  BY <1>1, <1>2, <1>4, CoreEdge DEF Surroundings, CoreInStep, CoreReady
<1>8. CountersRight'
  <2>1. block_counter < Blocks(length) /\ data_size = Left(4 * block_counter + 4)
    BY <1>1, <1>2 DEF CountersRight
  <2>2. /\ length \in Nat /\ block_counter \in Nat /\ BLOCK_MOD \in Nat
        /\ Blocks(length) \in Nat /\ Blocks(length) <= BLOCK_MOD
    BY <1>1, LengthFits
  <2>3. request_counter' = 0 /\ data_size' = data_size
    BY <1>1, <1>2, <1>3 DEF NextRequest, DataSizeNow, CountersRight
  <2>4. CASE data_size = 0
    BY <1>4, <2>4 DEF CountersRight
  <2>5. CASE data_size # 0
    <3>1. length > 4 * (4 * block_counter + 4)
      BY <2>1, <2>2, <2>5 DEF Left
    <3>2. 4 * block_counter + 4 < InputWords(length)
      BY <2>2, <3>1 DEF InputWords
    <3>3. block_counter + 1 < Blocks(length)
      BY <2>2, <3>1 DEF Blocks
    <3>4. block_counter' = block_counter + 1
      BY <1>2, <1>3, <2>2, <3>3 DEF NextBlock
    <3>5. Position' = 4 * block_counter + 4
      BY <2>2, <2>3, <3>4 DEF Position
    <3>6. QED
      BY <1>2, <1>4, <2>1, <2>3, <2>5, <3>2, <3>5 DEF CountersRight, Left
  <2>6. QED
    BY <2>4, <2>5
<1>9. DataRight'
  <2>1. data_reg_i' = ZeroBlock /\ source' = "idle"
    BY <1>1, <1>2, EngineEdge, SourceEdge DEF Surroundings, EngineClear, StreamsInStep
  <2>2. request_counter' = 0
    BY <1>1, <1>2, <1>3 DEF NextRequest, CountersRight
  <2>3. ZeroBlock = Filled(0)'
    BY DEF ZeroBlock, Filled, Words
  <2>4. QED
    BY <1>4, <2>1, <2>2, <2>3 DEF DataRight
<1>10. StoredRight'
  <2>1. stored' = stored /\ StoredUpTo(4 * block_counter + 4)
    BY <1>1, <1>2, StoredEdge, SinkEdge DEF Surroundings, StoredRight
  <2>2. block_counter < Blocks(length) /\ data_size = Left(4 * block_counter + 4)
    BY <1>1, <1>2 DEF CountersRight
  <2>3. /\ length \in Nat /\ block_counter \in Nat /\ BLOCK_MOD \in Nat
        /\ Blocks(length) \in Nat /\ Blocks(length) <= BLOCK_MOD
    BY <1>1, LengthFits
  <2>4. PICK n : n = 4 * block_counter + 4
    OBVIOUS
  <2>5. StoredUpTo(n)'
    <3>1. \A p \in 0 .. n - 1 : PlainBlock(length, p \div 4)' = PlainBlock(length, p \div 4)
      BY <1>2 DEF PlainBlock
    <3>2. QED
      BY <2>1, <2>4, <3>1 DEF StoredUpTo
  <2>6. CASE data_size = 0
    <3>1. length <= 4 * (4 * block_counter + 4)
      BY <2>2, <2>3, <2>6 DEF Left
    <3>2. Blocks(length) = block_counter + 1
      BY <2>2, <2>3, <3>1 DEF Blocks
    <3>3. n = 4 * Blocks(length)'
      BY <1>2, <2>3, <2>4, <3>2 DEF Blocks
    <3>4. QED
      BY <1>4, <2>5, <2>6, <3>3 DEF StoredRight
  <2>7. CASE data_size # 0
    <3>1. length > 4 * (4 * block_counter + 4)
      BY <2>2, <2>3, <2>7 DEF Left
    <3>2. block_counter + 1 < Blocks(length)
      BY <2>3, <3>1 DEF Blocks
    <3>3. block_counter' = block_counter + 1
      BY <1>2, <1>3, <2>3, <3>2 DEF NextBlock
    <3>4. n = 4 * block_counter'
      BY <2>3, <2>4, <3>3
    <3>5. QED
      BY <1>4, <2>5, <2>7, <3>4 DEF StoredRight
  <2>8. QED
    BY <2>6, <2>7
<1>11. QED
  BY <1>5, <1>6, <1>7, <1>8, <1>9, <1>10 DEF IInv

(* Everything has been stored.                                             *)
LEMMA FinishedKeeps ==
  ASSUME LengthsFit, IInv, Finished
  PROVE  IInv'
<1> USE DEF Reading, Ciphering, Sending
<1>1. /\ TypeOK /\ StreamsInStep /\ CoreInStep /\ CountersRight
      /\ DataRight /\ StoredRight
  BY DEF IInv
<1>2. /\ state = "FINISHED" /\ length' = length
      /\ Surroundings /\ Registers
  BY DEF Finished, Step
<1>3. /\ request_counter' = NextRequest /\ block_counter' = NextBlock
      /\ data_size' = DataSizeNow
  BY <1>2 DEF Registers
<1>4. state' = "IDLE"
  BY <1>1, <1>2 DEF Finished, Step, Stay, StreamsInStep, SourceReady
<1>5. TypeOK'
  BY <1>1, <1>2, <1>4, EdgeTyped DEF IInv, States, TypeOK
<1>6. StreamsInStep'
  BY <1>1, <1>2, <1>3, <1>4, SourceEdge, SinkEdge, EngineEdge
     DEF Surroundings, StreamsInStep, NextRequest, NextBlock, Position, SourceDone, DataRight, SinkReady
<1>7. CoreInStep'
  BY <1>1, <1>2, <1>4, CoreEdge DEF Surroundings, CoreInStep, CoreReady
<1>8. CountersRight'
  BY <1>1, <1>2, <1>3, <1>4, LengthFits, Sizes
     DEF CountersRight, NextRequest, NextBlock, DataSizeNow, Position, Left
<1>9. DataRight'
  BY <1>1, <1>2, <1>3, <1>4, CoreEdge, EngineEdge, SourceEdge
     DEF Surroundings, DataRight, NextRequest, NextBlock, EngineClear, StreamsInStep, CoreInStep
<1>10. StoredRight'
  <2>1. stored' = stored /\ StoredUpTo(4 * Blocks(length))
    BY <1>1, <1>2, StoredEdge, SinkEdge DEF Surroundings, StoredRight
  <2>2. PICK n : n = 4 * Blocks(length)
    OBVIOUS
  <2>3. n \in 0 .. 4 * Blocks(length')
    BY <1>1, <1>2, <2>2, LengthFits
  <2>4. \A p \in 0 .. n - 1 : PlainBlock(length, p \div 4)' = PlainBlock(length, p \div 4)
    BY <1>2 DEF PlainBlock
  <2>5. StoredUpTo(n)'
    BY <2>1, <2>2, <2>4 DEF StoredUpTo
  <2>6. QED
    BY <1>4, <2>3, <2>5 DEF StoredRight, Blocks
<1>11. QED
  BY <1>5, <1>6, <1>7, <1>8, <1>9, <1>10 DEF IInv

(* A job starts with nothing stored; what a cleared job has left in the    *)
(* input register is gone by then.                                         *)
LEMMA StartJobKeeps ==
  ASSUME LengthsFit, IInv, NEW l \in Lengths, StartJob(l)
  PROVE  IInv'
<1> USE DEF Reading, Ciphering, Sending
<1>1. /\ TypeOK /\ StreamsInStep /\ CoreInStep /\ CountersRight
      /\ DataRight /\ StoredRight
  BY DEF IInv
<1>2. /\ state = "IDLE" /\ state' = "START_KEY" /\ length' = l
      /\ Surroundings /\ Registers
  BY DEF StartJob, Step
<1>3. block_counter' = NextBlock
  BY <1>2 DEF Registers
<1>4. TypeOK'
  BY <1>2, EdgeTyped DEF States
<1>5. StreamsInStep'
  BY <1>1, <1>2, SourceEdge, SinkEdge DEF Surroundings, StreamsInStep
<1>6. CoreInStep'
  BY <1>2 DEF CoreInStep
<1>7. CountersRight'
  BY <1>2, <1>3 DEF CountersRight, NextBlock
<1>8. DataRight'
  BY <1>1, <1>2, EngineEdge DEF Surroundings, DataRight, EngineClear, StreamsInStep, ZeroBlock
<1>9. StoredRight'
  <2>1. stored' = NoStore
    BY <1>1, <1>2, StoredEdge, SinkEdge DEF Surroundings
  <2>2. StoredUpTo(0)'
    BY <2>1 DEF StoredUpTo, NoStore
  <2>3. QED
    BY <1>2, <2>2 DEF StoredRight
<1>10. QED
  BY <1>4, <1>5, <1>6, <1>7, <1>8, <1>9 DEF IInv

(* In every reachable state a first part of the result has been stored.    *)
LEMMA StoredPrefix ==
  ASSUME LengthsFit, IInv
  PROVE  \E n \in 0 .. 4 * Blocks(length) :
           StoredUpTo(n) /\ (SlaveDone => n = 4 * Blocks(length))
<1> USE DEF Reading, Ciphering, Sending
<1>1. TypeOK /\ CountersRight /\ StoredRight
  BY DEF IInv
<1>2. /\ Blocks(length) \in Nat /\ block_counter \in Nat /\ length \in Nat
      /\ request_counter \in 0 .. 3 /\ Position = request_counter + 4 * block_counter
  BY <1>1, LengthFits DEF Position
<1>3. CASE state = "IDLE"
  BY <1>1, <1>3 DEF StoredRight, SlaveDone
<1>4. CASE state \in {"START_KEY", "WAIT_KEY"}
  BY <1>1, <1>2, <1>4 DEF StoredRight, SlaveDone
<1>5. CASE Reading
  <2>1. 4 * block_counter \in 0 .. 4 * Blocks(length)
    BY <1>1, <1>2, <1>5, Sizes DEF CountersRight
  <2>2. QED
    BY <1>1, <1>5, <2>1 DEF StoredRight, SlaveDone
<1>6. CASE Ciphering
  <2>1. 4 * block_counter \in 0 .. 4 * Blocks(length)
    BY <1>1, <1>2, <1>6 DEF CountersRight
  <2>2. QED
    BY <1>1, <1>6, <2>1 DEF StoredRight, SlaveDone
<1>7. CASE Sending
  <2>1. Position \in 0 .. 4 * Blocks(length)
    BY <1>1, <1>2, <1>7 DEF CountersRight
  <2>2. QED
    BY <1>1, <1>7, <2>1 DEF StoredRight, SlaveDone
<1>8. CASE state = "MEMORY_WRITE_DONE"
  <2>1. 4 * block_counter + 4 \in 0 .. 4 * Blocks(length)
    BY <1>1, <1>2, <1>8 DEF CountersRight
  <2>2. QED
    BY <1>1, <1>8, <2>1 DEF StoredRight, SlaveDone
<1>9. CASE state = "FINISHED"
  BY <1>1, <1>2, <1>9 DEF StoredRight, SlaveDone
<1>10. QED
  BY <1>1, <1>3, <1>4, <1>5, <1>6, <1>7, <1>8, <1>9 DEF TypeOK, States

(* A soft clear leaves a job that has stored a first part of its result.   *)
LEMMA ClearKeeps ==
  ASSUME LengthsFit, IInv, Clear
  PROVE  IInv'
<1> USE DEF Reading, Ciphering, Sending
<1>1. /\ TypeOK /\ StreamsInStep /\ CoreInStep /\ CountersRight
      /\ DataRight /\ StoredRight
  BY DEF IInv
<1>2. /\ state' = "IDLE" /\ length' = length /\ stored' = stored
      /\ Core /\ EngineRegisters /\ Streams!Clear
      /\ request_counter' = NextRequest /\ data_size' = DataSizeNow
      /\ block_counter' = 0
  BY DEF Clear
<1>3. TypeOK'
  <2> USE FsmAssumption
  <2>1. request_counter' \in Words
    BY <1>1, <1>2 DEF NextRequest, TypeOK, Words
  <2>2. block_counter' \in 0 .. BLOCK_MOD - 1
    BY <1>2
  <2>3. data_size' \in 0 .. SIZE_MOD - 1
    BY <1>1, <1>2 DEF DataSizeNow, AfterWord, TypeOK
  <2>4. /\ source' = "idle" /\ source_word' = ZERO /\ sink' = "idle"
        /\ output_fifo' = << >> /\ inflight' = 0
    BY <1>2 DEF Streams!Clear
  <2>5. << >> \in Seq(OutWord) /\ Len(<< >>) <= FIFO_DEPTH /\ 0 \in 0 .. STORE_DEPTH + 1
    OBVIOUS
  <2>6. core' \in {"idle", "init", "load", "next"} /\ result_valid' \in BOOLEAN
        /\ core_block' \in Block \cup {NoBlock}
    BY <1>1, <1>2, CoreEdge DEF TypeOK
  <2>7. /\ data_reg_i' \in Block /\ core_input' \in Block
        /\ data_reg_o' \in Block \cup {NoBlock}
    BY <1>1, <1>2, EngineEdge
  <2>8. DOMAIN stored' \subseteq Positions /\ \A p \in DOMAIN stored' : stored'[p] \in OutWord
    BY <1>1, <1>2 DEF TypeOK
  <2>9. state' \in States /\ length' \in Lengths
    BY <1>1, <1>2 DEF TypeOK, States
  <2>10. QED
    BY <2>1, <2>2, <2>3, <2>4, <2>5, <2>6, <2>7, <2>8, <2>9 DEF TypeOK
<1>4. StreamsInStep'
  BY <1>2, FsmAssumption DEF Streams!Clear, StreamsInStep
<1>5. CoreInStep' /\ CountersRight' /\ DataRight'
  BY <1>2 DEF CoreInStep, CountersRight, DataRight
<1>6. StoredRight'
  <2>1. PICK n \in 0 .. 4 * Blocks(length) : StoredUpTo(n)
    BY StoredPrefix
  <2>2. \A p \in 0 .. n - 1 : PlainBlock(length, p \div 4)' = PlainBlock(length, p \div 4)
    BY <1>2 DEF PlainBlock
  <2>3. StoredUpTo(n)'
    BY <1>2, <2>1, <2>2 DEF StoredUpTo
  <2>4. QED
    BY <1>2, <2>1, <2>3 DEF StoredRight, Blocks
<1>7. QED
  BY <1>3, <1>4, <1>5, <1>6 DEF IInv

LEMMA StutterKeeps ==
  ASSUME IInv, UNCHANGED vars
  PROVE  IInv'
<1> USE DEF vars, fsmVars, engineVars, coreVars, streamVars, Reading, Ciphering, Sending,
            Position
<1>1. TypeOK'
  BY DEF IInv, TypeOK
<1>2. StreamsInStep' /\ CoreInStep'
  BY DEF IInv, StreamsInStep, CoreInStep
<1>3. CountersRight'
  BY DEF IInv, CountersRight, Left, Blocks, InputWords
<1>4. DataRight'
  BY DEF IInv, DataRight, Filled, PlainBlock
<1>5. StoredRight'
  BY DEF IInv, StoredRight, StoredUpTo, PlainBlock, Blocks
<1>6. QED
  BY <1>1, <1>2, <1>3, <1>4, <1>5 DEF IInv

(* After reset nothing has been read, sent or stored.                      *)
LEMMA InitHolds ==
  ASSUME LengthsFit, Init
  PROVE  IInv
<1> USE FsmAssumption DEF Init, Streams!Init
<1>1. TypeOK
  <2>1. ZeroBlock \in Block /\ << >> \in Seq(OutWord) /\ Len(<< >>) = 0
    BY DEF ZeroBlock, Block
  <2>2. DOMAIN NoStore = {}
    BY DEF NoStore
  <2>3. stored = NoStore /\ DOMAIN stored \subseteq Positions
    BY <2>2
  <2>4. 0 \in Words /\ 0 \in 0 .. BLOCK_MOD - 1 /\ 0 \in 0 .. SIZE_MOD - 1
        /\ 0 \in 0 .. STORE_DEPTH + 1 /\ 0 <= FIFO_DEPTH
    BY DEF Words
  <2>5. \A p \in DOMAIN stored : stored[p] \in OutWord
    BY <2>2, <2>3
  <2>6. QED
    BY <2>1, <2>3, <2>4, <2>5 DEF TypeOK, States
<1>2. StreamsInStep /\ CoreInStep /\ CountersRight /\ DataRight
  BY DEF StreamsInStep, CoreInStep, CountersRight, DataRight, Reading, Ciphering, Sending
<1>3. StoredRight
  <2>1. StoredUpTo(0)
    BY DEF StoredUpTo, NoStore
  <2>2. 0 \in 0 .. 4 * Blocks(length)
    BY <1>1, LengthFits
  <2>3. QED
    BY <2>1, <2>2 DEF StoredRight, Reading, Ciphering, Sending
<1>4. QED
  BY <1>1, <1>2, <1>3 DEF IInv

(* The invariant holds in every reachable state.                           *)
LEMMA Inductive ==
  ASSUME LengthsFit
  PROVE  Spec => []IInv
<1>1. Init => IInv
  BY InitHolds
<1>2. IInv /\ [Next]_vars => IInv'
  <2> SUFFICES ASSUME IInv, [Next]_vars PROVE IInv'
    OBVIOUS
  <2>1. ASSUME NEW l \in Lengths, StartJob(l) PROVE IInv'
    BY <2>1, StartJobKeeps
  <2>2. CASE WaitForStart
    BY <2>2, WaitForStartKeeps
  <2>3. CASE StartKey
    BY <2>3, StartKeyKeeps
  <2>4. CASE WaitKey
    BY <2>4, WaitKeyKeeps
  <2>5. CASE RequestData
    BY <2>5, RequestDataKeeps
  <2>6. CASE RequestDataWait
    BY <2>6, RequestDataWaitKeeps
  <2>7. CASE StartCore
    BY <2>7, StartCoreKeeps
  <2>8. CASE WaitCore
    BY <2>8, WaitCoreKeeps
  <2>9. CASE SendData
    BY <2>9, SendDataKeeps
  <2>10. CASE SendDataWait
    BY <2>10, SendDataWaitKeeps
  <2>11. CASE MemoryWriteWait
    BY <2>11, MemoryWriteWaitKeeps
  <2>12. CASE MemoryWriteDone
    BY <2>12, MemoryWriteDoneKeeps
  <2>13. CASE Finished
    BY <2>13, FinishedKeeps
  <2>14. CASE Clear
    BY <2>14, ClearKeeps
  <2>15. CASE UNCHANGED vars
    BY <2>15, StutterKeeps
  <2>16. QED
    BY <2>1, <2>2, <2>3, <2>4, <2>5, <2>6, <2>7, <2>8, <2>9, <2>10, <2>11,
       <2>12, <2>13, <2>14, <2>15 DEF Next, Advance
<1>3. QED
  BY <1>1, <1>2, PTL DEF Spec

-----------------------------------------------------------------------------
(* The registers of aes_fsm and aes_engine keep their types.               *)
THEOREM FsmTypeCorrect ==
  ASSUME LengthsFit
  PROVE  Spec => []TypeOK
<1>1. IInv => TypeOK
  BY DEF IInv
<1>2. QED
  BY <1>1, Inductive, PTL

(* For a job of any length that fits, whatever the timing of the core and  *)
(* of the memory and wherever a soft clear falls, each word that the sink  *)
(* accepts is the right word of the right block at the right address, and  *)
(* none is missing when the FSM raises done.                               *)
THEOREM OutputAlwaysRight ==
  ASSUME LengthsFit
  PROVE  Spec => []OutputRight
<1>1. IInv => OutputRight
  <2> SUFFICES ASSUME IInv PROVE OutputRight
    OBVIOUS
  <2> USE DEF Reading, Ciphering, Sending
  <2>1. /\ TypeOK /\ CountersRight /\ StoredRight
    BY DEF IInv
  <2>2. /\ Blocks(length) \in Nat /\ block_counter \in Nat /\ length \in Nat
        /\ request_counter \in 0 .. 3 /\ Position = request_counter + 4 * block_counter
    BY <2>1, LengthFits DEF Position
  <2>3. PICK n \in 0 .. 4 * Blocks(length) :
          StoredUpTo(n) /\ (SlaveDone => n = 4 * Blocks(length))
    BY StoredPrefix
  <2>4. DOMAIN Expected(length) = 0 .. 4 * Blocks(length) - 1
    BY DEF Expected
  <2>5. 0 .. n - 1 \subseteq DOMAIN Expected(length)
    BY <2>2, <2>4
  <2>6. \A p \in 0 .. n - 1 : stored[p] = Expected(length)[p]
    BY <2>3, <2>4, <2>5 DEF StoredUpTo, Expected
  <2>7. QED
    BY <2>3, <2>4, <2>5, <2>6 DEF StoredUpTo, OutputRight
<1>2. QED
  BY <1>1, Inductive, PTL

(* aes_output.valid is high for one cycle and aes_fsm never looks at its   *)
(* ready: there is always room, and a sink that takes the word.            *)
THEOREM OutputAlwaysAccepted ==
  ASSUME LengthsFit
  PROVE  Spec => []OutputAccepted
<1>1. IInv => OutputAccepted
  BY DEF IInv, StreamsInStep, OutputAccepted, DataOutValid
<1>2. QED
  BY <1>1, Inductive, PTL

(* core_start lasts one cycle and is never raised at a core that is busy.  *)
THEOREM StartAlwaysSeen ==
  ASSUME LengthsFit
  PROVE  Spec => []StartSeen
<1>1. IInv => StartSeen
  BY DEF IInv, CoreInStep, StartSeen, CoreReady
<1>2. QED
  BY <1>1, Inductive, PTL

-----------------------------------------------------------------------------
(* What is read, and the number of bytes that are left.  Neither asks for  *)
(* more of a job than a first byte, not even that block_counter can count  *)
(* its blocks: with an invariant of their own the two theorems are proved  *)
(* for any such job.  The empty job must be excluded: it reads the word at *)
(* position 0, which is not in its input, and wraps data_size around.      *)
NoEmptyJob == 0 \notin Lengths

(* While a block is read there is something left, and it lies behind the   *)
(* position, which may fall back when block_counter wraps; when the block  *)
(* has been read nothing is left, or it lies behind the block.             *)
ReadInv ==
  /\ length \in Lengths /\ data_size \in Nat
  /\ block_counter \in Nat /\ request_counter \in Words
  /\ source # "idle" => state = "REQUEST_DATA_WAIT"
  /\ state \in {"START_KEY", "WAIT_KEY"} => block_counter = 0
  /\ state = "WAIT_KEY" => data_size = length
  /\ state \in {"WAIT_KEY", "WAIT_CORE", "MEMORY_WRITE_DONE"} => request_counter = 0
  /\ Reading => data_size > 0 /\ 4 * Position + data_size <= length
  /\ (Ciphering \/ Sending \/ state = "MEMORY_WRITE_DONE") =>
       data_size = 0 \/ 16 * (block_counter + 1) + data_size <= length

(* The counters at an edge; the one of the blocks does not grow by more    *)
(* than one, and not before the block has been written.                    *)
LEMMA CountersEdge ==
  ASSUME ReadInv, Registers
  PROVE  /\ request_counter' \in Words /\ data_size' \in Nat
         /\ block_counter' \in Nat /\ block_counter' <= block_counter + 1
         /\ state = "IDLE" => block_counter' = 0
         /\ state \notin {"IDLE", "MEMORY_WRITE_DONE"} => block_counter' = block_counter
         /\ state \notin {"START_KEY", "REQUEST_DATA_WAIT"} => data_size' = data_size
         /\ length \in Nat
<1> USE FsmAssumption
<1>1. length \in Nat
  BY DEF ReadInv
<1>2. request_counter' \in Words
  BY DEF ReadInv, Registers, NextRequest, Words
<1>3. data_size' \in Nat
  BY <1>1 DEF ReadInv, Registers, DataSizeNow, AfterWord
<1>4. (block_counter + 1) % BLOCK_MOD \in 0 .. block_counter + 1
  BY DEF ReadInv
<1>5. QED
  BY <1>1, <1>2, <1>3, <1>4 DEF ReadInv, Registers, NextBlock, DataSizeNow

(* The source is at work in the one state that waits for it.               *)
LEMMA SourceWaited ==
  ASSUME ReadInv, Streams!SourceStep,
         state = "REQUEST_DATA" /\ SourceReady => state' = "REQUEST_DATA_WAIT",
         state = "REQUEST_DATA_WAIT" /\ ~SourceDone => state' = "REQUEST_DATA_WAIT"
  PROVE  source' # "idle" => state' = "REQUEST_DATA_WAIT"
BY DEF ReadInv, Streams!SourceStep, SourceStart, SourceReady, SourceDone

(* The states in which a job neither reads nor has read.                   *)
LEMMA BeforeReading ==
  ASSUME ReadInv, NEW l \in Lengths,
         StartJob(l) \/ WaitForStart \/ StartKey \/ Finished
  PROVE  ReadInv'
<1> USE DEF StartJob, WaitForStart, StartKey, Finished, Step, Stay
<1>1. Registers /\ Streams!SourceStep
  BY DEF Surroundings
<1>2. source' # "idle" => state' = "REQUEST_DATA_WAIT"
  BY <1>1, SourceWaited
<1>3. length' \in Lengths
  BY DEF ReadInv
<1>4. state' \in {"IDLE", "START_KEY", "WAIT_KEY"}
  OBVIOUS
<1>5. state' \in {"START_KEY", "WAIT_KEY"} => block_counter' = 0
  BY <1>1, CountersEdge DEF ReadInv
<1>6. state' = "WAIT_KEY" => data_size' = length' /\ request_counter' = 0
  BY <1>1 DEF ReadInv, Registers, NextRequest, DataSizeNow
<1>7. QED
  BY <1>1, <1>2, <1>3, <1>4, <1>5, <1>6, CountersEdge
     DEF ReadInv, Reading, Ciphering, Sending

(* The key has been expanded, or the source is asked for a word.           *)
LEMMA ReadingBegins ==
  ASSUME NoEmptyJob, ReadInv, WaitKey \/ RequestData
  PROVE  ReadInv'
<1> USE DEF WaitKey, RequestData, Step, Stay
<1>1. Registers /\ Streams!SourceStep /\ length' = length
  BY DEF Surroundings
<1>2. source' # "idle" => state' = "REQUEST_DATA_WAIT"
  BY <1>1, SourceWaited
<1>3. /\ request_counter' = request_counter /\ block_counter' = block_counter
      /\ data_size' = data_size
  BY <1>1, CountersEdge DEF Registers, NextRequest
<1>4. length \in Nat /\ length > 0
  BY <1>1, CountersEdge DEF NoEmptyJob, ReadInv
<1>5. state' \in {"WAIT_KEY", "REQUEST_DATA", "REQUEST_DATA_WAIT"}
      /\ (state' = "WAIT_KEY" => state = "WAIT_KEY")
  OBVIOUS
<1>6. data_size > 0 /\ 4 * Position + data_size <= length
  BY <1>4 DEF ReadInv, Reading, Position
<1>7. Position' = Position
  BY <1>3 DEF Position
<1>8. QED
  BY <1>1, <1>2, <1>3, <1>5, <1>6, <1>7 DEF ReadInv, Reading, Ciphering, Sending

(* A word has been read: four bytes less are left, one word further on.    *)
LEMMA WordRead ==
  ASSUME ReadInv, RequestDataWait
  PROVE  ReadInv'
<1> USE FsmAssumption DEF RequestDataWait, Step, Stay
<1>1. Registers /\ Streams!SourceStep /\ length' = length
  BY DEF Surroundings
<1>2. source' # "idle" => state' = "REQUEST_DATA_WAIT"
  BY <1>1, SourceWaited
<1>3. block_counter' = block_counter /\ length \in Nat
  BY <1>1, CountersEdge
<1>4. /\ data_size > 0 /\ 4 * Position + data_size <= length
      /\ data_size \in Nat /\ request_counter \in 0 .. 3 /\ block_counter \in Nat
  BY DEF ReadInv, Reading, Words
<1>5. CASE ~SourceDone
  <2>1. /\ state' = "REQUEST_DATA_WAIT" /\ data_size' = data_size
        /\ request_counter' = request_counter
    BY <1>1, <1>5 DEF Registers, NextRequest, DataSizeNow
  <2>2. Position' = Position
    BY <1>3, <2>1 DEF Position
  <2>3. QED
    BY <1>1, <1>2, <1>3, <1>4, <2>1, <2>2 DEF ReadInv, Reading, Ciphering, Sending
<1>6. CASE SourceDone
  <2>1. data_size' = AfterWord(data_size) /\ DataSizeNow = data_size'
    BY <1>1, <1>6 DEF Registers, DataSizeNow
  <2>2. data_size' = 0 \/ data_size' = data_size - 4
    BY <1>4, <2>1 DEF AfterWord
  <2>3. data_size' \in Nat /\ request_counter' \in Words
    BY <1>1, CountersEdge
  <2>4. CASE BlockComplete
    <3>1. state' = "START_CORE"
      BY <1>6, <2>4
    <3>2. data_size' = 0 \/ request_counter = 3
      BY <2>1, <2>4 DEF BlockComplete
    <3>3. data_size' = 0 \/ 16 * (block_counter + 1) + data_size' <= length
      BY <1>3, <1>4, <2>2, <3>2 DEF Position
    <3>4. QED
      BY <1>1, <1>2, <1>3, <2>3, <3>1, <3>3 DEF ReadInv, Reading, Ciphering, Sending
  <2>5. CASE ~BlockComplete
    <3>1. state' = "REQUEST_DATA"
      BY <1>6, <2>5
    <3>2. data_size' # 0 /\ request_counter # 3
      BY <2>1, <2>5 DEF BlockComplete
    <3>3. request_counter' = request_counter + 1
      BY <1>1, <1>4, <1>6, <3>2 DEF Registers, NextRequest
    <3>4. Position' = Position + 1 /\ Position \in Nat
      BY <1>3, <1>4, <3>3 DEF Position
    <3>5. data_size' > 0 /\ 4 * Position' + data_size' <= length
      <4> HIDE DEF RequestDataWait, Step
      <4>1. data_size' = data_size - 4 /\ data_size' > 0
        BY <2>2, <2>3, <3>2
      <4>2. 4 * Position' = 4 * Position + 4
        BY <3>4
      <4>3. QED
        BY <1>3, <1>4, <3>4, <4>1, <4>2
    <3>6. QED
      BY <1>1, <1>2, <1>3, <2>3, <3>1, <3>5 DEF ReadInv, Reading, Ciphering, Sending
  <2>6. QED
    BY <2>4, <2>5
<1>7. QED
  BY <1>5, <1>6

(* A block that is in the core or being sent reads nothing.                *)
LEMMA BlockPasses ==
  ASSUME ReadInv,
         StartCore \/ WaitCore \/ SendData \/ SendDataWait \/ MemoryWriteWait
  PROVE  ReadInv'
<1> USE DEF StartCore, WaitCore, SendData, SendDataWait, MemoryWriteWait, Step, Stay
<1>1. Registers /\ Streams!SourceStep /\ length' = length
  BY DEF Surroundings
<1>2. source' # "idle" => state' = "REQUEST_DATA_WAIT"
  BY <1>1, SourceWaited
<1>3. /\ request_counter' \in Words /\ block_counter' = block_counter
      /\ data_size' = data_size
  BY <1>1, CountersEdge
<1>4. state' \in {"WAIT_CORE", "SEND_DATA", "SEND_DATA_WAIT", "MEMORY_WRITE_WAIT",
                  "MEMORY_WRITE_DONE"}
  OBVIOUS
<1>5. state' \in {"WAIT_CORE", "MEMORY_WRITE_DONE"} => request_counter' = 0
  BY <1>1 DEF ReadInv, Registers, NextRequest
<1>6. data_size = 0 \/ 16 * (block_counter + 1) + data_size <= length
  BY DEF ReadInv, Ciphering, Sending
<1>7. QED
  BY <1>1, <1>2, <1>3, <1>4, <1>5, <1>6 DEF ReadInv, Reading, Ciphering, Sending

(* The next block begins behind this one, or, when the counter wraps,      *)
(* before it.                                                              *)
LEMMA BlockWritten ==
  ASSUME ReadInv, MemoryWriteDone
  PROVE  ReadInv'
<1> USE DEF MemoryWriteDone, Step
<1>1. Registers /\ Streams!SourceStep /\ length' = length
  BY DEF Surroundings
<1>2. source' # "idle" => state' = "REQUEST_DATA_WAIT"
  BY <1>1, SourceWaited
<1>3. /\ block_counter' \in Nat /\ block_counter' <= block_counter + 1
      /\ data_size' = data_size /\ length \in Nat
  BY <1>1, CountersEdge
<1>4. request_counter' = 0 /\ 0 \in Words
  BY <1>1 DEF ReadInv, Registers, NextRequest, Words
<1>5. /\ data_size = 0 \/ 16 * (block_counter + 1) + data_size <= length
      /\ data_size \in Nat /\ block_counter \in Nat
  BY DEF ReadInv
<1>6. CASE data_size = 0
  BY <1>1, <1>2, <1>3, <1>4, <1>5, <1>6 DEF ReadInv, Reading, Ciphering, Sending
<1>7. CASE data_size # 0
  <2>1. Position' = 4 * block_counter'
    BY <1>3, <1>4 DEF Position
  <2>2. data_size' > 0 /\ 4 * Position' + data_size' <= length
    <3> HIDE DEF MemoryWriteDone, Step
    <3>1. data_size' > 0 /\ data_size' \in Nat
      BY <1>3, <1>5, <1>7
    <3>2. \A b, c, d \in Nat :
            c <= b + 1 /\ 16 * (b + 1) + d <= length => 16 * c + d <= length
      BY <1>3
    <3>3. 16 * block_counter' + data_size' <= length
      BY <1>3, <1>5, <1>7, <3>2
    <3>4. 4 * Position' = 16 * block_counter'
      BY <1>3, <2>1
    <3>5. QED
      BY <3>1, <3>3, <3>4
  <2>3. state' = "REQUEST_DATA"
    BY <1>7
  <2>4. QED
    BY <1>1, <1>2, <1>3, <1>4, <1>5, <2>2, <2>3 DEF ReadInv, Reading, Ciphering, Sending
<1>8. QED
  BY <1>6, <1>7

LEMMA ClearReads ==
  ASSUME ReadInv, Clear
  PROVE  ReadInv'
<1>1. length' = length /\ state' = "IDLE" /\ block_counter' = 0 /\ source' = "idle"
  BY DEF Clear, Streams!Clear
<1>2. request_counter' \in Words
  BY DEF ReadInv, Clear, NextRequest, Words
<1>3. data_size' \in Nat
  BY FsmAssumption DEF ReadInv, Clear, DataSizeNow, AfterWord
<1>4. QED
  BY <1>1, <1>2, <1>3 DEF ReadInv, Reading, Ciphering, Sending

(* What is left lies behind the position in every reachable state.         *)
LEMMA ReadsBehind ==
  ASSUME NoEmptyJob
  PROVE  Spec => []ReadInv
<1>1. Init => ReadInv
  BY DEF Init, Streams!Init, ReadInv, Words, Reading, Ciphering, Sending
<1>2. ReadInv /\ [Next]_vars => ReadInv'
  <2> SUFFICES ASSUME ReadInv, [Next]_vars PROVE ReadInv'
    OBVIOUS
  <2>1. ASSUME NEW l \in Lengths, StartJob(l) PROVE ReadInv'
    BY <2>1, BeforeReading
  <2>2. CASE WaitForStart \/ StartKey \/ Finished
    <3>1. PICK l \in Lengths : TRUE
      BY DEF ReadInv
    <3>2. QED
      BY <2>2, <3>1, BeforeReading
  <2>3. CASE WaitKey \/ RequestData
    BY <2>3, ReadingBegins
  <2>4. CASE RequestDataWait
    BY <2>4, WordRead
  <2>5. CASE StartCore \/ WaitCore \/ SendData \/ SendDataWait \/ MemoryWriteWait
    BY <2>5, BlockPasses
  <2>6. CASE MemoryWriteDone
    BY <2>6, BlockWritten
  <2>7. CASE Clear
    BY <2>7, ClearReads
  <2>8. CASE UNCHANGED vars
    BY <2>8 DEF vars, fsmVars, streamVars, ReadInv, Reading, Ciphering, Sending, Position
  <2>9. QED
    BY <2>1, <2>2, <2>3, <2>4, <2>5, <2>6, <2>7, <2>8 DEF Next, Advance
<1>3. QED
  BY <1>1, <1>2, PTL DEF Spec

(* The accelerator reads no word that lies behind its input, for jobs of   *)
(* any lengths but 0.                                                      *)
THEOREM ReadsOnlyInput ==
  ASSUME NoEmptyJob
  PROVE  Spec => ReadsInput
<1>1. ReadInv => (source = "fetch" => Position < InputWords(length))
  <2> SUFFICES ASSUME ReadInv, source = "fetch" PROVE Position < InputWords(length)
    OBVIOUS
  <2>1. data_size > 0 /\ 4 * Position + data_size <= length
    BY DEF ReadInv, Reading
  <2>2. data_size \in Nat /\ Position \in Nat /\ length \in Nat
    BY FsmAssumption DEF ReadInv, Position, Words
  <2>3. QED
    BY <2>1, <2>2 DEF InputWords
<1>2. ReadInv /\ [Next]_vars =>
        [source = "fetch" /\ source' = "word" => Position < InputWords(length)]_vars
  BY <1>1
<1>3. QED
  BY <1>2, ReadsBehind, PTL DEF Spec, ReadsInput

(* Unless a job is empty, the number of bytes that are left never wraps    *)
(* around: the first decrement, which has no guard, finds a byte.          *)
THEOREM NoOverflow ==
  ASSUME NoEmptyJob
  PROVE  Spec => NoSizeOverflow
<1>1. ASSUME ReadInv, Next, state # "START_KEY"
      PROVE  data_size' <= data_size
  <2>1. data_size' = DataSizeNow
    BY <1>1 DEF Next, Advance, Clear, StartJob, WaitForStart, StartKey, WaitKey,
                RequestData, RequestDataWait, StartCore, WaitCore, SendData,
                SendDataWait, MemoryWriteWait, MemoryWriteDone, Finished,
                Step, Registers
  <2>2. data_size \in Nat
    BY <1>1 DEF ReadInv
  <2>3. CASE state = "REQUEST_DATA_WAIT" /\ SourceDone
    <3>1. data_size > 0
      BY <1>1, <2>3 DEF ReadInv, Reading
    <3>2. AfterWord(data_size) <= data_size
      BY <2>2, <3>1 DEF AfterWord
    <3>3. QED
      BY <1>1, <2>1, <2>3, <3>2 DEF DataSizeNow
  <2>4. CASE ~(state = "REQUEST_DATA_WAIT" /\ SourceDone)
    BY <1>1, <2>1, <2>2, <2>4 DEF DataSizeNow
  <2>5. QED
    BY <2>3, <2>4
<1>2. ReadInv /\ [Next]_vars => [state # "START_KEY" => data_size' <= data_size]_vars
  BY <1>1
<1>3. QED
  BY <1>2, ReadsBehind, PTL DEF Spec, NoSizeOverflow

-----------------------------------------------------------------------------
(* The progress of a job.                                                  *)
(* The way of a job through the FSM, and how much of it is left: the key,  *)
(* and for each block at most 41 stages, of which InBlock have been passed *)
(* in the block that is under way.                                         *)
InBlock ==
  CASE state = "REQUEST_DATA" -> 5 * request_counter
    [] state = "REQUEST_DATA_WAIT" ->
         5 * request_counter + (IF source = "fetch" THEN 1
                                ELSE IF source = "word" THEN 2 ELSE 3)
    [] state = "START_CORE" -> 20
    [] state = "WAIT_CORE" -> (IF core = "load" THEN 21
                               ELSE IF core = "next" THEN 22 ELSE 23)
    [] state = "SEND_DATA" ->
         4 * request_counter + (IF sink = "drain" THEN 24 ELSE 25)
    [] state = "SEND_DATA_WAIT" -> 4 * request_counter + 26
    [] state = "MEMORY_WRITE_WAIT" -> 4 * request_counter + 27
    [] OTHER -> 40

BlocksLeft(b) == 41 * (Blocks(length) - b)

StagesLeft ==
  CASE state = "IDLE" -> 0
    [] state = "FINISHED" -> 1
    [] state = "START_KEY" ->
         BlocksLeft(0) + (IF core = "load" THEN 6
                          ELSE IF core = "idle" THEN 4 ELSE 5)
    [] state = "WAIT_KEY" -> BlocksLeft(0) + (IF core = "idle" THEN 2 ELSE 3)
    [] OTHER -> BlocksLeft(block_counter) + 1 - InBlock

(* Whom the FSM waits for: the core, the memory that has a word to read,   *)
(* the sink that has one to pass on.                                       *)
Waits ==
  \/ /\ state \in {"START_KEY", "WAIT_KEY", "WAIT_CORE"}
     /\ core \in {"init", "next"} /\ core' = core
  \/ state = "REQUEST_DATA_WAIT" /\ source = "fetch" /\ source' = "fetch"
  \/ state = "SEND_DATA" /\ sink = "drain" /\ sink' = "drain"

Progresses == StagesLeft' < StagesLeft \/ (StagesLeft' = StagesLeft /\ Waits)

(* What is left is a count, and nothing is only when the FSM is idle.      *)
LEMMA StagesCount ==
  ASSUME LengthsFit, IInv
  PROVE  StagesLeft \in Nat /\ (StagesLeft = 0 <=> state = "IDLE")
<1> USE DEF Reading, Ciphering, Sending
<1>1. /\ TypeOK /\ StreamsInStep /\ CountersRight
  BY DEF IInv
<1>2. /\ Blocks(length) \in Nat /\ length \in Nat /\ block_counter \in Nat
      /\ request_counter \in 0 .. 3
  BY <1>1, LengthFits
<1>3. state \in States
  BY <1>1 DEF TypeOK
<1>4. CASE state \in {"IDLE", "FINISHED", "START_KEY", "WAIT_KEY"}
  BY <1>2, <1>4 DEF StagesLeft, BlocksLeft
<1>5. CASE state \notin {"IDLE", "FINISHED", "START_KEY", "WAIT_KEY"}
  <2>1. block_counter < Blocks(length)
    <3>1. CASE Reading
      <4>1. 4 * block_counter < InputWords(length)
        <5>1. Position < InputWords(length) /\ Position = request_counter + 4 * block_counter
          BY <1>1, <3>1 DEF CountersRight, Position
        <5>2. InputWords(length) \in Nat
          BY <1>2, Sizes
        <5> QED  BY <1>2, <5>1, <5>2
      <4> QED  BY <1>2, <4>1, Sizes
    <3>2. CASE ~Reading
      BY <1>1, <1>3, <1>5, <3>2 DEF CountersRight, States
    <3> QED  BY <3>1, <3>2
  <2>2. InBlock \in 0 .. 40
    BY <1>2, <1>3, <1>5 DEF InBlock, States
  <2>3. StagesLeft = BlocksLeft(block_counter) + 1 - InBlock
    BY <1>5 DEF StagesLeft
  <2> QED  BY <1>2, <1>5, <2>1, <2>2, <2>3 DEF BlocksLeft
<1> QED  BY <1>4, <1>5

(* What an edge leaves of a block that goes on.                            *)
LEMMA SameBlock ==
  ASSUME LengthsFit, IInv, length' = length, block_counter' = block_counter,
         state \in States \ {"IDLE", "FINISHED", "START_KEY", "WAIT_KEY"},
         state' \in States \ {"IDLE", "FINISHED", "START_KEY", "WAIT_KEY"},
         InBlock \in Int, InBlock' \in Int
  PROVE  StagesLeft' = StagesLeft - (InBlock' - InBlock)
<1>1. Blocks(length) \in Nat /\ block_counter \in Nat
  BY LengthFits DEF IInv
<1>2. BlocksLeft(block_counter)' = BlocksLeft(block_counter)
  BY DEF BlocksLeft
<1>3. BlocksLeft(block_counter) \in Int
  BY <1>1 DEF BlocksLeft
<1>4. StagesLeft = BlocksLeft(block_counter) + 1 - InBlock
  BY DEF StagesLeft
<1>5. StagesLeft' = BlocksLeft(block_counter)' + 1 - InBlock'
  BY DEF StagesLeft
<1> QED  BY <1>2, <1>3, <1>4, <1>5

(* Every edge in the middle of a block brings its end nearer, or finds the *)
(* one that the FSM waits for at work.                                     *)
LEMMA BlockAdvances ==
  ASSUME LengthsFit, IInv, Surroundings, Registers, length' = length,
         \/ RequestData \/ RequestDataWait \/ StartCore \/ WaitCore
         \/ SendData \/ SendDataWait
         \/ MemoryWriteWait
  PROVE  Progresses
<1> USE DEF Reading, Ciphering, Sending
<1>1. TypeOK /\ StreamsInStep /\ CoreInStep /\ CountersRight
  BY DEF IInv
<1>2. request_counter \in 0 .. 3 /\ request_counter' = NextRequest
  BY <1>1, LengthFits DEF Registers
<1>3. state \notin {"IDLE", "MEMORY_WRITE_DONE"}
  BY DEF RequestData, RequestDataWait, StartCore, WaitCore, SendData,
         SendDataWait, MemoryWriteWait
<1>4. block_counter' = block_counter
  BY <1>3 DEF Registers, NextBlock
<1> DEFINE Inside == States \ {"IDLE", "FINISHED", "START_KEY", "WAIT_KEY"}
<1>5. /\ InBlock \in Int /\ InBlock' \in Int
      /\ state \in Inside /\ state' \in Inside
      /\ InBlock' > InBlock \/ (InBlock' = InBlock /\ Waits)
  <2>1. CASE RequestData
    <3>1. /\ state = "REQUEST_DATA" /\ state' = "REQUEST_DATA_WAIT"
      BY <1>1, <2>1 DEF RequestData, Step, Stay, StreamsInStep, SourceReady
    <3>2. source' = "fetch"
      BY <1>1, <3>1, SourceEdge DEF Surroundings
    <3>3. request_counter' = request_counter
      BY <1>2, <3>1 DEF NextRequest
    <3> QED  BY <1>2, <3>1, <3>2, <3>3 DEF InBlock, States
  <2>2. CASE RequestDataWait /\ source = "done"
    <3>1. state = "REQUEST_DATA_WAIT" /\ source = "done"
      BY <2>2 DEF RequestDataWait
    <3>2. state' = IF BlockComplete THEN "START_CORE" ELSE "REQUEST_DATA"
      BY <2>2 DEF RequestDataWait, Step, Stay, SourceDone
    <3>3. ~BlockComplete => request_counter' = request_counter + 1
      BY <1>2, <3>1 DEF BlockComplete, NextRequest, SourceDone
    <3> QED  BY <1>2, <3>1, <3>2, <3>3 DEF InBlock, States
  <2>3. CASE RequestDataWait /\ source # "done"
    <3>1. state = "REQUEST_DATA_WAIT" /\ state' = state
      BY <2>3 DEF RequestDataWait, Step, Stay, SourceDone
    <3>2. \/ source = "fetch" /\ source' \in {"fetch", "word"}
          \/ source = "word" /\ source' = "done"
      BY <1>1, <2>3, <3>1 DEF Surroundings, Streams!SourceStep, StreamsInStep,
                              SourceStart
    <3>3. request_counter' = request_counter
      BY <1>2, <2>3 DEF NextRequest, SourceDone, RequestDataWait
    <3> QED  BY <1>2, <3>1, <3>2, <3>3 DEF InBlock, States, Waits
  <2>4. CASE StartCore
    <3>1. state = "START_CORE" /\ state' = "WAIT_CORE"
      BY <2>4 DEF StartCore, Step
    <3> QED  BY <3>1, CoreEdge, <1>1 DEF InBlock, States, Surroundings
  <2>5. CASE WaitCore
    <3>1. /\ state = "WAIT_CORE"
          /\ state' = IF core = "idle" THEN "SEND_DATA" ELSE state
          /\ core \in {"load", "next", "idle"}
          /\ request_counter = 0
      BY <1>1, <2>5 DEF WaitCore, Step, Stay, CoreReady, CoreInStep, CountersRight
    <3>2. /\ core = "load" => core' = "next"
          /\ core' \in {"next", "idle"}
      BY <1>1, <3>1, CoreEdge DEF Surroundings
    <3>3. request_counter' = 0
      BY <1>2, <3>1 DEF NextRequest
    <3> QED  BY <3>1, <3>2, <3>3 DEF InBlock, States, Waits
  <2>6. CASE SendData
    <3>1. /\ state = "SEND_DATA" /\ request_counter' = request_counter
          /\ state' = IF sink = "idle" THEN "SEND_DATA_WAIT" ELSE state
          /\ sink \in {"idle", "drain"}
      BY <1>1, <1>2, <2>6 DEF SendData, Step, Stay, SinkReady, NextRequest,
         StreamsInStep, TypeOK
    <3> QED  BY <1>2, <3>1 DEF InBlock, States, Waits
  <2>7. CASE SendDataWait
    <3>1. /\ state = "SEND_DATA_WAIT" /\ state' = "MEMORY_WRITE_WAIT"
          /\ request_counter' = request_counter
      BY <1>2, <2>7 DEF SendDataWait, Step, NextRequest
    <3> QED  BY <1>2, <3>1 DEF InBlock, States
  <2>8. CASE MemoryWriteWait
    <3>1. /\ state = "MEMORY_WRITE_WAIT"
          /\ state' = IF request_counter = 3 THEN "MEMORY_WRITE_DONE"
                      ELSE "SEND_DATA"
      BY <2>8 DEF MemoryWriteWait, Step
    <3>2. request_counter # 3 => request_counter' = request_counter + 1
      BY <1>2, <3>1 DEF NextRequest
    <3> QED  BY <1>2, <3>1, <3>2 DEF InBlock, States
  <2> QED  BY <2>1, <2>2, <2>3, <2>4, <2>5, <2>6, <2>7, <2>8
<1>6. StagesLeft' = StagesLeft - (InBlock' - InBlock)
  BY <1>4, <1>5, SameBlock
<1>7. StagesLeft \in Int
  BY StagesCount
<1>8. /\ InBlock' > InBlock => StagesLeft' < StagesLeft
      /\ InBlock' = InBlock => StagesLeft' = StagesLeft
  <2>1. PICK i \in Int, j \in Int, n \in Int :
          i = InBlock /\ j = InBlock' /\ n = StagesLeft
    BY <1>5, <1>7
  <2>2. StagesLeft' = n - (j - i)
    BY <1>6, <2>1
  <2>3. (j > i => n - (j - i) < n) /\ (j = i => n - (j - i) = n)
    OBVIOUS
  <2>4. (j > i => StagesLeft' < n) /\ (j = i => StagesLeft' = n)
    BY <2>2, <2>3
  <2> QED  BY <2>1, <2>4
<1> QED  BY <1>5, <1>8, Zenon DEF Progresses

(* The key is expanded before the first block.                             *)
LEMMA KeyAdvances ==
  ASSUME LengthsFit, IInv, Surroundings, Registers, length' = length,
         StartKey \/ WaitKey
  PROVE  Progresses
<1>1. TypeOK /\ StreamsInStep /\ CoreInStep /\ CountersRight
  BY DEF IInv
<1>2. Blocks(length) \in Nat
  BY <1>1, LengthFits
<1>3. core \in {"idle", "init", "load", "next"}
  BY <1>1 DEF TypeOK
<1> DEFINE all == BlocksLeft(0)
<1>4. all \in Int /\ all' = all
  BY <1>2 DEF BlocksLeft
<1> HIDE DEF all
<1>5. CASE StartKey
  <2>1. /\ state = "START_KEY"
        /\ state' = IF core = "idle" THEN "WAIT_KEY" ELSE state
    BY <1>5 DEF StartKey, Step, Stay, CoreReady
  <2>2. /\ core = "idle" => core' = "init"
        /\ core = "load" => core' = "next"
        /\ core \in {"init", "next"} => core' \in {core, "idle"}
    BY <1>3, <2>1 DEF Surroundings, Core
  <2>3. StagesLeft = all + (IF core = "load" THEN 6
                            ELSE IF core = "idle" THEN 4 ELSE 5)
    BY <2>1 DEF StagesLeft, all
  <2>4. StagesLeft' = IF core = "idle"
                      THEN all' + 3
                      ELSE all' + (IF core' = "load" THEN 6
                                   ELSE IF core' = "idle" THEN 4 ELSE 5)
    BY <2>1, <2>2 DEF StagesLeft, all
  <2> QED  BY <1>3, <1>4, <2>1, <2>2, <2>3, <2>4 DEF Progresses, Waits
<1>6. CASE WaitKey
  <2>1. /\ state = "WAIT_KEY" /\ core \in {"init", "idle"}
        /\ state' = IF core = "idle" THEN "REQUEST_DATA" ELSE state
        /\ request_counter = 0 /\ block_counter = 0
    BY <1>1, <1>6 DEF WaitKey, Step, Stay, CoreReady, CoreInStep, CountersRight
  <2>2. request_counter' = 0 /\ block_counter' = 0
    BY <2>1 DEF Registers, NextRequest, NextBlock
  <2>3. core = "init" => core' \in {"init", "idle"}
    BY <2>1 DEF Surroundings, Core
  <2>4. StagesLeft = all + (IF core = "idle" THEN 2 ELSE 3)
    BY <2>1 DEF StagesLeft, all
  <2>5. StagesLeft' = IF core = "idle" THEN all' + 1 - 0
                      ELSE all' + (IF core' = "idle" THEN 2 ELSE 3)
    BY <2>1, <2>2 DEF StagesLeft, InBlock, all
  <2> QED  BY <1>4, <2>1, <2>3, <2>4, <2>5 DEF Progresses, Waits
<1> QED  BY <1>5, <1>6

(* The next block follows, or the end of the job.                          *)
LEMMA DoneAdvances ==
  ASSUME LengthsFit, IInv, Surroundings, Registers, length' = length,
         MemoryWriteDone \/ Finished
  PROVE  Progresses
<1> USE DEF Reading, Ciphering, Sending
<1>1. TypeOK /\ CountersRight
  BY DEF IInv
<1>2. /\ length \in Nat /\ block_counter \in Nat /\ BLOCK_MOD \in Nat
      /\ Blocks(length) \in Nat /\ Blocks(length) <= BLOCK_MOD
  BY <1>1, LengthFits
<1>3. CASE Finished
  BY <1>3 DEF Finished, Step, StagesLeft, Progresses
<1>4. CASE MemoryWriteDone
  <2>1. /\ state = "MEMORY_WRITE_DONE" /\ request_counter = 0
        /\ state' = IF data_size = 0 THEN "FINISHED" ELSE "REQUEST_DATA"
        /\ block_counter < Blocks(length) /\ data_size = Left(4 * block_counter + 4)
    BY <1>1, <1>4 DEF MemoryWriteDone, Step, CountersRight
  <2>2. StagesLeft = 41 * (Blocks(length) - block_counter) + 1 - 40
    BY <2>1 DEF StagesLeft, InBlock, BlocksLeft
  <2>3. CASE data_size = 0
    <3>1. StagesLeft' = 1
      BY <2>1, <2>3 DEF StagesLeft
    <3> QED  BY <1>2, <2>1, <2>2, <3>1 DEF Progresses
  <2>4. CASE data_size # 0
    <3>1. block_counter + 1 < Blocks(length)
      BY <1>2, <2>1, <2>4 DEF Left, Blocks
    <3>2. block_counter' = block_counter + 1 /\ request_counter' = 0
      BY <1>2, <2>1, <3>1 DEF Registers, NextBlock, NextRequest
    <3>3. StagesLeft' = 41 * (Blocks(length') - block_counter') + 1 - 5 * request_counter'
      BY <2>1, <2>4 DEF StagesLeft, InBlock, BlocksLeft
    <3> QED  BY <1>2, <2>1, <2>2, <3>2, <3>3 DEF Progresses
  <2> QED  BY <2>3, <2>4
<1> QED  BY <1>3, <1>4

(* No job is ever caught on its way: at every edge of the clock it comes   *)
(* nearer to its end, by at most 41 stages for each block, unless the      *)
(* core, the memory or the sink that the FSM waits for is at work or a     *)
(* soft clear ends the job.                                                *)
THEOREM JobProgresses ==
  ASSUME LengthsFit
  PROVE  Spec => /\ [](StagesLeft \in Nat /\ (StagesLeft = 0 <=> state = "IDLE"))
                 /\ [][state # "IDLE" => Clear \/ Progresses]_vars
<1>1. IInv => StagesLeft \in Nat /\ (StagesLeft = 0 <=> state = "IDLE")
  BY StagesCount
<1>2. ASSUME IInv, Next, state # "IDLE"
      PROVE  Clear \/ Progresses
  <2>1. ~WaitForStart /\ \A l \in Lengths : ~StartJob(l)
    BY <1>2 DEF WaitForStart, StartJob
  <2>2. Advance => Surroundings /\ Registers /\ length' = length
    BY <2>1 DEF Advance, StartKey, WaitKey, RequestData, RequestDataWait,
       StartCore, WaitCore, SendData, SendDataWait, MemoryWriteWait,
       MemoryWriteDone, Finished, Step
  <2> QED
    BY <1>2, <2>1, <2>2, KeyAdvances, BlockAdvances, DoneAdvances
       DEF Next, Advance
<1>3. IInv /\ [Next]_vars => [state # "IDLE" => Clear \/ Progresses]_vars
  BY <1>2
<1> QED
  BY <1>1, <1>3, Inductive, PTL DEF Spec
=============================================================================
