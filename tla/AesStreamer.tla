----------------------------- MODULE AesStreamer -----------------------------
(***************************************************************************)
(* aes_streamer: hwpe_stream_source with the load FIFOs before it and      *)
(* hwpe_stream_sink with the store FIFOs behind it, between aes_fsm and a  *)
(* memory that grants requests and answers them when it likes.  One step   *)
(* is one rising clock edge.                                               *)
(*                                                                         *)
(* Transfers are those that aes_fsm configures: trans_size is 1 and all    *)
(* strides are 0, so that every address is base_addr, and addresses are    *)
(* aligned, so that the realigners, and with one port the fence, pass      *)
(* everything on.  The FIFOs are the queues that StreamFifo implements.    *)
(* A word read is represented by its address, a word written by the        *)
(* address it is meant for.                                                *)
(***************************************************************************)
EXTENDS Naturals, Sequences

CONSTANTS
  Position,      (* The addresses.                                         *)
  FIFO_DEPTH,    (* Of aes_input_fifo, aes_output_fifo, i_misaligned_fifo  *)
                 (* and the FIFO in the sink.                              *)
  TCDM_DEPTH,    (* Of the FIFOs to the memory.                            *)
  MAX_LATENCY,   (* Cycles from a grant to the answer, at most.            *)
  CLEAR_CYCLES,  (* How long a soft clear lasts.                           *)
  ZERO           (* No word.                                               *)

ASSUME StreamerAssumption ==
  /\ Position # {} /\ ZERO \notin Position
  /\ FIFO_DEPTH \in Nat \ {0} /\ TCDM_DEPTH \in Nat \ {0}
  /\ MAX_LATENCY \in Nat \ {0} /\ CLEAR_CYCLES \in Nat
  /\ MAX_LATENCY < CLEAR_CYCLES   (* What is in flight comes back in time.  *)

VARIABLES
  ctrl,             (* What aes_fsm is doing: quiet, ask (REQUEST_DATA),   *)
                    (* await (REQUEST_DATA_WAIT), offer (SEND_DATA), send  *)
                    (* (SEND_DATA_WAIT) or written (MEMORY_WRITE_WAIT).    *)
  position,         (* base_addr of both streamers.                        *)
  clear,            (* Cycles that clear_i is still high.                  *)
  source_cs, source_done,            (* cs and flags_o.done of the source. *)
  kill_req, overall_none,
  request_cnt,      (* This and the next two: 0, or 1 for anything else.   *)
  source_counter, sink_counter,      (* overall_counter of the address     *)
  source_progress, sink_progress,    (* generators, and flags.in_progress. *)
  sink_flag,        (* in_progress of the sink, a cycle later (aux).       *)
  sink_cs,
  outgoing, incoming, misaligned_fifo, input_fifo,  (* Towards the engine. *)
  r_valid_q,        (* The answer that found incoming full, or ZERO.       *)
  output_fifo, tcdm_fifo, store_fifo,               (* From the engine.    *)
  pending           (* The memory: granted loads, with their age.          *)

fsmVars == <<ctrl, position, clear>>
sourceVars == <<source_cs, source_done, kill_req, overall_none, request_cnt,
                source_counter, source_progress, outgoing, incoming,
                r_valid_q, misaligned_fifo, input_fifo>>
sinkVars == <<sink_cs, sink_counter, sink_progress, sink_flag, output_fifo,
              tcdm_fifo, store_fifo>>
vars == <<fsmVars, sourceVars, sinkVars, pending>>

Store == [add : Position, data : Position]

(* Every register has its type and no FIFO more words than room.           *)
TypeOK ==
  /\ ctrl \in {"quiet", "ask", "await", "offer", "send", "written"}
  /\ position \in Position
  /\ clear \in 0 .. CLEAR_CYCLES
  /\ source_cs \in {"IDLE", "WORKING", "DONE"}
  /\ sink_cs \in {"IDLE", "WORKING"}
  /\ {source_done, kill_req, overall_none, source_progress, sink_progress,
      sink_flag} \subseteq BOOLEAN
  /\ {request_cnt, source_counter, sink_counter} \subseteq 0 .. 1
  /\ outgoing \in Seq(Position) /\ Len(outgoing) <= TCDM_DEPTH
  /\ incoming \in Seq(Position) /\ Len(incoming) <= TCDM_DEPTH
  /\ misaligned_fifo \in Seq(Position) /\ Len(misaligned_fifo) <= FIFO_DEPTH
  /\ input_fifo \in Seq(Position) /\ Len(input_fifo) <= FIFO_DEPTH
  /\ r_valid_q \in Position \cup {ZERO}
  /\ output_fifo \in Seq(Position) /\ Len(output_fifo) <= FIFO_DEPTH
  /\ tcdm_fifo \in Seq(Store) /\ Len(tcdm_fifo) <= FIFO_DEPTH
  /\ store_fifo \in Seq(Store) /\ Len(store_fifo) <= TCDM_DEPTH
  /\ pending \in Seq([add : Position, age : 1 .. MAX_LATENCY])

-----------------------------------------------------------------------------
(* A FIFO at an edge: it takes an item if it is not full and gives one if  *)
(* it is not empty.  Mutant: it takes one in any case.                     *)
FifoNeverFull(q, depth, push, item, pop) ==
  LET kept == IF pop /\ q # << >> THEN Tail(q) ELSE q
  IN  IF push THEN Append(kept, item) ELSE kept

Fifo(q, depth, push, item, pop) ==
  LET kept == IF pop /\ q # << >> THEN Tail(q) ELSE q
  IN  IF push /\ Len(q) < depth THEN Append(kept, item) ELSE kept

Keep(flag, set, reset) == IF reset THEN FALSE ELSE flag \/ set
Count(n, step, reset) == IF reset THEN 0 ELSE IF step THEN 1 ELSE n

-----------------------------------------------------------------------------
(* The source.                                                             *)
StreamReady    == Len(input_fifo) < FIFO_DEPTH
StreamTransfer == misaligned_fifo # << >> /\ StreamReady
Requests       == source_cs = "WORKING" /\ StreamReady
                  /\ Len(outgoing) < TCDM_DEPTH
LastRequest    == Requests /\ ~source_progress /\ overall_none

(* Mutant: the source is done when the last request is.                    *)
SourceEndsEarly == source_cs = "DONE"

(* overall_cnt is always 0 in a transfer of one word.                      *)
SourceEnds == source_cs = "DONE" /\ ~overall_none

SourceFsm ==
  /\ \/ source_cs = "IDLE"
        /\ source_cs' = IF ctrl = "ask" THEN "WORKING" ELSE "IDLE"
     \/ source_cs = "WORKING"
        /\ source_cs' = IF LastRequest THEN "DONE" ELSE "WORKING"
     \/ source_cs = "DONE"
        /\ source_cs' = IF SourceEnds THEN "IDLE" ELSE "DONE"
  /\ source_done' = SourceEnds

(* Mutant: the flag is not reset for the next transfer.                    *)
OverallNoneSticky ==
  overall_none' = (overall_none /\ ~StreamTransfer)

OverallNone ==
  overall_none' = (source_cs = "IDLE" \/ (overall_none /\ ~StreamTransfer))

(* Requests after that for the last word are killed.  Mutant: they are not *)
(* counted.                                                                *)
KillReqNever == kill_req' = FALSE

KillReq == kill_req' = Keep(kill_req, Requests /\ request_cnt = 0,
                            source_cs = "IDLE")

RequestCnt == request_cnt' = Count(request_cnt, Requests, source_cs = "IDLE")

(* trans_size - 2 is 0xffffffff: in_progress falls once a word is counted. *)
SourceAddressgen ==
  /\ source_counter' = Count(source_counter, Requests /\ ~LastRequest, SourceEnds)
  /\ source_progress' = (SourceEnds \/ source_counter = 0)

(* The FIFOs of hwpe_stream_tcdm_fifo_load, and those between it and the   *)
(* engine, which takes every word at once.                                 *)
LoadFifos(granted, answered) ==
  LET answer == IF answered THEN Head(pending).add ELSE r_valid_q
      room   == Len(incoming) < TCDM_DEPTH
      pops   == Len(misaligned_fifo) < FIFO_DEPTH
  IN  /\ outgoing' = Fifo(outgoing, TCDM_DEPTH, Requests /\ ~kill_req,
                          position, granted)
      /\ incoming' = Fifo(incoming, TCDM_DEPTH, answer # ZERO, answer, pops)
      /\ r_valid_q' = IF room THEN ZERO ELSE answer
      /\ misaligned_fifo' = Fifo(misaligned_fifo, FIFO_DEPTH, incoming # << >>,
                                 IF incoming # << >> THEN Head(incoming) ELSE ZERO,
                                 StreamReady)
      /\ input_fifo' = Fifo(input_fifo, FIFO_DEPTH, StreamTransfer,
                            IF StreamTransfer THEN Head(misaligned_fifo) ELSE ZERO,
                            TRUE)

-----------------------------------------------------------------------------
(* The sink.                                                               *)

(* A word is taken, and dropped unless the sink is working.                *)
SinkTakes == output_fifo # << >> /\ Len(tcdm_fifo) < FIFO_DEPTH

(* Mutant: it does not wait for its FIFO to be empty.                      *)
SinkEndsBusy == sink_cs = "WORKING" /\ ~SinkTakes /\ ~sink_flag

SinkEnds == /\ sink_cs = "WORKING" /\ ~SinkTakes /\ ~sink_flag
            /\ tcdm_fifo = << >>

SinkFsm ==
  \/ sink_cs = "IDLE"
     /\ sink_cs' = IF ctrl = "offer" THEN "WORKING" ELSE "IDLE"
  \/ sink_cs = "WORKING" /\ sink_cs' = IF SinkEnds THEN "IDLE" ELSE "WORKING"

(* Mutants: the counter is not reset for the next transfer; trans_size - 2 *)
(* is taken for a number that the counter does not reach.                  *)
SinkAddressgenNoReset ==
  /\ sink_counter' = Count(sink_counter, SinkTakes /\ sink_cs = "WORKING", FALSE)
  /\ sink_progress' = (SinkEnds \/ sink_counter = 0)
  /\ sink_flag' = (~SinkEnds /\ sink_progress)

SinkAddressgenLong ==
  /\ sink_counter' =
       Count(sink_counter,
             SinkTakes /\ (sink_cs = "WORKING" \/ ctrl = "offer"), SinkEnds)
  /\ sink_progress' = TRUE
  /\ sink_flag' = (~SinkEnds /\ sink_progress)

SinkAddressgen ==
  /\ sink_counter' =
       Count(sink_counter,
             SinkTakes /\ (sink_cs = "WORKING" \/ ctrl = "offer"), SinkEnds)
  /\ sink_progress' = (SinkEnds \/ sink_counter = 0)
  /\ sink_flag' = (~SinkEnds /\ sink_progress)

(* The address of a store is that of the moment the word is taken.         *)
StoreFifos(written) ==
  /\ output_fifo' = Fifo(output_fifo, FIFO_DEPTH, ctrl = "send", position, SinkTakes)
  /\ tcdm_fifo' =
       Fifo(tcdm_fifo, FIFO_DEPTH, SinkTakes /\ sink_cs = "WORKING",
            [add |-> position,
             data |-> IF output_fifo # << >> THEN Head(output_fifo) ELSE ZERO],
            Len(store_fifo) < TCDM_DEPTH)
  /\ store_fifo' =
       Fifo(store_fifo, TCDM_DEPTH, tcdm_fifo # << >>,
            IF tcdm_fifo # << >> THEN Head(tcdm_fifo) ELSE ZERO, written)

-----------------------------------------------------------------------------
(* The memory grants a load, answers the oldest and grants a store, or     *)
(* not.  It does not see a soft clear.                                     *)
Memory(granted, answered, written) ==
  /\ granted => outgoing # << >> /\ Len(incoming) < TCDM_DEPTH
  /\ answered => pending # << >>
  /\ pending # << >> /\ Head(pending).age = MAX_LATENCY => answered
  /\ written => store_fifo # << >>
  /\ LET waiting == IF answered THEN Tail(pending) ELSE pending
         older   == [i \in DOMAIN waiting |-> [waiting[i] EXCEPT !.age = @ + 1]]
     IN  pending' = IF granted
                    THEN Append(older, [add |-> Head(outgoing), age |-> 1])
                    ELSE older

-----------------------------------------------------------------------------
(* aes_fsm, as far as the streamers see it: the address moves on when a    *)
(* word has been read and when one has been handed over.                   *)
Quiet == /\ ctrl = "quiet" /\ ctrl' \in {"quiet", "ask", "offer"}
         /\ position' \in Position

Ask == /\ ctrl = "ask" /\ ctrl' = IF source_cs = "IDLE" THEN "await" ELSE "ask"
       /\ UNCHANGED position

Await == /\ ctrl = "await"
         /\ IF source_done
            THEN ctrl' \in {"ask", "quiet"} /\ position' \in Position
            ELSE UNCHANGED <<ctrl, position>>

Offer == /\ ctrl = "offer" /\ ctrl' = IF sink_cs = "IDLE" THEN "send" ELSE "offer"
         /\ UNCHANGED position

Send == ctrl = "send" /\ ctrl' = "written" /\ UNCHANGED position

Written == /\ ctrl = "written" /\ ctrl' \in {"offer", "quiet"}
           /\ position' \in Position

-----------------------------------------------------------------------------
SourceReset ==
  /\ source_cs' = "IDLE" /\ source_done' = FALSE
  /\ kill_req' = FALSE /\ overall_none' = TRUE /\ request_cnt' = 0
  /\ source_counter' = 0 /\ source_progress' = TRUE
  /\ outgoing' = << >> /\ incoming' = << >> /\ r_valid_q' = ZERO
  /\ misaligned_fifo' = << >> /\ input_fifo' = << >>

SinkReset ==
  /\ sink_cs' = "IDLE"
  /\ sink_counter' = 0 /\ sink_progress' = TRUE /\ sink_flag' = FALSE
  /\ output_fifo' = << >> /\ tcdm_fifo' = << >> /\ store_fifo' = << >>

Init ==
  /\ ctrl = "quiet" /\ position \in Position /\ clear = 0
  /\ source_cs = "IDLE" /\ source_done = FALSE
  /\ kill_req = FALSE /\ overall_none = TRUE /\ request_cnt = 0
  /\ source_counter = 0 /\ source_progress = TRUE
  /\ outgoing = << >> /\ incoming = << >> /\ r_valid_q = ZERO
  /\ misaligned_fifo = << >> /\ input_fifo = << >>
  /\ sink_cs = "IDLE"
  /\ sink_counter = 0 /\ sink_progress = TRUE /\ sink_flag = FALSE
  /\ output_fifo = << >> /\ tcdm_fifo = << >> /\ store_fifo = << >>
  /\ pending = << >>

Run(granted, answered, written) ==
  /\ clear = 0 /\ clear' \in {0, CLEAR_CYCLES}
  /\ Quiet \/ Ask \/ Await \/ Offer \/ Send \/ Written
  /\ Memory(granted, answered, written)
  /\ SourceFsm /\ OverallNone /\ KillReq /\ RequestCnt /\ SourceAddressgen
  /\ LoadFifos(granted, answered)
  /\ SinkFsm /\ SinkAddressgen /\ StoreFifos(written)

(* An edge in a soft clear: everything but the memory is reset, and an     *)
(* answer that comes now is lost.                                          *)
Clear(granted, answered, written) ==
  /\ clear > 0 /\ clear' = clear - 1
  /\ ctrl' = "quiet" /\ position' \in Position
  /\ Memory(granted, answered, written)
  /\ SourceReset /\ SinkReset

Edge(granted, answered, written) ==
  Run(granted, answered, written) \/ Clear(granted, answered, written)

Next == \E granted, answered, written \in BOOLEAN : Edge(granted, answered, written)

Spec == Init /\ [][Next]_vars

(* The clock does not stop, and the memory grants what is requested for    *)
(* long enough.  Nobody has to start a soft clear.                         *)
Advance     == Next /\ clear' <= clear
GrantsLoad  == \E answered, written \in BOOLEAN : Edge(TRUE, answered, written)
GrantsStore == \E granted, answered \in BOOLEAN : Edge(granted, answered, TRUE)

FairSpec ==
  Spec /\ WF_vars(Advance) /\ WF_vars(GrantsLoad) /\ WF_vars(GrantsStore)

-----------------------------------------------------------------------------
(* The engine is only given the word it is waiting for: no second copy of  *)
(* it by a request that should have been killed, and none that a soft      *)
(* clear has overtaken on its way from the memory.                         *)
InputRight ==
  input_fifo # << >> => ctrl = "await" /\ input_fifo = <<position>>

(* A word that waits for the sink finds it working and the address its     *)
(* own, and every store in flight goes where its word is meant to go.      *)
StoresRight ==
  /\ output_fifo # << >> => sink_cs = "WORKING" /\ output_fifo = <<position>>
  /\ \A i \in DOMAIN tcdm_fifo : tcdm_fifo[i].add = tcdm_fifo[i].data
  /\ \A i \in DOMAIN store_fifo : store_fifo[i].add = store_fifo[i].data

(* The streamers keep the promises that AesFsm is built on.                *)
SourceNow ==
  IF source_done THEN "done"
  ELSE IF source_cs = "IDLE" THEN "idle"
  ELSE IF overall_none THEN "fetch" ELSE "word"

SinkNow ==
  IF sink_cs = "IDLE" THEN "idle"
  ELSE IF sink_counter = 0 THEN "working" ELSE "drain"

Handshake ==
  INSTANCE StreamerHandshake
    WITH STORE_DEPTH <- TCDM_DEPTH,
         source_start <- ctrl = "ask", sink_start <- ctrl = "offer",
         out_valid <- ctrl = "send", out_word <- position,
         source <- SourceNow,
         source_word <- IF input_fifo = << >> THEN ZERO ELSE Head(input_fifo),
         sink <- SinkNow,
         inflight <- Len(tcdm_fifo) + Len(store_fifo)

HandshakeSpec == Handshake!Spec

(* A word that has been asked for arrives, however late requests and       *)
(* answers are, and the source is then ready for the next; and a word is   *)
(* never kept from the sink for ever by the stores before it.  Only a      *)
(* clear of the job may come in between.                                   *)
TransfersEnd ==
  \A waiting \in {"await", "offer"} : ctrl = waiting ~> ctrl # waiting
=============================================================================
