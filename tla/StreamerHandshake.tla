-------------------------- MODULE StreamerHandshake --------------------------
(***************************************************************************)
(* What aes_streamer promises to aes_fsm and to the engine for transfers   *)
(* of one word: a word that is asked for arrives for one cycle, some time  *)
(* later, and then the source is done; a word that is sent is taken with   *)
(* the address of that moment, and is some time later on its way to the    *)
(* memory.  AesFsm is built on this specification and AesStreamer          *)
(* implements it.  The variables of the first group are inputs.            *)
(***************************************************************************)
EXTENDS Naturals, Sequences

CONSTANTS
  FIFO_DEPTH,   (* Words in aes_output_fifo.                               *)
  STORE_DEPTH,  (* Stores in aes_output_tcdm_fifo_store.                   *)
  ZERO          (* No word.                                                *)

VARIABLES
  source_start, sink_start,  (* req_start of the streamers.                *)
  out_valid, out_word,       (* aes_output                                 *)
  position,                  (* base_addr of both streamers.               *)

  source,       (* idle, fetch, word (aes_input is valid) or done.         *)
  source_word,  (* aes_input.data, a word being its address.               *)
  sink,         (* idle, working or drain.                                 *)
  output_fifo,  (* aes_output_fifo                                         *)
  inflight      (* Stores accepted by the sink, not yet in memory.         *)

streamerVars == <<source, source_word, sink, output_fifo, inflight>>

Init ==
  /\ source = "idle" /\ source_word = ZERO
  /\ sink = "idle" /\ output_fifo = << >> /\ inflight = 0

SourceStep ==
  /\ \/ source \in {"idle", "done"} /\ source_start /\ source' = "fetch"
     \/ source \in {"idle", "done"} /\ ~source_start /\ source' = "idle"
     \/ source = "fetch" /\ source' \in {"fetch", "word"}
     \/ source = "word" /\ source' = "done"
  /\ source_word' = IF source' = "word" THEN position ELSE ZERO

(* The sink takes the address with the word.                               *)
SinkAccepts == sink = "working" /\ output_fifo # << >>

(* It is idle again when its own queue is empty.                           *)
SinkStep ==
  /\ \/ sink = "idle" /\ sink' = IF sink_start THEN "working" ELSE "idle"
     \/ sink = "working" /\ sink' = IF SinkAccepts THEN "drain" ELSE "working"
     \/ sink = "drain" /\ sink' = "drain"
     \/ sink = "drain" /\ inflight <= STORE_DEPTH /\ sink' = "idle"
  /\ LET kept == IF SinkAccepts THEN Tail(output_fifo) ELSE output_fifo
     IN  output_fifo' = IF out_valid /\ Len(output_fifo) < FIFO_DEPTH
                        THEN Append(kept, out_word) ELSE kept
  /\ \E written \in 0 .. 1 :
       /\ written <= inflight
       /\ inflight' = (inflight - written) + (IF SinkAccepts THEN 1 ELSE 0)

Clear ==
  /\ source' = "idle" /\ source_word' = ZERO
  /\ sink' = "idle" /\ output_fifo' = << >> /\ inflight' = 0

Next == (SourceStep /\ SinkStep) \/ Clear

Spec == Init /\ [][Next]_streamerVars
=============================================================================
