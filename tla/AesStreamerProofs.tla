-------------------------- MODULE AesStreamerProofs --------------------------
(***************************************************************************)
(* Proofs about aes_streamer, for FIFOs of any depth, any set of addresses *)
(* and a memory that takes any time to grant and any bounded time to       *)
(* answer: the engine is given each word once, stores go to their          *)
(* addresses, and the streamers implement StreamerHandshake.               *)
(***************************************************************************)
EXTENDS AesStreamer, Integers, TLAPS

(* The stores that have the address their word is meant for.               *)
RightStore == {store \in Store : store.add = store.data}

-----------------------------------------------------------------------------
(* The inductive invariant.  A read that is under way is in exactly one    *)
(* place; what the requests that follow it ask for is in none.             *)
Loading(age) == pending = <<[add |-> position, age |-> age]>>

WordIn(place) ==
  /\ outgoing = IF place = "outgoing" THEN << position >> ELSE << >>
  /\ IF place = "pending" THEN \E age \in 1 .. MAX_LATENCY : Loading(age)
     ELSE pending = << >>
  /\ incoming = IF place = "incoming" THEN << position >> ELSE << >>
  /\ misaligned_fifo = IF place = "misaligned" THEN << position >> ELSE << >>
  /\ input_fifo = IF place = "input" THEN << position >> ELSE << >>

(* Between two reads nothing is left of the one before; the flags of its   *)
(* end are still there while aes_fsm learns of it.                         *)
SourceRests ==
  /\ outgoing = << >> /\ incoming = << >>
  /\ misaligned_fifo = << >> /\ input_fifo = << >>
  /\ source_counter = 0 /\ source_progress
  /\ source_done <=> ctrl = "await"
  /\ ~source_done => overall_none /\ ~kill_req /\ request_cnt = 0

(* The request of the only word comes first; the source goes on requesting *)
(* until the counter has been seen, which is before the word can be back.  *)
SourceRequests ==
  /\ overall_none
  /\ \/ /\ request_cnt = 0 /\ ~kill_req
        /\ source_counter = 0 /\ source_progress
        /\ WordIn("none")
     \/ /\ request_cnt = 1 /\ kill_req
        /\ source_counter = 1
        /\ WordIn("outgoing") \/ (~source_progress /\ WordIn("pending"))

SourceWaits ==
  \/ overall_none /\ \E place \in {"outgoing", "pending", "incoming", "misaligned"} :
                       WordIn(place)
  \/ ~overall_none /\ WordIn("input")

SourceInv ==
  /\ r_valid_q = ZERO
  /\ source_cs = "IDLE" => SourceRests
  /\ source_cs = "WORKING" => ctrl = "await" /\ ~source_done /\ SourceRequests
  /\ source_cs = "DONE" => ctrl = "await" /\ ~source_done /\ SourceWaits

(* The sink has one word at a time, and works from the moment aes_fsm sees *)
(* it idle until its own queue is empty.                                   *)
SinkRests ==
  /\ ctrl \notin {"send", "written"}
  /\ sink_counter = 0 /\ sink_progress
  /\ output_fifo = << >> /\ tcdm_fifo = << >>

SinkExpects ==
  /\ ctrl \in {"send", "written"}
  /\ sink_progress /\ sink_flag
  /\ tcdm_fifo = << >>
  /\ output_fifo = IF ctrl = "written" THEN << position >> ELSE << >>

SinkDrains ==
  /\ ctrl \notin {"send", "written"}
  /\ output_fifo = << >>
  /\ tcdm_fifo = << >> \/ \E store \in RightStore : tcdm_fifo = << store >>

SinkInv ==
  /\ store_fifo \in Seq(RightStore) /\ Len(store_fifo) <= TCDM_DEPTH
  /\ sink_cs = "IDLE" => SinkRests
  /\ sink_cs = "WORKING" /\ sink_counter = 0 => SinkExpects
  /\ sink_cs = "WORKING" /\ sink_counter = 1 => SinkDrains

(* A load that is in flight when a soft clear begins is answered before    *)
(* the clear ends.                                                         *)
ClearInv ==
  /\ clear \notin {0, CLEAR_CYCLES} =>
       /\ ctrl = "quiet" /\ source_cs = "IDLE" /\ sink_cs = "IDLE"
       /\ pending = << >> \/ \E add \in Position, age \in CLEAR_CYCLES - clear .. MAX_LATENCY :
                               pending = <<[add |-> add, age |-> age]>>
  /\ clear \in {0, CLEAR_CYCLES} /\ source_cs = "IDLE" => pending = << >>

IInv == TypeOK /\ SourceInv /\ SinkInv /\ ClearInv

-----------------------------------------------------------------------------
(* A FIFO holds items of a set, as many as there is room for.              *)
LEMMA FifoTyped ==
  ASSUME NEW S, NEW q \in Seq(S), NEW d \in Nat, Len(q) <= d,
         NEW push \in BOOLEAN, NEW pop \in BOOLEAN, NEW item, push => item \in S
  PROVE  /\ Fifo(q, d, push, item, pop) \in Seq(S)
         /\ Len(Fifo(q, d, push, item, pop)) <= d
         /\ Len(Fifo(q, d, push, item, pop))
              = Len(q) - (IF pop /\ q # << >> THEN 1 ELSE 0)
                       + (IF push /\ Len(q) < d THEN 1 ELSE 0)
<1>1. PICK kept : kept = IF pop /\ q # << >> THEN Tail(q) ELSE q
  OBVIOUS
<1>2. kept \in Seq(S) /\ Len(kept) = Len(q) - (IF pop /\ q # << >> THEN 1 ELSE 0)
      /\ Len(q) \in Nat /\ Len(kept) <= Len(q)
  BY <1>1
<1>3. CASE push /\ Len(q) < d
  <2>1. Fifo(q, d, push, item, pop) = Append(kept, item)
    BY <1>1, <1>3 DEF Fifo
  <2>2. item \in S
    BY <1>3
  <2>3. Append(kept, item) \in Seq(S) /\ Len(Append(kept, item)) = Len(kept) + 1
    BY <1>2, <2>2
  <2>4. Len(kept) + 1 <= d
    BY <1>2, <1>3
  <2>5. Len(kept) + 1 = Len(q) - (IF pop /\ q # << >> THEN 1 ELSE 0)
                        + (IF push /\ Len(q) < d THEN 1 ELSE 0)
    BY <1>2, <1>3
  <2>6. QED
    BY <2>1, <2>3, <2>4, <2>5
<1>4. CASE ~(push /\ Len(q) < d)
  <2>1. Fifo(q, d, push, item, pop) = kept
    BY <1>1, <1>4 DEF Fifo
  <2>2. QED
    BY <1>2, <1>4, <2>1
<1>5. QED
  BY <1>3, <1>4

(* The loads that are in flight when there is none, or one.                *)
LEMMA MemoryNone ==
  ASSUME NEW granted \in BOOLEAN, NEW answered \in BOOLEAN, NEW written \in BOOLEAN,
         Memory(granted, answered, written), pending = << >>
  PROVE  /\ ~answered
         /\ pending' = IF granted THEN <<[add |-> Head(outgoing), age |-> 1]>> ELSE << >>
<1>1. ~answered
  BY DEF Memory
<1>2. PICK older : older = [i \in DOMAIN << >> |-> [<< >>[i] EXCEPT !.age = @ + 1]]
  OBVIOUS
<1>3. older = << >>
  BY <1>2
<1>4. PICK load : load = [add |-> Head(outgoing), age |-> 1]
  OBVIOUS
<1>5. Append(<< >>, load) = << load >>
  OBVIOUS
<1>6. pending' = IF granted THEN Append(older, load) ELSE older
  BY <1>1, <1>2, <1>4 DEF Memory
<1>7. QED
  BY <1>1, <1>3, <1>4, <1>5, <1>6

LEMMA MemoryOne ==
  ASSUME NEW granted \in BOOLEAN, NEW answered \in BOOLEAN, NEW written \in BOOLEAN,
         Memory(granted, answered, written), ~granted,
         NEW a, NEW n \in 1 .. MAX_LATENCY, pending = <<[add |-> a, age |-> n]>>
  PROVE  /\ pending' = IF answered THEN << >> ELSE <<[add |-> a, age |-> n + 1]>>
         /\ ~answered => n + 1 \in 1 .. MAX_LATENCY
         /\ Head(pending).add = a
<1>1. PICK load : load = [add |-> a, age |-> n]
  OBVIOUS
<1>2. pending = << load >> /\ Head(pending) = load /\ Tail(pending) = << >>
  BY <1>1
<1>3. CASE answered
  <2>1. PICK older : older = [i \in DOMAIN << >> |-> [<< >>[i] EXCEPT !.age = @ + 1]]
    OBVIOUS
  <2>2. older = << >>
    BY <2>1
  <2>3. pending' = older
    BY <1>2, <1>3, <2>1 DEF Memory
  <2>4. QED
    BY <1>1, <1>2, <1>3, <2>2, <2>3
<1>4. CASE ~answered
  <2>1. PICK older : older = [i \in DOMAIN pending |-> [pending[i] EXCEPT !.age = @ + 1]]
    OBVIOUS
  <2>2. DOMAIN pending = {1} /\ pending[1] = load
    BY <1>2
  <2>3. [load EXCEPT !.age = @ + 1] = [add |-> a, age |-> n + 1]
    BY <1>1
  <2>4. PICK next : next = [add |-> a, age |-> n + 1]
    OBVIOUS
  <2>5. older = << next >>
    BY <2>1, <2>2, <2>3, <2>4
  <2>6. pending' = older
    BY <1>4, <2>1 DEF Memory
  <2>7. n # MAX_LATENCY
    BY <1>1, <1>2, <1>4 DEF Memory
  <2>8. QED
    BY <1>1, <1>2, <1>4, <2>4, <2>5, <2>6, <2>7, StreamerAssumption
<1>5. QED
  BY <1>3, <1>4

-----------------------------------------------------------------------------
(* Where the word goes at an edge.                                         *)
Moving(granted, answered, written) ==
  /\ TypeOK /\ r_valid_q = ZERO
  /\ Memory(granted, answered, written) /\ LoadFifos(granted, answered)

FirstRequest == Requests /\ ~kill_req

LEMMA LoadEdge ==
  ASSUME NEW granted \in BOOLEAN, NEW answered \in BOOLEAN, NEW written \in BOOLEAN,
         Moving(granted, answered, written),
         outgoing = << >> \/ (outgoing = << position >> /\ ~FirstRequest),
         incoming = << >> \/ (incoming = << position >> /\ ~answered),
         misaligned_fifo = << >> \/ (misaligned_fifo = << position >> /\ incoming = << >>),
         input_fifo = << >> \/ (input_fifo = << position >> /\ misaligned_fifo = << >>),
         answered => Head(pending).add = position
  PROVE  /\ outgoing' = IF FirstRequest THEN << position >>
                         ELSE IF granted THEN << >> ELSE outgoing
         /\ incoming' = IF answered THEN << position >> ELSE << >>
         /\ r_valid_q' = ZERO
         /\ misaligned_fifo' = incoming
         /\ input_fifo' = misaligned_fifo
         /\ StreamTransfer <=> misaligned_fifo # << >>
<1> USE StreamerAssumption
<1>1. position \in Position /\ position # ZERO
  BY DEF Moving, TypeOK
<1>2. /\ Len(<< >>) = 0 /\ Len(<< position >>) = 1
      /\ Head(<< position >>) = position /\ Tail(<< position >>) = << >>
      /\ Append(<< >>, position) = << position >> /\ << position >> # << >>
  OBVIOUS
<1>3. FIFO_DEPTH \in Nat \ {0} /\ TCDM_DEPTH \in Nat \ {0}
  OBVIOUS
<1>4. PICK answer : answer = IF answered THEN Head(pending).add ELSE r_valid_q
  OBVIOUS
<1>5. answer = IF answered THEN position ELSE ZERO
  BY <1>4 DEF Moving
<1>6. outgoing' = IF FirstRequest THEN << position >>
                  ELSE IF granted THEN << >> ELSE outgoing
  <2>1. CASE outgoing = << >>
    BY <1>2, <1>3, <2>1 DEF Moving, LoadFifos, Fifo, FirstRequest
  <2>2. CASE outgoing = << position >>
    BY <1>2, <2>2 DEF Moving, LoadFifos, Fifo, FirstRequest
  <2>3. QED
    BY <2>1, <2>2
<1>7. input_fifo = << >> => StreamReady
  BY <1>2, <1>3 DEF StreamReady
<1>8. misaligned_fifo # << >> => StreamReady
  BY <1>7
<1>9. StreamTransfer <=> misaligned_fifo # << >>
  BY <1>8 DEF StreamTransfer
<1>10. incoming' = IF answered THEN << position >> ELSE << >>
  <2>1. CASE incoming = << >>
    <3>1. incoming' = IF answer # ZERO THEN Append(<< >>, answer) ELSE << >>
      BY <1>2, <1>3, <1>4, <2>1 DEF Moving, LoadFifos, Fifo
    <3>2. QED
      BY <1>1, <1>2, <1>5, <3>1
  <2>2. CASE incoming = << position >>
    <3>1. ~answered /\ misaligned_fifo = << >>
      BY <1>2, <2>2
    <3>2. answer = ZERO /\ Len(misaligned_fifo) < FIFO_DEPTH
      BY <1>2, <1>3, <1>5, <3>1
    <3>3. incoming' = Tail(incoming)
      BY <1>2, <1>4, <2>2, <3>2 DEF Moving, LoadFifos, Fifo
    <3>4. QED
      BY <1>2, <2>2, <3>1, <3>3
  <2>3. QED
    BY <2>1, <2>2
<1>11. r_valid_q' = ZERO
  <2>1. r_valid_q' = IF Len(incoming) < TCDM_DEPTH THEN ZERO ELSE answer
    BY <1>4 DEF Moving, LoadFifos
  <2>2. CASE incoming = << >>
    BY <1>2, <1>3, <2>1, <2>2
  <2>3. CASE incoming # << >>
    BY <1>5, <2>1, <2>3
  <2>4. QED
    BY <2>2, <2>3
<1>12. misaligned_fifo' = incoming
  <2>1. CASE misaligned_fifo = << >>
    BY <1>2, <1>3, <2>1 DEF Moving, LoadFifos, Fifo
  <2>2. CASE misaligned_fifo = << position >>
    <3>1. incoming = << >> /\ StreamReady
      BY <1>2, <1>8, <2>2
    <3>2. QED
      BY <1>2, <2>2, <3>1 DEF Moving, LoadFifos, Fifo
  <2>3. QED
    BY <2>1, <2>2
<1>13. input_fifo' = misaligned_fifo
  <2>1. CASE input_fifo = << >>
    BY <1>2, <1>3, <1>9, <2>1 DEF Moving, LoadFifos, Fifo
  <2>2. CASE input_fifo = << position >>
    <3>1. misaligned_fifo = << >> /\ ~StreamTransfer
      BY <1>2, <1>9, <2>2
    <3>2. QED
      BY <1>2, <2>2, <3>1 DEF Moving, LoadFifos, Fifo
  <2>3. QED
    BY <2>1, <2>2
<1>14. QED
  BY <1>6, <1>9, <1>10, <1>11, <1>12, <1>13

LEMMA WordMoves ==
  ASSUME NEW granted \in BOOLEAN, NEW answered \in BOOLEAN, NEW written \in BOOLEAN,
         Moving(granted, answered, written), FirstRequest => WordIn("none")
  PROVE  /\ \A place \in {"none", "outgoing", "pending", "incoming", "misaligned", "input"} :
              WordIn(place) =>
                r_valid_q' = ZERO /\ (StreamTransfer <=> place = "misaligned")
         /\ WordIn("none") \/ WordIn("input") => FirstRequest \/ WordIn("none")'
         /\ position' = position =>
              /\ FirstRequest => WordIn("outgoing")'
              /\ WordIn("outgoing") =>
                   IF granted THEN WordIn("pending")' ELSE WordIn("outgoing")'
              /\ WordIn("pending") => WordIn("pending")' \/ WordIn("incoming")'
              /\ WordIn("incoming") => WordIn("misaligned")'
              /\ WordIn("misaligned") => WordIn("input")'
<1> USE StreamerAssumption
<1>1. /\ Memory(granted, answered, written)
      /\ << position >> # << >> /\ Head(<< position >>) = position
      /\ 1 \in 1 .. MAX_LATENCY
  BY DEF Moving
<1>2. granted => outgoing # << >>
  BY <1>1 DEF Memory
<1>3. FirstRequest => outgoing = << >>
  BY DEF WordIn
<1>4. ASSUME NEW place \in {"none", "outgoing", "incoming", "misaligned", "input"}, WordIn(place)
      PROVE  /\ ~answered /\ r_valid_q' = ZERO
             /\ StreamTransfer <=> place = "misaligned"
             /\ FirstRequest => place = "none"
             /\ outgoing' = IF FirstRequest \/ (place = "outgoing" /\ ~granted)
                            THEN << position >> ELSE << >>
             /\ pending' = IF granted THEN <<[add |-> position, age |-> 1]>> ELSE << >>
             /\ granted => place = "outgoing"
             /\ incoming' = << >>
             /\ misaligned_fifo' = IF place = "incoming" THEN << position >> ELSE << >>
             /\ input_fifo' = IF place = "misaligned" THEN << position >> ELSE << >>
  <2>1. pending = << >>
    BY <1>4 DEF WordIn
  <2>2. /\ ~answered
        /\ pending' = IF granted THEN <<[add |-> Head(outgoing), age |-> 1]>> ELSE << >>
    BY <1>1, <2>1, MemoryNone
  <2>3. /\ outgoing = IF place = "outgoing" THEN << position >> ELSE << >>
        /\ incoming = IF place = "incoming" THEN << position >> ELSE << >>
        /\ misaligned_fifo = IF place = "misaligned" THEN << position >> ELSE << >>
        /\ input_fifo = IF place = "input" THEN << position >> ELSE << >>
    BY <1>4 DEF WordIn
  <2>4. FirstRequest => place = "none"
    BY <1>1, <2>3 DEF WordIn
  <2>5. /\ outgoing' = IF FirstRequest THEN << position >>
                       ELSE IF granted THEN << >> ELSE outgoing
        /\ incoming' = << >> /\ r_valid_q' = ZERO
        /\ misaligned_fifo' = incoming
        /\ input_fifo' = misaligned_fifo
        /\ StreamTransfer <=> misaligned_fifo # << >>
    BY <1>3, <2>2, <2>3, LoadEdge
  <2>6. QED
    BY <1>1, <1>2, <2>2, <2>3, <2>4, <2>5
<1>5. ASSUME WordIn("pending")
      PROVE  /\ r_valid_q' = ZERO /\ ~StreamTransfer /\ ~FirstRequest
             /\ outgoing' = << >> /\ misaligned_fifo' = << >> /\ input_fifo' = << >>
             /\ \/ incoming' = << position >> /\ pending' = << >>
                \/ /\ incoming' = << >>
                   /\ \E age \in 1 .. MAX_LATENCY : pending' = <<[add |-> position, age |-> age]>>
  <2>1. PICK n \in 1 .. MAX_LATENCY : pending = <<[add |-> position, age |-> n]>>
    BY <1>5 DEF WordIn, Loading
  <2>2. outgoing = << >> /\ incoming = << >> /\ misaligned_fifo = << >> /\ input_fifo = << >>
    BY <1>5 DEF WordIn
  <2>3. ~granted
    BY <1>2, <2>2
  <2>4. ~FirstRequest
    BY <2>1 DEF WordIn
  <2>5. /\ pending' = IF answered THEN << >> ELSE <<[add |-> position, age |-> n + 1]>>
        /\ ~answered => n + 1 \in 1 .. MAX_LATENCY
        /\ Head(pending).add = position
    BY <1>1, <2>1, <2>3, MemoryOne
  <2>6. /\ outgoing' = << >> /\ r_valid_q' = ZERO
        /\ incoming' = IF answered THEN << position >> ELSE << >>
        /\ misaligned_fifo' = << >> /\ input_fifo' = << >>
        /\ ~StreamTransfer
    BY <2>2, <2>3, <2>4, <2>5, LoadEdge
  <2>7. QED
    BY <2>4, <2>5, <2>6
<1>6. QED
  BY <1>1, <1>4, <1>5 DEF WordIn, Loading

-----------------------------------------------------------------------------
(* What aes_fsm does at an edge, as far as the source is concerned.        *)
LEMMA FsmReads ==
  ASSUME TypeOK, SourceInv,
         Quiet \/ Ask \/ Await \/ Offer \/ Send \/ Written
  PROVE  /\ ctrl' \in {"quiet", "ask", "await", "offer", "send", "written"}
         /\ position' \in Position
         /\ ctrl = "ask" => ctrl' = "await" /\ position' = position
         /\ ctrl = "await" /\ ~source_done => ctrl' = "await" /\ position' = position
         /\ ctrl # "ask" /\ (ctrl # "await" \/ source_done) => ctrl' # "await"
<1>1. ctrl = "ask" => source_cs = "IDLE"
  BY DEF TypeOK, SourceInv
<1>2. QED
  BY <1>1 DEF TypeOK, Quiet, Ask, Await, Offer, Send, Written

(* The source keeps its part of the invariant at an edge without a clear.  *)
LEMMA SourceRuns ==
  ASSUME NEW granted \in BOOLEAN, NEW answered \in BOOLEAN, NEW written \in BOOLEAN,
         TypeOK, SourceInv, ClearInv, Run(granted, answered, written)
  PROVE  /\ SourceInv'
         /\ source_cs' = "IDLE" => pending' = << >>
<1> USE StreamerAssumption
<1>1. /\ ctrl = "ask" => ctrl' = "await" /\ position' = position
      /\ ctrl = "await" /\ ~source_done => ctrl' = "await" /\ position' = position
      /\ ctrl # "ask" /\ (ctrl # "await" \/ source_done) => ctrl' # "await"
  BY FsmReads DEF Run
<1>2. /\ clear = 0 /\ r_valid_q = ZERO
      /\ SourceFsm /\ OverallNone /\ KillReq /\ RequestCnt /\ SourceAddressgen
      /\ Moving(granted, answered, written)
  BY DEF Run, Moving, SourceInv
<1>3. CASE source_cs = "IDLE"
  <2>1. SourceRests /\ pending = << >> /\ ~Requests /\ ~SourceEnds
    BY <1>2, <1>3 DEF SourceInv, ClearInv, Requests, SourceEnds
  <2>2. WordIn("none") /\ ~FirstRequest
    BY <2>1 DEF WordIn, SourceRests, FirstRequest
  <2>3. WordIn("none")' /\ r_valid_q' = ZERO /\ ~StreamTransfer
    BY <1>2, <2>2, WordMoves
  <2>4. /\ overall_none' /\ ~kill_req' /\ request_cnt' = 0 /\ ~source_done'
        /\ source_counter' = 0 /\ source_progress'
        /\ source_cs' = IF ctrl = "ask" THEN "WORKING" ELSE "IDLE"
    BY <1>2, <1>3, <2>1 DEF SourceFsm, OverallNone, KillReq, RequestCnt, SourceAddressgen,
                            SourceRests, Keep, Count
  <2>5. QED
    BY <1>1, <2>1, <2>3, <2>4 DEF SourceInv, SourceRests, SourceRequests, WordIn
<1>4. CASE source_cs = "WORKING"
  <2>1. ctrl = "await" /\ ~source_done /\ SourceRequests
    BY <1>4 DEF SourceInv
  <2>2. ctrl' = "await" /\ position' = position /\ ~SourceEnds
    BY <1>1, <1>4, <2>1 DEF SourceEnds
  <2>3. CASE request_cnt = 0
    <3>1. /\ WordIn("none") /\ overall_none /\ ~kill_req
          /\ source_counter = 0 /\ source_progress
      BY <2>1, <2>3 DEF SourceRequests
    <3>2. Requests /\ ~LastRequest /\ FirstRequest
      BY <1>4, <3>1 DEF WordIn, Requests, LastRequest, FirstRequest, StreamReady
    <3>3. WordIn("outgoing")' /\ r_valid_q' = ZERO /\ ~StreamTransfer
      BY <1>2, <2>2, <3>1, <3>2, WordMoves
    <3>4. /\ source_cs' = "WORKING" /\ ~source_done' /\ overall_none'
          /\ kill_req' /\ request_cnt' = 1 /\ source_counter' = 1
      BY <1>2, <1>4, <2>2, <2>3, <3>1, <3>2, <3>3
         DEF SourceFsm, OverallNone, KillReq, RequestCnt, SourceAddressgen, Keep, Count
    <3>5. QED
      BY <2>2, <3>3, <3>4 DEF SourceInv, SourceRequests
  <2>4. CASE request_cnt = 1
    <3>1. /\ overall_none /\ kill_req /\ source_counter = 1
          /\ WordIn("outgoing") \/ (~source_progress /\ WordIn("pending"))
      BY <2>1, <2>4 DEF SourceRequests
    <3>2. ~FirstRequest
      BY <3>1 DEF FirstRequest
    <3>3. /\ r_valid_q' = ZERO /\ ~StreamTransfer
          /\ WordIn("outgoing") => WordIn("outgoing")' \/ WordIn("pending")'
          /\ WordIn("pending") => WordIn("pending")' \/ WordIn("incoming")'
      BY <1>2, <2>2, <3>1, <3>2, WordMoves
    <3>4. /\ ~source_done' /\ overall_none' /\ kill_req'
          /\ source_cs' = IF LastRequest THEN "DONE" ELSE "WORKING"
      BY <1>2, <1>4, <2>2, <3>1, <3>3 DEF SourceFsm, OverallNone, KillReq, Keep
    <3>5. request_cnt' = 1
      BY <1>2, <1>4, <2>4 DEF RequestCnt, Count
    <3>6. source_counter' = 1
      BY <1>2, <2>2, <3>1 DEF SourceAddressgen, Count
    <3>7. ~source_progress'
      <4>1. source_counter # 0
        BY <3>1
      <4>2. source_progress' = (SourceEnds \/ source_counter = 0)
        BY <1>2 DEF SourceAddressgen
      <4>3. QED
        BY <2>2, <4>1, <4>2, Zenon
    <3>8. WordIn("pending") /\ ~source_progress => LastRequest
      BY <1>4, <3>1 DEF WordIn, Requests, LastRequest, StreamReady
    <3>9. QED
      BY <2>2, <3>1, <3>3, <3>4, <3>5, <3>6, <3>7, <3>8
         DEF SourceInv, SourceRequests, SourceWaits
  <2>5. QED
    BY <2>1, <2>3, <2>4 DEF SourceRequests
<1>5. CASE source_cs = "DONE"
  <2>1. ctrl = "await" /\ ~source_done /\ SourceWaits
    BY <1>5 DEF SourceInv
  <2>2. ctrl' = "await" /\ position' = position /\ ~Requests /\ ~FirstRequest
    BY <1>1, <1>5, <2>1 DEF Requests, FirstRequest
  <2>3. CASE overall_none
    <3>1. PICK place \in {"outgoing", "pending", "incoming", "misaligned"} : WordIn(place)
      BY <2>1, <2>3 DEF SourceWaits
    <3>2. /\ r_valid_q' = ZERO /\ (StreamTransfer <=> place = "misaligned")
          /\ IF StreamTransfer THEN WordIn("input")'
             ELSE WordIn("outgoing")' \/ WordIn("pending")'
                  \/ WordIn("incoming")' \/ WordIn("misaligned")'
      BY <1>2, <2>2, <3>1, WordMoves
    <3>3. source_cs' = "DONE" /\ ~source_done' /\ overall_none' = ~StreamTransfer
      BY <1>2, <1>5, <2>3 DEF SourceFsm, SourceEnds, OverallNone
    <3>4. QED
      BY <2>2, <3>2, <3>3 DEF SourceInv, SourceWaits
  <2>4. CASE ~overall_none
    <3>1. WordIn("input") /\ SourceEnds
      BY <1>5, <2>1, <2>4 DEF SourceWaits, SourceEnds
    <3>2. WordIn("none")' /\ r_valid_q' = ZERO
      BY <1>2, <2>2, <3>1, WordMoves
    <3>3. source_cs' = "IDLE" /\ source_done' /\ source_counter' = 0 /\ source_progress'
      BY <1>2, <1>5, <3>1 DEF SourceFsm, SourceAddressgen, Count
    <3>4. QED
      BY <2>2, <3>2, <3>3 DEF SourceInv, SourceRests, WordIn
  <2>5. QED
    BY <2>3, <2>4
<1>6. QED
  BY <1>3, <1>4, <1>5 DEF TypeOK
-----------------------------------------------------------------------------
(* What aes_fsm does at an edge, as far as the sink is concerned.          *)
LEMMA FsmStores ==
  ASSUME TypeOK, Quiet \/ Ask \/ Await \/ Offer \/ Send \/ Written
  PROVE  /\ position' \in Position
         /\ ctrl = "offer" /\ sink_cs = "IDLE" => ctrl' = "send"
         /\ ctrl = "send" => ctrl' = "written" /\ position' = position
         /\ ctrl # "send" /\ ~(ctrl = "offer" /\ sink_cs = "IDLE")
              => ctrl' \notin {"send", "written"}
BY DEF TypeOK, Quiet, Ask, Await, Offer, Send, Written

(* A store leaves the queue of the sink for that to the memory.            *)
LEMMA StoreMoves ==
  ASSUME NEW written \in BOOLEAN,
         TypeOK, StoreFifos(written),
         written => store_fifo # << >>,
         store_fifo \in Seq(RightStore),
         tcdm_fifo = << >> \/ \E store \in RightStore : tcdm_fifo = << store >>
  PROVE  /\ store_fifo' \in Seq(RightStore) /\ Len(store_fifo') <= TCDM_DEPTH
         /\ LET moved == tcdm_fifo # << >> /\ Len(store_fifo) < TCDM_DEPTH
            IN  Len(store_fifo') = Len(store_fifo) - (IF written THEN 1 ELSE 0)
                                                   + (IF moved THEN 1 ELSE 0)
<1>1. Len(store_fifo) <= TCDM_DEPTH /\ Len(store_fifo) \in Nat /\ TCDM_DEPTH \in Nat
  BY StreamerAssumption DEF TypeOK
<1>2. PICK kept : kept = IF written THEN Tail(store_fifo) ELSE store_fifo
  OBVIOUS
<1>3. /\ kept \in Seq(RightStore) /\ Len(kept) \in Nat
      /\ Len(kept) = Len(store_fifo) - (IF written THEN 1 ELSE 0)
  BY <1>2
<1>4. CASE tcdm_fifo = << >> \/ ~(Len(store_fifo) < TCDM_DEPTH)
  <2>1. store_fifo' = kept
    BY <1>2, <1>4 DEF StoreFifos, Fifo
  <2>2. QED
    BY <1>1, <1>3, <1>4, <2>1
<1>5. CASE tcdm_fifo # << >> /\ Len(store_fifo) < TCDM_DEPTH
  <2>1. PICK store \in RightStore : tcdm_fifo = << store >>
    BY <1>5
  <2>2. Head(tcdm_fifo) = store
    BY <2>1
  <2>3. store_fifo' = Append(kept, store)
    BY <1>2, <1>5, <2>2 DEF StoreFifos, Fifo
  <2>4. Append(kept, store) \in Seq(RightStore) /\ Len(Append(kept, store)) = Len(kept) + 1
    BY <1>3
  <2>5. QED
    BY <1>1, <1>3, <1>5, <2>3, <2>4
<1>6. QED
  BY <1>4, <1>5

(* What an edge without a clear does to the sink in each of its phases.    *)
SinkStarts ==
  /\ sink_cs = "IDLE" /\ ctrl # "send"
  /\ sink_cs' = IF ctrl = "offer" THEN "WORKING" ELSE "IDLE"
  /\ sink_counter' = 0
  /\ output_fifo = << >> /\ output_fifo' = << >>
  /\ tcdm_fifo = << >> /\ tcdm_fifo' = << >>

SinkHasRoom ==
  /\ sink_cs = "WORKING" /\ sink_counter = 0 /\ ctrl = "send"
  /\ sink_cs' = "WORKING" /\ sink_counter' = 0
  /\ output_fifo = << >> /\ output_fifo' = << position >>
  /\ tcdm_fifo = << >> /\ tcdm_fifo' = << >>

SinkTakesWord ==
  /\ sink_cs = "WORKING" /\ sink_counter = 0 /\ ctrl = "written"
  /\ sink_cs' = "WORKING" /\ sink_counter' = 1
  /\ output_fifo = << position >> /\ output_fifo' = << >>
  /\ tcdm_fifo = << >> /\ \E store \in RightStore : tcdm_fifo' = << store >>

SinkStores ==
  /\ sink_cs = "WORKING" /\ sink_counter = 1 /\ ctrl # "send"
  /\ \/ sink_cs' = "WORKING" /\ sink_counter' = 1
     \/ sink_cs' = "IDLE" /\ tcdm_fifo = << >>
  /\ output_fifo = << >> /\ output_fifo' = << >>
  /\ tcdm_fifo' = IF Len(store_fifo) < TCDM_DEPTH THEN << >> ELSE tcdm_fifo

(* The sink keeps its part of the invariant at an edge without a clear.    *)
LEMMA SinkRuns ==
  ASSUME NEW granted \in BOOLEAN, NEW answered \in BOOLEAN, NEW written \in BOOLEAN,
         TypeOK, SinkInv, Run(granted, answered, written)
  PROVE  /\ SinkInv'
         /\ SinkStarts \/ SinkHasRoom \/ SinkTakesWord \/ SinkStores
<1> USE StreamerAssumption
<1>1. /\ ctrl = "offer" /\ sink_cs = "IDLE" => ctrl' = "send"
      /\ ctrl = "send" => ctrl' = "written" /\ position' = position
      /\ ctrl # "send" /\ ~(ctrl = "offer" /\ sink_cs = "IDLE")
           => ctrl' \notin {"send", "written"}
  BY FsmStores DEF Run
<1>2. /\ SinkFsm /\ SinkAddressgen /\ StoreFifos(written)
      /\ written => store_fifo # << >>
  BY DEF Run, Memory
<1>3. /\ position \in Position /\ sink_cs \in {"IDLE", "WORKING"} /\ sink_counter \in 0 .. 1
      /\ FIFO_DEPTH \in Nat \ {0}
  BY DEF TypeOK
<1>4. /\ Len(<< >>) = 0 /\ Len(<< position >>) = 1
      /\ Head(<< position >>) = position /\ Tail(<< position >>) = << >>
      /\ Append(<< >>, position) = << position >> /\ << position >> # << >>
  OBVIOUS
<1>5. tcdm_fifo = << >> \/ \E store \in RightStore : tcdm_fifo = << store >>
  BY <1>3 DEF SinkInv, SinkRests, SinkExpects, SinkDrains
<1>6. store_fifo' \in Seq(RightStore) /\ Len(store_fifo') <= TCDM_DEPTH
  BY <1>2, <1>5, StoreMoves DEF SinkInv
<1>7. CASE sink_cs = "IDLE"
  <2>1. SinkRests /\ ~SinkTakes /\ ~SinkEnds
    BY <1>7 DEF SinkInv, SinkRests, SinkTakes, SinkEnds
  <2>2. sink_cs' = IF ctrl = "offer" THEN "WORKING" ELSE "IDLE"
    BY <1>2, <1>7 DEF SinkFsm
  <2>3. sink_counter' = 0
    BY <1>2, <2>1 DEF SinkAddressgen, SinkRests, Count
  <2>4. sink_progress'
    BY <1>2, <2>1 DEF SinkAddressgen, SinkRests
  <2>5. sink_flag'
    BY <1>2, <2>1 DEF SinkAddressgen, SinkRests
  <2>6. output_fifo' = << >>
    BY <1>2, <2>1 DEF StoreFifos, Fifo, SinkRests
  <2>7. tcdm_fifo' = << >>
    BY <1>2, <2>1 DEF StoreFifos, Fifo, SinkRests
  <2>8. QED
    BY <1>1, <1>6, <1>7, <2>1, <2>2, <2>3, <2>4, <2>5, <2>6, <2>7
       DEF SinkInv, SinkRests, SinkExpects, SinkStarts
<1>8. CASE sink_cs = "WORKING" /\ sink_counter = 0
  <2>1. SinkExpects /\ ~SinkEnds
    BY <1>8 DEF SinkInv, SinkExpects, SinkEnds
  <2>2. sink_cs' = "WORKING"
    BY <1>2, <1>8, <2>1 DEF SinkFsm
  <2>3. CASE ctrl = "send"
    <3>1. output_fifo = << >> /\ ~SinkTakes
      BY <2>1, <2>3 DEF SinkExpects, SinkTakes
    <3>2. sink_counter' = 0
      BY <1>2, <1>8, <3>1 DEF SinkAddressgen, Count
    <3>3. sink_progress'
      BY <1>2, <1>8 DEF SinkAddressgen
    <3>4. sink_flag'
      BY <1>2, <2>1 DEF SinkAddressgen, SinkExpects
    <3>5. output_fifo' = << position >>
      BY <1>2, <1>3, <1>4, <2>3, <3>1 DEF StoreFifos, Fifo
    <3>6. tcdm_fifo' = << >>
      BY <1>2, <2>1, <3>1 DEF StoreFifos, Fifo, SinkExpects
    <3>7. QED
      BY <1>1, <1>6, <1>8, <2>1, <2>2, <2>3, <3>1, <3>2, <3>3, <3>4, <3>5, <3>6
         DEF SinkInv, SinkExpects, SinkHasRoom
  <2>4. CASE ctrl = "written"
    <3>1. output_fifo = << position >> /\ tcdm_fifo = << >> /\ SinkTakes
      BY <1>3, <1>4, <2>1, <2>4 DEF SinkExpects, SinkTakes
    <3>2. sink_counter' = 1
      BY <1>2, <1>8, <2>1, <3>1 DEF SinkAddressgen, Count
    <3>3. output_fifo' = << >>
      BY <1>2, <1>4, <2>4, <3>1 DEF StoreFifos, Fifo
    <3>4. PICK store : store = [add |-> position, data |-> position]
      OBVIOUS
    <3>5. store \in RightStore
      BY <1>3, <3>4 DEF RightStore, Store
    <3>6. Append(<< >>, store) = << store >>
      OBVIOUS
    <3>7. tcdm_fifo' = << store >>
      BY <1>2, <1>3, <1>4, <1>8, <3>1, <3>4, <3>6 DEF StoreFifos, Fifo
    <3>8. QED
      BY <1>1, <1>6, <1>8, <2>2, <2>4, <3>1, <3>2, <3>3, <3>5, <3>7
         DEF SinkInv, SinkDrains, SinkTakesWord
  <2>5. QED
    BY <2>1, <2>3, <2>4 DEF SinkExpects
<1>9. CASE sink_cs = "WORKING" /\ sink_counter = 1
  <2>1. SinkDrains /\ ~SinkTakes
    BY <1>9 DEF SinkInv, SinkDrains, SinkTakes
  <2>2. ctrl' \notin {"send", "written"}
    BY <1>1, <1>9, <2>1 DEF SinkDrains
  <2>3. output_fifo' = << >>
    BY <1>2, <2>1 DEF StoreFifos, Fifo, SinkDrains
  <2>4. sink_cs' = IF SinkEnds THEN "IDLE" ELSE "WORKING"
    BY <1>2, <1>9 DEF SinkFsm
  <2>5. tcdm_fifo' = IF Len(store_fifo) < TCDM_DEPTH THEN << >> ELSE tcdm_fifo
    <3>1. ASSUME NEW store PROVE Tail(<< store >>) = << >>
      OBVIOUS
    <3>2. CASE tcdm_fifo # << >> /\ Len(store_fifo) < TCDM_DEPTH
      BY <1>2, <1>5, <2>1, <3>1, <3>2 DEF StoreFifos, Fifo
    <3>3. CASE tcdm_fifo = << >> \/ ~(Len(store_fifo) < TCDM_DEPTH)
      BY <1>2, <2>1, <3>3 DEF StoreFifos, Fifo
    <3>4. QED
      BY <3>2, <3>3
  <2>6. CASE SinkEnds
    <3>1. tcdm_fifo = << >>
      BY <2>6 DEF SinkEnds
    <3>2. tcdm_fifo' = << >>
      BY <2>5, <3>1
    <3>3. sink_counter' = 0
      BY <1>2, <2>6 DEF SinkAddressgen, Count
    <3>4. sink_progress'
      BY <1>2, <2>6 DEF SinkAddressgen
    <3>5. QED
      BY <1>6, <1>9, <2>1, <2>2, <2>3, <2>4, <2>5, <2>6, <3>1, <3>2, <3>3, <3>4
         DEF SinkInv, SinkRests, SinkDrains, SinkStores
  <2>7. CASE ~SinkEnds
    <3>1. sink_counter' = 1
      BY <1>2, <1>9, <2>1, <2>7 DEF SinkAddressgen, Count
    <3>2. tcdm_fifo' = << >> \/ \E store \in RightStore : tcdm_fifo' = << store >>
      BY <1>5, <2>5
    <3>3. QED
      BY <1>6, <1>9, <2>1, <2>2, <2>3, <2>4, <2>5, <2>7, <3>1, <3>2
         DEF SinkInv, SinkDrains, SinkStores
  <2>8. QED
    BY <2>6, <2>7
<1>10. QED
  BY <1>3, <1>7, <1>8, <1>9
-----------------------------------------------------------------------------
(* At most one load is in flight, and then no other is requested.          *)
LEMMA LoadsOne ==
  ASSUME TypeOK, SourceInv, source_cs # "IDLE"
  PROVE  pending = << >> \/ (outgoing = << >> /\ \E age \in 1 .. MAX_LATENCY : Loading(age))
BY DEF TypeOK, SourceInv, SourceRequests, SourceWaits, WordIn

(* Types are kept at an edge without a clear.                              *)
LEMMA RunTyped ==
  ASSUME NEW granted \in BOOLEAN, NEW answered \in BOOLEAN, NEW written \in BOOLEAN,
         TypeOK, SourceInv, SinkInv, Run(granted, answered, written),
         SourceInv', SinkInv', source_cs' = "IDLE" => pending' = << >>
  PROVE  TypeOK'
<1> USE StreamerAssumption
<1>1. /\ ctrl' \in {"quiet", "ask", "await", "offer", "send", "written"}
      /\ position' \in Position
  BY FsmReads DEF Run
<1>2. clear' \in 0 .. CLEAR_CYCLES
  BY DEF Run
<1>3. /\ source_cs' \in {"IDLE", "WORKING", "DONE"}
      /\ sink_cs' \in {"IDLE", "WORKING"}
  BY DEF Run, SourceFsm, SinkFsm
<1>4. source_done' \in BOOLEAN /\ overall_none' \in BOOLEAN
  <2>1. /\ source_done' = (source_cs = "DONE" /\ ~overall_none)
        /\ overall_none' = (source_cs = "IDLE" \/ (overall_none /\ ~StreamTransfer))
    BY DEF Run, SourceFsm, SourceEnds, OverallNone
  <2>2. QED
    BY <2>1, Zenon
<1>5. kill_req' \in BOOLEAN
  BY DEF TypeOK, Run, KillReq, Keep
<1>6. source_progress' \in BOOLEAN /\ sink_progress' \in BOOLEAN /\ sink_flag' \in BOOLEAN
  BY DEF Run, SourceAddressgen, SinkAddressgen
<1>7. request_cnt' \in 0 .. 1
  BY DEF TypeOK, Run, RequestCnt, Count
<1>8. source_counter' \in 0 .. 1
  BY DEF TypeOK, Run, SourceAddressgen, Count
<1>9. sink_counter' \in 0 .. 1
  BY DEF TypeOK, Run, SinkAddressgen, Count
<1>10. ASSUME NEW S, NEW x \in S, NEW d \in Nat \ {0}
       PROVE  /\ << x >> \in Seq(S) /\ Len(<< x >>) <= d
              /\ << >> \in Seq(S) /\ Len(<< >>) <= d
  OBVIOUS
<1>11. /\ outgoing' \in {<< >>, << position' >>} /\ incoming' \in {<< >>, << position' >>}
       /\ misaligned_fifo' \in {<< >>, << position' >>}
       /\ input_fifo' \in {<< >>, << position' >>}
       /\ r_valid_q' = ZERO
       /\ pending' = << >> \/ \E age \in 1 .. MAX_LATENCY : Loading(age)'
  BY <1>3 DEF SourceInv, SourceRests, SourceRequests, SourceWaits, WordIn
<1>12. /\ outgoing' \in Seq(Position) /\ Len(outgoing') <= TCDM_DEPTH
       /\ incoming' \in Seq(Position) /\ Len(incoming') <= TCDM_DEPTH
       /\ misaligned_fifo' \in Seq(Position) /\ Len(misaligned_fifo') <= FIFO_DEPTH
       /\ input_fifo' \in Seq(Position) /\ Len(input_fifo') <= FIFO_DEPTH
  BY <1>1, <1>10, <1>11
<1>13. pending' \in Seq([add : Position, age : 1 .. MAX_LATENCY])
  <2>1. CASE pending' = << >>
    BY <2>1
  <2>2. ASSUME NEW age \in 1 .. MAX_LATENCY, Loading(age)'
        PROVE  pending' \in Seq([add : Position, age : 1 .. MAX_LATENCY])
    <3>1. PICK load : load = [add |-> position', age |-> age]
      OBVIOUS
    <3>2. load \in [add : Position, age : 1 .. MAX_LATENCY]
      BY <1>1, <3>1
    <3>3. pending' = << load >>
      BY <2>2, <3>1 DEF Loading
    <3>4. QED
      BY <1>10, <3>2, <3>3
  <2>3. QED
    BY <1>11, <2>1, <2>2
<1>14. RightStore \subseteq Store
  BY DEF RightStore
<1>15. store_fifo' \in Seq(Store) /\ Len(store_fifo') <= TCDM_DEPTH
  BY <1>14 DEF SinkInv
<1>16. /\ output_fifo' \in {<< >>, << position' >>}
       /\ tcdm_fifo' = << >> \/ \E store \in RightStore : tcdm_fifo' = << store >>
  BY <1>3, <1>9 DEF SinkInv, SinkRests, SinkExpects, SinkDrains
<1>17. /\ output_fifo' \in Seq(Position) /\ Len(output_fifo') <= FIFO_DEPTH
       /\ tcdm_fifo' \in Seq(Store) /\ Len(tcdm_fifo') <= FIFO_DEPTH
  <2>1. output_fifo' \in Seq(Position) /\ Len(output_fifo') <= FIFO_DEPTH
    BY <1>1, <1>10, <1>16
  <2>2. CASE tcdm_fifo' = << >>
    BY <1>10, <2>1, <2>2
  <2>3. ASSUME NEW store \in Store, tcdm_fifo' = << store >>
        PROVE  tcdm_fifo' \in Seq(Store) /\ Len(tcdm_fifo') <= FIFO_DEPTH
    BY <1>10, <2>3
  <2>4. QED
    BY <1>14, <1>16, <2>1, <2>2, <2>3
<1>18. {source_done', kill_req', overall_none', source_progress', sink_progress',
        sink_flag'} \subseteq BOOLEAN
  BY <1>4, <1>5, <1>6
<1>19. {request_cnt', source_counter', sink_counter'} \subseteq 0 .. 1
  BY <1>7, <1>8, <1>9
<1>20. QED
  BY <1>1, <1>2, <1>3, <1>11, <1>12, <1>13, <1>15, <1>17, <1>18, <1>19 DEF TypeOK

(* The load that a clear overtakes gets older at every edge of it.         *)
LEMMA LoadReturns ==
  ASSUME NEW granted \in BOOLEAN, NEW answered \in BOOLEAN, NEW written \in BOOLEAN,
         TypeOK, SourceInv, ClearInv, Clear(granted, answered, written)
  PROVE  \/ pending' = << >>
         \/ \E add \in Position, age \in CLEAR_CYCLES - clear' .. MAX_LATENCY :
              pending' = <<[add |-> add, age |-> age]>>
<1> USE StreamerAssumption
<1>1. /\ clear \in 1 .. CLEAR_CYCLES /\ clear' = clear - 1
      /\ Memory(granted, answered, written)
      /\ granted => outgoing # << >>
  BY DEF TypeOK, Clear, Memory
<1>2. \/ pending = << >>
      \/ /\ outgoing = << >>
         /\ \E add \in Position, age \in 1 .. MAX_LATENCY :
              pending = <<[add |-> add, age |-> age]>> /\ age >= CLEAR_CYCLES - clear
  <2>1. CASE clear = CLEAR_CYCLES /\ source_cs = "IDLE"
    BY <2>1 DEF ClearInv
  <2>2. CASE clear = CLEAR_CYCLES /\ source_cs # "IDLE"
    <3>1. pending = << >> \/ (outgoing = << >> /\ \E age \in 1 .. MAX_LATENCY : Loading(age))
      BY <2>2, LoadsOne
    <3>2. position \in Position
      BY DEF TypeOK
    <3>3. ASSUME NEW age \in 1 .. MAX_LATENCY PROVE age >= CLEAR_CYCLES - clear
      BY <2>2
    <3>4. QED
      BY <3>1, <3>2, <3>3 DEF Loading
  <2>3. CASE clear # CLEAR_CYCLES
    <3>1. SourceRests
      BY <1>1, <2>3 DEF ClearInv, SourceInv
    <3>2. CLEAR_CYCLES - clear >= 1
      BY <1>1, <2>3
    <3>3. ASSUME NEW age \in CLEAR_CYCLES - clear .. MAX_LATENCY
          PROVE  age \in 1 .. MAX_LATENCY /\ age >= CLEAR_CYCLES - clear
      BY <1>1, <3>2
    <3>4. QED
      BY <1>1, <2>3, <3>1, <3>3 DEF ClearInv, SourceRests
  <2>4. QED
    BY <2>1, <2>2, <2>3
<1>3. CASE pending = << >>
  <2>1. pending' = IF granted THEN <<[add |-> Head(outgoing), age |-> 1]>> ELSE << >>
    BY <1>1, <1>3, MemoryNone
  <2>2. CASE ~granted
    BY <2>1, <2>2
  <2>3. CASE granted
    <3>1. source_cs # "IDLE"
      BY <1>1, <2>3 DEF SourceInv, SourceRests
    <3>2. clear = CLEAR_CYCLES
      BY <1>1, <3>1 DEF ClearInv
    <3>3. Head(outgoing) \in Position
      BY <1>1, <2>3 DEF TypeOK
    <3>4. 1 \in CLEAR_CYCLES - clear' .. MAX_LATENCY
      BY <1>1, <3>2
    <3>5. QED
      BY <2>1, <2>3, <3>3, <3>4
  <2>4. QED
    BY <2>2, <2>3
<1>4. CASE pending # << >>
  <2>1. PICK add \in Position, age \in 1 .. MAX_LATENCY :
          pending = <<[add |-> add, age |-> age]>> /\ age >= CLEAR_CYCLES - clear
    BY <1>2, <1>4
  <2>2. ~granted
    BY <1>1, <1>2, <1>4
  <2>3. /\ pending' = IF answered THEN << >> ELSE <<[add |-> add, age |-> age + 1]>>
        /\ ~answered => age + 1 \in 1 .. MAX_LATENCY
    BY <1>1, <2>1, <2>2, MemoryOne
  <2>4. age + 1 >= CLEAR_CYCLES - clear'
    BY <1>1, <2>1
  <2>5. ~answered => age + 1 \in CLEAR_CYCLES - clear' .. MAX_LATENCY
    BY <1>1, <2>3, <2>4
  <2>6. QED
    BY <2>3, <2>5
<1>5. QED
  BY <1>3, <1>4

LEMMA ClearKeeps ==
  ASSUME NEW granted \in BOOLEAN, NEW answered \in BOOLEAN, NEW written \in BOOLEAN,
         IInv, Clear(granted, answered, written)
  PROVE  IInv'
<1> USE StreamerAssumption
<1>1. /\ clear \in 1 .. CLEAR_CYCLES /\ clear' = clear - 1
      /\ ctrl' = "quiet" /\ position' \in Position
      /\ SourceReset /\ SinkReset
  BY DEF IInv, TypeOK, Clear
<1>2. /\ clear' \in 0 .. CLEAR_CYCLES /\ clear' # CLEAR_CYCLES
      /\ CLEAR_CYCLES - clear' >= 1
  BY <1>1
<1>3. \/ pending' = << >>
      \/ \E add \in Position, age \in CLEAR_CYCLES - clear' .. MAX_LATENCY :
           pending' = <<[add |-> add, age |-> age]>>
  BY LoadReturns DEF IInv
<1>4. clear' = 0 => pending' = << >>
  BY <1>3
<1>5. ASSUME NEW S, NEW x \in S
      PROVE  << x >> \in Seq(S) /\ << >> \in Seq(S) /\ Len(<< >>) = 0
  OBVIOUS
<1>6. pending' \in Seq([add : Position, age : 1 .. MAX_LATENCY])
  <2>1. CASE pending' = << >>
    BY <2>1
  <2>2. ASSUME NEW add \in Position, NEW age \in CLEAR_CYCLES - clear' .. MAX_LATENCY,
               pending' = <<[add |-> add, age |-> age]>>
        PROVE  pending' \in Seq([add : Position, age : 1 .. MAX_LATENCY])
    <3>1. age \in 1 .. MAX_LATENCY
      BY <1>1, <1>2
    <3>2. QED
      BY <1>5, <2>2, <3>1
  <2>3. QED
    BY <1>3, <2>1, <2>2
<1>7. TypeOK'
  <2>1. /\ source_done' = FALSE /\ kill_req' = FALSE /\ overall_none' = TRUE
        /\ source_progress' = TRUE /\ sink_progress' = TRUE /\ sink_flag' = FALSE
        /\ request_cnt' = 0 /\ source_counter' = 0 /\ sink_counter' = 0
    BY <1>1 DEF SourceReset, SinkReset
  <2>2. {source_done', kill_req', overall_none', source_progress', sink_progress',
         sink_flag'} \subseteq BOOLEAN
    BY <2>1, Zenon
  <2>3. {request_cnt', source_counter', sink_counter'} \subseteq 0 .. 1
    BY <2>1
  <2>4. ASSUME NEW S, NEW d \in Nat PROVE << >> \in Seq(S) /\ Len(<< >>) <= d
    OBVIOUS
  <2>5. /\ outgoing' \in Seq(Position) /\ Len(outgoing') <= TCDM_DEPTH
        /\ incoming' \in Seq(Position) /\ Len(incoming') <= TCDM_DEPTH
        /\ misaligned_fifo' \in Seq(Position) /\ Len(misaligned_fifo') <= FIFO_DEPTH
        /\ input_fifo' \in Seq(Position) /\ Len(input_fifo') <= FIFO_DEPTH
    BY <1>1, <2>4 DEF SourceReset
  <2>6. /\ output_fifo' \in Seq(Position) /\ Len(output_fifo') <= FIFO_DEPTH
        /\ tcdm_fifo' \in Seq(Store) /\ Len(tcdm_fifo') <= FIFO_DEPTH
        /\ store_fifo' \in Seq(Store) /\ Len(store_fifo') <= TCDM_DEPTH
    BY <1>1, <2>4 DEF SinkReset
  <2>7. QED
    BY <1>1, <1>2, <1>6, <2>2, <2>3, <2>5, <2>6 DEF TypeOK, SourceReset, SinkReset
<1>8. SourceInv'
  BY <1>1 DEF SourceInv, SourceRests, SourceReset
<1>9. SinkInv'
  BY <1>1 DEF SinkInv, SinkRests, SinkReset
<1>10. ClearInv'
  BY <1>1, <1>2, <1>3, <1>4 DEF ClearInv, SourceReset, SinkReset
<1>11. QED
  BY <1>7, <1>8, <1>9, <1>10 DEF IInv
LEMMA RunKeeps ==
  ASSUME NEW granted \in BOOLEAN, NEW answered \in BOOLEAN, NEW written \in BOOLEAN,
         IInv, Run(granted, answered, written)
  PROVE  IInv'
<1>1. SourceInv' /\ (source_cs' = "IDLE" => pending' = << >>)
  BY SourceRuns DEF IInv
<1>2. SinkInv'
  BY SinkRuns DEF IInv
<1>3. TypeOK'
  BY <1>1, <1>2, RunTyped DEF IInv
<1>4. ClearInv'
  BY <1>1 DEF ClearInv, Run
<1>5. QED
  BY <1>1, <1>2, <1>3, <1>4 DEF IInv

-----------------------------------------------------------------------------
LEMMA InitHolds == Init => IInv
<1> SUFFICES ASSUME Init PROVE IInv
  OBVIOUS
<1> USE StreamerAssumption DEF Init
<1>1. ASSUME NEW S, NEW d \in Nat PROVE << >> \in Seq(S) /\ Len(<< >>) <= d
  OBVIOUS
<1>2. {source_done, kill_req, overall_none, source_progress, sink_progress,
       sink_flag} \subseteq BOOLEAN
  BY Zenon
<1>3. {request_cnt, source_counter, sink_counter} \subseteq 0 .. 1
  OBVIOUS
<1>4. TypeOK
  BY <1>1, <1>2, <1>3 DEF TypeOK
<1>5. SourceInv /\ SinkInv /\ ClearInv
  BY <1>1 DEF SourceInv, SourceRests, SinkInv, SinkRests, ClearInv
<1>6. QED
  BY <1>4, <1>5 DEF IInv

LEMMA Inductive == IInv /\ [Next]_vars => IInv'
<1> SUFFICES ASSUME IInv, [Next]_vars PROVE IInv'
  OBVIOUS
<1>1. CASE Next
  BY <1>1, RunKeeps, ClearKeeps DEF Next, Edge
<1>2. CASE UNCHANGED vars
  <2> USE <1>2 DEF vars, fsmVars, sourceVars, sinkVars
  <2>1. TypeOK'
    BY DEF IInv, TypeOK
  <2>2. SourceInv'
    BY DEF IInv, SourceInv, SourceRests, SourceRequests, SourceWaits, WordIn, Loading
  <2>3. SinkInv'
    BY DEF IInv, SinkInv, SinkRests, SinkExpects, SinkDrains
  <2>4. ClearInv'
    BY DEF IInv, ClearInv
  <2>5. QED
    BY <2>1, <2>2, <2>3, <2>4 DEF IInv
<1>3. QED
  BY <1>1, <1>2

LEMMA Invariant == Spec => []IInv
BY InitHolds, Inductive, PTL DEF Spec

-----------------------------------------------------------------------------
(* Every register has its type and no FIFO more words than room, whatever  *)
(* the depths of the FIFOs and the time that the memory takes.             *)
THEOREM StreamerTypeCorrect == Spec => []TypeOK
<1>1. IInv => TypeOK
  BY DEF IInv
<1>2. QED
  BY <1>1, Invariant, PTL

(* The engine is only ever given the word it is waiting for, and once.     *)
THEOREM InputAlwaysRight == Spec => []InputRight
<1>1. IInv => InputRight
  BY DEF IInv, TypeOK, SourceInv, SourceRests, SourceRequests, SourceWaits, WordIn,
         InputRight
<1>2. QED
  BY <1>1, Invariant, PTL

(* Every word that leaves the engine is taken by a sink that works, with   *)
(* the address it is meant for, and every store in flight has that address.*)
THEOREM StoresAlwaysRight == Spec => []StoresRight
<1>1. IInv => StoresRight
  <2> SUFFICES ASSUME IInv PROVE StoresRight
    OBVIOUS
  <2>1. sink_cs \in {"IDLE", "WORKING"} /\ sink_counter \in 0 .. 1
    BY DEF IInv, TypeOK
  <2>2. output_fifo # << >> => sink_cs = "WORKING" /\ output_fifo = << position >>
    BY <2>1 DEF IInv, SinkInv, SinkRests, SinkExpects, SinkDrains
  <2>3. tcdm_fifo \in Seq(RightStore) /\ store_fifo \in Seq(RightStore)
    <3>1. tcdm_fifo = << >> \/ \E store \in RightStore : tcdm_fifo = << store >>
      BY <2>1 DEF IInv, SinkInv, SinkRests, SinkExpects, SinkDrains
    <3>2. ASSUME NEW store \in RightStore PROVE << store >> \in Seq(RightStore)
      OBVIOUS
    <3>3. << >> \in Seq(RightStore)
      OBVIOUS
    <3>4. QED
      BY <3>1, <3>2, <3>3 DEF IInv, SinkInv
  <2>4. ASSUME NEW q \in Seq(RightStore), NEW i \in DOMAIN q
        PROVE  q[i].add = q[i].data
    BY DEF RightStore
  <2>5. QED
    BY <2>2, <2>3, <2>4 DEF StoresRight
<1>2. QED
  BY <1>1, Invariant, PTL

-----------------------------------------------------------------------------
(* The source keeps its promise at an edge without a clear.                *)
LEMMA SourceImplements ==
  ASSUME NEW granted \in BOOLEAN, NEW answered \in BOOLEAN, NEW written \in BOOLEAN,
         IInv, IInv', Run(granted, answered, written)
  PROVE  Handshake!SourceStep
<1>1. /\ ctrl = "ask" => ctrl' = "await" /\ position' = position
      /\ ctrl = "await" /\ ~source_done => ctrl' = "await" /\ position' = position
      /\ ctrl # "ask" /\ (ctrl # "await" \/ source_done) => ctrl' # "await"
  BY FsmReads DEF Run, IInv
<1>2. SourceFsm /\ OverallNone /\ SourceInv /\ SourceInv'
  BY DEF Run, IInv
<1>3. source_cs \in {"IDLE", "WORKING", "DONE"} /\ source_cs' \in {"IDLE", "WORKING", "DONE"}
  BY DEF IInv, TypeOK
<1>4. /\ SourceNow' = "word" =>
           input_fifo' = << position' >> /\ ctrl' = "await" /\ ~source_done' /\ source_cs' = "DONE"
      /\ SourceNow' # "word" => input_fifo' = << >>
  BY <1>2, <1>3 DEF SourceInv, SourceRests, SourceRequests, SourceWaits, WordIn, SourceNow
<1>5. CASE source_cs = "IDLE"
  <2>1. SourceRests /\ ~SourceEnds
    BY <1>2, <1>5 DEF SourceInv, SourceEnds
  <2>2. /\ SourceNow \in {"idle", "done"}
        /\ SourceNow' = IF ctrl = "ask" THEN "fetch" ELSE "idle"
    BY <1>2, <1>5, <2>1 DEF SourceFsm, OverallNone, SourceNow
  <2>3. QED
    BY <1>4, <2>2 DEF Handshake!SourceStep
<1>6. CASE source_cs # "IDLE" /\ overall_none
  <2>1. ctrl = "await" /\ ~source_done /\ ~SourceEnds
    BY <1>2, <1>3, <1>6 DEF SourceInv, SourceEnds
  <2>2. SourceNow = "fetch" /\ SourceNow' \in {"fetch", "word"} /\ position' = position
    BY <1>1, <1>2, <1>3, <1>6, <2>1 DEF SourceFsm, SourceNow
  <2>3. Head(<< position >>) = position /\ << position >> # << >>
    OBVIOUS
  <2>4. QED
    BY <1>4, <2>2, <2>3 DEF Handshake!SourceStep
<1>7. CASE source_cs # "IDLE" /\ ~overall_none
  <2>1. ~source_done /\ SourceEnds
    BY <1>2, <1>3, <1>7 DEF SourceInv, SourceRequests, SourceEnds
  <2>2. SourceNow = "word" /\ SourceNow' = "done"
    BY <1>2, <1>7, <2>1 DEF SourceFsm, SourceNow
  <2>3. QED
    BY <1>4, <2>2 DEF Handshake!SourceStep
<1>8. QED
  BY <1>5, <1>6, <1>7

(* The sink keeps its promise at an edge without a clear.                  *)
LEMMA SinkImplements ==
  ASSUME NEW granted \in BOOLEAN, NEW answered \in BOOLEAN, NEW written \in BOOLEAN,
         IInv, Run(granted, answered, written)
  PROVE  Handshake!SinkStep
<1> USE StreamerAssumption
<1>1. SinkStarts \/ SinkHasRoom \/ SinkTakesWord \/ SinkStores
  BY SinkRuns DEF IInv
<1>2. PICK gone \in 0 .. 1 : gone = IF written THEN 1 ELSE 0
  BY 0 \in 0 .. 1, 1 \in 0 .. 1
<1>3. sink_cs \in {"IDLE", "WORKING"} /\ sink_counter \in 0 .. 1
  BY DEF IInv, TypeOK
<1>4. tcdm_fifo = << >> \/ \E store \in RightStore : tcdm_fifo = << store >>
  BY <1>3 DEF IInv, SinkInv, SinkRests, SinkExpects, SinkDrains
<1>5. /\ Len(store_fifo) \in Nat /\ Len(store_fifo) <= TCDM_DEPTH
      /\ TCDM_DEPTH \in Nat /\ FIFO_DEPTH \in Nat \ {0}
  BY DEF IInv, TypeOK
<1>6. written => store_fifo # << >>
  BY DEF Run, Memory
<1>7. PICK moved \in 0 .. 1 :
        /\ moved = IF tcdm_fifo # << >> /\ Len(store_fifo) < TCDM_DEPTH THEN 1 ELSE 0
        /\ Len(store_fifo') = Len(store_fifo) - gone + moved
  BY <1>2, <1>4, <1>6, StoreMoves DEF IInv, SinkInv, Run
<1>8. gone <= Len(store_fifo)
  BY <1>2, <1>5, <1>6 DEF IInv, TypeOK
<1>9. ASSUME NEW x PROVE Len(<< x >>) = 1 /\ << x >> # << >> /\ Len(<< >>) = 0
                         /\ Tail(<< x >>) = << >> /\ Append(<< >>, x) = << x >>
  OBVIOUS
<1>10. CASE SinkStarts
  <2>1. SinkNow = "idle" /\ SinkNow' = IF ctrl = "offer" THEN "working" ELSE "idle"
    BY <1>10 DEF SinkStarts, SinkNow
  <2>2. Len(tcdm_fifo') + Len(store_fifo') = Len(tcdm_fifo) + Len(store_fifo) - gone
    BY <1>5, <1>7, <1>9, <1>10 DEF SinkStarts
  <2>3. QED
    BY <1>5, <1>8, <1>9, <1>10, <2>1, <2>2
       DEF SinkStarts, Handshake!SinkStep, Handshake!SinkAccepts
<1>11. CASE SinkHasRoom
  <2>1. SinkNow = "working" /\ SinkNow' = "working"
    BY <1>11 DEF SinkHasRoom, SinkNow
  <2>2. Len(tcdm_fifo') + Len(store_fifo') = Len(tcdm_fifo) + Len(store_fifo) - gone
    BY <1>5, <1>7, <1>9, <1>11 DEF SinkHasRoom
  <2>3. QED
    BY <1>5, <1>8, <1>9, <1>11, <2>1, <2>2
       DEF SinkHasRoom, Handshake!SinkStep, Handshake!SinkAccepts
<1>12. CASE SinkTakesWord
  <2>1. SinkNow = "working" /\ SinkNow' = "drain"
    BY <1>12 DEF SinkTakesWord, SinkNow
  <2>2. Len(tcdm_fifo') + Len(store_fifo') = Len(tcdm_fifo) + Len(store_fifo) - gone + 1
    BY <1>5, <1>7, <1>9, <1>12 DEF SinkTakesWord
  <2>3. QED
    BY <1>5, <1>8, <1>9, <1>12, <2>1, <2>2
       DEF SinkTakesWord, Handshake!SinkStep, Handshake!SinkAccepts
<1>13. CASE SinkStores
  <2>1. /\ SinkNow = "drain"
        /\ \/ SinkNow' = "drain"
           \/ SinkNow' = "idle" /\ tcdm_fifo = << >>
    BY <1>13 DEF SinkStores, SinkNow
  <2>2. Len(tcdm_fifo') + Len(store_fifo') = Len(tcdm_fifo) + Len(store_fifo) - gone
    <3>1. CASE tcdm_fifo = << >> \/ ~(Len(store_fifo) < TCDM_DEPTH)
      <4>1. tcdm_fifo' = tcdm_fifo /\ moved = 0
        BY <1>7, <1>13, <3>1 DEF SinkStores
      <4>2. Len(tcdm_fifo) \in Nat
        BY <1>4, <1>9
      <4>3. QED
        BY <1>5, <1>7, <4>1, <4>2
    <3>2. CASE tcdm_fifo # << >> /\ Len(store_fifo) < TCDM_DEPTH
      <4>1. Len(tcdm_fifo) = 1 /\ Len(tcdm_fifo') = 0 /\ moved = 1
        BY <1>4, <1>7, <1>9, <1>13, <3>2 DEF SinkStores
      <4>2. QED
        BY <1>5, <1>7, <4>1
    <3>3. QED
      BY <3>1, <3>2
  <2>3. tcdm_fifo = << >> => Len(tcdm_fifo) + Len(store_fifo) <= TCDM_DEPTH
    BY <1>5, <1>9
  <2>4. QED
    BY <1>5, <1>8, <1>9, <1>13, <2>1, <2>2, <2>3
       DEF SinkStores, Handshake!SinkStep, Handshake!SinkAccepts
<1>14. QED
  BY <1>1, <1>10, <1>11, <1>12, <1>13

(* The streamers with their FIFOs and the memory, soft clears included,    *)
(* behave as AesFsm expects them to: AesStreamer implements                *)
(* StreamerHandshake.                                                      *)
THEOREM StreamerImplements == Spec => HandshakeSpec
<1>1. Init => Handshake!Init
  <2>1. Len(<< >>) + Len(<< >>) = 0
    OBVIOUS
  <2>2. QED
    BY <2>1 DEF Init, Handshake!Init, SourceNow, SinkNow
<1>2. IInv /\ IInv' /\ [Next]_vars => [Handshake!Next]_(Handshake!streamerVars)
  <2> SUFFICES ASSUME IInv, IInv', [Next]_vars
               PROVE  [Handshake!Next]_(Handshake!streamerVars)
    OBVIOUS
  <2>1. ASSUME NEW granted \in BOOLEAN, NEW answered \in BOOLEAN, NEW written \in BOOLEAN,
               Run(granted, answered, written)
        PROVE  Handshake!Next
    BY <2>1, SourceImplements, SinkImplements DEF Handshake!Next
  <2>2. ASSUME NEW granted \in BOOLEAN, NEW answered \in BOOLEAN, NEW written \in BOOLEAN,
               Clear(granted, answered, written)
        PROVE  Handshake!Next
    <3>1. SourceReset /\ SinkReset
      BY <2>2 DEF Clear
    <3>2. Len(tcdm_fifo') + Len(store_fifo') = 0
      BY <3>1 DEF SinkReset
    <3>3. QED
      BY <3>1, <3>2 DEF SourceReset, SinkReset, Handshake!Next, Handshake!Clear,
                        SourceNow, SinkNow
  <2>3. CASE UNCHANGED vars
    BY <2>3 DEF vars, fsmVars, sourceVars, sinkVars, Handshake!streamerVars,
                SourceNow, SinkNow
  <2>4. QED
    BY <2>1, <2>2, <2>3 DEF Next, Edge
<1>3. QED
  BY <1>1, <1>2, Invariant, PTL DEF Spec, HandshakeSpec, Handshake!Spec
-----------------------------------------------------------------------------
(* The progress of a transfer: the edges it has still to wait for.  A word *)
(* that aes_fsm awaits is requested, goes to the memory and comes back     *)
(* through the FIFOs; a word that it offers waits until the sink has       *)
(* finished with the word before.                                          *)
EdgesToWord ==
  IF source_done THEN 0
  ELSE IF input_fifo # << >> THEN 1
  ELSE IF misaligned_fifo # << >> THEN 2
  ELSE IF incoming # << >> THEN 3
  ELSE IF pending # << >> THEN MAX_LATENCY + 4 - Head(pending).age
  ELSE IF outgoing # << >> THEN MAX_LATENCY + 4
  ELSE MAX_LATENCY + 5

EdgesToSink ==
  IF sink_cs = "IDLE" THEN 0
  ELSE 1 + (IF sink_progress THEN 2 ELSE IF sink_flag THEN 1 ELSE 0)
         + (IF tcdm_fifo = << >> THEN 0
            ELSE IF Len(store_fifo) < TCDM_DEPTH THEN 1 ELSE 2)

(* It waits longer only if the memory does not grant the load, or a store  *)
(* while there is no room for another.                                     *)
ReadAdvances ==
  IF source_done THEN ctrl' # "await"
  ELSE /\ ctrl' = "await"
       /\ EdgesToWord' < EdgesToWord \/ (outgoing # << >> /\ outgoing' = outgoing)

OfferAdvances ==
  IF sink_cs = "IDLE" THEN ctrl' # "offer"
  ELSE /\ ctrl' = "offer"
       /\ EdgesToSink' < EdgesToSink
          \/ (Len(store_fifo) = TCDM_DEPTH /\ store_fifo' = store_fifo)

EdgesBounded ==
  /\ ctrl = "await" => /\ EdgesToWord \in 0 .. MAX_LATENCY + 5
                       /\ EdgesToWord = 0 <=> source_done
  /\ ctrl = "offer" => /\ EdgesToSink \in 0 .. 5
                       /\ EdgesToSink = 0 <=> sink_cs = "IDLE"

(* The edges that are left for a word in each place on its way.            *)
LEMMA EdgesFrom ==
  /\ WordIn("none") => EdgesToWord = IF source_done THEN 0 ELSE MAX_LATENCY + 5
  /\ WordIn("outgoing") => EdgesToWord = IF source_done THEN 0 ELSE MAX_LATENCY + 4
  /\ WordIn("pending") =>
       \E age \in 1 .. MAX_LATENCY :
         /\ Loading(age)
         /\ EdgesToWord = IF source_done THEN 0 ELSE MAX_LATENCY + 4 - age
  /\ WordIn("incoming") => EdgesToWord = IF source_done THEN 0 ELSE 3
  /\ WordIn("misaligned") => EdgesToWord = IF source_done THEN 0 ELSE 2
  /\ WordIn("input") => EdgesToWord = IF source_done THEN 0 ELSE 1
<1>1. << position >> # << >>
  OBVIOUS
<1>2. ASSUME NEW age, Loading(age)
      PROVE  pending # << >> /\ Head(pending).age = age
  BY <1>2 DEF Loading
<1>3. QED
  BY <1>1, <1>2 DEF WordIn, EdgesToWord

(* The word that aes_fsm awaits comes nearer at an edge without a clear.   *)
LEMMA ReadEdge ==
  ASSUME NEW granted \in BOOLEAN, NEW answered \in BOOLEAN, NEW written \in BOOLEAN,
         TypeOK, SourceInv, ClearInv, Run(granted, answered, written), ctrl = "await"
  PROVE  ReadAdvances
<1> USE StreamerAssumption
<1>1. /\ source_done => ctrl' # "await"
      /\ ~source_done => ctrl' = "await" /\ position' = position
  BY FsmReads DEF Run
<1>2. /\ SourceFsm
      /\ Memory(granted, answered, written)
      /\ Moving(granted, answered, written)
  BY DEF Run, Moving, SourceInv
<1>3. ASSUME ~source_done
      PROVE  EdgesToWord' < EdgesToWord \/ (outgoing # << >> /\ outgoing' = outgoing)
  <2>1. position' = position /\ source_cs # "IDLE"
    BY <1>1, <1>3 DEF SourceInv, SourceRests
  <2>2. /\ FirstRequest => WordIn("none")
        /\ \E place \in {"none", "outgoing", "pending", "incoming", "misaligned", "input"} :
             WordIn(place)
        /\ WordIn("none") => FirstRequest
    <3>1. \/ /\ source_cs = "WORKING" /\ ~kill_req
             /\ WordIn("none")
          \/ /\ source_cs = "DONE" \/ kill_req
             /\ \E place \in {"outgoing", "pending", "incoming", "misaligned", "input"} :
                  WordIn(place)
      BY <2>1 DEF TypeOK, SourceInv, SourceRequests, SourceWaits
    <3>2. << position >> # << >>
      OBVIOUS
    <3>3. ASSUME NEW place \in {"outgoing", "pending", "incoming", "misaligned", "input"},
                 WordIn(place)
          PROVE  ~WordIn("none")
      BY <3>2, <3>3 DEF WordIn, Loading
    <3>4. WordIn("none") /\ source_cs = "WORKING" => Requests
      BY DEF WordIn, Requests, StreamReady
    <3>5. FirstRequest => source_cs = "WORKING" /\ ~kill_req
      BY DEF FirstRequest, Requests
    <3>6. QED
      BY <3>1, <3>3, <3>4, <3>5 DEF FirstRequest
  <2>3. PICK place \in {"none", "outgoing", "pending", "incoming", "misaligned", "input"} :
          WordIn(place)
    BY <2>2
  <2>4. CASE place = "none"
    <3>1. WordIn("outgoing")'
      BY <1>2, <2>1, <2>2, <2>3, <2>4, WordMoves
    <3>2. EdgesToWord = MAX_LATENCY + 5
      BY <1>3, <2>3, <2>4, EdgesFrom
    <3>3. EdgesToWord' = 0 \/ EdgesToWord' = MAX_LATENCY + 4
      BY <3>1 DEF WordIn, EdgesToWord
    <3>4. EdgesToWord' < EdgesToWord
      BY <3>2, <3>3
    <3>5. QED
      BY <3>4
  <2>5. CASE place = "outgoing"
    <3>1. IF granted THEN WordIn("pending")' ELSE WordIn("outgoing")'
      BY <1>2, <2>1, <2>2, <2>3, <2>5, WordMoves
    <3>2. EdgesToWord = MAX_LATENCY + 4
      BY <1>3, <2>3, <2>5, EdgesFrom
    <3>3. CASE granted
      <4>1. PICK age \in 1 .. MAX_LATENCY :
              EdgesToWord' = IF source_done' THEN 0 ELSE MAX_LATENCY + 4 - age
        BY <3>1, <3>3 DEF WordIn, Loading, EdgesToWord
      <4>2. QED
        BY <3>2, <4>1
    <3>4. CASE ~granted
      BY <2>1, <2>3, <2>5, <3>1, <3>4 DEF WordIn
    <3>5. QED
      BY <3>3, <3>4
  <2>6. CASE place = "pending"
    <3>1. PICK age \in 1 .. MAX_LATENCY : Loading(age)
      BY <2>3, <2>6 DEF WordIn
    <3>2. EdgesToWord = MAX_LATENCY + 4 - age
      BY <1>3, <2>3, <2>6, <3>1 DEF WordIn, Loading, EdgesToWord
    <3>3. ~granted
      BY <1>2, <2>3, <2>6 DEF WordIn, Memory
    <3>4. /\ pending' = IF answered THEN << >> ELSE <<[add |-> position, age |-> age + 1]>>
          /\ ~answered => age + 1 \in 1 .. MAX_LATENCY
      BY <1>2, <3>1, <3>3, MemoryOne DEF Loading
    <3>5. WordIn("pending")' \/ WordIn("incoming")'
      BY <1>2, <2>1, <2>2, <2>3, <2>6, WordMoves
    <3>6. WordIn("incoming")' => EdgesToWord' = 0 \/ EdgesToWord' = 3
      BY DEF WordIn, EdgesToWord
    <3>7. ASSUME WordIn("pending")'
          PROVE  EdgesToWord' = 0 \/ EdgesToWord' = MAX_LATENCY + 4 - (age + 1)
      <4>1. pending' # << >>
        BY <3>7 DEF WordIn, Loading
      <4>2. pending' = <<[add |-> position, age |-> age + 1]>>
        BY <3>4, <4>1
      <4>3. Head(pending').age = age + 1
        BY <4>2
      <4>4. QED
        BY <3>7, <4>1, <4>3 DEF WordIn, EdgesToWord
    <3>8. QED
      BY <3>2, <3>5, <3>6, <3>7
  <2>7. CASE place \in {"incoming", "misaligned"}
    <3>1. IF place = "incoming" THEN WordIn("misaligned")' ELSE WordIn("input")'
      BY <1>2, <2>1, <2>2, <2>3, <2>7, WordMoves
    <3>2. EdgesToWord = IF place = "incoming" THEN 3 ELSE 2
      BY <1>3, <2>3, <2>7, EdgesFrom
    <3>3. EdgesToWord' \in {0, IF place = "incoming" THEN 2 ELSE 1}
      BY <2>7, <3>1 DEF WordIn, EdgesToWord
    <3>4. QED
      BY <2>7, <3>2, <3>3
  <2>8. CASE place = "input"
    <3>1. source_cs = "DONE" /\ ~overall_none
      BY <1>3, <2>1, <2>3, <2>8 DEF TypeOK, SourceInv, SourceRequests, SourceWaits, WordIn
    <3>2. source_done'
      BY <1>2, <3>1 DEF SourceFsm, SourceEnds
    <3>3. EdgesToWord = 1 /\ EdgesToWord' = 0
      BY <1>3, <2>3, <2>8, <3>2, EdgesFrom DEF EdgesToWord
    <3>4. QED
      BY <3>3
  <2>9. QED
    BY <2>3, <2>4, <2>5, <2>6, <2>7, <2>8
<1>4. QED
  BY <1>1, <1>3 DEF ReadAdvances

(* The sink comes nearer to the end of the word before.                    *)
LEMMA OfferEdge ==
  ASSUME NEW granted \in BOOLEAN, NEW answered \in BOOLEAN, NEW written \in BOOLEAN,
         TypeOK, SinkInv, Run(granted, answered, written), ctrl = "offer"
  PROVE  OfferAdvances
<1> USE StreamerAssumption
<1>1. ctrl' = IF sink_cs = "IDLE" THEN "send" ELSE "offer"
  BY DEF Run, Quiet, Ask, Await, Offer, Send, Written
<1>2. ASSUME sink_cs # "IDLE"
      PROVE  EdgesToSink' < EdgesToSink
             \/ (Len(store_fifo) = TCDM_DEPTH /\ store_fifo' = store_fifo)
  <2>1. sink_cs = "WORKING" /\ sink_counter = 1 /\ ~SinkTakes
    BY <1>2 DEF TypeOK, SinkInv, SinkExpects, SinkDrains, SinkTakes
  <2>2. /\ tcdm_fifo' = IF Len(store_fifo) < TCDM_DEPTH THEN << >> ELSE tcdm_fifo
        /\ sink_cs' \in {"IDLE", "WORKING"}
        /\ sink_cs' = "IDLE" <=> SinkEnds
    <3>1. SinkStores
      BY <1>2, <2>1, SinkRuns DEF SinkStarts, SinkHasRoom, SinkTakesWord
    <3>2. QED
      BY <2>1, <3>1 DEF SinkStores, Run, SinkFsm
  <2>3. PICK flag \in 0 .. 2 :
          flag = IF sink_progress THEN 2 ELSE IF sink_flag THEN 1 ELSE 0
    OBVIOUS
  <2>4. PICK stores \in 0 .. 2 :
          stores = IF tcdm_fifo = << >> THEN 0
                   ELSE IF Len(store_fifo) < TCDM_DEPTH THEN 1 ELSE 2
    OBVIOUS
  <2>5. EdgesToSink = 1 + flag + stores
    BY <1>2, <2>3, <2>4 DEF EdgesToSink
  <2>6. CASE SinkEnds
    <3>1. EdgesToSink' = 0
      BY <2>2, <2>6 DEF EdgesToSink
    <3>2. QED
      BY <2>5, <3>1
  <2>7. CASE ~SinkEnds
    <3>1. ~sink_progress' /\ (sink_flag' <=> sink_progress)
      <4>1. /\ sink_progress' = (SinkEnds \/ sink_counter = 0)
            /\ sink_flag' = (~SinkEnds /\ sink_progress)
        BY DEF Run, SinkAddressgen
      <4>2. sink_counter # 0
        BY <2>1
      <4>3. QED
        BY <2>7, <4>1, <4>2, Zenon
    <3>2. PICK next \in 0 .. 1 : next = IF sink_flag' THEN 1 ELSE 0
      OBVIOUS
    <3>3. next <= flag /\ (flag # 0 => next < flag)
      BY <2>3, <3>1, <3>2
    <3>4. PICK left \in 0 .. 2 :
            left = IF tcdm_fifo' = << >> THEN 0
                   ELSE IF Len(store_fifo') < TCDM_DEPTH THEN 1 ELSE 2
      OBVIOUS
    <3>5. EdgesToSink' = 1 + next + left
      <4>1. sink_cs' # "IDLE"
        BY <2>2, <2>7
      <4>2. QED
        BY <3>1, <3>2, <3>4, <4>1 DEF EdgesToSink
    <3>6. flag = 0 => tcdm_fifo # << >>
      BY <2>1, <2>3, <2>7 DEF SinkEnds
    <3>7. CASE Len(store_fifo) < TCDM_DEPTH \/ tcdm_fifo = << >>
      <4>1. left = 0
        BY <2>2, <3>4, <3>7
      <4>2. flag = 0 => stores = 1
        BY <2>4, <3>6, <3>7
      <4>3. QED
        BY <2>5, <3>3, <3>5, <4>1, <4>2
    <3>8. CASE ~(Len(store_fifo) < TCDM_DEPTH) /\ tcdm_fifo # << >>
      <4>1. Len(store_fifo) = TCDM_DEPTH /\ Len(store_fifo) \in Nat
        BY <3>8 DEF TypeOK
      <4>2. store_fifo' = IF written THEN Tail(store_fifo) ELSE store_fifo
        BY <3>8, <4>1 DEF Run, Memory, StoreFifos, Fifo
      <4>3. CASE ~written
        BY <4>1, <4>2, <4>3
      <4>4. CASE written
        <5>1. Len(store_fifo') = TCDM_DEPTH - 1
          BY <4>1, <4>2, <4>4 DEF TypeOK, Run, Memory
        <5>2. left <= 1 /\ stores = 2
          BY <2>4, <3>4, <3>8, <5>1
        <5>3. QED
          BY <2>5, <3>3, <3>5, <5>2
      <4>5. QED
        BY <4>3, <4>4
    <3>9. QED
      BY <3>7, <3>8
  <2>8. QED
    BY <2>6, <2>7
<1>3. QED
  BY <1>1, <1>2 DEF OfferAdvances

(* The edges are counted from at most MAX_LATENCY + 5, and from 5.         *)
LEMMA EdgesCount == IInv => EdgesBounded
<1> SUFFICES ASSUME IInv PROVE EdgesBounded
  OBVIOUS
<1> USE StreamerAssumption
<1>1. ASSUME ctrl = "await"
      PROVE  EdgesToWord \in 0 .. MAX_LATENCY + 5 /\ (EdgesToWord = 0 <=> source_done)
  <2>1. CASE source_done
    BY <2>1 DEF EdgesToWord
  <2>2. CASE ~source_done
    <3>1. \E place \in {"none", "outgoing", "pending", "incoming", "misaligned", "input"} :
            WordIn(place)
      BY <1>1, <2>2 DEF IInv, TypeOK, SourceInv, SourceRests, SourceRequests, SourceWaits
    <3>2. \/ EdgesToWord \in {1, 2, 3, MAX_LATENCY + 4, MAX_LATENCY + 5}
          \/ \E age \in 1 .. MAX_LATENCY : EdgesToWord = MAX_LATENCY + 4 - age
      BY <2>2, <3>1, EdgesFrom
    <3>3. QED
      BY <2>2, <3>2
  <2>3. QED
    BY <2>1, <2>2
<1>2. EdgesToSink \in 0 .. 5 /\ (EdgesToSink = 0 <=> sink_cs = "IDLE")
  <2>1. PICK flag \in 0 .. 2 :
          flag = IF sink_progress THEN 2 ELSE IF sink_flag THEN 1 ELSE 0
    OBVIOUS
  <2>2. PICK stores \in 0 .. 2 :
          stores = IF tcdm_fifo = << >> THEN 0
                   ELSE IF Len(store_fifo) < TCDM_DEPTH THEN 1 ELSE 2
    OBVIOUS
  <2>3. EdgesToSink = IF sink_cs = "IDLE" THEN 0 ELSE 1 + flag + stores
    BY <2>1, <2>2 DEF EdgesToSink
  <2>4. QED
    BY <2>3
<1>3. QED
  BY <1>1, <1>2 DEF EdgesBounded

(* A word that is awaited has at most MAX_LATENCY + 5 edges to wait for    *)
(* and one that is offered at most 5, and comes nearer at every edge   *)
(* unless the memory withholds a grant or a soft clear runs; at none,      *)
(* aes_fsm goes on.  TransfersEnd is this and the fairness of the memory.  *)
THEOREM TransfersAdvance ==
  Spec => /\ []EdgesBounded
          /\ [][/\ ctrl = "await" => clear > 0 \/ ReadAdvances
                /\ ctrl = "offer" => clear > 0 \/ OfferAdvances]_vars
<1>1. ASSUME IInv, Next
      PROVE  /\ ctrl = "await" => clear > 0 \/ ReadAdvances
             /\ ctrl = "offer" => clear > 0 \/ OfferAdvances
  <2>1. PICK granted, answered, written \in BOOLEAN : Edge(granted, answered, written)
    BY <1>1 DEF Next
  <2>2. CASE Run(granted, answered, written)
    BY <1>1, <2>2, ReadEdge, OfferEdge DEF IInv
  <2>3. CASE Clear(granted, answered, written)
    BY <2>3 DEF Clear
  <2>4. QED
    BY <2>1, <2>2, <2>3 DEF Edge
<1>2. QED
  BY <1>1, Invariant, EdgesCount, PTL DEF Spec
=============================================================================
