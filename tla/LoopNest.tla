------------------------------- MODULE LoopNest -------------------------------
(***************************************************************************)
(* The loop nest of a tiled convolution as iterate_hl_loop of              *)
(* uloop_check.py writes it: a generator that yields, point by point, the  *)
(* addresses of the weights (W), of the input (x) and of the output (y).   *)
(* It is the reference against which the micro-code loop processor is      *)
(* checked.  Loops are numbered as in code.yml: 0 is the innermost one.    *)
(***************************************************************************)
EXTENDS Integers

CONSTANTS
  TP,        (* Channels in a tile.                                        *)
  MAX_OUT,   (* Bound: output rows and columns.                            *)
  MAX_FS,    (* Bound: filter size.                                        *)
  MAX_TILES  (* Bound: tiles of input and of output channels.              *)

ASSUME NestAssumption ==
  /\ TP \in Nat \ {0}
  /\ MAX_OUT \in Nat \ {0}
  /\ MAX_FS \in Nat \ {0}
  /\ MAX_TILES \in Nat \ {0}

VARIABLES
  shape,      (* The parameters of the convolution.                        *)
  point,      (* curr_idx: where each loop is.                             *)
  addresses,  (* What the generator yielded last.                          *)
  exhausted   (* It has raised StopIteration.                              *)

nestVars == <<shape, point, addresses, exhausted>>

Loop == 0 .. 5

(* Channel counts are multiples of TP in all of the scripts' calls.        *)
Channels == {TP * k : k \in 1 .. MAX_TILES}

Shape == [oh : 1 .. MAX_OUT, ow : 1 .. MAX_OUT, fs : 1 .. MAX_FS,
          nif : Channels, nof : Channels]

(* How often each loop runs.                                               *)
Times(s) ==
  [l \in Loop |-> IF l = 0 THEN s.nif \div TP
                  ELSE IF l = 1 THEN s.fs
                  ELSE IF l = 2 THEN s.fs
                  ELSE IF l = 3 THEN s.nof \div TP
                  ELSE IF l = 4 THEN s.ow
                  ELSE s.oh]

(* W_idx, x_idx and y_idx at a point: i = p[5], j = p[4],                  *)
(* k_out_major = p[3], u_i = p[2], u_j = p[1], k_in_major = p[0].          *)
Addresses(s, p) ==
  [W |-> p[3] * s.nif * s.fs * s.fs + p[2] * s.nif * s.fs
           + p[1] * s.nif + p[0] * TP,
   x |-> (p[5] + p[2]) * s.nif * (s.ow + s.fs - 1)
           + (p[4] + p[1]) * s.nif + p[0] * TP,
   y |-> p[5] * s.nof * s.ow + p[4] * s.nof + p[3] * TP]

AtEnd(l) == point[l] = Times(shape)[l] - 1

NestTypeOK ==
  /\ shape \in Shape
  /\ point \in [Loop -> Nat]
  /\ addresses \in [W : Nat, x : Nat, y : Nat]
  /\ exhausted \in BOOLEAN

-----------------------------------------------------------------------------

NestInit ==
  /\ shape \in Shape
  /\ point = [l \in Loop |-> 0]
  /\ addresses = Addresses(shape, point)
  /\ exhausted = FALSE

(* Loop l goes on and those within it start over.                          *)
Iterate(l) ==
  /\ ~AtEnd(l)
  /\ \A m \in 0 .. l - 1 : AtEnd(m)
  /\ point' = [m \in Loop |-> IF m < l THEN 0
                              ELSE IF m = l THEN point[l] + 1 ELSE point[m]]
  /\ addresses' = Addresses(shape, point')
  /\ UNCHANGED <<shape, exhausted>>

StopIteration ==
  /\ \A l \in Loop : AtEnd(l)
  /\ exhausted' = TRUE
  /\ UNCHANGED <<shape, point, addresses>>

NestNext == (\E l \in Loop : Iterate(l)) \/ StopIteration

NestSpec == NestInit /\ [][NestNext]_nestVars

=============================================================================
