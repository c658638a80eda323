----------------------------- MODULE UloopProofs -----------------------------
(***************************************************************************)
(* For convolutions of every shape: the loop processor of uloop-example    *)
(* shows the addresses of the loop nest at every point, shows every point, *)
(* and implements the nest; and the hardware reads its micro-code back.    *)
(***************************************************************************)
EXTENDS Uloop, TLAPS

-----------------------------------------------------------------------------
(* The micro-code.                                                         *)

(* Where the operations of each loop are.                                  *)
LEMMA LoopAddresses ==
  /\ UloopAddr[0] = 0 /\ UloopAddr[1] = 2 /\ UloopAddr[2] = 4
  /\ UloopAddr[3] = 6 /\ UloopAddr[4] = 9 /\ UloopAddr[5] = 13
<1> DEFINE rule(g) == [l \in Loop |-> IF l = 0 THEN 0 ELSE g[l - 1] + NbOps[l - 1]]
           table == [l \in Loop |-> IF l = 0 THEN 0 ELSE IF l = 1 THEN 2
                       ELSE IF l = 2 THEN 4 ELSE IF l = 3 THEN 6
                       ELSE IF l = 4 THEN 9 ELSE 13]
<1>1. table = rule(table)
  BY DEF Loop, NbOps
<1>2. UloopAddr = rule(UloopAddr)
  <2>1. UloopAddr = CHOOSE g : g = rule(g)
    BY DEF UloopAddr
  <2> HIDE DEF rule, table
  <2>2. QED
    BY <1>1, <2>1
<1>3. \A l \in Loop : UloopAddr[l] = IF l = 0 THEN 0
                                     ELSE UloopAddr[l - 1] + NbOps[l - 1]
  BY <1>2
<1>4. UloopAddr[0] = 0
  BY <1>3 DEF Loop
<1>5. UloopAddr[1] = 2
  BY <1>3, <1>4 DEF Loop, NbOps
<1>6. UloopAddr[2] = 4
  BY <1>3, <1>5 DEF Loop, NbOps
<1>7. UloopAddr[3] = 6
  BY <1>3, <1>6 DEF Loop, NbOps
<1>8. UloopAddr[4] = 9
  BY <1>3, <1>7 DEF Loop, NbOps
<1>9. UloopAddr[5] = 13
  BY <1>3, <1>8 DEF Loop, NbOps
<1>10. QED
  BY <1>4, <1>5, <1>6, <1>7, <1>8, <1>9

-----------------------------------------------------------------------------
(* The shape.                                                              *)

(* The channels are a whole number of tiles.                               *)
LEMMA ChannelTiles ==
  ASSUME NEW n \in Channels
  PROVE  /\ n \div TP \in Nat \ {0}
         /\ n = TP * (n \div TP)
<1> USE NestAssumption
<1>1. PICK k \in 1 .. MAX_TILES : n = TP * k
  BY DEF Channels
<1>2. (TP * k) \div TP = k
  OBVIOUS
<1>3. QED
  BY <1>1, <1>2

(* How often the loops run, and the channels that they cover.              *)
LEMMA ShapeFacts ==
  ASSUME NEW s \in Shape
  PROVE  /\ \A l \in Loop : Times(s)[l] \in Nat \ {0}
         /\ s.nif = TP * Times(s)[0] /\ s.fs = Times(s)[1]
         /\ s.fs = Times(s)[2] /\ s.nof = TP * Times(s)[3]
         /\ s.ow = Times(s)[4] /\ s.oh = Times(s)[5]
<1>1. /\ s.oh \in Nat \ {0} /\ s.ow \in Nat \ {0} /\ s.fs \in Nat \ {0}
      /\ s.nif \in Channels /\ s.nof \in Channels
  BY NestAssumption DEF Shape
<1>2. QED
  BY <1>1, ChannelTiles DEF Times, Loop

-----------------------------------------------------------------------------
(* What holds at every step.                                               *)

(* What the micro-code calls x_major: the first input of the row of        *)
(* filters at an output point.                                             *)
XMajor(s, p) == p[5] * s.nif * (s.ow + s.fs - 1) + p[4] * s.nif

(* How x_major changes when loop l goes on.                                *)
MajorStep(s, l) == IF l <= 3 THEN 0 ELSE IF l = 4 THEN s.nif ELSE s.nif * s.fs

(* The processor and the generator are at the same point, which is one of  *)
(* the nest; the loops within the current one have come to their end; an   *)
(* operation is under way only in a loop that goes on.                     *)
SamePoint ==
  /\ exhausted = end
  /\ addresses = Addresses(shape, point)
  /\ printed = addresses
  /\ \A l \in Loop : point[l] < Times(shape)[l]
  /\ IF end THEN /\ loop = 0 /\ op = 0
                 /\ idx = [l \in Loop |-> 0]
                 /\ \A l \in Loop : AtEnd(l)
     ELSE /\ point = idx
          /\ op > 0 => MoreToDo
          /\ \A m \in Loop : m < loop => AtEnd(m)

(* The registers hold the addresses of the point, but for what the         *)
(* operations done so far of the current loop have changed.                *)
RegistersFollow ==
  /\ registers[0] = IF op = 0 THEN addresses.W
                    ELSE IF loop <= 3 THEN addresses.W + TP ELSE 0
  /\ registers[1] = addresses.x
  /\ registers[2] = IF loop >= 3 /\ op >= 2 THEN addresses.y + TP
                    ELSE addresses.y
  /\ registers[3] = IF op < 3 THEN XMajor(shape, point)
                    ELSE XMajor(shape, point) + MajorStep(shape, loop)
  /\ \A r \in 4 .. 25 : registers[r] = InitialRegisters(shape)[r]

(* A loop of t turns, at turn p, around k others.                          *)
Turns(t, p, k) == p + t * k

(* The number of points before p: of the outermost loops down to loop 0.   *)
Number5(p) == p[5]
Number4(s, p) == Turns(Times(s)[4], p[4], Number5(p))
Number3(s, p) == Turns(Times(s)[3], p[3], Number4(s, p))
Number2(s, p) == Turns(Times(s)[2], p[2], Number3(s, p))
Number1(s, p) == Turns(Times(s)[1], p[1], Number2(s, p))
Number(s, p)  == Turns(Times(s)[0], p[0], Number1(s, p))

(* One address is compared per step, and the last one twice.               *)
PointsShown == nb_iter = Number(shape, point) + (IF end THEN 1 ELSE 0)

(* The inductive invariant.                                                *)
UInv ==
  /\ TypeOK
  /\ SamePoint
  /\ RegistersFollow
  /\ PointsShown
  /\ NoErrors

-----------------------------------------------------------------------------
(* From one point of the nest to the next one.                             *)

(* Loop l goes on, and those within it start over.                         *)
Carry(p, l) == [m \in Loop |-> IF m < l THEN 0
                               ELSE IF m = l THEN p[l] + 1 ELSE p[m]]

(* The addresses as sums of products, and how these grow when a loop goes  *)
(* on and those within it start over: n and o channels of input and output *)
(* in a and b tiles of t, filters of f by f, rows of w outputs.            *)
WSum(n, f, t, p3, p2, p1, p0) == p3 * n * f * f + p2 * n * f + p1 * n + p0 * t
XSum(n, f, w, t, p5, p4, p2, p1, p0) ==
  (p5 + p2) * n * (w + f - 1) + (p4 + p1) * n + p0 * t
YSum(o, w, t, p5, p4, p3) == p5 * o * w + p4 * o + p3 * t
MSum(n, f, w, p5, p4) == p5 * n * (w + f - 1) + p4 * n

(* The last of the tiles of t channels that make up n.                     *)
LastTile(n, t, p) == n = t * (p + 1)

(* From the last input under a row of a filter to the next row.            *)
NextRow(n, w, t) == t + n * (w - 1)

(* The weights of a filter end where those of the next one begin.          *)
LEMMA GrowW ==
  ASSUME NEW n, NEW f, NEW t, NEW p0, NEW p1, NEW p2, NEW p3,
         n \in Int, f \in Int, t \in Int,
         p0 \in Int, p1 \in Int, p2 \in Int, p3 \in Int
  PROVE  LET now == WSum(n, f, t, p3, p2, p1, p0)
             Tiles == LastTile(n, t, p0)
         IN  /\ WSum(n, f, t, p3, p2, p1, p0 + 1) = now + t
             /\ Tiles => WSum(n, f, t, p3, p2, p1 + 1, 0) = now + t
             /\ Tiles /\ f = p1 + 1 => WSum(n, f, t, p3, p2 + 1, 0, 0) = now + t
             /\ Tiles /\ f = p1 + 1 /\ f = p2 + 1
                  => WSum(n, f, t, p3 + 1, 0, 0, 0) = now + t
  BY DEF WSum, LastTile

(* Likewise the inputs under a filter, row by row.                         *)
LEMMA GrowX ==
  ASSUME NEW n, NEW f, NEW w, NEW t, NEW p0, NEW p1, NEW p2, NEW p4, NEW p5,
         n \in Int, f \in Int, w \in Int, t \in Int,
         p0 \in Int, p1 \in Int, p2 \in Int, p4 \in Int, p5 \in Int
  PROVE  LET now == XSum(n, f, w, t, p5, p4, p2, p1, p0)
             Tiles == LastTile(n, t, p0)
         IN  /\ XSum(n, f, w, t, p5, p4, p2, p1, p0 + 1) = now + t
             /\ Tiles => XSum(n, f, w, t, p5, p4, p2, p1 + 1, 0) = now + t
             /\ Tiles /\ f = p1 + 1 => XSum(n, f, w, t, p5, p4, p2 + 1, 0, 0)
                                         = now + NextRow(n, w, t)
  BY DEF XSum, LastTile, NextRow

(* The outputs of a point, and the points of a row.                        *)
LEMMA GrowY ==
  ASSUME NEW o, NEW w, NEW t, NEW p3, NEW p4, NEW p5,
         o \in Int, w \in Int, t \in Int, p3 \in Int, p4 \in Int, p5 \in Int
  PROVE  LET now == YSum(o, w, t, p5, p4, p3)
             Tiles == LastTile(o, t, p3)
         IN  /\ YSum(o, w, t, p5, p4, p3 + 1) = now + t
             /\ Tiles => YSum(o, w, t, p5, p4 + 1, 0) = now + t
             /\ Tiles /\ w = p4 + 1 => YSum(o, w, t, p5 + 1, 0, 0) = now + t
  BY DEF YSum, LastTile

(* x_major goes from one output point to the next one.                     *)
LEMMA GrowMajor ==
  ASSUME NEW n, NEW f, NEW w, NEW p4, NEW p5,
         n \in Int, f \in Int, w \in Int, p4 \in Int, p5 \in Int
  PROVE  LET now == MSum(n, f, w, p5, p4)
         IN  /\ now \in Int
             /\ MSum(n, f, w, p5, p4 + 1) = now + n
             /\ w = p4 + 1 => MSum(n, f, w, p5 + 1, 0) = now + n * f
  BY DEF MSum

(* The count carries over from a loop that starts over to the next one.    *)
LEMMA CarryCount ==
  ASSUME NEW t, NEW p, NEW k,
         t \in Int, p \in Int, k \in Int
  PROVE  /\ Turns(t, p, k) \in Int
         /\ Turns(t, p + 1, k) = Turns(t, p, k) + 1
         /\ t = p + 1 => Turns(t, 0, k + 1) = Turns(t, p, k) + 1
  BY DEF Turns

(* A point of the nest and the one after it, of which the loops up to l    *)
(* have changed.                                                           *)
At(p, l) == /\ p \in [Loop -> Nat]
            /\ \A m \in Loop : m < l => p[m] = Times(shape)[m] - 1

(* The loops that have come to their end.                                  *)
LEMMA AtEnds ==
  ASSUME shape \in Shape, NEW p, NEW l \in Loop, At(p, l),
         NEW m \in Loop, m < l
  PROVE  Times(shape)[m] = p[m] + 1
<1>1. Times(shape)[m] \in Int /\ p[m] = Times(shape)[m] - 1
  BY ShapeFacts DEF At
<1>2. QED
  BY <1>1

(* How the addresses change from a point to the next one.                  *)
LEMMA Growth ==
  ASSUME shape \in Shape, NEW p, NEW l \in Loop, At(p, l)
  PROVE  LET A == Addresses(shape, p)
             B == Addresses(shape, Carry(p, l))
             M == XMajor(shape, Carry(p, l))
         IN  /\ B.W = IF l <= 3 THEN A.W + TP ELSE 0
             /\ B.x = IF l <= 1 THEN A.x + TP
                      ELSE IF l = 2 THEN A.x + NextRow(shape.nif, shape.ow, TP)
                      ELSE M
             /\ B.y = IF l <= 2 THEN A.y ELSE A.y + TP
             /\ M = XMajor(shape, p) + MajorStep(shape, l)
<1> DEFINE n == shape.nif
           o == shape.nof
           f == shape.fs
           w == shape.ow
           T == Times(shape)
           q == Carry(p, l)
<1>1. /\ n = TP * T[0] /\ o = TP * T[3] /\ T[1] = f /\ T[2] = f /\ T[4] = w
      /\ \A m \in Loop : T[m] \in Nat
  BY ShapeFacts
<1>2. n \in Int /\ o \in Int /\ f \in Int /\ w \in Int /\ TP \in Int
  <2>1. TP \in Int
    BY NestAssumption
  <2> HIDE DEF n, o, f, w, T
  <2>2. T[0] \in Int /\ T[3] \in Int /\ T[1] \in Int /\ T[4] \in Int
    BY <1>1 DEF Loop
  <2>3. QED
    BY <1>1, <2>1, <2>2
<1>3. /\ p[0] \in Int /\ p[1] \in Int /\ p[2] \in Int /\ p[3] \in Int
      /\ p[4] \in Int /\ p[5] \in Int
  BY DEF At, Loop
<1>4. /\ l > 0 => T[0] = p[0] + 1
      /\ l > 1 => T[1] = p[1] + 1
      /\ l > 2 => T[2] = p[2] + 1
      /\ l > 3 => T[3] = p[3] + 1
      /\ l > 4 => T[4] = p[4] + 1
  BY AtEnds DEF Loop
<1>5. /\ q[0] = IF l = 0 THEN p[0] + 1 ELSE 0
      /\ q[1] = IF l < 1 THEN p[1] ELSE IF l = 1 THEN p[1] + 1 ELSE 0
      /\ q[2] = IF l < 2 THEN p[2] ELSE IF l = 2 THEN p[2] + 1 ELSE 0
      /\ q[3] = IF l < 3 THEN p[3] ELSE IF l = 3 THEN p[3] + 1 ELSE 0
      /\ q[4] = IF l < 4 THEN p[4] ELSE IF l = 4 THEN p[4] + 1 ELSE 0
      /\ q[5] = IF l < 5 THEN p[5] ELSE p[5] + 1
  BY DEF Carry, Loop
<1> DEFINE A == Addresses(shape, p)
           B == Addresses(shape, q)
           W(z) == WSum(n, f, TP, z[3], z[2], z[1], z[0])
           X(z) == XSum(n, f, w, TP, z[5], z[4], z[2], z[1], z[0])
           Y(z) == YSum(o, w, TP, z[5], z[4], z[3])
           M(z) == MSum(n, f, w, z[5], z[4])
<1>6. /\ A.W = W(p) /\ B.W = W(q) /\ A.x = X(p) /\ B.x = X(q)
      /\ A.y = Y(p) /\ B.y = Y(q)
      /\ XMajor(shape, p) = M(p) /\ XMajor(shape, q) = M(q)
  BY DEF Addresses, XMajor, WSum, XSum, YSum, MSum
<1> HIDE DEF n, o, f, w, T, q, A, B
<1>7. /\ l > 0 => LastTile(n, TP, p[0])
      /\ l > 1 => f = p[1] + 1
      /\ l > 2 => f = p[2] + 1
      /\ l > 3 => LastTile(o, TP, p[3])
      /\ l > 4 => w = p[4] + 1
  BY <1>1, <1>4 DEF LastTile
<1> HIDE DEF W, X, Y, M
<1>8. B.W = IF l <= 3 THEN A.W + TP ELSE 0
  <2>1. CASE l = 0
    <3>1. WSum(n, f, TP, p[3], p[2], p[1], p[0] + 1) = W(p) + TP
      BY <1>2, <1>3, GrowW DEF W
    <3>2. QED
      BY <1>5, <1>6, <2>1, <3>1 DEF W
  <2>2. CASE l = 1
    <3>1. WSum(n, f, TP, p[3], p[2], p[1] + 1, 0) = W(p) + TP
      BY <1>2, <1>3, <1>7, <2>2, GrowW DEF W
    <3>2. QED
      BY <1>5, <1>6, <2>2, <3>1 DEF W
  <2>3. CASE l = 2
    <3>1. WSum(n, f, TP, p[3], p[2] + 1, 0, 0) = W(p) + TP
      BY <1>2, <1>3, <1>7, <2>3, GrowW DEF W
    <3>2. QED
      BY <1>5, <1>6, <2>3, <3>1 DEF W
  <2>4. CASE l = 3
    <3>1. WSum(n, f, TP, p[3] + 1, 0, 0, 0) = W(p) + TP
      BY <1>2, <1>3, <1>7, <2>4, GrowW DEF W
    <3>2. QED
      BY <1>5, <1>6, <2>4, <3>1 DEF W
  <2>5. CASE l \in 4 .. 5
    <3>1. WSum(n, f, TP, 0, 0, 0, 0) = 0
      BY <1>2 DEF WSum
    <3>2. QED
      BY <1>5, <1>6, <2>5, <3>1 DEF W
  <2>6. QED
    BY <2>1, <2>2, <2>3, <2>4, <2>5 DEF Loop
<1>9. B.x = IF l <= 1 THEN A.x + TP
            ELSE IF l = 2 THEN A.x + NextRow(n, w, TP)
            ELSE M(q)
  <2>1. CASE l = 0
    <3>1. XSum(n, f, w, TP, p[5], p[4], p[2], p[1], p[0] + 1) = X(p) + TP
      BY <1>2, <1>3, GrowX DEF X
    <3>2. QED
      BY <1>5, <1>6, <2>1, <3>1 DEF X
  <2>2. CASE l = 1
    <3>1. XSum(n, f, w, TP, p[5], p[4], p[2], p[1] + 1, 0) = X(p) + TP
      BY <1>2, <1>3, <1>7, <2>2, GrowX DEF X
    <3>2. QED
      BY <1>5, <1>6, <2>2, <3>1 DEF X
  <2>3. CASE l = 2
    <3>1. XSum(n, f, w, TP, p[5], p[4], p[2] + 1, 0, 0)
            = X(p) + NextRow(n, w, TP)
      BY <1>2, <1>3, <1>7, <2>3, GrowX DEF X
    <3>2. QED
      BY <1>5, <1>6, <2>3, <3>1 DEF X
  <2>4. CASE l \in 3 .. 5
    <3>1. q[5] \in Int /\ q[4] \in Int /\ q[2] = 0 /\ q[1] = 0 /\ q[0] = 0
      BY <1>3, <1>5, <2>4
    <3>2. XSum(n, f, w, TP, q[5], q[4], 0, 0, 0) = M(q)
      BY <1>2, <3>1 DEF XSum, MSum, M
    <3>3. QED
      BY <1>6, <2>4, <3>1, <3>2 DEF X
  <2>5. QED
    BY <2>1, <2>2, <2>3, <2>4 DEF Loop
<1>10. B.y = IF l <= 2 THEN A.y ELSE A.y + TP
  <2>1. CASE l \in 0 .. 2
    BY <1>5, <1>6, <2>1 DEF Y
  <2>2. CASE l = 3
    <3>1. YSum(o, w, TP, p[5], p[4], p[3] + 1) = Y(p) + TP
      BY <1>2, <1>3, GrowY DEF Y
    <3>2. QED
      BY <1>5, <1>6, <2>2, <3>1 DEF Y
  <2>3. CASE l = 4
    <3>1. YSum(o, w, TP, p[5], p[4] + 1, 0) = Y(p) + TP
      BY <1>2, <1>3, <1>7, <2>3, GrowY DEF Y
    <3>2. QED
      BY <1>5, <1>6, <2>3, <3>1 DEF Y
  <2>4. CASE l = 5
    <3>1. YSum(o, w, TP, p[5] + 1, 0, 0) = Y(p) + TP
      BY <1>2, <1>3, <1>7, <2>4, GrowY DEF Y
    <3>2. QED
      BY <1>5, <1>6, <2>4, <3>1 DEF Y
  <2>5. QED
    BY <2>1, <2>2, <2>3, <2>4 DEF Loop
<1>11. M(q) = M(p) + (IF l <= 3 THEN 0 ELSE IF l = 4 THEN n ELSE n * f)
  <2>1. M(p) \in Int
    BY <1>2, <1>3, GrowMajor DEF M
  <2>2. CASE l \in 0 .. 3
    BY <1>5, <2>1, <2>2 DEF M
  <2>3. CASE l = 4
    <3>1. MSum(n, f, w, p[5], p[4] + 1) = M(p) + n
      BY <1>2, <1>3, GrowMajor DEF M
    <3>2. QED
      BY <1>5, <2>3, <3>1 DEF M
  <2>4. CASE l = 5
    <3>1. MSum(n, f, w, p[5] + 1, 0) = M(p) + n * f
      BY <1>2, <1>3, <1>7, <2>4, GrowMajor DEF M
    <3>2. QED
      BY <1>5, <2>4, <3>1 DEF M
  <2>5. QED
    BY <2>2, <2>3, <2>4 DEF Loop
<1>12. QED
  BY <1>6, <1>8, <1>9, <1>10, <1>11 DEF n, f, w, q, A, B, MajorStep

(* The next point is the next one in the count.                            *)
LEMMA Counting ==
  ASSUME shape \in Shape, NEW p, NEW l \in Loop, At(p, l)
  PROVE  /\ Number(shape, p) \in Int
         /\ Number(shape, Carry(p, l)) = Number(shape, p) + 1
<1> DEFINE T == Times(shape)
           q == Carry(p, l)
<1>1. /\ T[0] \in Int /\ T[1] \in Int /\ T[2] \in Int /\ T[3] \in Int
      /\ T[4] \in Int
  BY ShapeFacts DEF Loop
<1>2. /\ p[0] \in Int /\ p[1] \in Int /\ p[2] \in Int /\ p[3] \in Int
      /\ p[4] \in Int /\ p[5] \in Int
  BY DEF At, Loop
<1>3. /\ l > 0 => T[0] = p[0] + 1
      /\ l > 1 => T[1] = p[1] + 1
      /\ l > 2 => T[2] = p[2] + 1
      /\ l > 3 => T[3] = p[3] + 1
      /\ l > 4 => T[4] = p[4] + 1
  BY AtEnds DEF Loop
<1>4. \A m \in Loop : q[m] = IF m < l THEN 0
                             ELSE IF m = l THEN p[m] + 1 ELSE p[m]
  BY DEF Carry
<1> HIDE DEF q, T
<1>5. /\ Number5(p) \in Int
      /\ Number5(q) = IF l < 5 THEN Number5(p) ELSE Number5(p) + 1
  BY <1>2, <1>4 DEF Number5, Loop
<1>6. ASSUME NEW m \in Loop, NEW k, NEW k2, k \in Int,
             k2 = IF l <= m THEN k ELSE k + 1,
             T[m] \in Int, p[m] \in Int, m < l => T[m] = p[m] + 1
      PROVE  /\ Turns(T[m], p[m], k) \in Int
             /\ Turns(T[m], q[m], k2) = IF l < m THEN Turns(T[m], p[m], k)
                                        ELSE Turns(T[m], p[m], k) + 1
  <2>1. /\ Turns(T[m], p[m], k) \in Int
        /\ Turns(T[m], p[m] + 1, k) = Turns(T[m], p[m], k) + 1
        /\ T[m] = p[m] + 1 => Turns(T[m], 0, k + 1) = Turns(T[m], p[m], k) + 1
    BY <1>6, CarryCount
  <2>2. QED
    BY <1>4, <1>6, <2>1 DEF Loop
<1>7. /\ Number4(shape, p) \in Int
      /\ Number4(shape, q) = IF l < 4 THEN Number4(shape, p)
                             ELSE Number4(shape, p) + 1
  BY <1>1, <1>2, <1>3, <1>5, <1>6 DEF Number4, T, Loop
<1>8. /\ Number3(shape, p) \in Int
      /\ Number3(shape, q) = IF l < 3 THEN Number3(shape, p)
                             ELSE Number3(shape, p) + 1
  BY <1>1, <1>2, <1>3, <1>6, <1>7 DEF Number3, T, Loop
<1>9. /\ Number2(shape, p) \in Int
      /\ Number2(shape, q) = IF l < 2 THEN Number2(shape, p)
                             ELSE Number2(shape, p) + 1
  BY <1>1, <1>2, <1>3, <1>6, <1>8 DEF Number2, T, Loop
<1>10. /\ Number1(shape, p) \in Int
       /\ Number1(shape, q) = IF l < 1 THEN Number1(shape, p)
                              ELSE Number1(shape, p) + 1
  BY <1>1, <1>2, <1>3, <1>6, <1>9 DEF Number1, T, Loop
<1>11. QED
  BY <1>1, <1>2, <1>3, <1>6, <1>10 DEF Number, T, q, Loop

-----------------------------------------------------------------------------
(* What the operations do.                                                 *)

(* An operation: the sum of two registers, or one register.                *)
Sum2(a, b) == [op_sel |-> 1, a |-> a, b |-> b]
Move(a, b) == [op_sel |-> 0, a |-> a, b |-> b]

(* The operation at every address.                                         *)
LEMMA CodeAt ==
  /\ Code[1] = Sum2(0, 8) /\ Code[2] = Sum2(1, 8)
  /\ Code[3] = Sum2(0, 8) /\ Code[4] = Sum2(1, 8)
  /\ Code[5] = Sum2(0, 8) /\ Code[6] = Sum2(1, 11)
  /\ Code[7] = Sum2(0, 8) /\ Code[8] = Sum2(2, 10) /\ Code[9] = Move(1, 3)
  /\ Code[10] = Move(0, 14) /\ Code[11] = Sum2(2, 10)
  /\ Code[12] = Sum2(3, 4) /\ Code[13] = Move(1, 3)
  /\ Code[14] = Move(0, 14) /\ Code[15] = Sum2(2, 10)
  /\ Code[16] = Sum2(3, 12) /\ Code[17] = Move(1, 3)
BY DEF Code, Add, Mv, Mnemonic, Sum2, Move

(* The operation under way.                                                *)
LEMMA Fetch ==
  ASSUME loop \in Loop, op \in 0 .. NbOps[loop] - 1,
         addr = UloopAddr[loop] + op
  PROVE  Code[addr + 1] =
           IF op = 0 THEN IF loop <= 3 THEN Sum2(0, 8) ELSE Move(0, 14)
           ELSE IF op = 1 THEN IF loop <= 1 THEN Sum2(1, 8)
                               ELSE IF loop = 2 THEN Sum2(1, 11)
                               ELSE Sum2(2, 10)
           ELSE IF op = 2 THEN IF loop = 3 THEN Move(1, 3)
                               ELSE IF loop = 4 THEN Sum2(3, 4)
                               ELSE Sum2(3, 12)
           ELSE Move(1, 3)
<1>1. op \in 0 .. 3 /\ (loop < 3 => op < 2) /\ (loop = 3 => op < 3)
  BY DEF NbOps, Loop
<1>2. CASE loop = 0
  BY <1>1, <1>2, CodeAt, LoopAddresses
<1>3. CASE loop = 1
  BY <1>1, <1>3, CodeAt, LoopAddresses
<1>4. CASE loop = 2
  BY <1>1, <1>4, CodeAt, LoopAddresses
<1>5. CASE loop = 3
  BY <1>1, <1>5, CodeAt, LoopAddresses
<1>6. CASE loop = 4
  BY <1>1, <1>6, CodeAt, LoopAddresses
<1>7. CASE loop = 5
  BY <1>1, <1>7, CodeAt, LoopAddresses
<1>8. QED
  BY <1>2, <1>3, <1>4, <1>5, <1>6, <1>7 DEF Loop

(* Which register an operation changes, and how.                           *)
LEMMA Operate ==
  ASSUME NEW a, NEW b
  PROVE  /\ Code[addr + 1] = Sum2(a, b)
              => Execute(registers) =
                   [registers EXCEPT ![a] = registers[a] + registers[b]]
         /\ Code[addr + 1] = Move(a, b)
              => Execute(registers) = [registers EXCEPT ![a] = registers[b]]
<1> DEFINE c == Code[addr + 1]
<1>1. Execute(registers) =
        [registers EXCEPT ![c.a] = IF c.op_sel = 1
                                   THEN registers[c.a] + registers[c.b]
                                   ELSE registers[c.b]]
  BY DEF Execute
<1> HIDE DEF c
<1>2. ASSUME c = Sum2(a, b)
      PROVE  Execute(registers) = [registers EXCEPT ![a] = registers[a] + registers[b]]
  BY <1>1, <1>2 DEF Sum2
<1>3. ASSUME c = Move(a, b)
      PROVE  Execute(registers) = [registers EXCEPT ![a] = registers[b]]
  BY <1>1, <1>3 DEF Move
<1>4. QED
  BY <1>2, <1>3 DEF c

(* The registers that the operations only read.                            *)
LEMMA Constants ==
  ASSUME RegistersFollow
  PROVE  /\ registers[4] = shape.nif /\ registers[8] = TP
         /\ registers[10] = TP
         /\ registers[11] = NextRow(shape.nif, shape.ow, TP)
         /\ registers[12] = MajorStep(shape, 5)
         /\ registers[14] = 0
BY DEF RegistersFollow, InitialRegisters, Register, Mnemonic, NextRow, MajorStep

(* x_major is a number.                                                    *)
LEMMA MajorType ==
  ASSUME TypeOK
  PROVE  XMajor(shape, point) \in Int
<1>1. /\ shape.nif \in Int /\ shape.ow \in Int /\ shape.fs \in Int
      /\ point[5] \in Int /\ point[4] \in Int
  BY NestAssumption DEF TypeOK, NestTypeOK, Shape, Channels, Loop
<1>2. QED
  BY <1>1 DEF XMajor

(* The registers after an operation, of which the four that change are the *)
(* weights' address, the input's, the output's and x_major.                *)
LEMMA Executed ==
  ASSUME TypeOK, RegistersFollow
  PROVE  LET R == Execute(registers)
         IN  /\ R \in [Register -> Nat]
             /\ \A r \in 4 .. 25 : R[r] = InitialRegisters(shape)[r]
             /\ R[0] = IF loop <= 3 THEN addresses.W + TP ELSE 0
             /\ R[1] = IF op = NbOps[loop] - 1
                       THEN IF loop <= 1 THEN addresses.x + TP
                            ELSE IF loop = 2
                                 THEN addresses.x
                                        + NextRow(shape.nif, shape.ow, TP)
                            ELSE registers[3]
                       ELSE addresses.x
             /\ R[2] = IF loop >= 3 /\ op >= 1 THEN addresses.y + TP
                       ELSE addresses.y
             /\ R[3] = XMajor(shape, point)
                         + (IF op < 2 THEN 0 ELSE MajorStep(shape, loop))
<1> DEFINE R == Execute(registers)
           c == Code[addr + 1]
<1>1. /\ registers \in [Register -> Nat] /\ loop \in Loop
      /\ op \in 0 .. NbOps[loop] - 1 /\ addr = UloopAddr[loop] + op
      /\ addresses \in [W : Nat, x : Nat, y : Nat]
  BY DEF TypeOK, NestTypeOK
<1>2. /\ op \in 0 .. 3 /\ (loop < 3 => op < 2) /\ (loop = 3 => op < 3)
      /\ NbOps[loop] = IF loop < 3 THEN 2 ELSE IF loop = 3 THEN 3 ELSE 4
  BY <1>1 DEF NbOps, Loop
<1>3. c = IF op = 0 THEN IF loop <= 3 THEN Sum2(0, 8) ELSE Move(0, 14)
          ELSE IF op = 1 THEN IF loop <= 1 THEN Sum2(1, 8)
                              ELSE IF loop = 2 THEN Sum2(1, 11)
                              ELSE Sum2(2, 10)
          ELSE IF op = 2 THEN IF loop = 3 THEN Move(1, 3)
                              ELSE IF loop = 4 THEN Sum2(3, 4)
                              ELSE Sum2(3, 12)
          ELSE Move(1, 3)
  BY <1>1, Fetch
<1>4. ASSUME NEW a, NEW b
      PROVE  /\ c = Sum2(a, b) => R = [registers EXCEPT ![a] = registers[a]
                                                               + registers[b]]
             /\ c = Move(a, b) => R = [registers EXCEPT ![a] = registers[b]]
  BY Operate
<1> HIDE DEF R, c
<1>5. /\ registers[4] = MajorStep(shape, 4) /\ registers[8] = TP
      /\ registers[10] = TP
      /\ registers[11] = NextRow(shape.nif, shape.ow, TP)
      /\ registers[12] = MajorStep(shape, 5)
      /\ registers[14] = 0
      /\ loop <= 3 => MajorStep(shape, loop) = 0
  BY Constants DEF MajorStep
<1>6. XMajor(shape, point) \in Int
  BY MajorType
<1>7. /\ registers[0] \in Nat /\ registers[1] \in Nat /\ registers[2] \in Nat
      /\ registers[3] \in Nat /\ registers[4] \in Nat /\ registers[8] \in Nat
      /\ registers[10] \in Nat /\ registers[11] \in Nat
      /\ registers[12] \in Nat /\ registers[14] \in Nat
  BY <1>1 DEF Register
<1>8. /\ registers[0] = IF op = 0 THEN addresses.W
                        ELSE IF loop <= 3 THEN addresses.W + TP ELSE 0
      /\ registers[1] = addresses.x
      /\ registers[2] = IF loop >= 3 /\ op >= 2 THEN addresses.y + TP
                        ELSE addresses.y
      /\ registers[3] = IF op < 3 THEN XMajor(shape, point)
                        ELSE XMajor(shape, point) + MajorStep(shape, loop)
  BY DEF RegistersFollow
<1>9. CASE op = 0
  <2> DEFINE v == IF loop <= 3 THEN registers[0] + registers[8] ELSE registers[14]
  <2>1. v \in Nat /\ R = [registers EXCEPT ![0] = v]
    BY <1>3, <1>4, <1>7, <1>9
  <2>2. v = IF loop <= 3 THEN addresses.W + TP ELSE 0
    BY <1>5, <1>9 DEF RegistersFollow
  <2> HIDE DEF v
  <2>3. /\ R \in [Register -> Nat]
        /\ \A r \in 4 .. 25 : R[r] = InitialRegisters(shape)[r]
        /\ R[0] = v
        /\ R[1] = registers[1]
        /\ R[2] = registers[2]
        /\ R[3] = registers[3]
    BY <1>1, <2>1 DEF Register, RegistersFollow
  <2>4. QED
    BY <1>1, <1>2, <1>5, <1>6, <1>8, <1>9, <2>2, <2>3 DEF Loop, R
<1>10. CASE op = 1 /\ loop <= 2
  <2> DEFINE v == registers[1] + IF loop <= 1 THEN registers[8] ELSE registers[11]
  <2>1. v \in Nat /\ R = [registers EXCEPT ![1] = v]
    <3>1. CASE loop <= 1
      BY <1>3, <1>4, <1>7, <1>10, <3>1
    <3>2. CASE loop = 2
      BY <1>3, <1>4, <1>7, <1>10, <3>2
    <3>3. QED
      BY <1>1, <1>10, <3>1, <3>2 DEF Loop
  <2>2. v = addresses.x + IF loop <= 1 THEN TP ELSE NextRow(shape.nif, shape.ow, TP)
    BY <1>5, <1>10 DEF RegistersFollow
  <2> HIDE DEF v
  <2>3. /\ R \in [Register -> Nat]
        /\ \A r \in 4 .. 25 : R[r] = InitialRegisters(shape)[r]
        /\ R[0] = registers[0]
        /\ R[1] = v
        /\ R[2] = registers[2]
        /\ R[3] = registers[3]
    BY <1>1, <2>1 DEF Register, RegistersFollow
  <2>4. QED
    BY <1>1, <1>2, <1>5, <1>6, <1>8, <1>10, <2>2, <2>3 DEF Loop, R
<1>11. CASE op = 1 /\ loop > 2
  <2> DEFINE v == registers[2] + registers[10]
  <2>1. v \in Nat /\ R = [registers EXCEPT ![2] = v]
    BY <1>1, <1>3, <1>4, <1>7, <1>11 DEF Loop
  <2>2. v = addresses.y + TP
    BY <1>5, <1>11 DEF RegistersFollow
  <2> HIDE DEF v
  <2>3. /\ R \in [Register -> Nat]
        /\ \A r \in 4 .. 25 : R[r] = InitialRegisters(shape)[r]
        /\ R[0] = registers[0]
        /\ R[1] = registers[1]
        /\ R[2] = v
        /\ R[3] = registers[3]
    BY <1>1, <2>1 DEF Register, RegistersFollow
  <2>4. QED
    BY <1>1, <1>2, <1>5, <1>6, <1>8, <1>11, <2>2, <2>3 DEF Loop, R
<1>12. CASE (op = 2 /\ loop = 3) \/ op = 3
  <2>1. R = [registers EXCEPT ![1] = registers[3]]
    BY <1>3, <1>4, <1>12
  <2>2. /\ R \in [Register -> Nat]
        /\ \A r \in 4 .. 25 : R[r] = InitialRegisters(shape)[r]
        /\ R[0] = registers[0]
        /\ R[1] = registers[3]
        /\ R[2] = registers[2]
        /\ R[3] = registers[3]
    BY <1>1, <1>7, <2>1 DEF Register, RegistersFollow
  <2>3. QED
    BY <1>1, <1>2, <1>5, <1>6, <1>8, <1>12, <2>2 DEF Loop, R
<1>13. CASE op = 2 /\ loop > 3
  <2> DEFINE v == registers[3] + IF loop = 4 THEN registers[4] ELSE registers[12]
  <2>1. v \in Nat /\ R = [registers EXCEPT ![3] = v]
    <3>1. CASE loop = 4
      BY <1>3, <1>4, <1>7, <1>13, <3>1
    <3>2. CASE loop = 5
      BY <1>3, <1>4, <1>7, <1>13, <3>2
    <3>3. QED
      BY <1>1, <1>13, <3>1, <3>2 DEF Loop
  <2>2. v = XMajor(shape, point) + MajorStep(shape, loop)
    BY <1>1, <1>5, <1>13 DEF RegistersFollow, Loop
  <2> HIDE DEF v
  <2>3. /\ R \in [Register -> Nat]
        /\ \A r \in 4 .. 25 : R[r] = InitialRegisters(shape)[r]
        /\ R[0] = registers[0]
        /\ R[1] = registers[1]
        /\ R[2] = registers[2]
        /\ R[3] = v
    BY <1>1, <2>1 DEF Register, RegistersFollow
  <2>4. QED
    BY <1>1, <1>2, <1>5, <1>6, <1>8, <1>13, <2>2, <2>3 DEF Loop, R
<1>14. QED
  BY <1>1, <1>2, <1>9, <1>10, <1>11, <1>12, <1>13 DEF Loop, R

-----------------------------------------------------------------------------
(* The first state.                                                        *)

(* Products of counts are counts.                                          *)
LEMMA Product ==
  ASSUME NEW a, NEW b, a \in Nat, b \in Nat
  PROVE  a * b \in Nat
OBVIOUS

(* At the first point all addresses are 0, and so is the count.            *)
LEMMA FirstPoint ==
  ASSUME NEW s \in Shape, NEW p, \A l \in Loop : p[l] = 0
  PROVE  /\ Addresses(s, p) = [W |-> 0, x |-> 0, y |-> 0]
         /\ XMajor(s, p) = 0
         /\ Number(s, p) = 0
<1>1. /\ s.nif \in Int /\ s.nof \in Int /\ s.ow \in Int /\ s.fs \in Int
      /\ TP \in Int
  BY NestAssumption DEF Shape, Channels
<1>2. /\ p[0] = 0 /\ p[1] = 0 /\ p[2] = 0 /\ p[3] = 0 /\ p[4] = 0 /\ p[5] = 0
  BY DEF Loop
<1>3. Addresses(s, p) = [W |-> 0, x |-> 0, y |-> 0]
  BY <1>1, <1>2 DEF Addresses
<1>4. XMajor(s, p) = 0
  BY <1>1, <1>2 DEF XMajor
<1>5. \A l \in Loop : Times(s)[l] \in Int
  BY ShapeFacts
<1>6. Number(s, p) = 0
  <2>1. Number5(p) = 0
    BY <1>2 DEF Number5
  <2>2. Number4(s, p) = 0
    BY <1>2, <1>5, <2>1 DEF Number4, Turns, Loop
  <2>3. Number3(s, p) = 0
    BY <1>2, <1>5, <2>2 DEF Number3, Turns, Loop
  <2>4. Number2(s, p) = 0
    BY <1>2, <1>5, <2>3 DEF Number2, Turns, Loop
  <2>5. Number1(s, p) = 0
    BY <1>2, <1>5, <2>4 DEF Number1, Turns, Loop
  <2>6. QED
    BY <1>2, <1>5, <2>5 DEF Number, Turns, Loop
<1>7. QED
  BY <1>3, <1>4, <1>6

(* The registers at first are counts.                                      *)
LEMMA InitialType ==
  ASSUME NEW s \in Shape
  PROVE  InitialRegisters(s) \in [Register -> Nat]
<1>1. /\ s.nif \in Nat /\ s.nof \in Nat /\ s.ow \in Nat /\ s.fs \in Nat
      /\ s.ow >= 1 /\ s.fs >= 1 /\ TP \in Nat
  <2>1. \A c \in Channels : c \in Nat
    BY NestAssumption, Product DEF Channels
  <2>2. QED
    BY <2>1, NestAssumption DEF Shape
<1>2. /\ s.ow * s.nof \in Nat /\ (s.ow + s.fs - 1) * s.nif \in Nat
      /\ s.fs * s.fs * s.nif \in Nat /\ TP + s.nif * (s.ow - 1) \in Nat
      /\ s.nif * s.fs \in Nat /\ TP * TP \in Nat
  <2>1. s.ow - 1 \in Nat /\ s.ow + s.fs - 1 \in Nat
    BY <1>1
  <2>2. /\ s.ow * s.nof \in Nat /\ (s.ow + s.fs - 1) * s.nif \in Nat
        /\ s.fs * s.fs \in Nat /\ s.nif * (s.ow - 1) \in Nat
        /\ s.nif * s.fs \in Nat /\ TP * TP \in Nat
    BY <1>1, <2>1, Product
  <2>3. s.fs * s.fs * s.nif \in Nat
    BY <1>1, <2>2, Product
  <2>4. TP + s.nif * (s.ow - 1) \in Nat
    BY <1>1, <2>2
  <2>5. QED
    BY <2>2, <2>3, <2>4
<1>3. QED
  BY <1>1, <1>2 DEF InitialRegisters

(* The invariant holds at first.                                           *)
LEMMA InitUInv == Init => UInv
<1> SUFFICES ASSUME Init PROVE UInv
  OBVIOUS
<1>1. /\ shape \in Shape /\ point = [l \in Loop |-> 0] /\ point = idx
      /\ addresses = Addresses(shape, point) /\ exhausted = FALSE
      /\ addr = 0 /\ loop = 0 /\ op = 0
      /\ registers = InitialRegisters(shape) /\ printed = Shown(registers)
      /\ nb_iter = 0 /\ err = 0 /\ end = FALSE
  BY DEF Init, NestInit
<1>2. /\ addresses = [W |-> 0, x |-> 0, y |-> 0]
      /\ XMajor(shape, point) = 0
      /\ Number(shape, point) = 0
  BY <1>1, FirstPoint
<1>3. registers \in [Register -> Nat]
  BY <1>1, InitialType
<1>4. /\ registers[0] = 0 /\ registers[1] = 0 /\ registers[2] = 0
      /\ registers[3] = 0
  BY <1>1 DEF InitialRegisters, Register, Mnemonic
<1>5. printed = addresses
  BY <1>1, <1>2, <1>4 DEF Shown, Mnemonic
<1>6. TypeOK
  <2>1. NestTypeOK
    <3>1. point = [l \in Loop |-> 0]
      BY <1>1
    <3>2. point \in [Loop -> Nat]
      BY <3>1
    <3>3. exhausted \in BOOLEAN /\ shape \in Shape
      BY <1>1, Zenon
    <3>4. addresses \in [W : Nat, x : Nat, y : Nat]
      BY <1>2
    <3>5. QED
      BY <3>2, <3>3, <3>4 DEF NestTypeOK
  <2>2. 0 \in Loop /\ 0 \in 0 .. NbOps[0] - 1
    BY DEF Loop, NbOps
  <2>3. loop \in Loop /\ op \in 0 .. NbOps[loop] - 1 /\ addr = UloopAddr[loop] + op
    BY <1>1, <2>2, LoopAddresses
  <2>4. idx \in [Loop -> Nat] /\ printed \in [W : Nat, x : Nat, y : Nat]
    BY <1>1, <1>5, <2>1 DEF NestTypeOK
  <2>5. nb_iter \in Nat /\ err \in Nat /\ end \in BOOLEAN
    BY <1>1
  <2>6. QED
    BY <1>3, <2>1, <2>3, <2>4, <2>5 DEF TypeOK
<1>7. SamePoint
  <2>1. \A l \in Loop : point[l] = 0 /\ Times(shape)[l] \in Nat \ {0}
    BY <1>1, ShapeFacts
  <2>2. \A l \in Loop : point[l] < Times(shape)[l]
    BY <2>1
  <2>3. point = idx /\ ~(op > 0) /\ \A m \in Loop : ~(m < loop)
    BY <1>1 DEF Loop
  <2>4. QED
    BY <1>1, <1>5, <2>2, <2>3 DEF SamePoint
<1>8. RegistersFollow
  BY <1>1, <1>2, <1>4 DEF RegistersFollow
<1>9. PointsShown /\ NoErrors
  BY <1>1, <1>2 DEF PointsShown, NoErrors
<1>10. QED
  BY <1>6, <1>7, <1>8, <1>9 DEF UInv

-----------------------------------------------------------------------------
(* The steps of the processor.                                             *)

(* While it runs, the processor is at a point of the nest where the loops  *)
(* within the current one are done.                                        *)
LEMMA Running ==
  ASSUME UInv, ~end
  PROVE  /\ idx = point
         /\ At(point, loop)
         /\ MoreToDo <=> ~AtEnd(loop)
         /\ op = 0 \/ MoreToDo
<1>1. /\ shape \in Shape /\ point \in [Loop -> Nat] /\ loop \in Loop
      /\ op \in 0 .. NbOps[loop] - 1
  BY DEF UInv, TypeOK, NestTypeOK
<1>2. /\ point = idx /\ \A m \in Loop : m < loop => AtEnd(m)
      /\ \A m \in Loop : point[m] < Times(shape)[m]
      /\ op > 0 => MoreToDo
  BY DEF UInv, SamePoint
<1>3. Times(shape)[loop] \in Nat /\ point[loop] \in Nat
  BY <1>1, ShapeFacts
<1>4. MoreToDo <=> ~AtEnd(loop)
  BY <1>1, <1>2, <1>3 DEF MoreToDo, AtEnd
<1>5. At(point, loop)
  BY <1>1, <1>2 DEF At, AtEnd
<1>6. op = 0 \/ op > 0
  BY <1>1 DEF NbOps, Loop
<1>7. QED
  BY <1>2, <1>4, <1>5, <1>6

(* An operation that is not the last one of its loop.                      *)
LEMMA UpdateStep ==
  ASSUME UInv, ~end, Update
  PROVE  UInv'
<1>1. /\ MoreToDo /\ ~LastOp /\ addr' = addr + 1 /\ op' = op + 1
      /\ registers' = Execute(registers)
      /\ UNCHANGED <<loop, idx, nestVars, printed, nb_iter, err, end>>
  BY DEF Update, Busy
<1>2. UNCHANGED <<shape, point, addresses, exhausted>>
  BY <1>1 DEF nestVars
<1>3. /\ loop \in Loop /\ op \in 0 .. NbOps[loop] - 1 /\ op < NbOps[loop] - 1
      /\ NbOps[loop] = IF loop < 3 THEN 2 ELSE IF loop = 3 THEN 3 ELSE 4
  BY <1>1 DEF UInv, TypeOK, LastOp, NbOps, Loop
<1>4. LET R == Execute(registers)
      IN  /\ R \in [Register -> Nat]
          /\ \A r \in 4 .. 25 : R[r] = InitialRegisters(shape)[r]
          /\ R[0] = IF loop <= 3 THEN addresses.W + TP ELSE 0
          /\ R[1] = IF op = NbOps[loop] - 1
                    THEN IF loop <= 1 THEN addresses.x + TP
                         ELSE IF loop = 2
                              THEN addresses.x
                                     + NextRow(shape.nif, shape.ow, TP)
                         ELSE registers[3]
                    ELSE addresses.x
          /\ R[2] = IF loop >= 3 /\ op >= 1 THEN addresses.y + TP
                    ELSE addresses.y
          /\ R[3] = XMajor(shape, point)
                      + (IF op < 2 THEN 0 ELSE MajorStep(shape, loop))
  BY Executed DEF UInv
<1>5. TypeOK'
  <2>1. /\ op' \in 0 .. NbOps[loop'] - 1 /\ addr' = UloopAddr[loop'] + op'
    <3>1. UloopAddr[loop] \in Nat /\ addr = UloopAddr[loop] + op
      BY <1>3, LoopAddresses DEF Loop, UInv, TypeOK
    <3>2. QED
      BY <1>1, <1>3, <3>1
  <2>2. QED
    BY <1>1, <1>2, <1>4, <2>1 DEF UInv, TypeOK, NestTypeOK
<1>6. SamePoint'
  BY <1>1, <1>2 DEF UInv, SamePoint, MoreToDo, AtEnd
<1>7. RegistersFollow'
  <2>1. XMajor(shape, point)' = XMajor(shape, point)
    BY <1>2 DEF XMajor
  <2>2. InitialRegisters(shape)' = InitialRegisters(shape)
    BY <1>2
  <2>3. XMajor(shape, point) \in Int
    BY MajorType DEF UInv
  <2>4. QED
    BY <1>1, <1>2, <1>3, <1>4, <2>1, <2>2, <2>3 DEF RegistersFollow, Loop
<1>8. PointsShown' /\ NoErrors'
  BY <1>1, <1>2 DEF UInv, PointsShown, NoErrors
<1>9. QED
  BY <1>5, <1>6, <1>7, <1>8 DEF UInv

(* The next point of the nest, when the current loop goes on: the          *)
(* generator can do nothing else, and the registers hold its addresses.    *)
LEMMA NextPoint ==
  ASSUME UInv, ~end, MoreToDo, LastOp, registers' = Execute(registers), Show
  PROVE  /\ Iterate(loop)
         /\ shape' = shape /\ exhausted' = exhausted
         /\ point' = Carry(point, loop)
         /\ point' \in [Loop -> Nat]
         /\ \A l \in Loop : point'[l] < Times(shape)[l]
         /\ addresses' = Addresses(shape, point')
         /\ registers' \in [Register -> Nat]
         /\ Shown(registers') = addresses'
         /\ registers'[3] = XMajor(shape, point')
         /\ \A r \in 4 .. 25 : registers'[r] = InitialRegisters(shape)[r]
<1>1. /\ shape \in Shape /\ point \in [Loop -> Nat] /\ loop \in Loop
      /\ op = NbOps[loop] - 1
      /\ NbOps[loop] = IF loop < 3 THEN 2 ELSE IF loop = 3 THEN 3 ELSE 4
  BY DEF UInv, TypeOK, NestTypeOK, LastOp, NbOps, Loop
<1>2. At(point, loop) /\ ~AtEnd(loop) /\ \A m \in Loop : m < loop => AtEnd(m)
  BY Running DEF UInv, SamePoint
<1>3. Iterate(loop)
  <2>1. NestNext
    BY DEF Show
  <2>2. ~StopIteration
    BY <1>1, <1>2 DEF StopIteration
  <2>3. PICK l \in Loop : Iterate(l)
    BY <2>1, <2>2 DEF NestNext
  <2>4. ~AtEnd(l) /\ \A m \in 0 .. l - 1 : AtEnd(m)
    BY <2>3 DEF Iterate
  <2>5. l = loop
    BY <1>1, <1>2, <2>4 DEF Loop
  <2>6. QED
    BY <2>3, <2>5
<1>4. /\ shape' = shape /\ exhausted' = exhausted
      /\ point' = Carry(point, loop)
      /\ addresses' = Addresses(shape, point')
  <2>1. /\ point' = [m \in Loop |-> IF m < loop THEN 0
                                    ELSE IF m = loop THEN point[loop] + 1
                                    ELSE point[m]]
        /\ addresses' = Addresses(shape, point')
        /\ UNCHANGED <<shape, exhausted>>
    BY <1>3 DEF Iterate
  <2>2. QED
    BY <2>1 DEF Carry
<1>5. /\ point' \in [Loop -> Nat]
      /\ \A l \in Loop : point'[l] < Times(shape)[l]
  <2>1. \A l \in Loop : /\ point[l] < Times(shape)[l] /\ point[l] \in Nat
                        /\ Times(shape)[l] \in Nat \ {0}
    BY <1>1, ShapeFacts DEF UInv, SamePoint
  <2>2. point[loop] # Times(shape)[loop] - 1
    BY <1>2 DEF AtEnd
  <2>3. \A l \in Loop : /\ point'[l] \in Nat
                        /\ point'[l] < Times(shape)[l]
    BY <1>1, <1>4, <2>1, <2>2 DEF Carry
  <2>4. point' = [l \in Loop |-> point'[l]]
    BY <1>4 DEF Carry
  <2>5. QED
    BY <2>3, <2>4
<1>6. /\ registers' \in [Register -> Nat]
      /\ \A r \in 4 .. 25 : registers'[r] = InitialRegisters(shape)[r]
      /\ registers'[0] = IF loop <= 3 THEN addresses.W + TP ELSE 0
      /\ registers'[1] = IF loop <= 1 THEN addresses.x + TP
                         ELSE IF loop = 2
                              THEN addresses.x
                                     + NextRow(shape.nif, shape.ow, TP)
                         ELSE registers[3]
      /\ registers'[2] = IF loop >= 3 THEN addresses.y + TP ELSE addresses.y
      /\ registers'[3] = XMajor(shape, point) + MajorStep(shape, loop)
  <2>1. LET R == Execute(registers)
        IN  /\ R \in [Register -> Nat]
            /\ \A r \in 4 .. 25 : R[r] = InitialRegisters(shape)[r]
            /\ R[0] = IF loop <= 3 THEN addresses.W + TP ELSE 0
            /\ R[1] = IF op = NbOps[loop] - 1
                      THEN IF loop <= 1 THEN addresses.x + TP
                           ELSE IF loop = 2
                                THEN addresses.x
                                       + NextRow(shape.nif, shape.ow, TP)
                           ELSE registers[3]
                      ELSE addresses.x
            /\ R[2] = IF loop >= 3 /\ op >= 1 THEN addresses.y + TP
                      ELSE addresses.y
            /\ R[3] = XMajor(shape, point)
                        + (IF op < 2 THEN 0 ELSE MajorStep(shape, loop))
    BY Executed DEF UInv
  <2>2. op < 2 => MajorStep(shape, loop) = 0
    BY <1>1 DEF MajorStep, Loop
  <2>3. op >= 1
    BY <1>1
  <2>4. QED
    BY <1>1, <2>1, <2>2, <2>3
<1>7. loop >= 3 => registers[3] = XMajor(shape, point) + MajorStep(shape, loop)
  <2>1. XMajor(shape, point) \in Int
    BY MajorType DEF UInv
  <2>2. registers[3] = IF op < 3 THEN XMajor(shape, point)
                       ELSE XMajor(shape, point) + MajorStep(shape, loop)
    BY DEF UInv, RegistersFollow
  <2>3. loop = 3 => MajorStep(shape, loop) = 0
    BY DEF MajorStep
  <2>4. QED
    BY <1>1, <2>1, <2>2, <2>3 DEF Loop
<1>8. LET A == Addresses(shape, point)
          B == Addresses(shape, Carry(point, loop))
          M == XMajor(shape, Carry(point, loop))
      IN  /\ B.W = IF loop <= 3 THEN A.W + TP ELSE 0
          /\ B.x = IF loop <= 1 THEN A.x + TP
                   ELSE IF loop = 2
                        THEN A.x + NextRow(shape.nif, shape.ow, TP)
                   ELSE M
          /\ B.y = IF loop <= 2 THEN A.y ELSE A.y + TP
          /\ M = XMajor(shape, point) + MajorStep(shape, loop)
  BY <1>1, <1>2, Growth
<1>9. addresses = Addresses(shape, point)
  BY DEF UInv, SamePoint
<1>10. registers'[3] = XMajor(shape, point')
  BY <1>4, <1>6, <1>8
<1>11. Shown(registers') = addresses'
  <2>1. /\ registers'[0] = addresses'.W /\ registers'[1] = addresses'.x
        /\ registers'[2] = addresses'.y
    BY <1>1, <1>4, <1>6, <1>7, <1>8, <1>9 DEF Loop
  <2>2. addresses' = [W |-> addresses'.W, x |-> addresses'.x, y |-> addresses'.y]
    BY <1>4 DEF Addresses
  <2>3. QED
    BY <2>1, <2>2 DEF Shown, Mnemonic
<1>12. QED
  BY <1>3, <1>4, <1>5, <1>6, <1>10, <1>11

(* The current loop goes on, and the walk starts over at loop 0.           *)
LEMMA IterateStep ==
  ASSUME UInv, ~end, MoreToDo, LastOp, registers' = Execute(registers), Show,
         loop' = 0, op' = 0, addr' = 0, idx' = Carry(point, loop), end' = end
  PROVE  UInv'
<1>1. /\ shape' = shape /\ exhausted' = exhausted
      /\ point' = Carry(point, loop)
      /\ point' \in [Loop -> Nat]
      /\ \A l \in Loop : point'[l] < Times(shape)[l]
      /\ addresses' = Addresses(shape, point')
      /\ registers' \in [Register -> Nat]
      /\ Shown(registers') = addresses'
      /\ registers'[3] = XMajor(shape, point')
      /\ \A r \in 4 .. 25 : registers'[r] = InitialRegisters(shape)[r]
  BY NextPoint
<1>2. /\ printed' = Shown(registers')
      /\ nb_iter' = nb_iter + 1
      /\ err' = IF addresses' # Shown(registers') THEN err + 1 ELSE err
  BY DEF Show
<1>3. /\ addresses'.W = registers'[0] /\ addresses'.x = registers'[1]
      /\ addresses'.y = registers'[2]
  BY <1>1 DEF Shown, Mnemonic
<1>4. TypeOK'
  <2>1. Shown(registers') \in [W : Nat, x : Nat, y : Nat]
    BY <1>1 DEF Shown, Mnemonic, Register
  <2>2. NestTypeOK'
    BY <1>1, <2>1 DEF UInv, TypeOK, NestTypeOK
  <2>3. loop' \in Loop /\ op' \in 0 .. NbOps[loop'] - 1 /\ addr' = UloopAddr[loop'] + op'
    BY LoopAddresses DEF Loop, NbOps
  <2>4. nb_iter' \in Nat /\ err' \in Nat /\ end' \in BOOLEAN
    BY <1>1, <1>2 DEF UInv, TypeOK
  <2>5. QED
    BY <1>1, <1>2, <2>1, <2>2, <2>3, <2>4 DEF TypeOK
<1>5. SamePoint'
  <2>1. exhausted' = end' /\ ~end'
    BY <1>1 DEF UInv, SamePoint
  <2>2. /\ addresses' = Addresses(shape', point') /\ printed' = addresses'
        /\ \A l \in Loop : point'[l] < Times(shape')[l]
        /\ point' = idx'
    BY <1>1, <1>2
  <2>3. ~(op' > 0) /\ \A m \in Loop : ~(m < loop')
    BY DEF Loop
  <2>4. QED
    BY <2>1, <2>2, <2>3 DEF SamePoint
<1>6. RegistersFollow'
  <2>1. XMajor(shape, point)' = XMajor(shape, point')
    BY <1>1 DEF XMajor
  <2>2. QED
    BY <1>1, <1>3, <2>1 DEF RegistersFollow
<1>7. PointsShown' /\ NoErrors'
  <2>1. /\ Number(shape, point) \in Int
        /\ Number(shape, Carry(point, loop)) = Number(shape, point) + 1
    BY Running, Counting DEF UInv, TypeOK, NestTypeOK
  <2>2. nb_iter = Number(shape, point) + 0 /\ nb_iter \in Nat
    BY DEF UInv, PointsShown, TypeOK
  <2>3. Number(shape, point)' = Number(shape, Carry(point, loop))
    BY <1>1
  <2>4. Number(shape, point)' = nb_iter + 1
    BY <2>1, <2>2, <2>3
  <2>5. QED
    BY <1>1, <1>2, <2>2, <2>4 DEF UInv, PointsShown, NoErrors
<1>8. QED
  BY <1>4, <1>5, <1>6, <1>7 DEF UInv

(* The current loop is done, the next one takes over.                      *)
LEMMA GotoNextLoopStep ==
  ASSUME UInv, ~end, GotoNextLoop
  PROVE  UInv'
<1>1. /\ ~MoreToDo /\ loop < NB_LOOPS - 1 /\ loop' = loop + 1
      /\ addr' = UloopAddr[loop + 1] /\ op' = 0
      /\ UNCHANGED <<idx, registers, nestVars, printed, nb_iter, err, end>>
  BY DEF GotoNextLoop, Busy
<1>2. UNCHANGED <<shape, point, addresses, exhausted>>
  BY <1>1 DEF nestVars
<1>3. op = 0 /\ AtEnd(loop)
  BY <1>1, Running
<1>4. loop \in Loop /\ loop' \in Loop
  BY <1>1 DEF UInv, TypeOK, NB_LOOPS, Loop
<1>5. TypeOK'
  <2>1. op' \in 0 .. NbOps[loop'] - 1 /\ addr' = UloopAddr[loop'] + op'
    BY <1>1, <1>4, LoopAddresses DEF NbOps, Loop
  <2>2. QED
    BY <1>1, <1>2, <1>4, <2>1 DEF UInv, TypeOK, NestTypeOK
<1>6. SamePoint'
  <2>1. \A m \in Loop : m < loop' => AtEnd(m)'
    BY <1>1, <1>2, <1>3, <1>4 DEF UInv, SamePoint, AtEnd, Loop
  <2>2. QED
    BY <1>1, <1>2, <2>1 DEF UInv, SamePoint
<1>7. RegistersFollow'
  BY <1>1, <1>2, <1>3 DEF UInv, RegistersFollow, XMajor
<1>8. PointsShown' /\ NoErrors'
  BY <1>1, <1>2 DEF UInv, PointsShown, NoErrors
<1>9. QED
  BY <1>5, <1>6, <1>7, <1>8 DEF UInv

(* All loops are done: the generator stops, too, and the last point is     *)
(* compared once more.                                                     *)
LEMMA TerminateStep ==
  ASSUME UInv, ~end, Terminate
  PROVE  UInv'
<1>1. /\ ~MoreToDo /\ loop = 5 /\ end' = TRUE /\ loop' = 0 /\ addr' = 0
      /\ op' = 0 /\ idx' = [l \in Loop |-> 0] /\ registers' = registers
      /\ Show
  BY DEF Terminate, NB_LOOPS
<1>2. op = 0 /\ \A l \in Loop : AtEnd(l)
  BY <1>1, Running DEF UInv, SamePoint, Loop
<1>3. /\ exhausted' = TRUE
      /\ shape' = shape /\ point' = point /\ addresses' = addresses
  <2>1. NestNext /\ ~\E l \in Loop : Iterate(l)
    BY <1>1, <1>2 DEF Show, Iterate
  <2>2. StopIteration
    BY <2>1 DEF NestNext
  <2>3. QED
    BY <2>2 DEF StopIteration
<1>4. /\ registers[0] = addresses.W /\ registers[1] = addresses.x
      /\ registers[2] = addresses.y /\ registers[3] = XMajor(shape, point)
      /\ \A r \in 4 .. 25 : registers[r] = InitialRegisters(shape)[r]
  BY <1>2 DEF UInv, RegistersFollow
<1>5. Shown(registers) = addresses
  BY <1>4 DEF UInv, TypeOK, NestTypeOK, Shown, Mnemonic
<1>6. printed' = addresses' /\ nb_iter' = nb_iter + 1 /\ err' = err
  BY <1>1, <1>3, <1>5 DEF Show
<1>7. TypeOK'
  <2>1. loop' \in Loop /\ op' \in 0 .. NbOps[loop'] - 1 /\ addr' = UloopAddr[loop'] + op'
    BY <1>1, LoopAddresses DEF Loop, NbOps
  <2>2. NestTypeOK'
    <3>1. exhausted' \in BOOLEAN
      BY <1>3, Zenon
    <3>2. QED
      BY <1>3, <3>1 DEF UInv, TypeOK, NestTypeOK
  <2>3. idx' \in [Loop -> Nat]
    BY <1>1
  <2>4. end' \in BOOLEAN
    BY <1>1, Zenon
  <2>5. QED
    BY <1>1, <1>3, <1>6, <2>1, <2>2, <2>3, <2>4 DEF UInv, TypeOK, NestTypeOK
<1>8. SamePoint'
  <2>1. exhausted' = end' /\ end'
    BY <1>1, <1>3
  <2>2. /\ addresses' = Addresses(shape', point') /\ printed' = addresses'
        /\ \A l \in Loop : point'[l] < Times(shape')[l]
    BY <1>3, <1>6 DEF UInv, SamePoint
  <2>3. \A l \in Loop : AtEnd(l)'
    BY <1>2, <1>3 DEF AtEnd
  <2>4. QED
    BY <1>1, <2>1, <2>2, <2>3 DEF SamePoint
<1>9. RegistersFollow'
  BY <1>1, <1>3, <1>4 DEF RegistersFollow, XMajor
<1>10. PointsShown' /\ NoErrors'
  <2>1. Number(shape, point) \in Int
    BY Running, Counting DEF UInv, TypeOK, NestTypeOK
  <2>2. nb_iter = Number(shape, point)
    BY <2>1 DEF UInv, PointsShown
  <2>3. Number(shape, point)' = Number(shape, point)
    BY <1>3
  <2>4. nb_iter' = Number(shape, point)' + 1
    BY <1>6, <2>2, <2>3
  <2>5. PointsShown'
    BY <1>1, <2>4 DEF PointsShown
  <2>6. QED
    BY <1>6, <2>5 DEF UInv, NoErrors
<1>11. QED
  BY <1>7, <1>8, <1>9, <1>10 DEF UInv

(* Every step keeps the invariant.                                         *)
LEMMA StepUInv == UInv /\ [Next]_vars => UInv'
<1> SUFFICES ASSUME UInv, [Next]_vars PROVE UInv'
  OBVIOUS
<1>1. ASSUME ~end, Update PROVE UInv'
  BY <1>1, UpdateStep
<1>2. ASSUME ~end, IterateAndGotoLoop0 PROVE UInv'
  <2>1. idx = point /\ UloopAddr[0] = 0
    BY <1>2, Running, LoopAddresses
  <2>2. idx' = Carry(point, loop)
    BY <1>2, <2>1 DEF IterateAndGotoLoop0, Carry
  <2>3. /\ MoreToDo /\ LastOp /\ registers' = Execute(registers) /\ Show
        /\ loop' = 0 /\ op' = 0 /\ addr' = 0 /\ end' = end
    BY <1>2, <2>1 DEF IterateAndGotoLoop0
  <2>4. QED
    BY <1>2, <2>2, <2>3, IterateStep
<1>3. ASSUME ~end, IterateLoop0 PROVE UInv'
  <2>1. idx = point /\ UloopAddr[0] = 0 /\ point \in [Loop -> Nat]
    BY <1>3, Running, LoopAddresses DEF UInv, TypeOK, NestTypeOK
  <2>2. loop = 0 /\ loop' = 0 /\ idx' = [idx EXCEPT ![0] = @ + 1]
    BY <1>3 DEF IterateLoop0
  <2>3. idx' = Carry(point, loop)
    <3>1. Carry(point, loop) = [m \in Loop |-> IF m < 0 THEN 0
                                  ELSE IF m = 0 THEN point[0] + 1 ELSE point[m]]
      BY <2>2 DEF Carry
    <3>2. idx' = [m \in Loop |-> IF m = 0 THEN point[0] + 1 ELSE point[m]]
      BY <2>1, <2>2
    <3>3. \A m \in Loop : ~(m < 0)
      BY DEF Loop
    <3>4. QED
      BY <3>1, <3>2, <3>3
  <2>4. /\ MoreToDo /\ LastOp /\ registers' = Execute(registers) /\ Show
        /\ op' = 0 /\ addr' = 0 /\ end' = end
    BY <1>3, <2>1, <2>2 DEF IterateLoop0
  <2>5. QED
    BY <1>3, <2>2, <2>3, <2>4, IterateStep
<1>4. ASSUME ~end, GotoNextLoop PROVE UInv'
  BY <1>4, GotoNextLoopStep
<1>5. ASSUME ~end, Terminate PROVE UInv'
  BY <1>5, TerminateStep
<1>6. ASSUME UNCHANGED vars PROVE UInv'
  <2>1. UNCHANGED <<shape, point, addresses, exhausted, addr, loop, op, idx,
                    registers, printed, nb_iter, err, end>>
    BY <1>6 DEF vars, nestVars, ulVars
  <2>2. TypeOK'
    BY <2>1 DEF UInv, TypeOK, NestTypeOK
  <2>3. SamePoint'
    BY <2>1 DEF UInv, SamePoint, AtEnd, MoreToDo
  <2>4. RegistersFollow'
    BY <2>1 DEF UInv, RegistersFollow, XMajor
  <2>5. PointsShown' /\ NoErrors'
    BY <2>1 DEF UInv, PointsShown, NoErrors
  <2>6. QED
    BY <2>2, <2>3, <2>4, <2>5 DEF UInv
<1>7. QED
  BY <1>1, <1>2, <1>3, <1>4, <1>5, <1>6 DEF Next

(* The invariant holds throughout.                                         *)
THEOREM InvariantHolds == Spec => []UInv
  BY InitUInv, StepUInv, PTL DEF Spec

-----------------------------------------------------------------------------
(* The bytecode.                                                           *)

(* Bit i of a packed value, from the least significant one.                *)
Low(bits, i) == bits[Len(bits) - i]

(* Two packed values side by side: the m bits of the second one are the    *)
(* lower ones.                                                             *)
Joined(bits, s, n, t, m) ==
  /\ bits \in Seq(Int) /\ Len(bits) = n + m
  /\ \A i \in 0 .. m - 1 : Low(bits, i) = Low(t, i)
  /\ \A i \in 0 .. n - 1 : Low(bits, m + i) = Low(s, i)

(* They are joined.                                                        *)
LEMMA SideBySide ==
  ASSUME NEW s, s \in Seq(Int), NEW t, t \in Seq(Int)
  PROVE  Joined(s \o t, s, Len(s), t, Len(t))
<1> DEFINE n == Len(s)
           m == Len(t)
<1>1. s \o t \in Seq(Int) /\ Len(s \o t) = n + m
  OBVIOUS
<1>2. \A i \in 0 .. m - 1 : Low(s \o t, i) = Low(t, i)
  BY DEF Low
<1>3. \A i \in 0 .. n - 1 : Low(s \o t, m + i) = Low(s, i)
  BY DEF Low
<1> QED  BY <1>1, <1>2, <1>3 DEF Joined

(* A number of one bit.                                                    *)
LEMMA OneBit ==
  ASSUME NEW v \in 0 .. 1
  PROVE  /\ Uint(v, 1) \in Seq(Int) /\ Len(Uint(v, 1)) = 1
         /\ v = Low(Uint(v, 1), 0)
<1>1. Uint(v, 1) = [i \in 1 .. 1 |-> (v \div 2 ^ (1 - i)) % 2]
  BY DEF Uint
<1>2. 2 ^ 0 = 1 /\ 1 - 1 = 0
  OBVIOUS
<1>3. (v \div 1) % 2 = v
  OBVIOUS
<1>4. \A i \in 1 .. 1 : i = 1
  OBVIOUS
<1>5. Uint(v, 1) = [i \in 1 .. 1 |-> v]
  BY <1>1, <1>2, <1>3, <1>4
<1>6. [i \in 1 .. 1 |-> v] \in Seq(Int) /\ Len([i \in 1 .. 1 |-> v]) = 1
      /\ [i \in 1 .. 1 |-> v][1] = v
  OBVIOUS
<1> QED  BY <1>5, <1>6 DEF Low

(* Likewise five.                                                          *)
LEMMA FiveBits ==
  ASSUME NEW v \in 0 .. 31
  PROVE  /\ Uint(v, 5) \in Seq(Int) /\ Len(Uint(v, 5)) = 5
         /\ v = Low(Uint(v, 5), 0) + Low(Uint(v, 5), 1) * 2
                + Low(Uint(v, 5), 2) * 4 + Low(Uint(v, 5), 3) * 8
                + Low(Uint(v, 5), 4) * 16
<1>1. Uint(v, 5) = [i \in 1 .. 5 |-> (v \div 2 ^ (5 - i)) % 2]
  BY DEF Uint
<1>2. 2 ^ 0 = 1 /\ 2 ^ 1 = 2 /\ 2 ^ 2 = 4 /\ 2 ^ 3 = 8 /\ 2 ^ 4 = 16
  OBVIOUS
<1>3. /\ 5 - 1 = 4 /\ 5 - 2 = 3 /\ 5 - 3 = 2 /\ 5 - 4 = 1 /\ 5 - 5 = 0
  OBVIOUS
<1> DEFINE digit == [i \in 1 .. 5 |->
                       IF i = 1 THEN (v \div 16) % 2
                       ELSE IF i = 2 THEN (v \div 8) % 2
                       ELSE IF i = 3 THEN (v \div 4) % 2
                       ELSE IF i = 4 THEN (v \div 2) % 2 ELSE (v \div 1) % 2]
<1>4. ASSUME NEW i \in 1 .. 5
      PROVE  (v \div 2 ^ (5 - i)) % 2 = digit[i]
  <2>1. i = 1 \/ i = 2 \/ i = 3 \/ i = 4 \/ i = 5
    OBVIOUS
  <2> QED  BY <1>2, <1>3, <2>1
<1>5. Uint(v, 5) = digit
  <2>1. digit = [i \in 1 .. 5 |-> digit[i]]
    OBVIOUS
  <2> HIDE DEF digit
  <2> QED  BY <1>1, <1>4, <2>1
<1>6. digit \in Seq(Int) /\ Len(digit) = 5
  OBVIOUS
<1>7. v = digit[5] + digit[4] * 2 + digit[3] * 4 + digit[2] * 8 + digit[1] * 16
  OBVIOUS
<1> HIDE DEF digit
<1>8. /\ Low(digit, 0) = digit[5] /\ Low(digit, 1) = digit[4]
      /\ Low(digit, 2) = digit[3] /\ Low(digit, 3) = digit[2]
      /\ Low(digit, 4) = digit[1]
  BY <1>3, <1>6 DEF Low
<1> QED  BY <1>5, <1>6, <1>7, <1>8

(* The bits of an operation, and the operation that they stand for.        *)
OpBits(c) == Uint(c.op_sel, 1) \o Uint(c.a, 5) \o Uint(c.b, 5)

(* The numbers that are in them.                                           *)
LEMMA OpBitsType ==
  ASSUME NEW c, c.op_sel \in 0 .. 1, c.a \in 0 .. 31, c.b \in 0 .. 31
  PROVE  LET bits == OpBits(c)
         IN  /\ bits \in Seq(Int) /\ Len(bits) = 11
             /\ c.op_sel = Low(bits, 10)
             /\ c.a = Low(bits, 5) + Low(bits, 6) * 2 + Low(bits, 7) * 4
                      + Low(bits, 8) * 8 + Low(bits, 9) * 16
             /\ c.b = Low(bits, 0) + Low(bits, 1) * 2 + Low(bits, 2) * 4
                      + Low(bits, 3) * 8 + Low(bits, 4) * 16
<1> DEFINE u == Uint(c.op_sel, 1)
           a == Uint(c.a, 5)
           b == Uint(c.b, 5)
           ua == u \o a
<1>1. u \in Seq(Int) /\ Len(u) = 1 /\ c.op_sel = Low(u, 0)
  BY OneBit
<1>2. a \in Seq(Int) /\ Len(a) = 5
      /\ c.a = Low(a, 0) + Low(a, 1) * 2 + Low(a, 2) * 4 + Low(a, 3) * 8
               + Low(a, 4) * 16
  BY FiveBits
<1>3. b \in Seq(Int) /\ Len(b) = 5
      /\ c.b = Low(b, 0) + Low(b, 1) * 2 + Low(b, 2) * 4 + Low(b, 3) * 8
               + Low(b, 4) * 16
  BY FiveBits
<1>4. OpBits(c) = ua \o b
  BY DEF OpBits
<1> HIDE DEF u, a, b
<1>5. /\ ua \in Seq(Int) /\ Len(ua) = 6
      /\ Low(ua, 0) = Low(a, 0) /\ Low(ua, 1) = Low(a, 1)
      /\ Low(ua, 2) = Low(a, 2) /\ Low(ua, 3) = Low(a, 3)
      /\ Low(ua, 4) = Low(a, 4) /\ Low(ua, 5) = Low(u, 0)
  <2>1. Joined(ua, u, 1, a, 5)
    BY <1>1, <1>2, SideBySide
  <2> HIDE DEF ua
  <2>2. /\ ua \in Seq(Int) /\ Len(ua) = 1 + 5
        /\ \A i \in 0 .. 5 - 1 : Low(ua, i) = Low(a, i)
        /\ \A i \in 0 .. 1 - 1 : Low(ua, 5 + i) = Low(u, i)
    BY <2>1 DEF Joined
  <2>3. Low(ua, 5 + 0) = Low(u, 0)
    BY <2>2
  <2> QED  BY <2>2, <2>3
<1> HIDE DEF ua
<1> DEFINE bits == ua \o b
<1>6. Joined(bits, ua, 6, b, 5)
  BY <1>3, <1>5, SideBySide
<1>7. OpBits(c) = bits
  BY <1>4
<1> HIDE DEF bits
<1>8. /\ bits \in Seq(Int) /\ Len(bits) = 11
      /\ \A i \in 0 .. 4 : Low(bits, i) = Low(b, i)
      /\ \A i \in 0 .. 5 : Low(bits, 5 + i) = Low(ua, i)
  BY <1>6 DEF Joined
<1>9. /\ Low(bits, 0) = Low(b, 0) /\ Low(bits, 1) = Low(b, 1)
      /\ Low(bits, 2) = Low(b, 2) /\ Low(bits, 3) = Low(b, 3)
      /\ Low(bits, 4) = Low(b, 4)
      /\ Low(bits, 5 + 0) = Low(ua, 0) /\ Low(bits, 5 + 1) = Low(ua, 1)
      /\ Low(bits, 5 + 2) = Low(ua, 2) /\ Low(bits, 5 + 3) = Low(ua, 3)
      /\ Low(bits, 5 + 4) = Low(ua, 4) /\ Low(bits, 5 + 5) = Low(ua, 5)
  BY <1>8
<1> QED  BY <1>1, <1>2, <1>3, <1>5, <1>7, <1>8, <1>9

(* The first n operations of the micro-code are in the bits of the first n *)
(* operations.                                                             *)
Packed(n) ==
  /\ CodeBits[n] \in Seq(Int) /\ Len(CodeBits[n]) = 11 * n
  /\ \A k \in 0 .. n - 1, j \in 0 .. 10 :
       Low(CodeBits[n], 11 * k + j) = Low(OpBits(Code[k + 1]), j)

(* The micro-code has 17 operations, on registers below 32.                *)
LEMMA CodeType ==
  /\ Len(Code) = 17
  /\ \A n \in 1 .. 17 :
       Code[n].op_sel \in 0 .. 1 /\ Code[n].a \in 0 .. 31 /\ Code[n].b \in 0 .. 31
<1>1. Len(Code) = 17
  BY DEF Code
<1>2. ASSUME NEW n \in 1 .. 17
      PROVE  /\ Code[n].op_sel \in 0 .. 1
             /\ Code[n].a \in 0 .. 31 /\ Code[n].b \in 0 .. 31
  <2>1. \/ n = 1 \/ n = 2 \/ n = 3 \/ n = 4 \/ n = 5 \/ n = 6 \/ n = 7 \/ n = 8
        \/ n = 9 \/ n = 10 \/ n = 11 \/ n = 12 \/ n = 13 \/ n = 14 \/ n = 15
        \/ n = 16 \/ n = 17
    OBVIOUS
  <2>2. \E a, b \in 0 .. 31 : Code[n] = Sum2(a, b) \/ Code[n] = Move(a, b)
    BY <2>1, CodeAt
  <2> QED  BY <2>2 DEF Sum2, Move
<1> QED  BY <1>1, <1>2

(* The bits are put together operation by operation.                       *)
LEMMA CodeBitsStep ==
  ASSUME NEW n, n \in 1 .. 17, CodeBits[n] = OpBits(Code[n]) \o CodeBits[n - 1],
         Packed(n - 1)
  PROVE  Packed(n)
<1> DEFINE head == OpBits(Code[n])
           rest == CodeBits[n - 1]
<1>1. head \in Seq(Int) /\ Len(head) = 11
  BY CodeType, OpBitsType
<1>2. rest \in Seq(Int) /\ Len(rest) = 11 * (n - 1)
  BY DEF Packed
<1>3. \A k \in 0 .. n - 2, q \in 0 .. 10 :
        Low(rest, 11 * k + q) = Low(OpBits(Code[k + 1]), q)
  <2>1. (n - 1) - 1 = n - 2
    OBVIOUS
  <2>2. \A k \in 0 .. (n - 1) - 1, q \in 0 .. 10 :
          Low(rest, 11 * k + q) = Low(OpBits(Code[k + 1]), q)
    BY DEF Packed
  <2> HIDE DEF rest
  <2> QED  BY <2>1, <2>2, Zenon
<1>4. CodeBits[n] = head \o rest
  OBVIOUS
<1> HIDE DEF head, rest
<1> DEFINE bits == head \o rest
<1>5. Joined(bits, head, 11, rest, 11 * (n - 1))
  BY <1>1, <1>2, SideBySide
<1>6. CodeBits[n] = bits
  BY <1>4
<1> HIDE DEF bits
<1>7. /\ bits \in Seq(Int) /\ Len(bits) = 11 * n
      /\ \A i \in 0 .. 11 * (n - 1) - 1 : Low(bits, i) = Low(rest, i)
      /\ \A i \in 0 .. 10 : Low(bits, 11 * (n - 1) + i) = Low(head, i)
  BY <1>5 DEF Joined
<1>8. ASSUME NEW k \in 0 .. n - 1, NEW q \in 0 .. 10
      PROVE  Low(CodeBits[n], 11 * k + q) = Low(OpBits(Code[k + 1]), q)
  <2>1. CASE k = n - 1
    <3>1. Low(bits, 11 * (n - 1) + q) = Low(head, q)
      BY <1>7
    <3>2. k + 1 = n
      BY <2>1
    <3> QED  BY <1>6, <2>1, <3>1, <3>2 DEF head
  <2>2. CASE k < n - 1
    <3>1. k \in 0 .. n - 2 /\ 11 * k + q \in 0 .. 11 * (n - 1) - 1
      BY <2>2
    <3>2. Low(bits, 11 * k + q) = Low(rest, 11 * k + q)
      BY <1>7, <3>1
    <3>3. Low(rest, 11 * k + q) = Low(OpBits(Code[k + 1]), q)
      BY <1>3, <3>1
    <3> QED  BY <1>6, <3>2, <3>3
  <2> QED  BY <2>1, <2>2
<1> QED  BY <1>8, <1>6, <1>7 DEF Packed

(* A table of the bits of the first n operations.                          *)
Table(g, n) ==
  /\ g[0] = << >>
  /\ \A m \in 1 .. n : g[m] = OpBits(Code[m]) \o g[m - 1]

(* A table can be made longer.                                             *)
LEMMA LongerTable ==
  ASSUME NEW n, n \in 1 .. 17, \E g : Table(g, n - 1)
  PROVE  \E g : Table(g, n)
<1>1. PICK g : Table(g, n - 1)
  OBVIOUS
<1> DEFINE next == OpBits(Code[n]) \o g[n - 1]
           h == [m \in 0 .. 17 |-> IF m < n THEN g[m] ELSE next]
<1> HIDE DEF next
<1>2. h[0] = << >>
  BY <1>1 DEF Table
<1>3. ASSUME NEW m \in 1 .. n
      PROVE  h[m] = OpBits(Code[m]) \o h[m - 1]
  <2>0. m \in 0 .. 17 /\ m - 1 \in 0 .. 17 /\ m - 1 < n
    OBVIOUS
  <2>1. h[m - 1] = g[m - 1]
    BY <2>0
  <2>2. CASE m < n
    <3>1. h[m] = g[m]
      BY <2>0, <2>2
    <3>2. m \in 1 .. n - 1
      BY <2>2
    <3> HIDE DEF h
    <3> QED  BY <1>1, <2>1, <3>1, <3>2 DEF Table
  <2>3. CASE m = n
    <3>1. h[m] = next
      BY <2>0, <2>3
    <3> HIDE DEF h
    <3> QED  BY <2>1, <2>3, <3>1 DEF next
  <2>4. m < n \/ m = n
    OBVIOUS
  <2> HIDE DEF h
  <2> QED  BY <2>2, <2>3, <2>4
<1> HIDE DEF h
<1> QED  BY <1>2, <1>3 DEF Table

(* CodeBits is one.                                                        *)
LEMMA CodeBitsTable == Table(CodeBits, 17)
<1> DEFINE rule(g) == [n \in 0 .. 17 |-> IF n = 0 THEN << >>
                                         ELSE OpBits(Code[n]) \o g[n - 1]]
<1>1. CodeBits = CHOOSE g : g = rule(g)
  BY CodeType DEF CodeBits, OpBits
<1>2. \E g : Table(g, 17)
  <2> DEFINE E(n) == \E g : Table(g, n)
  <2>1. E(0)
    <3> DEFINE g == [m \in 0 .. 0 |-> << >>]
    <3>1. g[0] = << >>
      OBVIOUS
    <3>2. 1 .. 0 = {}
      OBVIOUS
    <3> HIDE DEF g
    <3>3. Table(g, 0)
      BY <3>1, <3>2 DEF Table
    <3> QED  BY <3>3
  <2>2. \A n \in 1 .. 17 : E(n - 1) => E(n)
    BY LongerTable
  <2> HIDE DEF E
  <2>3. E(1) /\ E(2) /\ E(3) /\ E(4)
    BY <2>1, <2>2
  <2>4. E(5) /\ E(6) /\ E(7) /\ E(8)
    BY <2>2, <2>3
  <2>5. E(9) /\ E(10) /\ E(11) /\ E(12)
    BY <2>2, <2>4
  <2>6. E(13) /\ E(14) /\ E(15) /\ E(16) /\ E(17)
    BY <2>2, <2>5
  <2> QED  BY <2>6 DEF E
<1>3. PICK g : Table(g, 17)
  BY <1>2
<1> DEFINE h == [n \in 0 .. 17 |-> g[n]]
<1>4. h = rule(h)
  <2>1. ASSUME NEW n \in 0 .. 17
        PROVE  g[n] = IF n = 0 THEN << >> ELSE OpBits(Code[n]) \o h[n - 1]
    <3>1. CASE n = 0
      BY <1>3, <3>1 DEF Table
    <3>2. CASE n # 0
      <4>1. n \in 1 .. 17 /\ n - 1 \in 0 .. 17
        BY <3>2
      <4>2. g[n] = OpBits(Code[n]) \o g[n - 1]
        BY <1>3, <4>1 DEF Table
      <4>3. h[n - 1] = g[n - 1]
        BY <4>1
      <4> QED  BY <3>2, <4>2, <4>3
    <3> QED  BY <3>1, <3>2
  <2> QED  BY <2>1, Zenon
<1>5. CodeBits = rule(CodeBits)
  <2> HIDE DEF rule, h
  <2> QED  BY <1>1, <1>4
<1>6. \A n \in 0 .. 17 : CodeBits[n] = IF n = 0 THEN << >>
                                   ELSE OpBits(Code[n]) \o CodeBits[n - 1]
  BY <1>5, Zenon
<1>7. CodeBits[0] = << >>
  <2>1. 0 \in 0 .. 17
    OBVIOUS
  <2> QED  BY <1>6, <2>1, Zenon
<1>8. ASSUME NEW n \in 1 .. 17
      PROVE  CodeBits[n] = OpBits(Code[n]) \o CodeBits[n - 1]
  <2>1. n \in 0 .. 17 /\ n # 0
    OBVIOUS
  <2> QED  BY <1>6, <2>1, Zenon
<1> QED  BY <1>7, <1>8 DEF Table

(* All operations are in the bits.                                         *)
LEMMA AllPacked == Packed(17)
<1>1. Packed(0)
  <2>1. << >> \in Seq(Int) /\ Len(<< >>) = 0
    OBVIOUS
  <2>2. 0 .. 0 - 1 = {} /\ 11 * 0 = 0
    OBVIOUS
  <2>3. CodeBits[0] = << >>
    BY CodeBitsTable DEF Table
  <2> QED  BY <2>1, <2>2, <2>3 DEF Packed
<1>2. \A n \in 1 .. 17 : Packed(n - 1) => Packed(n)
  BY CodeBitsTable, CodeBitsStep DEF Table
<1>3. Packed(1) /\ Packed(2) /\ Packed(3) /\ Packed(4)
  BY <1>1, <1>2
<1>4. Packed(5) /\ Packed(6) /\ Packed(7) /\ Packed(8)
  BY <1>2, <1>3
<1>5. Packed(9) /\ Packed(10) /\ Packed(11) /\ Packed(12)
  BY <1>2, <1>4
<1>6. Packed(13) /\ Packed(14) /\ Packed(15) /\ Packed(16) /\ Packed(17)
  BY <1>2, <1>5
<1> QED  BY <1>6

(* The bytecode holds the operations, below some zeros.                    *)
LEMMA BytecodeBits ==
  /\ BytecodeCode \in Seq(Int) /\ Len(BytecodeCode) = 192
  /\ \A k \in 0 .. 16, q \in 0 .. 10 :
       Low(BytecodeCode, 11 * k + q) = Low(OpBits(Code[k + 1]), q)
<1> DEFINE zeros == [i \in 1 .. 5 |-> 0]
           bits == CodeBits[17]
<1>1. bits \in Seq(Int) /\ Len(bits) = 187
  BY AllPacked DEF Packed
<1>2. \A k \in 0 .. 16, q \in 0 .. 10 :
        Low(bits, 11 * k + q) = Low(OpBits(Code[k + 1]), q)
  <2>1. 17 - 1 = 16
    OBVIOUS
  <2>2. \A k \in 0 .. 17 - 1, q \in 0 .. 10 :
          Low(bits, 11 * k + q) = Low(OpBits(Code[k + 1]), q)
    BY AllPacked DEF Packed
  <2> HIDE DEF bits
  <2> QED  BY <2>1, <2>2, Zenon
<1>3. zeros \in Seq(Int) /\ Len(zeros) = 5
  OBVIOUS
<1>4. BytecodeCode = zeros \o bits
  <2>1. ULOOP_LEN - Len(CodeBits[17]) = 5
    BY <1>1 DEF ULOOP_LEN
  <2> QED  BY <2>1, CodeType DEF BytecodeCode
<1> HIDE DEF zeros, bits
<1>5. zeros \in Seq(Int) /\ bits \in Seq(Int)
  BY <1>1, <1>3
<1> DEFINE all == zeros \o bits
<1>6. Joined(all, zeros, 5, bits, 187)
  <2>1. Joined(all, zeros, Len(zeros), bits, Len(bits))
    BY <1>5, SideBySide
  <2> HIDE DEF all
  <2> QED  BY <1>1, <1>3, <2>1
<1> HIDE DEF all
<1>7. /\ BytecodeCode \in Seq(Int) /\ Len(BytecodeCode) = 192
      /\ \A i \in 0 .. 186 : Low(BytecodeCode, i) = Low(bits, i)
  BY <1>4, <1>6 DEF Joined, all
<1>8. ASSUME NEW k \in 0 .. 16, NEW q \in 0 .. 10
      PROVE  Low(BytecodeCode, 11 * k + q) = Low(OpBits(Code[k + 1]), q)
  <2>1. 11 * k + q \in 0 .. 186
    OBVIOUS
  <2> QED  BY <1>2, <1>7, <2>1
<1> QED  BY <1>7, <1>8

(* The number in a field of one bit or of five.                            *)
FieldSum(bits, first, n) ==
  IF n = 1 THEN Low(bits, first)
  ELSE Low(bits, first) + Low(bits, first + 1) * 2 + Low(bits, first + 2) * 4
       + Low(bits, first + 3) * 8 + Low(bits, first + 4) * 16

(* It is what the hardware reads.                                          *)
LEMMA FieldValue ==
  ASSUME NEW bits, Len(bits) \in Nat, NEW first, first \in Nat,
         NEW n, n \in {1, 5}, first + n <= Len(bits),
         \A i \in first .. first + n - 1 : Low(bits, i) \in Int
  PROVE  Field(bits, first, n) = FieldSum(bits, first, n)
<1> DEFINE Bit(i) == IF i < Len(bits) THEN bits[Len(bits) - i] ELSE 0
           rule(g) == [i \in 0 .. n |->
                         IF i = 0 THEN 0
                         ELSE g[i - 1] + Bit(first + i - 1) * 2 ^ (i - 1)]
           value == CHOOSE g : g = rule(g)
           one == 0 + Bit(first + 1 - 1) * 2 ^ (1 - 1)
           two == one + Bit(first + 2 - 1) * 2 ^ (2 - 1)
           three == two + Bit(first + 3 - 1) * 2 ^ (3 - 1)
           four == three + Bit(first + 4 - 1) * 2 ^ (4 - 1)
           five == four + Bit(first + 5 - 1) * 2 ^ (5 - 1)
           table == [i \in 0 .. n |->
                       IF i = 0 THEN 0 ELSE IF i = 1 THEN one
                       ELSE IF i = 2 THEN two ELSE IF i = 3 THEN three
                       ELSE IF i = 4 THEN four ELSE five]
<1>1. Field(bits, first, n) = value[n]
  BY DEF Field
<1>2. table = rule(table)
  <2> HIDE DEF Bit
  <2>1. ASSUME NEW i \in 0 .. n
        PROVE  table[i] = IF i = 0 THEN 0
                          ELSE table[i - 1] + Bit(first + i - 1) * 2 ^ (i - 1)
    <3>1. i = 0 \/ i = 1 \/ (n = 5 /\ (i = 2 \/ i = 3 \/ i = 4 \/ i = 5))
      OBVIOUS
    <3>2. /\ table[0] = 0 /\ table[1] = one
          /\ n = 5 => /\ table[2] = two /\ table[3] = three
                      /\ table[4] = four /\ table[5] = five
      <4> HIDE DEF one, two, three, four, five
      <4> QED  OBVIOUS
    <3>3. /\ 1 - 1 = 0 /\ 2 - 1 = 1 /\ 3 - 1 = 2 /\ 4 - 1 = 3 /\ 5 - 1 = 4
      OBVIOUS
    <3> HIDE DEF table
    <3> QED  BY <3>1, <3>2, <3>3, Zenon
  <2>2. table = [i \in 0 .. n |-> table[i]]
    <3> HIDE DEF one, two, three, four, five
    <3> QED  OBVIOUS
  <2> HIDE DEF table
  <2> QED  BY <2>1, <2>2, Zenon
<1>3. value = rule(value)
  <2> HIDE DEF rule, table
  <2> QED  BY <1>2
<1> HIDE DEF value
<1>4. \A i \in 0 .. n : value[i] = IF i = 0 THEN 0
                          ELSE value[i - 1] + Bit(first + i - 1) * 2 ^ (i - 1)
  <2> HIDE DEF Bit
  <2> QED  BY <1>3, Zenon
<1>5. \A i \in first .. first + n - 1 : Bit(i) = Low(bits, i)
  BY DEF Low
<1> HIDE DEF Bit
<1>6. \A i \in 1 .. n :
        value[i] = value[i - 1] + Low(bits, first + i - 1) * 2 ^ (i - 1)
  <2> TAKE i \in 1 .. n
  <2>1. i \in 0 .. n /\ i # 0 /\ first + i - 1 \in first .. first + n - 1
    OBVIOUS
  <2> QED  BY <1>4, <1>5, <2>1, Zenon
<1>7. value[0] = 0
  <2>1. 0 \in 0 .. n
    OBVIOUS
  <2> QED  BY <1>4, <2>1, Zenon
<1>8. 2 ^ 0 = 1 /\ 2 ^ 1 = 2 /\ 2 ^ 2 = 4 /\ 2 ^ 3 = 8 /\ 2 ^ 4 = 16
  OBVIOUS
<1>9. value[1] = Low(bits, first)
  <2>1. value[1] = value[1 - 1] + Low(bits, first + 1 - 1) * 2 ^ (1 - 1)
    <3>1. 1 \in 1 .. n
      OBVIOUS
    <3> QED  BY <1>6, <3>1, Zenon
  <2>2. first + 1 - 1 = first /\ 1 - 1 = 0 /\ Low(bits, first) \in Int
    OBVIOUS
  <2> QED  BY <1>7, <1>8, <2>1, <2>2
<1>10. CASE n = 1
  BY <1>1, <1>9, <1>10 DEF FieldSum
<1>11. CASE n = 5
  <2>1. /\ value[2] = value[1] + Low(bits, first + 1) * 2
        /\ value[3] = value[2] + Low(bits, first + 2) * 4
        /\ value[4] = value[3] + Low(bits, first + 3) * 8
        /\ value[5] = value[4] + Low(bits, first + 4) * 16
    <3>1. /\ value[2] = value[2 - 1] + Low(bits, first + 2 - 1) * 2 ^ (2 - 1)
          /\ value[3] = value[3 - 1] + Low(bits, first + 3 - 1) * 2 ^ (3 - 1)
          /\ value[4] = value[4 - 1] + Low(bits, first + 4 - 1) * 2 ^ (4 - 1)
          /\ value[5] = value[5 - 1] + Low(bits, first + 5 - 1) * 2 ^ (5 - 1)
      BY <1>6, <1>11
    <3>2. /\ 2 - 1 = 1 /\ 3 - 1 = 2 /\ 4 - 1 = 3 /\ 5 - 1 = 4
          /\ first + 2 - 1 = first + 1 /\ first + 3 - 1 = first + 2
          /\ first + 4 - 1 = first + 3 /\ first + 5 - 1 = first + 4
      OBVIOUS
    <3> QED  BY <1>8, <3>1, <3>2
  <2> QED  BY <1>1, <1>9, <1>11, <2>1 DEF FieldSum
<1> QED  BY <1>10, <1>11

(* The hardware reads every operation back.                                *)
LEMMA Decodes ==
  ASSUME NEW n, n \in 0 .. 16
  PROVE  RtlCode(n) = Code[n + 1]
<1> DEFINE c == Code[n + 1]
           bits == OpBits(c)
<1>1. c.op_sel \in 0 .. 1 /\ c.a \in 0 .. 31 /\ c.b \in 0 .. 31
  BY CodeType
<1>2. /\ bits \in Seq(Int) /\ Len(bits) = 11
      /\ c.op_sel = Low(bits, 10)
      /\ c.a = Low(bits, 5) + Low(bits, 6) * 2 + Low(bits, 7) * 4
               + Low(bits, 8) * 8 + Low(bits, 9) * 16
      /\ c.b = Low(bits, 0) + Low(bits, 1) * 2 + Low(bits, 2) * 4
               + Low(bits, 3) * 8 + Low(bits, 4) * 16
  BY <1>1, OpBitsType
<1>3. \A q \in 0 .. 10 : Low(BytecodeCode, 11 * n + q) = Low(bits, q)
  BY BytecodeBits
<1>4. c = [op_sel |-> c.op_sel, a |-> c.a, b |-> c.b]
  <2>1. \/ n = 0 \/ n = 1 \/ n = 2 \/ n = 3 \/ n = 4 \/ n = 5 \/ n = 6 \/ n = 7
        \/ n = 8 \/ n = 9 \/ n = 10 \/ n = 11 \/ n = 12 \/ n = 13 \/ n = 14
        \/ n = 15 \/ n = 16
    OBVIOUS
  <2>2. \E a, b \in 0 .. 31 : c = Sum2(a, b) \/ c = Move(a, b)
    BY <2>1, CodeAt
  <2> HIDE DEF c
  <2> QED  BY <2>2 DEF Sum2, Move
<1>5. \A i \in 0 .. 10 : Low(bits, i) \in Int
  <2>1. bits \in Seq(Int) /\ Len(bits) = 11
    BY <1>2
  <2> HIDE DEF bits
  <2>2. ASSUME NEW i \in 0 .. 10
        PROVE  Low(bits, i) \in Int
    <3>1. 11 - i \in 1 .. Len(bits)
      BY <2>1
    <3>2. bits[11 - i] \in Int
      BY <2>1, <3>1
    <3> QED  BY <2>1, <3>2 DEF Low
  <2> QED  BY <2>2
<1> HIDE DEF c, bits
<1> DEFINE all == BytecodeCode
<1>6. all \in Seq(Int) /\ Len(all) = 192
  BY BytecodeBits
<1>7. /\ Low(all, 11 * n) = Low(bits, 0) /\ Low(all, 11 * n + 1) = Low(bits, 1)
      /\ Low(all, 11 * n + 2) = Low(bits, 2) /\ Low(all, 11 * n + 3) = Low(bits, 3)
      /\ Low(all, 11 * n + 4) = Low(bits, 4) /\ Low(all, 11 * n + 5) = Low(bits, 5)
      /\ Low(all, 11 * n + 6) = Low(bits, 6) /\ Low(all, 11 * n + 7) = Low(bits, 7)
      /\ Low(all, 11 * n + 8) = Low(bits, 8) /\ Low(all, 11 * n + 9) = Low(bits, 9)
      /\ Low(all, 11 * n + 10) = Low(bits, 10)
  <2>1. Low(all, 11 * n + 0) = Low(bits, 0)
    BY <1>3
  <2> HIDE DEF all
  <2>2. 11 * n + 0 = 11 * n
    OBVIOUS
  <2> QED  BY <1>3, <2>1, <2>2 DEF all
<1>8. \A i \in 11 * n .. 11 * n + 10 : Low(all, i) \in Int
  <2> TAKE i \in 11 * n .. 11 * n + 10
  <2>1. i - 11 * n \in 0 .. 10 /\ 11 * n + (i - 11 * n) = i
    OBVIOUS
  <2> QED  BY <1>3, <1>5, <2>1
<1> HIDE DEF all
<1>9. Field(all, 11 * n + 10, 1) = c.op_sel
  <2>1. \A i \in 11 * n + 10 .. 11 * n + 10 + 1 - 1 : Low(all, i) \in Int
    BY <1>8
  <2>2. 11 * n + 10 \in Nat /\ 11 * n + 10 + 1 <= Len(all) /\ 1 \in {1, 5}
        /\ Len(all) \in Nat
    BY <1>6
  <2>3. Field(all, 11 * n + 10, 1) = FieldSum(all, 11 * n + 10, 1)
    BY <2>1, <2>2, FieldValue, Zenon
  <2>4. FieldSum(all, 11 * n + 10, 1) = c.op_sel
    BY <1>2, <1>7 DEF FieldSum
  <2> QED  BY <2>3, <2>4
<1>10. Field(all, 11 * n + 5, 5) = c.a
  <2>1. \A i \in 11 * n + 5 .. 11 * n + 5 + 5 - 1 : Low(all, i) \in Int
    BY <1>8
  <2>2. 11 * n + 5 \in Nat /\ 11 * n + 5 + 5 <= Len(all) /\ 5 \in {1, 5}
        /\ Len(all) \in Nat
    BY <1>6
  <2>3. Field(all, 11 * n + 5, 5) = FieldSum(all, 11 * n + 5, 5)
    BY <2>1, <2>2, FieldValue, Zenon
  <2>4. FieldSum(all, 11 * n + 5, 5) = c.a
    BY <1>2, <1>7 DEF FieldSum
  <2> QED  BY <2>3, <2>4
<1>11. Field(all, 11 * n, 5) = c.b
  <2>1. \A i \in 11 * n .. 11 * n + 5 - 1 : Low(all, i) \in Int
    BY <1>8
  <2>2. 11 * n \in Nat /\ 11 * n + 5 <= Len(all) /\ 5 \in {1, 5}
        /\ Len(all) \in Nat
    BY <1>6
  <2>3. Field(all, 11 * n, 5) = FieldSum(all, 11 * n, 5)
    BY <2>1, <2>2, FieldValue, Zenon
  <2>4. FieldSum(all, 11 * n, 5) = c.b
    BY <1>2, <1>7 DEF FieldSum
  <2> QED  BY <2>3, <2>4
<1> QED  BY <1>4, <1>9, <1>10, <1>11 DEF RtlCode, all, c

-----------------------------------------------------------------------------
(* What follows.                                                           *)

(* Every variable has its type, and the program counter stays within the   *)
(* operations of the current loop.                                         *)
THEOREM UloopTypeCorrect == Spec => []TypeOK
<1>1. UInv => TypeOK
  BY DEF UInv
<1>2. QED
  BY <1>1, InvariantHolds, PTL

(* The additions of the micro-code yield the addresses of the nest at      *)
(* every point, whatever the shape.                                        *)
THEOREM AddressesAgree == Spec => []NoErrors
<1>1. UInv => NoErrors
  BY DEF UInv
<1>2. QED
  BY <1>1, InvariantHolds, PTL

(* The count at the last point.                                            *)
LEMMA LastTurn ==
  ASSUME NEW t, NEW p, NEW k, NEW rest,
         t \in Int, p \in Int, k \in Int, rest \in Int,
         p = t - 1, k = rest - 1
  PROVE  Turns(t, p, k) = t * rest - 1
<1>1. Turns(t, t - 1, rest - 1) = t * rest - 1
  BY DEF Turns
<1>2. QED
  BY <1>1

(* When the processor ends, it has shown all points.                       *)
THEOREM AllPoints == Spec => []EveryPointShown
<1>1. ASSUME UInv PROVE EveryPointShown
  <2> SUFFICES ASSUME end
               PROVE  nb_iter = Times(shape)[0] * Times(shape)[1]
                                  * Times(shape)[2] * Times(shape)[3]
                                  * Times(shape)[4] * Times(shape)[5]
    BY DEF EveryPointShown
  <2> DEFINE T == Times(shape)
  <2>1. \A l \in Loop : T[l] \in Int /\ point[l] \in Int /\ point[l] = T[l] - 1
    BY <1>1, ShapeFacts DEF UInv, TypeOK, NestTypeOK, SamePoint, AtEnd
  <2> HIDE DEF T
  <2>2. /\ T[0] \in Int /\ T[1] \in Int /\ T[2] \in Int /\ T[3] \in Int
        /\ T[4] \in Int /\ T[5] \in Int
        /\ point[0] \in Int /\ point[1] \in Int /\ point[2] \in Int
        /\ point[3] \in Int /\ point[4] \in Int /\ point[5] \in Int
        /\ point[0] = T[0] - 1 /\ point[1] = T[1] - 1 /\ point[2] = T[2] - 1
        /\ point[3] = T[3] - 1 /\ point[4] = T[4] - 1 /\ point[5] = T[5] - 1
    BY <2>1 DEF Loop
  <2> DEFINE S4 == T[4] * T[5]
             S3 == T[3] * S4
             S2 == T[2] * S3
             S1 == T[1] * S2
             S0 == T[0] * S1
  <2>3. /\ S4 \in Int /\ S3 \in Int /\ S2 \in Int /\ S1 \in Int /\ S0 \in Int
        /\ S0 = T[0] * T[1] * T[2] * T[3] * T[4] * T[5]
    BY <2>2
  <2>4. Number4(shape, point) = S4 - 1
    BY <2>2, LastTurn DEF Number4, Number5, T
  <2>5. Number3(shape, point) = S3 - 1
    <3> HIDE DEF S4
    <3>1. QED
      BY <2>2, <2>3, <2>4, LastTurn DEF Number3, T
  <2>6. Number2(shape, point) = S2 - 1
    <3> HIDE DEF S3
    <3>1. QED
      BY <2>2, <2>3, <2>5, LastTurn DEF Number2, T
  <2>7. Number1(shape, point) = S1 - 1
    <3> HIDE DEF S2
    <3>1. QED
      BY <2>2, <2>3, <2>6, LastTurn DEF Number1, T
  <2>8. Number(shape, point) = S0 - 1
    <3> HIDE DEF S1
    <3>1. QED
      BY <2>2, <2>3, <2>7, LastTurn DEF Number, T
  <2>9. nb_iter = Number(shape, point) + 1
    BY <1>1 DEF UInv, PointsShown
  <2>10. nb_iter = S0
    <3> HIDE DEF S0
    <3>1. QED
      BY <2>3, <2>8, <2>9
  <2> HIDE DEF S0
  <2>11. QED
    BY <2>3, <2>10 DEF T
<1>2. QED
  BY <1>1, InvariantHolds, PTL

(* The variant: a point takes at most 24 rounds, five walks to the next    *)
(* loop, three operations before the last one among them, so that what is  *)
(* left is bounded by the points that are not yet shown.                   *)
Points == Times(shape)[0] * (Times(shape)[1] * (Times(shape)[2]
            * (Times(shape)[3] * (Times(shape)[4] * Times(shape)[5]))))
RoundsLeft == 24 * (Points - nb_iter) - 4 * loop - op

(* A turn of a loop is one of its turns, whatever is within it.            *)
LEMMA WithinTurns ==
  ASSUME NEW t, NEW p, NEW k, NEW rest,
         t \in Int, p \in Int, k \in Int, rest \in Int,
         0 <= t, p < t, k < rest
  PROVE  Turns(t, p, k) \in Int /\ Turns(t, p, k) < t * rest
<1> DEFINE d == rest - 1 - k
<1>1. d \in Nat /\ rest = k + d + 1 /\ t \in Nat
  OBVIOUS
<1>2. t * d \in Nat
  BY <1>1, Product
<1>3. t * rest = t * k + t * d + t /\ t * k \in Int
  <2> HIDE DEF d
  <2> QED  BY <1>1
<1>4. QED
  BY <1>2, <1>3 DEF Turns

(* Every point is one of them.                                             *)
LEMMA WithinPoints ==
  ASSUME UInv
  PROVE  /\ Points \in Int
         /\ Number(shape, point) \in Int
         /\ Number(shape, point) < Points
<1> DEFINE T == Times(shape)
<1>1. \A l \in Loop : T[l] \in Int /\ 0 <= T[l] /\ point[l] \in Int /\ point[l] < T[l]
  BY ShapeFacts DEF UInv, TypeOK, NestTypeOK, SamePoint
<1> HIDE DEF T
<1>2. /\ T[0] \in Int /\ T[1] \in Int /\ T[2] \in Int /\ T[3] \in Int
      /\ T[4] \in Int /\ T[5] \in Int
      /\ 0 <= T[0] /\ 0 <= T[1] /\ 0 <= T[2] /\ 0 <= T[3] /\ 0 <= T[4]
      /\ point[0] \in Int /\ point[1] \in Int /\ point[2] \in Int
      /\ point[3] \in Int /\ point[4] \in Int /\ point[5] \in Int
      /\ point[0] < T[0] /\ point[1] < T[1] /\ point[2] < T[2]
      /\ point[3] < T[3] /\ point[4] < T[4] /\ point[5] < T[5]
  BY <1>1 DEF Loop
<1> DEFINE S4 == T[4] * T[5]
           S3 == T[3] * S4
           S2 == T[2] * S3
           S1 == T[1] * S2
           S0 == T[0] * S1
<1>3. /\ S4 \in Int /\ S3 \in Int /\ S2 \in Int /\ S1 \in Int /\ S0 \in Int
  BY <1>2
<1>4. Number4(shape, point) \in Int /\ Number4(shape, point) < S4
  BY <1>2, WithinTurns DEF Number4, Number5, T
<1>5. Number3(shape, point) \in Int /\ Number3(shape, point) < S3
  <2> HIDE DEF S4
  <2> QED  BY <1>2, <1>3, <1>4, WithinTurns DEF Number3, T
<1>6. Number2(shape, point) \in Int /\ Number2(shape, point) < S2
  <2> HIDE DEF S3
  <2> QED  BY <1>2, <1>3, <1>5, WithinTurns DEF Number2, T
<1>7. Number1(shape, point) \in Int /\ Number1(shape, point) < S1
  <2> HIDE DEF S2
  <2> QED  BY <1>2, <1>3, <1>6, WithinTurns DEF Number1, T
<1>8. Number(shape, point) \in Int /\ Number(shape, point) < S0
  <2> HIDE DEF S1
  <2> QED  BY <1>2, <1>3, <1>7, WithinTurns DEF Number, T
<1>9. Points = S0
  BY DEF Points, T
<1> HIDE DEF S0
<1> QED  BY <1>3, <1>8, <1>9

(* The variant is a count, and none is left only at the end.               *)
LEMMA RoundsCount ==
  ASSUME UInv
  PROVE  RoundsLeft \in Nat /\ (~end => RoundsLeft > 0)
<1>1. /\ Points \in Int /\ Number(shape, point) \in Int
      /\ Number(shape, point) < Points
  BY WithinPoints
<1>2. /\ nb_iter \in Int /\ loop \in 0 .. 5 /\ op \in 0 .. 3
      /\ nb_iter = Number(shape, point) + (IF end THEN 1 ELSE 0)
      /\ end => loop = 0 /\ op = 0
  BY DEF UInv, TypeOK, SamePoint, PointsShown, Loop, NbOps
<1>3. CASE end
  BY <1>1, <1>2, <1>3 DEF RoundsLeft
<1>4. CASE ~end
  <2>1. nb_iter + 1 <= Points
    BY <1>1, <1>2, <1>4
  <2> QED  BY <1>1, <1>2, <1>4, <2>1 DEF RoundsLeft
<1> QED  BY <1>3, <1>4

(* The shape stays, and so does the number of points.                      *)
LEMMA SameShape ==
  ASSUME [Next]_vars
  PROVE  Points' = Points
<1>1. CASE NestNext
  BY <1>1 DEF NestNext, Iterate, StopIteration, Points
<1>2. CASE UNCHANGED nestVars
  BY <1>2 DEF nestVars, Points
<1>3. QED
  BY <1>1, <1>2 DEF Next, Update, IterateAndGotoLoop0, IterateLoop0,
     GotoNextLoop, Terminate, Show, Busy, vars

(* Every round brings the end nearer: the processor cannot walk between    *)
(* its loops for ever, and 24 rounds for each point always are enough.     *)
THEOREM RoundsBounded ==
  Spec => /\ [](RoundsLeft \in Nat)
          /\ [][RoundsLeft' < RoundsLeft]_vars
<1>1. UInv => RoundsLeft \in Nat
  BY RoundsCount
<1>2. ASSUME UInv, Next
      PROVE  RoundsLeft' < RoundsLeft
  <2>1. /\ Points \in Int /\ Points' = Points
    BY <1>2, WithinPoints, SameShape
  <2>2. /\ nb_iter \in Int /\ loop \in 0 .. 5 /\ op \in 0 .. 3
    BY <1>2 DEF UInv, TypeOK, Loop, NbOps
  <2>3. CASE Update
    <3>1. op' = op + 1 /\ loop' = loop /\ nb_iter' = nb_iter
      BY <2>3 DEF Update, Busy
    <3> QED  BY <2>1, <2>2, <3>1 DEF RoundsLeft
  <2>4. CASE GotoNextLoop
    <3>1. op' = 0 /\ loop' = loop + 1 /\ nb_iter' = nb_iter /\ ~MoreToDo
      BY <2>4 DEF GotoNextLoop, Busy
    <3>2. op = 0
      BY <1>2, <3>1, Running DEF Next
    <3> QED  BY <2>1, <2>2, <3>1, <3>2 DEF RoundsLeft
  <2>5. CASE IterateAndGotoLoop0 \/ IterateLoop0 \/ Terminate
    <3>1. op' = 0 /\ loop' = 0 /\ nb_iter' = nb_iter + 1
      BY <2>5 DEF IterateAndGotoLoop0, IterateLoop0, Terminate, Show
    <3> QED  BY <2>1, <2>2, <3>1 DEF RoundsLeft
  <2> QED  BY <1>2, <2>3, <2>4, <2>5 DEF Next
<1>3. UInv /\ [Next]_vars => [RoundsLeft' < RoundsLeft]_vars
  BY <1>2
<1>4. QED
  BY <1>1, <1>3, InvariantHolds, PTL DEF Spec

(* The processor by itself is a loop nest: its own indices run through     *)
(* the points in order, and what it shows is what the nest yields.         *)
THEOREM UloopIsANest == Spec => ImplementsNest
<1>1. ASSUME UInv PROVE OwnPoint = point /\ printed = addresses /\ exhausted = end
  <2>1. CASE end
    <3>1. /\ point = [l \in Loop |-> point[l]]
          /\ \A l \in Loop : point[l] = Times(shape)[l] - 1
      BY <1>1, <2>1 DEF UInv, TypeOK, NestTypeOK, SamePoint, AtEnd
    <3>2. OwnPoint = [l \in Loop |-> Times(shape)[l] - 1]
      BY <2>1 DEF OwnPoint
    <3>3. QED
      BY <1>1, <3>1, <3>2 DEF UInv, SamePoint
  <2>2. CASE ~end
    BY <1>1, <2>2 DEF UInv, SamePoint, OwnPoint
  <2>3. QED
    BY <2>1, <2>2
<1>2. Init => Nest!NestInit
  <2> SUFFICES ASSUME Init PROVE Nest!NestInit
    OBVIOUS
  <2>1. UInv
    BY InitUInv
  <2>2. NestInit
    BY DEF Init
  <2>3. QED
    BY <1>1, <2>1, <2>2 DEF NestInit, Nest!NestInit, Nest!Shape, Nest!Channels,
       Nest!Loop, Nest!Addresses, Shape, Channels, Loop, Addresses
<1>3. UInv /\ UInv' /\ [Next]_vars => [Nest!NestNext]_(Nest!nestVars)
  <2> SUFFICES ASSUME UInv, UInv', [Next]_vars
               PROVE  [Nest!NestNext]_(Nest!nestVars)
    OBVIOUS
  <2>1. /\ OwnPoint = point /\ printed = addresses /\ end = exhausted
        /\ OwnPoint' = point' /\ printed' = addresses' /\ end' = exhausted'
    <3>1. OwnPoint = point /\ printed = addresses /\ exhausted = end
      BY <1>1
    <3>2. (UInv => OwnPoint = point /\ printed = addresses /\ exhausted = end)'
      BY <1>1, PTL
    <3>3. QED
      BY <3>1, <3>2
  <2>2. [NestNext]_nestVars
    <3>1. CASE Next
      BY <3>1 DEF Next, Update, IterateAndGotoLoop0, IterateLoop0, GotoNextLoop,
                  Terminate, Show, Busy
    <3>2. CASE UNCHANGED vars
      BY <3>2 DEF vars
    <3>3. QED
      BY <3>1, <3>2
  <2>3. ASSUME UNCHANGED nestVars PROVE UNCHANGED Nest!nestVars
    BY <2>1, <2>3 DEF nestVars, Nest!nestVars
  <2>4. ASSUME NEW l \in Loop, Iterate(l) PROVE Nest!Iterate(l)
    BY <2>1, <2>4 DEF Iterate, Nest!Iterate, AtEnd, Nest!AtEnd, Loop, Nest!Loop,
       Times, Nest!Times, Addresses, Nest!Addresses
  <2>5. ASSUME StopIteration PROVE Nest!StopIteration
    BY <2>1, <2>5 DEF StopIteration, Nest!StopIteration, AtEnd, Nest!AtEnd,
       Loop, Nest!Loop, Times, Nest!Times
  <2>6. QED
    BY <2>2, <2>3, <2>4, <2>5 DEF NestNext, Nest!NestNext, Loop, Nest!Loop
<1>4. QED
  BY <1>2, <1>3, InvariantHolds, PTL DEF Spec, ImplementsNest, Nest!NestSpec

(* The program counter is always within the micro-code, of which the       *)
(* hardware reads every operation back from the bytecode.                  *)
THEOREM BytecodeDecodes == Spec => []CodeDecodes
<1>1. UInv => CodeDecodes
  <2> SUFFICES ASSUME UInv
               PROVE  RtlCode(addr) = Code[addr + 1]
    BY DEF CodeDecodes
  <2>1. loop \in Loop /\ op \in 0 .. NbOps[loop] - 1 /\ addr = UloopAddr[loop] + op
    BY DEF UInv, TypeOK
  <2>2. addr \in 0 .. 16
    BY <2>1, LoopAddresses DEF Loop, NbOps
  <2> QED  BY <2>2, Decodes
<1> QED  BY <1>1, InvariantHolds, PTL

=============================================================================
