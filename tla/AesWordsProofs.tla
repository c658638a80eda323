---------------------------- MODULE AesWordsProofs -----------------------------
(***************************************************************************)
(* Lemmas about the arithmetic of the cipher: every step of a round has    *)
(* the inverse that the decipher functions of aes.py use, whatever the     *)
(* S-box, as long as inv_sbox inverts it.                                  *)
(***************************************************************************)
EXTENDS AesWords, TLAPS

-----------------------------------------------------------------------------
(* Exclusive or.                                                           *)

(* It is associative.                                                      *)
LEMMA XorAssoc == ASSUME NEW x, NEW y, NEW z
                  PROVE  x (+) (y (+) z) = x (+) y (+) z
BY DEF (+)

(* It is commutative.                                                      *)
LEMMA XorComm == ASSUME NEW x, NEW y PROVE x (+) y = y (+) x
BY DEF (+)

(* Applied twice it cancels.                                               *)
LEMMA XorCancel == ASSUME NEW x, NEW y PROVE (x (+) y) (+) y = x
BY DEF (+)

(* It yields bytes and words.                                              *)
LEMMA XorByte == ASSUME NEW x \in Byte, NEW y \in Byte PROVE x (+) y \in Byte
BY DEF (+), Byte

(* The exclusive or of two words is a word.                                *)
LEMMA XorWord == ASSUME NEW x \in Word, NEW y \in Word PROVE x (+) y \in Word
BY DEF (+), Word

-----------------------------------------------------------------------------
(* Words and their bytes.                                                  *)

Bytes4 == Byte \X Byte \X Byte \X Byte

(* w2b splits a word into bytes.                                           *)
LEMMA W2bType == ASSUME NEW w \in Word PROVE w2b(w) \in Bytes4
BY DEF w2b, Shr, Word, Byte, Bytes4

(* b2w makes a word of four bytes.                                         *)
LEMMA B2wType ==
  ASSUME NEW b0 \in Byte, NEW b1 \in Byte, NEW b2 \in Byte, NEW b3 \in Byte
  PROVE  b2w(b0, b1, b2, b3) \in Word
<1>1. b3 \in Word
  BY DEF Byte, Word
<1>2. \A b, n : Shl(b, n) \in Word
  BY DEF Shl, Word
<1> QED  BY <1>1, <1>2 DEF b2w, Word

(* A byte of a word, as what the word has at its positions.                *)
LEMMA B2wBits ==
  ASSUME NEW b0 \in Byte, NEW b1 \in Byte, NEW b2 \in Byte, NEW b3 \in Byte,
         NEW p \in 0 .. 7
  PROVE  /\ p \in b2w(b0, b1, b2, b3) <=> p \in b3
         /\ p + 8 \in b2w(b0, b1, b2, b3) <=> p \in b2
         /\ p + 16 \in b2w(b0, b1, b2, b3) <=> p \in b1
         /\ p + 24 \in b2w(b0, b1, b2, b3) <=> p \in b0
<1>1. \A b \in Byte, q \in Int : q \in b => q \in 0 .. 7
  BY DEF Byte
<1>2. \A q \in 0 .. 31 : q \in b2w(b0, b1, b2, b3) <=>
        q - 24 \in b0 \/ q - 16 \in b1 \/ q - 8 \in b2 \/ q \in b3
  BY DEF b2w, Shl
<1> QED  BY <1>1, <1>2

(* w2b undoes b2w: the four bytes do not overlap in the word.              *)
LEMMA W2bB2w ==
  ASSUME NEW b0 \in Byte, NEW b1 \in Byte, NEW b2 \in Byte, NEW b3 \in Byte
  PROVE  w2b(b2w(b0, b1, b2, b3)) = << b0, b1, b2, b3 >>
<1> DEFINE w == b2w(b0, b1, b2, b3)
<1>1. \A p \in 0 .. 7 : /\ p \in w <=> p \in b3
                        /\ p + 8 \in w <=> p \in b2
                        /\ p + 16 \in w <=> p \in b1
                        /\ p + 24 \in w <=> p \in b0
  BY B2wBits
<1>2. w \in Word
  BY B2wType
<1> HIDE DEF w
<1>3. Shr(w, 24) \subseteq 0 .. 7
  BY <1>2 DEF Shr, Word
<1>4. /\ \A p \in 0 .. 7 : p \in Shr(w, 24) <=> p \in b0
      /\ \A p \in 0 .. 7 : p \in Shr(w, 16) <=> p \in b1
      /\ \A p \in 0 .. 7 : p \in Shr(w, 8) <=> p \in b2
  BY <1>1 DEF Shr
<1>5. b0 \subseteq 0 .. 7 /\ b1 \subseteq 0 .. 7 /\ b2 \subseteq 0 .. 7
      /\ b3 \subseteq 0 .. 7
  BY DEF Byte
<1>6. Shr(w, 24) = b0
  BY <1>3, <1>4, <1>5
<1>7. Shr(w, 16) \cap (0 .. 7) = b1
  BY <1>4, <1>5
<1>8. Shr(w, 8) \cap (0 .. 7) = b2
  BY <1>4, <1>5
<1>9. w \cap (0 .. 7) = b3
  BY <1>1, <1>5
<1>10. w2b(w) = << b0, b1, b2, b3 >>
  BY <1>6, <1>7, <1>8, <1>9 DEF w2b
<1> QED  BY <1>10 DEF w

(* b2w undoes w2b: no bit of the word is lost.                             *)
LEMMA B2wW2b ==
  ASSUME NEW w \in Word
  PROVE  b2w(w2b(w)[1], w2b(w)[2], w2b(w)[3], w2b(w)[4]) = w
<1> DEFINE v == b2w(w2b(w)[1], w2b(w)[2], w2b(w)[3], w2b(w)[4])
<1>1. v \in Word
  BY W2bType, B2wType DEF Bytes4
<1>2. ASSUME NEW p \in 0 .. 7
      PROVE  /\ p \in v <=> p \in w
             /\ p + 8 \in v <=> p + 8 \in w
             /\ p + 16 \in v <=> p + 16 \in w
             /\ p + 24 \in v <=> p + 24 \in w
  <2>1. /\ p \in w2b(w)[4] <=> p \in w
        /\ p \in w2b(w)[3] <=> p + 8 \in w
        /\ p \in w2b(w)[2] <=> p + 16 \in w
        /\ p \in w2b(w)[1] <=> p + 24 \in w
    BY DEF w2b, Shr
  <2> QED  BY <2>1, B2wBits, W2bType DEF Bytes4
<1>3. ASSUME NEW q \in 0 .. 31 PROVE q \in v <=> q \in w
  <2>1. \E p \in 0 .. 7 : q = p \/ q = p + 8 \/ q = p + 16 \/ q = p + 24
    <3>1. CASE q \in 0 .. 7  BY <3>1
    <3>2. CASE q \in 8 .. 15
      <4>1. q - 8 \in 0 .. 7 /\ q = (q - 8) + 8  BY <3>2
      <4> QED  BY <4>1
    <3>3. CASE q \in 16 .. 23
      <4>1. q - 16 \in 0 .. 7 /\ q = (q - 16) + 16  BY <3>3
      <4> QED  BY <4>1
    <3>4. CASE q \in 24 .. 31
      <4>1. q - 24 \in 0 .. 7 /\ q = (q - 24) + 24  BY <3>4
      <4> QED  BY <4>1
    <3> QED  BY <3>1, <3>2, <3>3, <3>4
  <2> QED  BY <2>1, <1>2
<1> HIDE DEF v
<1>4. v = w
  BY <1>1, <1>3 DEF Word
<1> QED  BY <1>4 DEF v

-----------------------------------------------------------------------------
(* The substitution.                                                       *)

(* substw maps words to words.                                             *)
LEMMA SubstwType == ASSUME NEW w \in Word PROVE substw(w) \in Word
BY W2bType, B2wType, SboxAssumption DEF substw, Bytes4

(* So does inv_substw.                                                     *)
LEMMA InvSubstwType == ASSUME NEW w \in Word PROVE inv_substw(w) \in Word
BY W2bType, B2wType, SboxAssumption DEF inv_substw, Bytes4

(* inv_substw undoes substw, as inv_sbox undoes sbox.                      *)
LEMMA InvSubstw == ASSUME NEW w \in Word PROVE inv_substw(substw(w)) = w
<1> DEFINE b == w2b(w)
           s1 == sbox[b[1]]
           s2 == sbox[b[2]]
           s3 == sbox[b[3]]
           s4 == sbox[b[4]]
<1>1. b[1] \in Byte /\ b[2] \in Byte /\ b[3] \in Byte /\ b[4] \in Byte
  BY W2bType DEF Bytes4
<1>2. s1 \in Byte /\ s2 \in Byte /\ s3 \in Byte /\ s4 \in Byte
  BY <1>1, SboxAssumption
<1>3. substw(w) = b2w(s1, s2, s3, s4)
  BY DEF substw
<1>4. /\ inv_sbox[s1] = b[1] /\ inv_sbox[s2] = b[2]
      /\ inv_sbox[s3] = b[3] /\ inv_sbox[s4] = b[4]
  BY <1>1, SboxAssumption
<1>5. b2w(b[1], b[2], b[3], b[4]) = w
  BY B2wW2b
<1> HIDE DEF s1, s2, s3, s4, b
<1>6. w2b(substw(w)) = << s1, s2, s3, s4 >>
  BY <1>2, <1>3, W2bB2w
<1> QED  BY <1>4, <1>5, <1>6 DEF inv_substw

-----------------------------------------------------------------------------
(* The mixing of a word.  Multiplication by 2 is additive, so every        *)
(* product is a sum of the products of one byte by powers of two, and      *)
(* these cancel.                                                           *)

(* Doubling a byte gives a byte: the bit shifted out is folded back.       *)
LEMMA Gm2Type == ASSUME NEW x \in Byte PROVE gm2(x) \in Byte
BY DEF gm2, (+), Shl, Byte

(* Doubling distributes over exclusive or.                                 *)
LEMMA Gm2Xor == ASSUME NEW x \in Byte, NEW y \in Byte
                PROVE  gm2(x (+) y) = gm2(x) (+) gm2(y)
BY DEF gm2, (+), Shl, Byte

(* All multiples of a byte are bytes.                                      *)
LEMMA GmTypes ==
  ASSUME NEW x \in Byte
  PROVE  /\ gm2(x) \in Byte /\ gm3(x) \in Byte
         /\ gm4(x) \in Byte /\ gm8(x) \in Byte
         /\ gm09(x) \in Byte /\ gm11(x) \in Byte
         /\ gm13(x) \in Byte /\ gm14(x) \in Byte
BY Gm2Type, XorByte DEF gm3, gm4, gm8, gm09, gm11, gm13, gm14

(* So do the multiples by 4 and 8.                                         *)
LEMMA GmXor ==
  ASSUME NEW x \in Byte, NEW y \in Byte
  PROVE  /\ gm4(x (+) y) = gm4(x) (+) gm4(y)
         /\ gm8(x (+) y) = gm8(x) (+) gm8(y)
BY Gm2Type, Gm2Xor DEF gm4, gm8

(* mixw maps words to words.                                               *)
LEMMA MixwType == ASSUME NEW w \in Word PROVE mixw(w) \in Word
BY W2bType, B2wType, GmTypes, XorByte DEF mixw, Bytes4

(* So does inv_mixw.                                                       *)
LEMMA InvMixwType == ASSUME NEW w \in Word PROVE inv_mixw(w) \in Word
BY W2bType, B2wType, GmTypes, XorByte DEF inv_mixw, Bytes4

(* Doubling a sum of four bytes, as in a column of mixw.                   *)
LEMMA Gm2Sum ==
  ASSUME NEW x \in Byte, NEW y \in Byte, NEW z \in Byte, NEW u \in Byte
  PROVE  gm2(x (+) y (+) z (+) u) = gm2(x) (+) gm2(y) (+) gm2(z) (+) gm2(u)
BY Gm2Xor, XorByte

(* The multiples by 4 and 8 of such a sum.                                 *)
LEMMA GmSums ==
  ASSUME NEW x \in Byte, NEW y \in Byte, NEW z \in Byte, NEW u \in Byte
  PROVE  /\ gm4(x (+) y (+) z (+) u) = gm4(x) (+) gm4(y) (+) gm4(z) (+) gm4(u)
         /\ gm8(x (+) y (+) z (+) u) = gm8(x) (+) gm8(y) (+) gm8(z) (+) gm8(u)
<1>1. gm4(x (+) y (+) z (+) u) = gm4(x) (+) gm4(y) (+) gm4(z) (+) gm4(u)
  BY Gm2Sum, Gm2Type DEF gm4
<1>2. gm4(x) \in Byte /\ gm4(y) \in Byte /\ gm4(z) \in Byte /\ gm4(u) \in Byte
  BY GmTypes
<1> QED  BY <1>1, <1>2, Gm2Sum DEF gm8

(* The products of a sum by the coefficients of inv_mixw: the first byte   *)
(* is left.  The other three are the same sum for bytes in another order.  *)
LEMMA MixCancel ==
  ASSUME NEW a \in Byte, NEW b \in Byte, NEW c \in Byte, NEW d \in Byte,
         NEW m0, m0 = gm2(a) (+) gm3(b) (+) c (+) d,
         NEW m1, m1 = a (+) gm2(b) (+) gm3(c) (+) d,
         NEW m2, m2 = a (+) b (+) gm2(c) (+) gm3(d),
         NEW m3, m3 = gm3(a) (+) b (+) c (+) gm2(d)
  PROVE  gm14(m0) (+) gm11(m1) (+) gm13(m2) (+) gm09(m3) = a
<1>1. /\ gm2(a) \in Byte /\ gm3(a) \in Byte /\ gm2(b) \in Byte /\ gm3(b) \in Byte
      /\ gm2(c) \in Byte /\ gm3(c) \in Byte /\ gm2(d) \in Byte /\ gm3(d) \in Byte
  BY GmTypes
<1>2. ASSUME NEW x \in Byte
      PROVE  /\ gm2(gm3(x)) = gm4(x) (+) gm2(x)
             /\ gm4(gm3(x)) = gm8(x) (+) gm4(x)
             /\ gm8(gm3(x)) = gm8(gm2(x)) (+) gm8(x)
             /\ gm2(gm2(x)) = gm4(x)
             /\ gm4(gm2(x)) = gm8(x)
  BY GmXor, Gm2Xor, Gm2Type DEF gm3, gm4, gm8
<1>3a. gm2(m0) = gm2(gm2(a)) (+) gm2(gm3(b)) (+) gm2(c) (+) gm2(d)
  BY <1>1, Gm2Sum
<1>3b. gm4(m0) = gm4(gm2(a)) (+) gm4(gm3(b)) (+) gm4(c) (+) gm4(d)
  BY <1>1, GmSums
<1>3c. gm8(m0) = gm8(gm2(a)) (+) gm8(gm3(b)) (+) gm8(c) (+) gm8(d)
  BY <1>1, GmSums
<1>4a. gm2(m1) = gm2(a) (+) gm2(gm2(b)) (+) gm2(gm3(c)) (+) gm2(d)
  BY <1>1, Gm2Sum
<1>4b. gm8(m1) = gm8(a) (+) gm8(gm2(b)) (+) gm8(gm3(c)) (+) gm8(d)
  BY <1>1, GmSums
<1>5a. gm4(m2) = gm4(a) (+) gm4(b) (+) gm4(gm2(c)) (+) gm4(gm3(d))
  BY <1>1, GmSums
<1>5b. gm8(m2) = gm8(a) (+) gm8(b) (+) gm8(gm2(c)) (+) gm8(gm3(d))
  BY <1>1, GmSums
<1>6. gm8(m3) = gm8(gm3(a)) (+) gm8(b) (+) gm8(c) (+) gm8(gm2(d))
  BY <1>1, GmSums
<1>8. /\ gm2(gm3(b)) = gm4(b) (+) gm2(b) /\ gm4(gm3(b)) = gm8(b) (+) gm4(b)
      /\ gm8(gm3(b)) = gm8(gm2(b)) (+) gm8(b)
      /\ gm2(gm3(c)) = gm4(c) (+) gm2(c) /\ gm8(gm3(c)) = gm8(gm2(c)) (+) gm8(c)
      /\ gm4(gm3(d)) = gm8(d) (+) gm4(d) /\ gm8(gm3(d)) = gm8(gm2(d)) (+) gm8(d)
      /\ gm8(gm3(a)) = gm8(gm2(a)) (+) gm8(a)
      /\ gm2(gm2(a)) = gm4(a) /\ gm4(gm2(a)) = gm8(a)
      /\ gm2(gm2(b)) = gm4(b) /\ gm4(gm2(c)) = gm8(c)
  BY <1>2
<1> SUFFICES ASSUME NEW p
             PROVE  p \in gm14(m0) (+) gm11(m1) (+) gm13(m2) (+) gm09(m3) <=> p \in a
  OBVIOUS
<1>7. \A x, y : p \in x (+) y <=> ~(p \in x <=> p \in y)
  BY DEF (+)
<1> QED
  BY <1>3a, <1>3b, <1>3c, <1>4a, <1>4b, <1>5a, <1>5b, <1>6, <1>7, <1>8
     DEF gm3, gm14, gm11, gm13, gm09

(* inv_mixw undoes mixw: the two matrices are inverses.                    *)
LEMMA InvMixw == ASSUME NEW w \in Word PROVE inv_mixw(mixw(w)) = w
<1> DEFINE b == w2b(w)
           m0 == gm2(b[1]) (+) gm3(b[2]) (+) b[3] (+) b[4]
           m1 == b[1] (+) gm2(b[2]) (+) gm3(b[3]) (+) b[4]
           m2 == b[1] (+) b[2] (+) gm2(b[3]) (+) gm3(b[4])
           m3 == gm3(b[1]) (+) b[2] (+) b[3] (+) gm2(b[4])
<1>1. b[1] \in Byte /\ b[2] \in Byte /\ b[3] \in Byte /\ b[4] \in Byte
  BY W2bType DEF Bytes4
<1>2. m0 \in Byte /\ m1 \in Byte /\ m2 \in Byte /\ m3 \in Byte
  BY <1>1, GmTypes, XorByte
<1>3. mixw(w) = b2w(m0, m1, m2, m3)
  BY DEF mixw
<1>4. b2w(b[1], b[2], b[3], b[4]) = w
  BY B2wW2b
<1>5. /\ m1 = gm2(b[2]) (+) gm3(b[3]) (+) b[4] (+) b[1]
      /\ m2 = b[2] (+) gm2(b[3]) (+) gm3(b[4]) (+) b[1]
      /\ m3 = b[2] (+) b[3] (+) gm2(b[4]) (+) gm3(b[1])
      /\ m0 = gm3(b[2]) (+) b[3] (+) b[4] (+) gm2(b[1])
  BY XorAssoc, XorComm
<1>6. /\ m2 = gm2(b[3]) (+) gm3(b[4]) (+) b[1] (+) b[2]
      /\ m3 = b[3] (+) gm2(b[4]) (+) gm3(b[1]) (+) b[2]
      /\ m0 = b[3] (+) b[4] (+) gm2(b[1]) (+) gm3(b[2])
      /\ m1 = gm3(b[3]) (+) b[4] (+) b[1] (+) gm2(b[2])
  BY XorAssoc, XorComm
<1>7. /\ m3 = gm2(b[4]) (+) gm3(b[1]) (+) b[2] (+) b[3]
      /\ m0 = b[4] (+) gm2(b[1]) (+) gm3(b[2]) (+) b[3]
      /\ m1 = b[4] (+) b[1] (+) gm2(b[2]) (+) gm3(b[3])
      /\ m2 = gm3(b[4]) (+) b[1] (+) b[2] (+) gm2(b[3])
  BY XorAssoc, XorComm
<1>8. gm14(m0) (+) gm11(m1) (+) gm13(m2) (+) gm09(m3) = b[1]
  BY <1>1, MixCancel
<1>9. gm14(m1) (+) gm11(m2) (+) gm13(m3) (+) gm09(m0) = b[2]
  <2> HIDE DEF m0, m1, m2, m3, b
  <2> QED  BY <1>1, <1>5, MixCancel
<1>10. gm14(m2) (+) gm11(m3) (+) gm13(m0) (+) gm09(m1) = b[3]
  <2> HIDE DEF m0, m1, m2, m3, b
  <2> QED  BY <1>1, <1>6, MixCancel
<1>11. gm14(m3) (+) gm11(m0) (+) gm13(m1) (+) gm09(m2) = b[4]
  <2> HIDE DEF m0, m1, m2, m3, b
  <2> QED  BY <1>1, <1>7, MixCancel
<1> HIDE DEF m0, m1, m2, m3, b
<1>12. w2b(mixw(w)) = << m0, m1, m2, m3 >>
  BY <1>2, <1>3, W2bB2w
<1>13. inv_mixw(mixw(w)) =
         b2w(gm14(m0) (+) gm11(m1) (+) gm13(m2) (+) gm09(m3),
             gm09(m0) (+) gm14(m1) (+) gm11(m2) (+) gm13(m3),
             gm13(m0) (+) gm09(m1) (+) gm14(m2) (+) gm11(m3),
             gm11(m0) (+) gm13(m1) (+) gm09(m2) (+) gm14(m3))
  BY <1>12 DEF inv_mixw
<1>14. \A x, y, z, u : /\ x (+) y (+) z (+) u = y (+) z (+) u (+) x
                       /\ x (+) y (+) z (+) u = z (+) u (+) x (+) y
                       /\ x (+) y (+) z (+) u = u (+) x (+) y (+) z
  BY XorAssoc, XorComm
<1> QED  BY <1>4, <1>8, <1>9, <1>10, <1>11, <1>13, <1>14

-----------------------------------------------------------------------------
(* The steps of a round yield blocks, and have inverses.                   *)

(* Every step of a round, of encipher or of decipher, maps blocks to       *)
(* blocks.                                                                 *)
THEOREM StepTypes ==
  ASSUME NEW b \in Block, NEW k \in Block
  PROVE  /\ addroundkey(k, b) \in Block
         /\ subbytes(b) \in Block /\ inv_subbytes(b) \in Block
         /\ shiftrows(b) \in Block /\ inv_shiftrows(b) \in Block
         /\ mixcolumns(b) \in Block /\ inv_mixcolumns(b) \in Block
<1>1. b[1] \in Word /\ b[2] \in Word /\ b[3] \in Word /\ b[4] \in Word
  BY DEF Block
<1>2. addroundkey(k, b) \in Block
  BY XorWord DEF Block, addroundkey
<1>3. subbytes(b) \in Block /\ inv_subbytes(b) \in Block
  BY <1>1, SubstwType, InvSubstwType DEF Block, subbytes, inv_subbytes
<1>4. mixcolumns(b) \in Block /\ inv_mixcolumns(b) \in Block
  BY <1>1, MixwType, InvMixwType DEF Block, mixcolumns, inv_mixcolumns
<1>5. shiftrows(b) \in Block /\ inv_shiftrows(b) \in Block
  BY <1>1, W2bType, B2wType DEF Block, Bytes4, shiftrows, inv_shiftrows
<1> QED  BY <1>2, <1>3, <1>4, <1>5

(* Adding a round key twice changes nothing.                               *)
LEMMA InvAddroundkey ==
  ASSUME NEW b \in Block, NEW k \in Block
  PROVE  addroundkey(k, addroundkey(k, b)) = b
BY XorCancel DEF Block, addroundkey

(* inv_subbytes undoes subbytes.                                           *)
LEMMA InvSubbytes == ASSUME NEW b \in Block PROVE inv_subbytes(subbytes(b)) = b
BY InvSubstw DEF Block, subbytes, inv_subbytes

(* inv_mixcolumns undoes mixcolumns.                                       *)
LEMMA InvMixcolumns ==
  ASSUME NEW b \in Block PROVE inv_mixcolumns(mixcolumns(b)) = b
BY InvMixw DEF Block, mixcolumns, inv_mixcolumns

(* The bytes of a word, by name.                                           *)
LEMMA WordBytes ==
  ASSUME NEW w \in Word
  PROVE  \E x, y, z, u \in Byte : /\ w = b2w(x, y, z, u)
                                  /\ w2b(w) = << x, y, z, u >>
<1>1. w2b(w) = << w2b(w)[1], w2b(w)[2], w2b(w)[3], w2b(w)[4] >>
  BY W2bType DEF Bytes4
<1> QED  BY <1>1, W2bType, B2wW2b DEF Bytes4

(* inv_shiftrows undoes shiftrows, row by row.                             *)
LEMMA InvShiftrows ==
  ASSUME NEW b \in Block PROVE inv_shiftrows(shiftrows(b)) = b
<1>1. b[1] \in Word /\ b[2] \in Word /\ b[3] \in Word /\ b[4] \in Word
  BY DEF Block
<1>2. PICK p0, p1, p2, p3 \in Byte :
        b[1] = b2w(p0, p1, p2, p3) /\ w2b(b[1]) = << p0, p1, p2, p3 >>
  BY <1>1, WordBytes
<1>3. PICK q0, q1, q2, q3 \in Byte :
        b[2] = b2w(q0, q1, q2, q3) /\ w2b(b[2]) = << q0, q1, q2, q3 >>
  BY <1>1, WordBytes
<1>4. PICK r0, r1, r2, r3 \in Byte :
        b[3] = b2w(r0, r1, r2, r3) /\ w2b(b[3]) = << r0, r1, r2, r3 >>
  BY <1>1, WordBytes
<1>5. PICK s0, s1, s2, s3 \in Byte :
        b[4] = b2w(s0, s1, s2, s3) /\ w2b(b[4]) = << s0, s1, s2, s3 >>
  BY <1>1, WordBytes
<1>6. shiftrows(b) = << b2w(p0, q1, r2, s3),
                      b2w(q0, r1, s2, p3),
                      b2w(r0, s1, p2, q3),
                      b2w(s0, p1, q2, r3) >>
  BY <1>2, <1>3, <1>4, <1>5 DEF shiftrows
<1>7. /\ w2b(b2w(p0, q1, r2, s3)) = << p0, q1, r2, s3 >>
      /\ w2b(b2w(q0, r1, s2, p3)) = << q0, r1, s2, p3 >>
      /\ w2b(b2w(r0, s1, p2, q3)) = << r0, s1, p2, q3 >>
      /\ w2b(b2w(s0, p1, q2, r3)) = << s0, p1, q2, r3 >>
  BY W2bB2w
<1>8. b = << b[1], b[2], b[3], b[4] >>
  BY DEF Block
<1> QED
  BY <1>2, <1>3, <1>4, <1>5, <1>6, <1>7, <1>8 DEF inv_shiftrows

(* A round of decipher undoes a round of encipher, whatever the block and  *)
(* the round key.                                                          *)
THEOREM RoundInverse ==
  ASSUME NEW b \in Block, NEW k \in Block
  PROVE  /\ inv_subbytes(inv_shiftrows(inv_mixcolumns(addroundkey(k,
              addroundkey(k, mixcolumns(shiftrows(subbytes(b)))))))) = b
         /\ inv_subbytes(inv_shiftrows(addroundkey(k,
              addroundkey(k, shiftrows(subbytes(b)))))) = b
<1>1. /\ subbytes(b) \in Block
      /\ shiftrows(subbytes(b)) \in Block
      /\ mixcolumns(shiftrows(subbytes(b))) \in Block
  BY StepTypes
<1> QED
  BY <1>1, InvAddroundkey, InvMixcolumns, InvShiftrows, InvSubbytes

=============================================================================
