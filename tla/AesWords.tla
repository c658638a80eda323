------------------------------- MODULE AesWords -------------------------------
(***************************************************************************)
(* The arithmetic of the Python reference model of the cipher (aes.py;     *)
(* aes_key_gen.py has the same functions).  A byte or a word is the set of *)
(* the positions of its one bits, 0 being the least significant, so that   *)
(* exclusive or is the symmetric difference and a shift moves the          *)
(* positions.  A block, and a round key, is a tuple of four words.         *)
(***************************************************************************)
EXTENDS Integers, Sequences

Byte == SUBSET (0 .. 7)
Word == SUBSET (0 .. 31)
Block == Word \X Word \X Word \X Word
Key256 == Word \X Word \X Word \X Word \X Word \X Word \X Word \X Word

CONSTANTS sbox, inv_sbox  (* The substitution tables.                      *)

ASSUME SboxAssumption ==
  /\ sbox \in [Byte -> Byte]
  /\ inv_sbox \in [Byte -> Byte]
  /\ \A b \in Byte : inv_sbox[sbox[b]] = b

-----------------------------------------------------------------------------
(* Words and bytes.                                                        *)

a (+) b == (a \ b) \cup (b \ a)

Shl(w, n) == {i \in 0 .. 31 : i - n \in w}
Shr(w, n) == {i \in 0 .. 31 : i + n \in w}

w2b(w) == << Shr(w, 24), Shr(w, 16) \cap (0 .. 7),
             Shr(w, 8) \cap (0 .. 7), w \cap (0 .. 7) >>

b2w(b0, b1, b2, b3) == Shl(b0, 24) \cup Shl(b1, 16) \cup Shl(b2, 8) \cup b3

(* Mutant: the rotation goes the other way.                                *)
rolxRight(w, x) == Shl(w, 32 - x) \cup Shr(w, x)

rolx(w, x) == Shl(w, x) \cup Shr(w, 32 - x)

(* Multiplication in GF(2^8), by 2 and by what the two mixing steps need.  *)
gm2(b) ==
  (Shl(b, 1) (+) (IF 7 \in b THEN {0, 1, 3, 4} ELSE {})) \cap (0 .. 7)
gm3(b) == gm2(b) (+) b
gm4(b) == gm2(gm2(b))
gm8(b) == gm2(gm4(b))
gm09(b) == gm8(b) (+) b
gm11(b) == gm8(b) (+) gm2(b) (+) b
gm13(b) == gm8(b) (+) gm4(b) (+) b
gm14(b) == gm8(b) (+) gm4(b) (+) gm2(b)

-----------------------------------------------------------------------------
(* The steps of a round.                                                   *)

substw(w) == LET b == w2b(w)
             IN b2w(sbox[b[1]], sbox[b[2]], sbox[b[3]], sbox[b[4]])

inv_substw(w) ==
  LET b == w2b(w)
  IN b2w(inv_sbox[b[1]], inv_sbox[b[2]], inv_sbox[b[3]], inv_sbox[b[4]])

(* Mutant: the coefficients of the last row are swapped.                   *)
mixwSwapped(w) ==
  LET b == w2b(w)
  IN b2w(gm2(b[1]) (+) gm3(b[2]) (+) b[3] (+) b[4],
         b[1] (+) gm2(b[2]) (+) gm3(b[3]) (+) b[4],
         b[1] (+) b[2] (+) gm2(b[3]) (+) gm3(b[4]),
         gm2(b[1]) (+) b[2] (+) b[3] (+) gm3(b[4]))

mixw(w) ==
  LET b == w2b(w)
  IN b2w(gm2(b[1]) (+) gm3(b[2]) (+) b[3] (+) b[4],
         b[1] (+) gm2(b[2]) (+) gm3(b[3]) (+) b[4],
         b[1] (+) b[2] (+) gm2(b[3]) (+) gm3(b[4]),
         gm3(b[1]) (+) b[2] (+) b[3] (+) gm2(b[4]))

inv_mixw(w) ==
  LET b == w2b(w)
  IN b2w(gm14(b[1]) (+) gm11(b[2]) (+) gm13(b[3]) (+) gm09(b[4]),
         gm09(b[1]) (+) gm14(b[2]) (+) gm11(b[3]) (+) gm13(b[4]),
         gm13(b[1]) (+) gm09(b[2]) (+) gm14(b[3]) (+) gm11(b[4]),
         gm11(b[1]) (+) gm13(b[2]) (+) gm09(b[3]) (+) gm14(b[4]))

addroundkey(key, block) ==
  << block[1] (+) key[1], block[2] (+) key[2],
     block[3] (+) key[3], block[4] (+) key[4] >>

subbytes(b) == << substw(b[1]), substw(b[2]), substw(b[3]), substw(b[4]) >>

inv_subbytes(b) ==
  << inv_substw(b[1]), inv_substw(b[2]), inv_substw(b[3]), inv_substw(b[4]) >>

mixcolumns(b) == << mixw(b[1]), mixw(b[2]), mixw(b[3]), mixw(b[4]) >>

inv_mixcolumns(b) ==
  << inv_mixw(b[1]), inv_mixw(b[2]), inv_mixw(b[3]), inv_mixw(b[4]) >>

(* Row r of the block, byte r of each word, is rotated by r words.         *)
shiftrows(b) ==
  LET c0 == w2b(b[1])
      c1 == w2b(b[2])
      c2 == w2b(b[3])
      c3 == w2b(b[4])
  IN << b2w(c0[1], c1[2], c2[3], c3[4]), b2w(c1[1], c2[2], c3[3], c0[4]),
        b2w(c2[1], c3[2], c0[3], c1[4]), b2w(c3[1], c0[2], c1[3], c2[4]) >>

inv_shiftrows(b) ==
  LET c0 == w2b(b[1])
      c1 == w2b(b[2])
      c2 == w2b(b[3])
      c3 == w2b(b[4])
  IN << b2w(c0[1], c3[2], c2[3], c1[4]), b2w(c1[1], c0[2], c3[3], c2[4]),
        b2w(c2[1], c1[2], c0[3], c3[4]), b2w(c3[1], c2[2], c1[3], c0[4]) >>

-----------------------------------------------------------------------------
(* The steps of the key schedules.                                         *)

(* get_rcon: 0x8d, multiplied by 2 as often as the number of the round.    *)
get_rcon[round \in Nat] == IF round = 0 THEN {0, 2, 3, 7}
                           ELSE gm2(get_rcon[round - 1])

(* The words of a key, each combined with all of the words before it.      *)
Chain(w, t) ==
  << w[1] (+) t, w[2] (+) w[1] (+) t, w[3] (+) w[2] (+) w[1] (+) t,
     w[4] (+) w[3] (+) w[2] (+) w[1] (+) t >>

next_128bit_key(prev_key, rcon) ==
  Chain(prev_key, substw(rolx(prev_key[4], 8)) (+) Shl(rcon, 24))

next_256it_key_a(key0, key1, rcon) ==
  Chain(key0, substw(rolx(key1[4], 8)) (+) Shl(rcon, 24))

(* Mutant: the word is rotated as in the other half.                       *)
next_256it_key_bRotated(key0, key1) == Chain(key0, substw(rolx(key1[4], 8)))

next_256it_key_b(key0, key1) == Chain(key0, substw(key1[4]))

=============================================================================
