------------------------------- MODULE RconKeys --------------------------------
(***************************************************************************)
(* The key expansion of rcon.py, which takes keys of 128, 192 and 256 bits *)
(* and has one rule for the next four words, next_words, for all of them.  *)
(* Its substw and rol8 are those of aes_key_gen.py (AesWords).             *)
(***************************************************************************)
EXTENDS AesWords

(* Mutant: the third word is combined with the old second word.            *)
next_wordsOld(prev_words, rcon) ==
  LET tmp == substw(rolx(prev_words[4], 8)) (+) Shl(rcon, 24)
      x0 == prev_words[1] (+) tmp
      x1 == prev_words[2] (+) x0
      x2 == prev_words[3] (+) prev_words[2]
  IN << x0, x1, x2, prev_words[4] (+) x2 >>

(* Every word is combined with the new word before it.                     *)
next_words(prev_words, rcon) ==
  LET tmp == substw(rolx(prev_words[4], 8)) (+) Shl(rcon, 24)
      x0 == prev_words[1] (+) tmp
      x1 == prev_words[2] (+) x0
      x2 == prev_words[3] (+) x1
      x3 == prev_words[4] (+) x2
  IN << x0, x1, x2, x3 >>

(* The round keys before the loop, and how often the loop runs.            *)
KeysBefore(k) ==
  IF Len(k) = 4 THEN << k >>
  ELSE IF Len(k) = 6
  THEN LET first == << k[1], k[2], k[3], k[4] >>
           x == next_words(first, get_rcon[1])
       IN << first, << k[5], k[6], x[3], x[4] >> >>
  ELSE << << k[1], k[2], k[3], k[4] >>, << k[5], k[6], k[7], k[8] >> >>

nr_rounds(k) == IF Len(k) = 4 THEN 10 ELSE IF Len(k) = 6 THEN 11 ELSE 13

(* What the list holds after each run.                                     *)
KeysAfter(k) ==
  LET list[n \in 0 .. nr_rounds(k)] ==
        IF n = 0 THEN KeysBefore(k)
        ELSE LET keys == list[n - 1]
             IN Append(keys, next_words(keys[n], get_rcon[n]))
  IN list

key_gen(k) == KeysAfter(k)[nr_rounds(k)]

=============================================================================
