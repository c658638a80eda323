-------------------------------- MODULE AesKeys --------------------------------
(***************************************************************************)
(* The key expansion of the reference model: key_gen of aes_key_gen.py and *)
(* key_gen128 and key_gen256 of aes.py, which compute the same list of     *)
(* round keys.  A step is one round of the loop that appends to the list.  *)
(***************************************************************************)
EXTENDS AesWords

CONSTANTS Keys  (* The keys: four words (AES-128) or eight (AES-256).      *)

ASSUME KeysAssumption ==
  Keys \subseteq Block \cup Key256

VARIABLES key, round_keys, j
keyVars == <<key, round_keys, j>>

AES_128_ROUNDS == 10
AES_256_ROUNDS == 14

NumRounds == IF Len(key) = 4 THEN AES_128_ROUNDS ELSE AES_256_ROUNDS

FirstKeys(k) == IF Len(k) = 4 THEN << k >>
                ELSE << << k[1], k[2], k[3], k[4] >>, << k[5], k[6], k[7], k[8] >> >>

KeyInit ==
  /\ key \in Keys
  /\ round_keys = FirstKeys(key)
  /\ j = 1

(* Mutant: one round too many.                                             *)
KeyRound128Late ==
  /\ Len(key) = 4
  /\ Len(round_keys) <= AES_128_ROUNDS + 1
  /\ round_keys' =
       Append(round_keys, next_128bit_key(round_keys[j], get_rcon[j]))
  /\ j' = j + 1
  /\ UNCHANGED key

KeyRound128 ==
  /\ Len(key) = 4
  /\ Len(round_keys) <= AES_128_ROUNDS
  /\ round_keys' =
       Append(round_keys, next_128bit_key(round_keys[j], get_rcon[j]))
  /\ j' = j + 1
  /\ UNCHANGED key

KeyRound256 ==
  /\ Len(key) = 8
  /\ Len(round_keys) < AES_256_ROUNDS
  /\ LET i == Len(round_keys) - 1
         a == next_256it_key_a(round_keys[i], round_keys[i + 1], get_rcon[j])
         b == next_256it_key_b(round_keys[i + 1], a)
     IN round_keys' = round_keys \o << a, b >>
  /\ j' = j + 1
  /\ UNCHANGED key

(* One final key needs to be generated.                                    *)
LastKey256 ==
  /\ Len(key) = 8
  /\ Len(round_keys) = AES_256_ROUNDS
  /\ round_keys' = Append(round_keys, next_256it_key_a(round_keys[13],
                                        round_keys[14], get_rcon[7]))
  /\ UNCHANGED <<key, j>>

KeyNext == KeyRound128 \/ KeyRound256 \/ LastKey256

KeySpec == KeyInit /\ [][KeyNext]_keyVars

Expanded == Len(round_keys) = NumRounds + 1

-----------------------------------------------------------------------------
(* Properties.                                                             *)

KeyTypeOK ==
  /\ key \in Keys
  /\ round_keys \in Seq(Block)
  /\ Len(round_keys) \in Len(FirstKeys(key)) .. NumRounds + 1
  /\ j = IF Len(key) = 4 THEN Len(round_keys) ELSE Len(round_keys) \div 2
  /\ Len(key) = 4 \/ Len(round_keys) % 2 = 0 \/ Expanded

(* Word n of a list of round keys, and the recurrence that FIPS 197 gives  *)
(* for the words of a key schedule of Len(k) words.                        *)
KeyWord(keys, n) == keys[(n \div 4) + 1][(n % 4) + 1]

FipsWord(k, keys, n) ==
  LET Nk == Len(k)
      temp == KeyWord(keys, n - 1)
  IN KeyWord(keys, n - Nk) (+)
       (IF n % Nk = 0 THEN substw(rolx(temp, 8)) (+) Shl(get_rcon[n \div Nk], 24)
        ELSE IF Nk > 6 /\ n % Nk = 4 THEN substw(temp)
        ELSE temp)

ExpandsKey(k, keys) ==
  \A n \in 0 .. 4 * Len(keys) - 1 :
    KeyWord(keys, n) = IF n < Len(k) THEN k[n + 1] ELSE FipsWord(k, keys, n)

(* The words computed four at a time are those of the standard's           *)
(* word-by-word schedule, for both key lengths.                            *)
FollowsFips == ExpandsKey(key, round_keys)

(* For keys of 128 bits rcon.py, which has a loop and a rule of its own,   *)
(* computes the same round keys.                                           *)
Rcon == INSTANCE RconKeys
Rcon128Agrees ==
  Len(key) = 4 /\ Expanded => Rcon!key_gen(key) = round_keys

=============================================================================
