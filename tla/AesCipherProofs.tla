---------------------------- MODULE AesCipherProofs ----------------------------
(***************************************************************************)
(* For every set of keys and blocks and every S-box with an inverse: the   *)
(* key expansion follows the recurrence of the standard and decipher       *)
(* retraces encipher.                                                      *)
(***************************************************************************)
EXTENDS AesCipher, AesWordsProofs, SequenceTheorems

(* Round key n of an expansion, from the round keys before it.             *)
NextKey(k, keys, n) ==
  IF Len(k) = 4 THEN next_128bit_key(keys[n - 1], get_rcon[n - 1])
  ELSE IF n % 2 = 1
  THEN next_256it_key_a(keys[n - 2], keys[n - 1], get_rcon[(n - 1) \div 2])
  ELSE next_256it_key_b(keys[n - 2], keys[n - 1])

Recurrence(k, keys) ==
  \A n \in 1 .. Len(keys) :
    keys[n] = IF n <= Len(FirstKeys(k)) THEN FirstKeys(k)[n]
              ELSE NextKey(k, keys, n)

KeyInv == KeyTypeOK /\ Recurrence(key, round_keys)

(* The block that follows block number n of a trace.                       *)
NextBlock(keys, n, b) ==
  IF n = 1 THEN addroundkey(keys[1], b)
  ELSE IF n <= NumRounds
  THEN addroundkey(keys[n], mixcolumns(shiftrows(subbytes(b))))
  ELSE addroundkey(keys[n], shiftrows(subbytes(b)))

(* The round keys of the call in progress are those of the first call.     *)
SameKeys ==
  /\ i > 0 => Expanded
  /\ IF encdec = "encipher"
     THEN i > 0 => used_keys = round_keys
     ELSE /\ used_keys \in Seq(Block)
          /\ Len(used_keys) = NumRounds + 1
          /\ Recurrence(key, used_keys)
          /\ \A n \in 1 .. Len(round_keys) : round_keys[n] = used_keys[n]

TraceRight ==
  /\ \A n \in 1 .. Len(trace) - 1 : trace[n + 1] = NextBlock(used_keys, n, trace[n])
  /\ encdec = "encipher" => tmp_block = trace[i + 1]

IInv == TypeOK /\ Recurrence(key, round_keys) /\ SameKeys /\ TraceRight
        /\ DecipherRetraces

-----------------------------------------------------------------------------
(* The key expansion.                                                      *)

(* A key has four words or eight, and yields one round key or two.         *)
LEMMA KeyLengths ==
  ASSUME NEW k \in Keys
  PROVE  \/ k \in Block /\ Len(k) = 4 /\ FirstKeys(k) = << k >>
         \/ /\ k \in Key256 /\ Len(k) = 8
            /\ FirstKeys(k) = << << k[1], k[2], k[3], k[4] >>,
                                 << k[5], k[6], k[7], k[8] >> >>
            /\ << k[1], k[2], k[3], k[4] >> \in Block
            /\ << k[5], k[6], k[7], k[8] >> \in Block
<1>1. CASE k \in Block
  <2>1. Len(k) = 4
    BY <1>1 DEF Block
  <2> QED  BY <1>1, <2>1 DEF FirstKeys
<1>2. CASE k \in Key256
  <2>1. Len(k) = 8
    BY <1>2 DEF Key256
  <2>2. /\ k[1] \in Word /\ k[2] \in Word /\ k[3] \in Word /\ k[4] \in Word
        /\ k[5] \in Word /\ k[6] \in Word /\ k[7] \in Word /\ k[8] \in Word
    BY <1>2 DEF Key256
  <2> QED  BY <1>2, <2>1, <2>2 DEF FirstKeys, Block
<1> QED  BY <1>1, <1>2, KeysAssumption

(* The first round keys are blocks.                                        *)
LEMMA FirstKeysType ==
  ASSUME NEW k \in Keys
  PROVE  /\ FirstKeys(k) \in Seq(Block)
         /\ Len(FirstKeys(k)) = IF Len(k) = 4 THEN 1 ELSE 2
         /\ Len(k) \in {4, 8}
<1>1. CASE k \in Block /\ Len(k) = 4 /\ FirstKeys(k) = << k >>
  BY <1>1
<1>2. CASE Len(k) = 8 /\ \E a, b \in Block : FirstKeys(k) = << a, b >>
  BY <1>2
<1> QED  BY <1>1, <1>2, KeyLengths

(* A chain of words over a block is a block.                               *)
LEMMA ChainType ==
  ASSUME NEW w \in Block, NEW t \in Word PROVE Chain(w, t) \in Block
BY XorWord DEF Chain, Block

(* Shifted words are words.                                                *)
LEMMA ShiftType == ASSUME NEW w, NEW n PROVE Shl(w, n) \in Word /\ Shr(w, n) \in Word
BY DEF Shl, Shr, Word

(* The next round keys are blocks.                                         *)
LEMMA NextKeyTypes ==
  ASSUME NEW a \in Block, NEW b \in Block, NEW rcon
  PROVE  /\ next_128bit_key(a, rcon) \in Block
         /\ next_256it_key_a(a, b, rcon) \in Block
         /\ next_256it_key_b(a, b) \in Block
<1>1. a[4] \in Word /\ b[4] \in Word
  BY DEF Block
<1>2. \A w : rolx(w, 8) \in Word
  <2>1. \A x, y : x \in Word /\ y \in Word => x \cup y \in Word
    BY DEF Word
  <2> QED  BY <2>1, ShiftType DEF rolx
<1>3. /\ substw(rolx(a[4], 8)) (+) Shl(rcon, 24) \in Word
      /\ substw(rolx(b[4], 8)) (+) Shl(rcon, 24) \in Word
      /\ substw(b[4]) \in Word
  BY <1>1, <1>2, SubstwType, ShiftType, XorWord
<1> QED
  BY <1>3, ChainType DEF next_128bit_key, next_256it_key_a, next_256it_key_b

(* What is appended is what the recurrence asks for.                       *)
LEMMA AppendKey ==
  ASSUME NEW k \in Keys, NEW keys \in Seq(Block), NEW x \in Block,
         Recurrence(k, keys), Len(keys) >= Len(FirstKeys(k)),
         x = NextKey(k, keys, Len(keys) + 1)
  PROVE  Append(keys, x) \in Seq(Block) /\ Recurrence(k, Append(keys, x))
<1> DEFINE new == Append(keys, x)
<1>1. /\ new \in Seq(Block) /\ Len(new) = Len(keys) + 1
      /\ new[Len(keys) + 1] = x
      /\ \A n \in 1 .. Len(keys) : new[n] = keys[n]
      /\ Len(keys) \in Nat
  OBVIOUS
<1>2. Len(FirstKeys(k)) = IF Len(k) = 4 THEN 1 ELSE 2
  BY FirstKeysType
<1> HIDE DEF new
<1>3. ASSUME NEW n \in 1 .. Len(keys) + 1, n > Len(FirstKeys(k))
      PROVE  NextKey(k, new, n) = NextKey(k, keys, n)
  <2>1. n - 1 \in 1 .. Len(keys)
    BY <1>1, <1>2, <1>3
  <2>2. Len(k) # 4 => n - 2 \in 1 .. Len(keys)
    BY <1>1, <1>2, <1>3
  <2> QED  BY <1>1, <2>1, <2>2 DEF NextKey
<1>4. ASSUME NEW n \in 1 .. Len(new)
      PROVE  new[n] = IF n <= Len(FirstKeys(k)) THEN FirstKeys(k)[n]
                      ELSE NextKey(k, new, n)
  <2>1. CASE n = Len(keys) + 1
    BY <1>1, <1>2, <1>3, <2>1
  <2>2. CASE n \in 1 .. Len(keys)
    <3>1. new[n] = IF n <= Len(FirstKeys(k)) THEN FirstKeys(k)[n]
                   ELSE NextKey(k, keys, n)
      BY <1>1, <2>2 DEF Recurrence
    <3> QED  BY <1>1, <1>2, <1>3, <2>2, <3>1
  <2> QED  BY <1>1, <2>1, <2>2
<1>5. Recurrence(k, new)
  BY <1>4 DEF Recurrence
<1> QED  BY <1>1, <1>5 DEF new

(* Parities and halves of the two numbers that follow an even one.         *)
LEMMA Parity ==
  ASSUME NEW n \in Nat, n % 2 = 0
  PROVE  /\ (n + 1) % 2 = 1 /\ (n + 2) % 2 = 0
         /\ (n + 2) \div 2 = (n \div 2) + 1 /\ (n + 1) \div 2 = n \div 2
OBVIOUS

(* The round keys stay those of the recurrence, one or two at a time.      *)
LEMMA KeyStep == ASSUME KeyInv, KeyNext PROVE KeyInv'
<1>0. /\ key' = key /\ key \in Keys
      /\ Len(FirstKeys(key)) = IF Len(key) = 4 THEN 1 ELSE 2
      /\ Len(key) \in {4, 8}
      /\ FirstKeys(key') = FirstKeys(key)
      /\ NumRounds = IF Len(key) = 4 THEN 10 ELSE 14
      /\ NumRounds' = NumRounds
  BY FirstKeysType
     DEF KeyInv, KeyTypeOK, KeyNext, KeyRound128, KeyRound256, LastKey256,
         NumRounds, AES_128_ROUNDS, AES_256_ROUNDS
<1>b. PICK n \in Nat : n = Len(round_keys)
  BY DEF KeyInv, KeyTypeOK
<1>c. round_keys \in Seq(Block) /\ Recurrence(key, round_keys)
  BY DEF KeyInv, KeyTypeOK
<1>d. \A m \in 1 .. n : round_keys[m] \in Block
  BY <1>b, <1>c
<1>e. /\ Len(key) = 4 => j = n /\ n \in 1 .. 11
      /\ Len(key) = 8 => j = n \div 2 /\ (n % 2 = 0 \/ n = 15) /\ n \in 2 .. 15
  <2>1. /\ n \in Len(FirstKeys(key)) .. NumRounds + 1
        /\ j = IF Len(key) = 4 THEN n ELSE n \div 2
        /\ Len(key) = 4 \/ n % 2 = 0 \/ n = NumRounds + 1
    BY <1>b DEF KeyInv, KeyTypeOK, Expanded
  <2>2. CASE Len(key) = 4
    BY <1>0, <2>1, <2>2
  <2>3. CASE Len(key) = 8
    BY <1>0, <2>1, <2>3
  <2> QED  BY <1>0, <2>2, <2>3
<1>a. /\ n = Len(round_keys) /\ n >= Len(FirstKeys(key)) /\ round_keys \in Seq(Block)
      /\ Recurrence(key, round_keys) /\ \A m \in 1 .. n : round_keys[m] \in Block
  BY <1>0, <1>b, <1>c, <1>d, <1>e
<1>1. CASE KeyRound128
  <2> DEFINE x == next_128bit_key(round_keys[j], get_rcon[j])
  <2>1. Len(key) = 4 /\ n \in 1 .. 10 /\ j = n
    <3>1. Len(key) = 4 /\ n <= 10
      BY <1>b, <1>1 DEF KeyRound128, AES_128_ROUNDS
    <3> QED  BY <1>e, <3>1
  <2>2. x = NextKey(key, round_keys, n + 1)
    BY <2>1 DEF NextKey
  <2>3. x \in Block
    BY <1>d, <2>1, NextKeyTypes
  <2>4. round_keys' = Append(round_keys, x) /\ j' = j + 1
    BY <1>1 DEF KeyRound128
  <2> HIDE DEF x
  <2>5. round_keys' \in Seq(Block) /\ Recurrence(key, round_keys')
    BY <1>0, <1>a, <2>1, <2>2, <2>3, <2>4, AppendKey
  <2>6. Len(round_keys') = n + 1
    BY <1>a, <2>3, <2>4
  <2> QED
    BY <1>0, <2>1, <2>4, <2>5, <2>6 DEF KeyInv, KeyTypeOK
<1>2. CASE KeyRound256
  <2> DEFINE a == next_256it_key_a(round_keys[n - 1], round_keys[n], get_rcon[j])
             b == next_256it_key_b(round_keys[n], a)
             mid == Append(round_keys, a)
  <2>1. /\ Len(key) = 8 /\ n \in 2 .. 13 /\ n % 2 = 0 /\ j = n \div 2
    <3> HIDE DEF a, b, mid
    <3>1. Len(key) = 8 /\ n < 14
      BY <1>a, <1>2 DEF KeyRound256, AES_256_ROUNDS
    <3> QED  BY <1>e, <3>1
  <2>2. round_keys[n - 1] \in Block /\ round_keys[n] \in Block
    BY <1>a, <2>1
  <2>3. a \in Block /\ b \in Block
    BY <2>2, NextKeyTypes
  <2>4. (n + 1) % 2 = 1 /\ (n + 2) % 2 = 0 /\ (n + 2) \div 2 = j + 1
    BY <2>1, Parity
  <2>5. a = NextKey(key, round_keys, n + 1)
    BY <2>1, <2>4 DEF NextKey
  <2>6. round_keys' = round_keys \o << a, b >> /\ j' = j + 1
    <3>1. (Len(round_keys) - 1) + 1 = n /\ Len(round_keys) - 1 = n - 1
      BY <1>a
    <3> QED  BY <1>2, <3>1 DEF KeyRound256
  <2>7. mid \in Seq(Block) /\ Recurrence(key, mid)
    BY <1>0, <1>a, <2>3, <2>5, AppendKey
  <2>8. Len(mid) = n + 1 /\ mid[n] = round_keys[n] /\ mid[n + 1] = a
    <3> HIDE DEF a
    <3> QED  BY <1>a, <2>1, <2>3
  <2>9. b = NextKey(key, mid, n + 2)
    <3> HIDE DEF a, mid
    <3>1. Len(key) # 4 /\ (n + 2) % 2 # 1 /\ (n + 2) - 2 = n /\ (n + 2) - 1 = n + 1
      BY <2>1, <2>4
    <3>2. NextKey(key, mid, n + 2) = next_256it_key_b(mid[n], mid[n + 1])
      BY <3>1 DEF NextKey
    <3> QED  BY <2>8, <3>2
  <2>10. round_keys' = Append(mid, b)
    <3> HIDE DEF a, b
    <3> QED  BY <1>a, <2>3, <2>6
  <2> HIDE DEF a, b, mid
  <2>11. Append(mid, b) \in Seq(Block) /\ Recurrence(key, Append(mid, b))
    BY <1>0, <2>1, <2>3, <2>7, <2>8, <2>9, AppendKey
  <2>12. Len(round_keys') = n + 2
    BY <2>3, <2>7, <2>8, <2>10, <1>a
  <2> QED
    <3> DEFINE m == Len(round_keys')
    <3>1. m % 2 = 0 /\ m \div 2 = j' /\ m \in 2 .. 15
      BY <2>1, <2>4, <2>6, <2>12
    <3> QED  BY <1>0, <2>1, <2>10, <2>11, <3>1 DEF KeyInv, KeyTypeOK
<1>3. CASE LastKey256
  <2> DEFINE a == next_256it_key_a(round_keys[13], round_keys[14], get_rcon[7])
  <2>1. Len(key) = 8 /\ n = 14
    BY <1>3, <1>a DEF LastKey256, AES_256_ROUNDS
  <2>2. a \in Block
    <3>1. round_keys[13] \in Block /\ round_keys[14] \in Block
      BY <1>a, <2>1
    <3> QED  BY <3>1, NextKeyTypes
  <2>3. a = NextKey(key, round_keys, n + 1)
    BY <2>1 DEF NextKey
  <2>4. round_keys' = Append(round_keys, a) /\ j' = j
    BY <1>3 DEF LastKey256
  <2> HIDE DEF a
  <2>5. round_keys' \in Seq(Block) /\ Recurrence(key, round_keys')
    BY <1>0, <1>a, <2>1, <2>2, <2>3, <2>4, AppendKey
  <2>6. Len(round_keys') = 15
    <3>1. Len(round_keys') = Len(round_keys) + 1
      BY <1>c, <2>2, <2>4
    <3>2. Len(round_keys) = 14
      BY <1>b, <2>1
    <3>3. Len(round_keys') = 14 + 1
      BY <3>1, <3>2
    <3> QED  BY <3>3
  <2>7. j = 7
    BY <1>e, <2>1
  <2> QED
    <3>1. Len(round_keys') \div 2 = j' /\ Expanded'
      BY <1>0, <2>1, <2>4, <2>6, <2>7 DEF Expanded
    <3> QED  BY <1>0, <2>1, <2>5, <2>6, <3>1 DEF KeyInv, KeyTypeOK
<1> QED  BY <1>1, <1>2, <1>3 DEF KeyNext

-----------------------------------------------------------------------------
(* The recurrence of the standard, word by word.                           *)

(* Each word of a chain is the one before added to that of the old block.  *)
LEMMA ChainWords ==
  ASSUME NEW w, NEW t
  PROVE  /\ Chain(w, t)[1] = w[1] (+) t
         /\ Chain(w, t)[2] = w[2] (+) Chain(w, t)[1]
         /\ Chain(w, t)[3] = w[3] (+) Chain(w, t)[2]
         /\ Chain(w, t)[4] = w[4] (+) Chain(w, t)[3]
BY XorAssoc DEF Chain

(* A word of the schedule, by round key and place.                         *)
LEMMA WordAt ==
  ASSUME NEW keys, NEW q \in Int, NEW r \in 0 .. 3
  PROVE  KeyWord(keys, 4 * q + r) = keys[q + 1][r + 1]
<1>1. (4 * q + r) \div 4 = q /\ (4 * q + r) % 4 = r
  OBVIOUS
<1> QED  BY <1>1 DEF KeyWord

(* The word before the first word of a round key ends the round key before *)
(* it.                                                                     *)
LEMMA WordBefore ==
  ASSUME NEW keys, NEW q \in Int, NEW r \in 0 .. 3
  PROVE  KeyWord(keys, (4 * q + r) - 1) = IF r = 0 THEN keys[q][4] ELSE keys[q + 1][r]
<1>1. CASE r = 0
  <2>1. (4 * q + r) - 1 = 4 * (q - 1) + 3
    BY <1>1
  <2>2. (q - 1) + 1 = q /\ q - 1 \in Int
    OBVIOUS
  <2>3. KeyWord(keys, 4 * (q - 1) + 3) = keys[(q - 1) + 1][3 + 1]
    BY <2>2, WordAt
  <2> QED  BY <1>1, <2>1, <2>2, <2>3
<1>2. CASE r \in 1 .. 3
  <2>1. (4 * q + r) - 1 = 4 * q + (r - 1) /\ r - 1 \in 0 .. 3 /\ (r - 1) + 1 = r
    BY <1>2
  <2> QED  BY <1>2, <2>1, WordAt
<1> QED  BY <1>1, <1>2

(* The words of AES-128.                                                   *)
LEMMA Words128 ==
  ASSUME NEW k \in Keys, Len(k) = 4, NEW keys \in Seq(Block), Recurrence(k, keys),
         NEW q \in 0 .. Len(keys) - 1, NEW r \in 0 .. 3
  PROVE  KeyWord(keys, 4 * q + r) =
           IF 4 * q + r < Len(k) THEN k[(4 * q + r) + 1]
           ELSE FipsWord(k, keys, 4 * q + r)
<1>0. q \in Int /\ q + 1 \in 1 .. Len(keys)
  <2>1. Len(keys) \in Nat
    OBVIOUS
  <2> QED  BY <2>1
<1>1. KeyWord(keys, 4 * q + r) = keys[q + 1][r + 1]
  BY <1>0, WordAt
<1>2. FirstKeys(k) = << k >>
  BY DEF FirstKeys
<1>3. CASE q = 0
  <2>1. keys[1] = k
    BY <1>0, <1>2, <1>3 DEF Recurrence
  <2> QED  BY <1>1, <1>3, <2>1
<1>4. CASE q >= 1
  <2> DEFINE t == substw(rolx(keys[q][4], 8)) (+) Shl(get_rcon[q], 24)
  <2>1. keys[q + 1] = Chain(keys[q], t)
    <3>1. keys[q + 1] = NextKey(k, keys, q + 1)
      BY <1>0, <1>2, <1>4 DEF Recurrence
    <3>2. (q + 1) - 1 = q
      OBVIOUS
    <3> QED  BY <3>1, <3>2 DEF NextKey, next_128bit_key
  <2>2. ~(4 * q + r < 4) /\ (4 * q + r) - 4 = 4 * (q - 1) + r
        /\ q - 1 \in Int /\ (q - 1) + 1 = q
    BY <1>4
  <2>3. KeyWord(keys, (4 * q + r) - 4) = keys[q][r + 1]
    BY <2>2, WordAt
  <2>4. KeyWord(keys, (4 * q + r) - 1) = IF r = 0 THEN keys[q][4] ELSE keys[q + 1][r]
    BY <1>0, WordBefore
  <2>5. (4 * q + r) % 4 = r /\ (4 * q + r) \div 4 = q
    OBVIOUS
  <2> HIDE DEF t
  <2>6. r # 0 => keys[q + 1][r + 1] = keys[q][r + 1] (+) keys[q + 1][r]
    <3>1. r \in {0, 1, 2, 3}
      OBVIOUS
    <3> QED  BY <2>1, <3>1, ChainWords
  <2>7. r = 0 => keys[q + 1][r + 1] = keys[q][r + 1] (+) t
    BY <2>1, ChainWords
  <2>8. FipsWord(k, keys, 4 * q + r) =
          keys[q][r + 1] (+) (IF r = 0 THEN t ELSE keys[q + 1][r])
    BY <2>3, <2>4, <2>5 DEF FipsWord, t
  <2> QED  BY <1>1, <2>2, <2>6, <2>7, <2>8
<1> QED  BY <1>3, <1>4

(* The words of AES-256: even round keys start with a rotated word and a   *)
(* round constant, odd ones only with a substituted word.                  *)
LEMMA Words256 ==
  ASSUME NEW k \in Keys, Len(k) = 8, NEW keys \in Seq(Block), Recurrence(k, keys),
         NEW q \in 0 .. Len(keys) - 1, NEW r \in 0 .. 3
  PROVE  KeyWord(keys, 4 * q + r) =
           IF 4 * q + r < Len(k) THEN k[(4 * q + r) + 1]
           ELSE FipsWord(k, keys, 4 * q + r)
<1>0. q \in Int /\ q + 1 \in 1 .. Len(keys)
  <2>1. Len(keys) \in Nat
    OBVIOUS
  <2> QED  BY <2>1
<1>1. KeyWord(keys, 4 * q + r) = keys[q + 1][r + 1]
  BY <1>0, WordAt
<1>2. FirstKeys(k) = << << k[1], k[2], k[3], k[4] >>,
                        << k[5], k[6], k[7], k[8] >> >>
  BY DEF FirstKeys
<1>a. r \in {0, 1, 2, 3}
  OBVIOUS
<1>3. CASE q = 0
  <2>1. keys[1] = << k[1], k[2], k[3], k[4] >>
    BY <1>0, <1>2, <1>3 DEF Recurrence
  <2> QED  BY <1>1, <1>3, <1>a, <2>1
<1>4. CASE q = 1
  <2>1. keys[2] = << k[5], k[6], k[7], k[8] >>
    BY <1>0, <1>2, <1>4 DEF Recurrence
  <2> QED  BY <1>1, <1>4, <1>a, <2>1
<1>5. CASE q >= 2
  <2> DEFINE h == q \div 2
             even == q % 2 = 0
             t == IF even
                  THEN substw(rolx(keys[q][4], 8)) (+) Shl(get_rcon[h], 24)
                  ELSE substw(keys[q][4])
  <2>1. keys[q + 1] = Chain(keys[q - 1], t)
    <3>1. keys[q + 1] = NextKey(k, keys, q + 1)
      BY <1>0, <1>2, <1>5 DEF Recurrence
    <3>2. (q + 1) - 1 = q /\ (q + 1) - 2 = q - 1 /\ ((q + 1) % 2 = 1 <=> even)
      OBVIOUS
    <3> QED  BY <3>1, <3>2 DEF NextKey, next_256it_key_a, next_256it_key_b
  <2>2. ~(4 * q + r < 8) /\ (4 * q + r) - 8 = 4 * (q - 2) + r
        /\ q - 2 \in Int /\ (q - 2) + 1 = q - 1
    BY <1>5
  <2>3. KeyWord(keys, (4 * q + r) - 8) = keys[q - 1][r + 1]
    BY <2>2, WordAt
  <2>4. KeyWord(keys, (4 * q + r) - 1) = IF r = 0 THEN keys[q][4] ELSE keys[q + 1][r]
    BY <1>0, WordBefore
  <2>5. /\ even => (4 * q + r) % 8 = r /\ (4 * q + r) \div 8 = h
        /\ ~even => (4 * q + r) % 8 = 4 + r
    <3>1. even => q = 2 * h
      OBVIOUS
    <3>2. ~even => q = 2 * h + 1
      OBVIOUS
    <3> QED  BY <3>1, <3>2
  <2> HIDE DEF t, even, h
  <2>6. r # 0 => keys[q + 1][r + 1] = keys[q - 1][r + 1] (+) keys[q + 1][r]
    BY <1>a, <2>1, ChainWords
  <2>7. r = 0 => keys[q + 1][r + 1] = keys[q - 1][r + 1] (+) t
    BY <2>1, ChainWords
  <2>8. FipsWord(k, keys, 4 * q + r) =
          keys[q - 1][r + 1] (+) (IF r = 0 THEN t ELSE keys[q + 1][r])
    <3>1. CASE even /\ r = 0
      BY <2>3, <2>4, <2>5, <3>1 DEF FipsWord, t
    <3>3. CASE even /\ r # 0
      <4>1. r # 4 /\ (4 * q + r) % 8 = r
        BY <2>5, <3>3
      <4> QED  BY <2>3, <2>4, <3>3, <4>1 DEF FipsWord
    <3>2. CASE ~even
      <4>1. /\ (4 * q + r) % 8 = 4 + r /\ 4 + r # 0
            /\ (4 + r = 4) <=> (r = 0)
        BY <1>a, <2>5, <3>2
      <4>2. CASE r = 0
        BY <2>3, <2>4, <3>2, <4>1, <4>2 DEF FipsWord, t
      <4>3. CASE r # 0
        BY <2>3, <2>4, <4>1, <4>3 DEF FipsWord
      <4> QED  BY <4>2, <4>3
    <3> QED  BY <3>1, <3>2, <3>3
  <2> QED  BY <1>1, <2>2, <2>6, <2>7, <2>8
<1> QED  BY <1>3, <1>4, <1>5

(* The recurrence over round keys is that of the standard over words.      *)
LEMMA RecurrenceExpands ==
  ASSUME NEW k \in Keys, NEW keys \in Seq(Block), Recurrence(k, keys)
  PROVE  ExpandsKey(k, keys)
<1> SUFFICES ASSUME NEW n \in 0 .. 4 * Len(keys) - 1
             PROVE  KeyWord(keys, n) = IF n < Len(k) THEN k[n + 1]
                                       ELSE FipsWord(k, keys, n)
  BY DEF ExpandsKey
<1> DEFINE q == n \div 4
           r == n % 4
<1>1. Len(keys) \in Nat
  OBVIOUS
<1>2. n = 4 * q + r /\ q \in 0 .. Len(keys) - 1 /\ r \in 0 .. 3
  BY <1>1
<1> HIDE DEF q, r
<1>3. Len(k) = 4 \/ Len(k) = 8
  BY FirstKeysType
<1> QED  BY <1>2, <1>3, Words128, Words256

-----------------------------------------------------------------------------
(* The loop of rcon.py.                                                    *)

(* The two rules for the next round key are one.                           *)
LEMMA SameRule ==
  ASSUME NEW w, NEW r
  PROVE  Rcon!next_words(w, r) = next_128bit_key(w, r)
<1> DEFINE t == substw(rolx(w[4], 8)) (+) Shl(r, 24)
           c == Chain(w, t)
<1>1. c = << c[1], c[2], c[3], c[4] >>
  BY DEF Chain
<1>2. /\ c[1] = w[1] (+) t /\ c[2] = w[2] (+) c[1]
      /\ c[3] = w[3] (+) c[2] /\ c[4] = w[4] (+) c[3]
  BY ChainWords
<1>3. Rcon!next_words(w, r) =
        LET x0 == w[1] (+) t
            x1 == w[2] (+) x0
            x2 == w[3] (+) x1
        IN << x0, x1, x2, w[4] (+) x2 >>
  BY DEF Rcon!next_words, substw, Rcon!substw, rolx, Rcon!rolx, Shl, Rcon!Shl,
         Shr, Rcon!Shr, w2b, Rcon!w2b, b2w, Rcon!b2w, (+), Rcon!(+)
<1>4. next_128bit_key(w, r) = c
  BY DEF next_128bit_key
<1> HIDE DEF c, t
<1> QED  BY <1>1, <1>2, <1>3, <1>4

(* The round constants are the same, too.                                  *)
LEMMA SameRcon == Rcon!get_rcon = get_rcon
BY DEF get_rcon, Rcon!get_rcon, gm2, Rcon!gm2, Shl, Rcon!Shl, (+), Rcon!(+)

(* A list of round keys that follows the recurrence is the one that the    *)
(* loop of rcon.py builds.                                                 *)
LEMMA SameList ==
  ASSUME NEW k, Len(k) = 4, NEW keys \in Seq(Block), Len(keys) = 11,
         Recurrence(k, keys)
  PROVE  Rcon!key_gen(k) = keys
<1> DEFINE rule(g) ==
             [n \in 0 .. Rcon!nr_rounds(k) |->
                IF n = 0 THEN Rcon!KeysBefore(k)
                ELSE Append(g[n - 1],
                            Rcon!next_words(g[n - 1][n], Rcon!get_rcon[n]))]
           list == Rcon!KeysAfter(k)
           table == [n \in 0 .. 10 |-> SubSeq(keys, 1, n + 1)]
<1>1. list = CHOOSE g : g = rule(g)
  BY DEF Rcon!KeysAfter
<1>2. Rcon!nr_rounds(k) = 10 /\ Rcon!KeysBefore(k) = << k >>
  BY DEF Rcon!nr_rounds, Rcon!KeysBefore
<1>3. keys[1] = k
  BY DEF Recurrence, FirstKeys
<1>4. ASSUME NEW n \in 1 .. 10
      PROVE  keys[n + 1] = Rcon!next_words(keys[n], Rcon!get_rcon[n])
  <2>1. keys[n + 1] = NextKey(k, keys, n + 1)
    <3>1. Len(FirstKeys(k)) = 1
      BY DEF FirstKeys
    <3> QED  BY <3>1 DEF Recurrence
  <2>2. (n + 1) - 1 = n
    OBVIOUS
  <2>3. NextKey(k, keys, n + 1) = next_128bit_key(keys[n], get_rcon[n])
    BY <2>2 DEF NextKey
  <2> QED  BY <2>1, <2>3, SameRule, SameRcon
<1>5. \A n \in 0 .. 10 :
        /\ table[n] = SubSeq(keys, 1, n + 1)
        /\ Len(table[n]) = n + 1
        /\ \A m \in 1 .. n + 1 : table[n][m] = keys[m]
  OBVIOUS
<1>6. table[0] = << k >>
  <2>1. table[0] = SubSeq(keys, 1, 1)
    OBVIOUS
  <2>2. SubSeq(keys, 1, 1) = << keys[1] >>
    <3>1. Len(SubSeq(keys, 1, 1)) = 1 /\ SubSeq(keys, 1, 1) \in Seq(Block)
          /\ SubSeq(keys, 1, 1)[1] = keys[1]
      OBVIOUS
    <3>2. << keys[1] >> \in Seq(Block) /\ Len(<< keys[1] >>) = 1
          /\ << keys[1] >>[1] = keys[1]
      OBVIOUS
    <3>3. \A s, t \in Seq(Block) :
            Len(s) = 1 /\ Len(t) = 1 /\ s[1] = t[1] => s = t
      <4> TAKE s, t \in Seq(Block)
      <4>1. ASSUME Len(s) = 1, Len(t) = 1, s[1] = t[1]
            PROVE  s = t
        <5>1. \A m \in 1 .. Len(s) : s[m] = t[m]
          BY <4>1
        <5> QED  BY <4>1, <5>1, SeqEqual
      <4> QED  BY <4>1
    <3> QED  BY <3>1, <3>2, <3>3
  <2> HIDE DEF table
  <2> QED  BY <1>3, <2>1, <2>2
<1>7. ASSUME NEW n \in 1 .. 10
      PROVE  table[n] = Append(table[n - 1],
                          Rcon!next_words(table[n - 1][n], Rcon!get_rcon[n]))
  <2>1. table[n - 1][n] = keys[n] /\ table[n - 1] = SubSeq(keys, 1, n)
    <3>1. n - 1 \in 0 .. 10 /\ (n - 1) + 1 = n /\ n \in 1 .. (n - 1) + 1
      OBVIOUS
    <3> HIDE DEF table
    <3> QED  BY <1>5, <3>1
  <2>2. SubSeq(keys, 1, n + 1) = Append(SubSeq(keys, 1, n), keys[n + 1])
    OBVIOUS
  <2>3. table[n] = SubSeq(keys, 1, n + 1)
    OBVIOUS
  <2> HIDE DEF table
  <2> QED  BY <1>4, <2>1, <2>2, <2>3, Zenon
<1>8. table = rule(table)
  <2> HIDE DEF table
  <2>1. table = [n \in 0 .. 10 |-> table[n]]
    BY DEF table
  <2>2. ASSUME NEW n \in 0 .. 10
        PROVE  table[n] =
                 IF n = 0 THEN << k >>
                 ELSE Append(table[n - 1],
                             Rcon!next_words(table[n - 1][n], Rcon!get_rcon[n]))
    <3>1. CASE n = 0
      BY <1>6, <3>1
    <3>2. CASE n # 0
      <4>1. n \in 1 .. 10
        BY <3>2
      <4> QED  BY <1>7, <3>2, <4>1
    <3> QED  BY <3>1, <3>2
  <2> QED  BY <1>2, <2>1, <2>2, Zenon
<1>9. list = rule(list)
  <2> HIDE DEF rule, table, list
  <2> QED  BY <1>1, <1>8
<1>10. /\ list[0] = << k >>
       /\ \A n \in 1 .. 10 :
            list[n] = Append(list[n - 1],
                        Rcon!next_words(list[n - 1][n], Rcon!get_rcon[n]))
  <2> HIDE DEF list
  <2>1. list = [n \in 0 .. 10 |->
                 IF n = 0 THEN << k >>
                 ELSE Append(list[n - 1],
                             Rcon!next_words(list[n - 1][n], Rcon!get_rcon[n]))]
    BY <1>2, <1>9
  <2>2. ASSUME NEW n \in 0 .. 10
        PROVE  list[n] =
                 IF n = 0 THEN << k >>
                 ELSE Append(list[n - 1],
                             Rcon!next_words(list[n - 1][n], Rcon!get_rcon[n]))
    BY <2>1, Zenon
  <2>3. list[0] = << k >>
    <3>1. 0 \in 0 .. 10
      OBVIOUS
    <3> QED  BY <2>2, <3>1, Zenon
  <2>4. ASSUME NEW n \in 1 .. 10
        PROVE  list[n] = Append(list[n - 1],
                           Rcon!next_words(list[n - 1][n], Rcon!get_rcon[n]))
    <3>1. n \in 0 .. 10 /\ n # 0
      OBVIOUS
    <3> QED  BY <2>2, <3>1, Zenon
  <2> QED  BY <2>3, <2>4
<1> HIDE DEF list, table, rule
<1>11. ASSUME NEW n \in 1 .. 10, list[n - 1] = table[n - 1]
       PROVE  list[n] = table[n]
  BY <1>7, <1>10, <1>11
<1>12. list[0] = table[0]
  BY <1>6, <1>10
<1>13. list[1] = table[1] /\ list[2] = table[2] /\ list[3] = table[3]
  BY <1>11, <1>12
<1>14. list[4] = table[4] /\ list[5] = table[5] /\ list[6] = table[6]
  BY <1>11, <1>13
<1>15. list[7] = table[7] /\ list[8] = table[8] /\ list[9] = table[9]
  BY <1>11, <1>14
<1>16. list[10] = table[10]
  BY <1>11, <1>15
<1>17. table[10] = keys
  <2>1. SubSeq(keys, 1, 11) = keys
    OBVIOUS
  <2>2. table[10] = SubSeq(keys, 1, 11)
    BY DEF table
  <2> QED  BY <2>1, <2>2
<1> QED  BY <1>2, <1>16, <1>17 DEF Rcon!key_gen, list

-----------------------------------------------------------------------------
(* The cipher.                                                             *)

(* The first round keys satisfy the recurrence, which asks nothing of them.*)
LEMMA FreshKeys ==
  ASSUME NEW k \in Keys
  PROVE  /\ FirstKeys(k) \in Seq(Block) /\ Recurrence(k, FirstKeys(k))
         /\ Len(FirstKeys(k)) = IF Len(k) = 4 THEN 1 ELSE 2
         /\ Len(k) \in {4, 8}
BY FirstKeysType DEF Recurrence

(* A key expansion that starts has its types.                              *)
LEMMA FreshKeyTypeOK ==
  ASSUME key \in Keys, round_keys = FirstKeys(key), j = 1
  PROVE  KeyTypeOK /\ Recurrence(key, round_keys)
<1>1. NumRounds \in {10, 14}
  BY DEF NumRounds, AES_128_ROUNDS, AES_256_ROUNDS
<1>2. round_keys \in Seq(Block) /\ Recurrence(key, round_keys)
      /\ Len(key) \in {4, 8}
  BY FreshKeys
<1>3. CASE Len(key) = 4
  <2>1. Len(round_keys) = 1 /\ Len(FirstKeys(key)) = 1
    BY <1>3, FreshKeys
  <2> QED  BY <1>1, <1>2, <1>3, <2>1 DEF KeyTypeOK
<1>4. CASE Len(key) = 8
  <2>0. Len(key) # 4
    BY <1>4
  <2>1. Len(round_keys) = 2 /\ Len(FirstKeys(key)) = 2
    BY <2>0, FreshKeys
  <2>2. 2 \div 2 = 1 /\ 2 % 2 = 0
    OBVIOUS
  <2> QED  BY <1>1, <1>2, <1>4, <2>1, <2>2 DEF KeyTypeOK
<1> QED  BY <1>2, <1>3, <1>4

(* The recurrence leaves no choice: expansions that agree on m round keys  *)
(* agree on the next.                                                      *)
LEMMA SameNext ==
  ASSUME NEW k \in Keys, NEW a \in Seq(Block), NEW b \in Seq(Block),
         Recurrence(k, a), Recurrence(k, b),
         NEW m \in Nat, m < Len(a), m < Len(b),
         \A n \in 1 .. m : a[n] = b[n]
  PROVE  a[m + 1] = b[m + 1]
<1>1. m + 1 \in 1 .. Len(a) /\ m + 1 \in 1 .. Len(b)
  OBVIOUS
<1>2. CASE m + 1 <= Len(FirstKeys(k))
  BY <1>1, <1>2 DEF Recurrence
<1>3. CASE ~(m + 1 <= Len(FirstKeys(k)))
  <2>1. a[m + 1] = NextKey(k, a, m + 1) /\ b[m + 1] = NextKey(k, b, m + 1)
    BY <1>1, <1>3 DEF Recurrence
  <2>a. CASE Len(k) = 4
    <3>1. Len(FirstKeys(k)) = 1
      BY <2>a, FreshKeys
    <3>2. m \in 1 .. m /\ (m + 1) - 1 = m
      BY <1>3, <3>1
    <3> QED  BY <2>1, <2>a, <3>2 DEF NextKey
  <2>b. CASE Len(k) # 4
    <3>1. Len(FirstKeys(k)) = 2
      BY <2>b, FreshKeys
    <3>2. m \in 1 .. m /\ (m + 1) - 1 = m
          /\ m - 1 \in 1 .. m /\ (m + 1) - 2 = m - 1
      BY <1>3, <3>1
    <3> QED  BY <2>1, <2>b, <3>2 DEF NextKey
  <2> QED  BY <2>a, <2>b
<1> QED  BY <1>2, <1>3

(* Two expansions of one key that agree so far agree one step later.       *)
LEMMA SameKeysStep ==
  ASSUME NEW k \in Keys, NEW a \in Seq(Block), NEW b \in Seq(Block),
         NEW c \in Seq(Block),
         Recurrence(k, b), Recurrence(k, c), Len(b) <= Len(c),
         Len(b) \in {Len(a) + 1, Len(a) + 2},
         \A n \in 1 .. Len(a) : b[n] = c[n]
  PROVE  \A n \in 1 .. Len(b) : b[n] = c[n]
<1>1. PICK m \in Nat : m = Len(a)
  OBVIOUS
<1>2. b[m + 1] = c[m + 1]
  BY <1>1, SameNext
<1>3. \A n \in 1 .. m + 1 : b[n] = c[n]
  BY <1>1, <1>2
<1>4. CASE Len(b) = m + 1
  BY <1>3, <1>4
<1>5. CASE Len(b) = m + 2
  <2>1. b[(m + 1) + 1] = c[(m + 1) + 1]
    <3>1. m + 1 \in Nat /\ m + 1 < Len(b) /\ m + 1 < Len(c)
      BY <1>5
    <3> QED  BY <1>3, <3>1, SameNext
  <2> QED  BY <1>3, <1>5, <2>1
<1> QED  BY <1>1, <1>4, <1>5

(* A round key is appended only before the first round.                    *)
LEMMA KeyNextGrows ==
  ASSUME KeyInv, KeyNext
  PROVE  /\ key' = key /\ ~Expanded
         /\ \A n \in 1 .. Len(round_keys) : round_keys'[n] = round_keys[n]
         /\ Len(round_keys') \in {Len(round_keys) + 1, Len(round_keys) + 2}
<1>1. /\ key \in Keys /\ round_keys \in Seq(Block)
      /\ Len(round_keys) \in Nat
  BY DEF KeyInv, KeyTypeOK
<1>2. NumRounds = IF Len(key) = 4 THEN 10 ELSE 14
  BY DEF NumRounds, AES_128_ROUNDS, AES_256_ROUNDS
<1>3. CASE KeyRound128
  BY <1>1, <1>2, <1>3 DEF KeyRound128, Expanded, AES_128_ROUNDS
<1>4. CASE KeyRound256
  <2>1. PICK x, y : round_keys' = round_keys \o << x, y >>
    BY <1>4 DEF KeyRound256
  <2>2. key' = key /\ ~Expanded
    <3>1. key' = key /\ Len(key) = 8 /\ Len(round_keys) < 14
      BY <1>4 DEF KeyRound256, AES_256_ROUNDS
    <3>2. NumRounds = 14
      BY <1>2, <3>1
    <3>3. NumRounds + 1 = 15
      <4>1. 14 + 1 = 15
        OBVIOUS
      <4> QED  BY <3>2, <4>1
    <3>4. Len(round_keys) # 15
      <4>1. \A n \in Nat : n < 14 => n # 15
        OBVIOUS
      <4> QED  BY <1>1, <3>1, <4>1
    <3> QED  BY <3>1, <3>3, <3>4 DEF Expanded
  <2>3. Len(round_keys') = Len(round_keys) + 2
    BY <1>1, <2>1
  <2>4. \A n \in 1 .. Len(round_keys) : round_keys'[n] = round_keys[n]
    BY <1>1, <2>1
  <2> QED  BY <2>2, <2>3, <2>4
<1>5. CASE LastKey256
  <2>1. PICK x : round_keys' = Append(round_keys, x)
    BY <1>5 DEF LastKey256
  <2>2. key' = key /\ ~Expanded
    BY <1>1, <1>2, <1>5 DEF LastKey256, Expanded, AES_256_ROUNDS
  <2> QED  BY <1>1, <2>1, <2>2
<1> QED  BY <1>3, <1>4, <1>5 DEF KeyNext

(* The invariant holds in the beginning.                                   *)
LEMMA InitIInv == Init => IInv
<1> SUFFICES ASSUME Init PROVE IInv
  OBVIOUS
<1>1. KeyTypeOK /\ Recurrence(key, round_keys)
  BY FreshKeyTypeOK DEF Init, KeyInit
<1>2. tmp_block \in Block /\ trace \in Seq(Block) /\ Len(trace) = 1
      /\ trace[1] = tmp_block
  BY BlocksAssumption DEF Init
<1>3. NumRounds \in {10, 14}
  BY DEF NumRounds, AES_128_ROUNDS, AES_256_ROUNDS
<1> QED
  BY <1>1, <1>2, <1>3 DEF IInv, TypeOK, SameKeys, TraceRight, DecipherRetraces, Init

(* What the round of NextBlock leaves is a block.                          *)
LEMMA NextBlockType ==
  ASSUME NEW keys, NEW n, NEW b \in Block, keys[n] \in Block
  PROVE  NextBlock(keys, n, b) \in Block
<1>1. CASE n = 1
  BY <1>1, StepTypes DEF NextBlock
<1>2. CASE n # 1
  <2>1. subbytes(b) \in Block
    BY StepTypes
  <2>2. shiftrows(subbytes(b)) \in Block
    BY <2>1, StepTypes
  <2>3. mixcolumns(shiftrows(subbytes(b))) \in Block
    BY <2>2, StepTypes
  <2> QED  BY <1>2, <2>2, <2>3, StepTypes DEF NextBlock
<1> QED  BY <1>1, <1>2

(* The round of decipher that undoes NextBlock.                            *)
PreviousBlock(keys, n, b) ==
  IF n = NumRounds + 1
  THEN inv_subbytes(inv_shiftrows(addroundkey(keys[n], b)))
  ELSE IF n = 1 THEN addroundkey(keys[1], b)
  ELSE inv_subbytes(inv_shiftrows(inv_mixcolumns(addroundkey(keys[n], b))))

(* The block before the next one is the block itself.                      *)
LEMMA PreviousNext ==
  ASSUME NEW keys, NEW n \in 1 .. NumRounds + 1, NEW b \in Block,
         keys[n] \in Block
  PROVE  PreviousBlock(keys, n, NextBlock(keys, n, b)) = b
<1>1. NumRounds \in {10, 14}
  BY DEF NumRounds, AES_128_ROUNDS, AES_256_ROUNDS
<1>2. CASE n = 1
  BY <1>1, <1>2, InvAddroundkey DEF NextBlock, PreviousBlock
<1>3. CASE n \in 2 .. NumRounds
  BY <1>1, <1>3, RoundInverse DEF NextBlock, PreviousBlock
<1>4. CASE n = NumRounds + 1
  BY <1>1, <1>4, RoundInverse DEF NextBlock, PreviousBlock
<1> QED  BY <1>1, <1>2, <1>3, <1>4

(* The steps of decipher go back along the round keys.                     *)
LEMMA Previous ==
  ASSUME InvInitRound \/ InvMainRound \/ InvFinalRound
  PROVE  /\ i \in 0 .. NumRounds
         /\ DecipherTo(PreviousBlock(round_keys, NumRounds + 1 - i, tmp_block))
<1>1. NumRounds \in {10, 14}
  BY DEF NumRounds, AES_128_ROUNDS, AES_256_ROUNDS
<1>2. CASE InvInitRound
  <2>1. i = 0 /\ NumRounds + 1 - i = NumRounds + 1 /\ Len(round_keys) = NumRounds + 1
    BY <1>1, <1>2 DEF InvInitRound, DecipherTo, Expanded
  <2> QED  BY <1>1, <1>2, <2>1 DEF InvInitRound, PreviousBlock
<1>3. CASE InvMainRound
  <2>1. /\ i \in 1 .. NumRounds - 1 /\ Len(round_keys) = NumRounds + 1
    BY <1>3 DEF InvMainRound, DecipherTo, Expanded
  <2>2. NumRounds + 1 - i # 1 /\ NumRounds + 1 - i # NumRounds + 1
        /\ Len(round_keys) - i = NumRounds + 1 - i
    BY <1>1, <2>1
  <2> QED  BY <1>1, <1>3, <2>1, <2>2 DEF InvMainRound, PreviousBlock
<1>4. CASE InvFinalRound
  <2>1. i = NumRounds /\ NumRounds + 1 - i = 1 /\ NumRounds + 1 # 1
    BY <1>1, <1>4 DEF InvFinalRound
  <2> QED  BY <1>1, <1>4, <2>1 DEF InvFinalRound, PreviousBlock
<1> QED  BY <1>2, <1>3, <1>4

(* Every step keeps the invariant.                                         *)
LEMMA NextIInv == IInv /\ [Next]_vars => IInv'
<1> SUFFICES ASSUME IInv, [Next]_vars PROVE IInv'
  OBVIOUS
<1>0. /\ KeyInv /\ key \in Keys /\ round_keys \in Seq(Block)
      /\ encdec \in {"encipher", "decipher"}
      /\ tmp_block \in Block /\ trace \in Seq(Block)
      /\ SameKeys /\ TraceRight /\ DecipherRetraces
      /\ Len(trace) = IF encdec = "encipher" THEN i + 1 ELSE NumRounds + 2
      /\ Recurrence(key, round_keys) /\ KeyTypeOK
  BY DEF IInv, TypeOK, KeyInv, KeyTypeOK
<1>N. PICK N \in {10, 14} : N = NumRounds
  BY DEF NumRounds, AES_128_ROUNDS, AES_256_ROUNDS
<1>i. i \in 0 .. N + 1
  BY <1>N DEF IInv, TypeOK
<1>1. CASE ExpandKey
  <2>1. /\ KeyInv' /\ key' = key /\ ~Expanded
        /\ \A n \in 1 .. Len(round_keys) : round_keys'[n] = round_keys[n]
        /\ Len(round_keys') \in {Len(round_keys) + 1, Len(round_keys) + 2}
    BY <1>0, <1>1, KeyStep, KeyNextGrows DEF ExpandKey
  <2>2. i = 0
    BY <1>0, <1>i, <2>1 DEF SameKeys
  <2>3. UNCHANGED <<encdec, i, tmp_block, trace, used_keys>> /\ NumRounds' = NumRounds
    BY <1>1, <2>1 DEF ExpandKey, NumRounds
  <2>4. SameKeys'
    <3>1. CASE encdec = "encipher"
      BY <2>2, <2>3, <3>1 DEF SameKeys
    <3>2. CASE encdec = "decipher"
      <4>1. /\ used_keys \in Seq(Block) /\ Recurrence(key, used_keys)
            /\ Len(used_keys) = N + 1
            /\ \A n \in 1 .. Len(round_keys) : round_keys'[n] = used_keys[n]
        BY <1>0, <1>N, <2>1, <3>2 DEF SameKeys
      <4>2. round_keys' \in Seq(Block) /\ Recurrence(key, round_keys')
            /\ Len(round_keys') <= N + 1
        BY <1>N, <2>1, <2>3 DEF KeyInv, KeyTypeOK
      <4>3. Len(round_keys') <= Len(used_keys)
        BY <4>1, <4>2
      <4>4. \A n \in 1 .. Len(round_keys') : round_keys'[n] = used_keys[n]
        BY <1>0, <2>1, <4>1, <4>2, <4>3, SameKeysStep
      <4> QED  BY <1>N, <2>1, <2>2, <2>3, <3>2, <4>1, <4>4 DEF SameKeys
    <3> QED  BY <1>0, <3>1, <3>2
  <2>5. TypeOK' /\ Recurrence(key, round_keys)'
    BY <1>0, <1>i, <1>N, <2>1, <2>3 DEF TypeOK, KeyInv
  <2>6. TraceRight' /\ DecipherRetraces'
    BY <1>0, <2>1, <2>3 DEF TraceRight, DecipherRetraces, NextBlock
  <2> QED  BY <2>4, <2>5, <2>6 DEF IInv
<1>2. CASE InitRound \/ MainRound \/ FinalRound
  <2> DEFINE block == NextBlock(round_keys, i + 1, tmp_block)
  <2>1. EncipherTo(block) /\ i \in 0 .. N
    BY <1>N, <1>2 DEF InitRound, MainRound, FinalRound, NextBlock
  <2>2. /\ encdec = "encipher" /\ Expanded
        /\ tmp_block' = block /\ i' = i + 1 /\ trace' = Append(trace, block)
        /\ used_keys' = round_keys /\ UNCHANGED <<keyVars, encdec>>
    BY <2>1 DEF EncipherTo
  <2>3. block \in Block
    <3>1. Len(round_keys) = N + 1
      BY <1>N, <2>2 DEF Expanded
    <3>2. round_keys[i + 1] \in Block
      BY <1>0, <2>1, <3>1
    <3> QED  BY <1>0, <3>2, NextBlockType
  <2> HIDE DEF block
  <2>4. NumRounds' = N /\ Expanded' /\ KeyTypeOK'
    BY <1>0, <1>N, <2>2 DEF keyVars, NumRounds, Expanded, KeyTypeOK
  <2>5. /\ Len(trace) = i + 1 /\ trace' \in Seq(Block) /\ Len(trace') = i + 2
        /\ trace'[i + 2] = block
        /\ \A n \in 1 .. i + 1 : trace'[n] = trace[n]
    BY <1>0, <2>1, <2>2, <2>3
  <2>6. TypeOK'
    BY <1>0, <1>i, <2>1, <2>2, <2>3, <2>4, <2>5 DEF TypeOK, keyVars
  <2>7. SameKeys' /\ Recurrence(key, round_keys)' /\ DecipherRetraces'
    BY <1>0, <2>2, <2>4 DEF SameKeys, keyVars, DecipherRetraces
  <2>8. TraceRight'
    <3>1. /\ \A n \in 1 .. i :
               trace[n + 1] = NextBlock(used_keys, n, trace[n])
          /\ tmp_block = trace[i + 1]
      BY <1>0, <2>1, <2>2, <2>5 DEF TraceRight
    <3>2. ASSUME NEW n \in 1 .. i + 1
          PROVE  trace'[n + 1] = NextBlock(round_keys, n, trace'[n])
      <4>1. CASE n = i + 1
        BY <2>1, <2>5, <3>1, <4>1 DEF block
      <4>2. CASE n # i + 1
        <5>1. n \in 1 .. i /\ i > 0 /\ n \in 1 .. i + 1 /\ n + 1 \in 1 .. i + 1
          BY <2>1, <4>2
        <5>2. used_keys = round_keys
          BY <1>0, <2>2, <5>1 DEF SameKeys
        <5>3. trace'[n] = trace[n] /\ trace'[n + 1] = trace[n + 1]
          BY <2>5, <5>1
        <5> QED  BY <3>1, <5>1, <5>2, <5>3
      <4> QED  BY <4>1, <4>2
    <3>3. \A n : NextBlock(round_keys, n, trace'[n])
                = NextBlock(used_keys, n, trace[n])'
      BY <1>N, <2>2, <2>4 DEF NextBlock
    <3>4. Len(trace') - 1 = i + 1
      BY <2>1, <2>5
    <3>5. tmp_block' = trace'[i' + 1]
      <4>1. i' + 1 = i + 2
        BY <2>1, <2>2
      <4> QED  BY <2>2, <2>5, <4>1
    <3> QED  BY <3>2, <3>3, <3>4, <3>5 DEF TraceRight
  <2> QED  BY <2>6, <2>7, <2>8 DEF IInv
<1>3. CASE Decipher
  <2>1. i = N + 1 /\ encdec = "encipher"
    BY <1>N, <1>3 DEF Decipher, Returned
  <2>2. encdec' = "decipher" /\ i' = 0 /\ round_keys' = FirstKeys(key) /\ j' = 1
        /\ UNCHANGED <<key, tmp_block, trace, used_keys>>
    BY <1>3 DEF Decipher
  <2>3. NumRounds' = N
    BY <1>N, <2>2 DEF NumRounds
  <2>4. KeyTypeOK' /\ Recurrence(key, round_keys)'
    <3>1. /\ FirstKeys(key) \in Seq(Block)
          /\ Recurrence(key, FirstKeys(key))
          /\ Len(FirstKeys(key)) = IF Len(key) = 4 THEN 1 ELSE 2
          /\ Len(key) \in {4, 8}
      BY <1>0, FreshKeys, FirstKeysType
    <3>2. Len(FirstKeys(key)) \in Len(FirstKeys(key)) .. N + 1
      BY <1>N, <3>1
    <3>3. 1 = IF Len(key) = 4 THEN Len(FirstKeys(key))
              ELSE Len(FirstKeys(key)) \div 2
      BY <3>1
    <3>4. Len(key) = 4 \/ Len(FirstKeys(key)) % 2 = 0
      BY <3>1
    <3> QED  BY <1>0, <2>2, <2>3, <3>1, <3>2, <3>3, <3>4 DEF KeyTypeOK
  <2>5. Len(trace) = N + 2 /\ tmp_block = trace[N + 2] /\ used_keys = round_keys
        /\ Expanded
    BY <1>0, <1>N, <2>1 DEF TraceRight, SameKeys
  <2>6. TypeOK' /\ TraceRight' /\ DecipherRetraces'
    BY <1>0, <1>N, <2>2, <2>3, <2>4, <2>5
       DEF TypeOK, TraceRight, DecipherRetraces, NextBlock
  <2>7. SameKeys'
    <3>1. /\ used_keys' \in Seq(Block) /\ Len(used_keys') = N + 1
          /\ Recurrence(key', used_keys')
      BY <1>0, <1>N, <2>2, <2>5 DEF Expanded
    <3>2. \A n \in 1 .. Len(FirstKeys(key)) : FirstKeys(key)[n] = round_keys[n]
      <4>1. Len(FirstKeys(key)) \in {1, 2}
        BY <1>0, FreshKeys
      <4>2. Len(round_keys) = N + 1
        BY <1>N, <2>5 DEF Expanded
      <4> QED  BY <1>0, <4>1, <4>2 DEF Recurrence
    <3> QED  BY <2>2, <2>3, <2>5, <3>1, <3>2 DEF SameKeys
  <2> QED  BY <2>4, <2>6, <2>7 DEF IInv
<1>4. CASE InvInitRound \/ InvMainRound \/ InvFinalRound
  <2>1. PICK block : DecipherTo(block) /\ i \in 0 .. N
                     /\ block = PreviousBlock(round_keys, N + 1 - i, tmp_block)
    BY <1>N, <1>4, Previous
  <2>2. /\ encdec = "decipher" /\ Expanded
        /\ tmp_block' = block /\ i' = i + 1
        /\ UNCHANGED <<keyVars, encdec, trace, used_keys>>
    BY <2>1 DEF DecipherTo
  <2>3. NumRounds' = N /\ Expanded' /\ KeyTypeOK'
    BY <1>0, <1>N, <2>2 DEF keyVars, NumRounds, Expanded, KeyTypeOK
  <2>4. PICK n \in 1 .. N + 1 : n = N + 1 - i
    BY <2>1
  <2>5. /\ trace[n] \in Block /\ n + 1 = N + 2 - i /\ n = N + 2 - i'
        /\ n \in 1 .. Len(trace) - 1 /\ round_keys[n] = used_keys[n]
        /\ round_keys[n] \in Block
    <3>1. Len(round_keys) = N + 1 /\ Len(trace) = N + 2
      BY <1>0, <1>N, <2>2 DEF Expanded
    <3>2. n + 1 = N + 2 - i /\ n = N + 2 - i'
      BY <2>1, <2>2, <2>4
    <3> QED  BY <1>0, <2>2, <2>4, <3>1, <3>2 DEF SameKeys
  <2>6. tmp_block = NextBlock(round_keys, n, trace[n])
    <3>1. tmp_block = trace[n + 1]
      BY <1>0, <1>N, <2>2, <2>5 DEF DecipherRetraces
    <3>2. trace[n + 1] = NextBlock(used_keys, n, trace[n])
      BY <1>0, <2>5 DEF TraceRight
    <3> QED  BY <2>5, <3>1, <3>2 DEF NextBlock
  <2>7. block = trace[n]
    BY <1>N, <2>1, <2>4, <2>5, <2>6, PreviousNext
  <2>8. TypeOK'
    <3>1. i' \in 0 .. N + 1
      BY <2>1, <2>2
    <3>2. Len(trace') = N + 2 /\ encdec' = "decipher" /\ trace' \in Seq(Block)
      BY <1>0, <1>N, <2>2
    <3> QED  BY <2>2, <2>3, <2>5, <2>7, <3>1, <3>2 DEF TypeOK
  <2>9. SameKeys' /\ Recurrence(key, round_keys)' /\ DecipherRetraces'
    BY <1>0, <1>N, <2>2, <2>3, <2>5, <2>7 DEF SameKeys, keyVars, DecipherRetraces
  <2>10. TraceRight'
    BY <1>0, <1>N, <2>2, <2>3 DEF TraceRight, NextBlock
  <2> QED  BY <2>8, <2>9, <2>10 DEF IInv
<1>5. CASE UNCHANGED vars
  BY <1>5 DEF vars, keyVars, IInv, TypeOK, KeyTypeOK, SameKeys, TraceRight,
         DecipherRetraces, NextBlock, NumRounds, Expanded
<1> QED  BY <1>1, <1>2, <1>3, <1>4, <1>5 DEF Next

-----------------------------------------------------------------------------
(* Results.                                                                *)

(* The invariant holds in every state.                                     *)
LEMMA Invariance == Spec => []IInv
BY InitIInv, NextIInv, PTL DEF Spec

(* Every variable of the cipher has its type in every state.               *)
THEOREM TypeCorrect == Spec => []TypeOK
<1>1. IInv => TypeOK
  BY DEF IInv
<1> QED  BY <1>1, Invariance, PTL

(* The round keys follow the schedule of the standard, for both lengths.   *)
THEOREM FollowsStandard == Spec => []FollowsFips
<1>1. IInv => FollowsFips
  BY RecurrenceExpands DEF IInv, TypeOK, KeyTypeOK, FollowsFips
<1> QED  BY <1>1, Invariance, PTL

(* Deciphering what was enciphered with a key takes the same way back, to  *)
(* the plain text.                                                         *)
THEOREM Retraces == Spec => []DecipherRetraces
<1>1. IInv => DecipherRetraces
  BY DEF IInv
<1> QED  BY <1>1, Invariance, PTL

(* For every key of 128 bits the loop of rcon.py computes the round keys   *)
(* that key_gen computes.                                                  *)
THEOREM RconAgrees == Spec => []Rcon128Agrees
<1>1. IInv => Rcon128Agrees
  <2> SUFFICES ASSUME IInv, Len(key) = 4, Expanded
               PROVE  Rcon!key_gen(key) = round_keys
    BY DEF Rcon128Agrees
  <2>1. round_keys \in Seq(Block) /\ Recurrence(key, round_keys)
    BY DEF IInv, TypeOK, KeyTypeOK
  <2>2. Len(round_keys) = 11
    BY DEF Expanded, NumRounds, AES_128_ROUNDS
  <2> QED  BY <2>1, <2>2, SameList
<1> QED  BY <1>1, Invariance, PTL

=============================================================================
