------------------------------- MODULE AesCipher -------------------------------
(***************************************************************************)
(* aes_encipher_block and aes_decipher_block of aes.py.  As in its test, a *)
(* block is enciphered and the result is deciphered with the same key; each *)
(* call expands the key (AesKeys) and then takes one step for each round.  *)
(***************************************************************************)
EXTENDS AesKeys

CONSTANTS Blocks  (* The blocks that are enciphered.                       *)

ASSUME BlocksAssumption == Blocks \subseteq Block

VARIABLES
  encdec,     (* The call: "encipher" or "decipher".                       *)
  i,          (* Its next round; the initial one has the number 0.         *)
  tmp_block,  (* The block, from the argument to the result of the call.   *)
  trace,      (* History: the values tmp_block had while enciphering.      *)
  used_keys   (* History: the round keys of that call.                     *)

vars == <<keyVars, encdec, i, tmp_block, trace, used_keys>>

Returned == i = NumRounds + 1

-----------------------------------------------------------------------------
(* The calls.  Enciphering leaves its trace.                               *)

Init ==
  /\ KeyInit
  /\ encdec = "encipher"
  /\ i = 0
  /\ tmp_block \in Blocks
  /\ trace = << tmp_block >>
  /\ used_keys = << >>

ExpandKey ==
  /\ KeyNext
  /\ UNCHANGED <<encdec, i, tmp_block, trace, used_keys>>

EncipherTo(block) ==
  /\ encdec = "encipher"
  /\ Expanded
  /\ tmp_block' = block
  /\ i' = i + 1
  /\ trace' = Append(trace, block)
  /\ used_keys' = round_keys
  /\ UNCHANGED <<keyVars, encdec>>

InitRound ==
  /\ i = 0
  /\ EncipherTo(addroundkey(round_keys[1], tmp_block))

MainRound ==
  /\ i \in 1 .. NumRounds - 1
  /\ EncipherTo(addroundkey(round_keys[i + 1],
                            mixcolumns(shiftrows(subbytes(tmp_block)))))

FinalRound ==
  /\ i = NumRounds
  /\ EncipherTo(addroundkey(round_keys[NumRounds + 1],
                            shiftrows(subbytes(tmp_block))))

(* The second call, on the result of the first.                            *)
Decipher ==
  /\ encdec = "encipher"
  /\ Returned
  /\ encdec' = "decipher"
  /\ i' = 0
  /\ round_keys' = FirstKeys(key)
  /\ j' = 1
  /\ UNCHANGED <<key, tmp_block, trace, used_keys>>

DecipherTo(block) ==
  /\ encdec = "decipher"
  /\ Expanded
  /\ tmp_block' = block
  /\ i' = i + 1
  /\ UNCHANGED <<keyVars, encdec, trace, used_keys>>

InvInitRound ==
  /\ i = 0
  /\ DecipherTo(inv_subbytes(inv_shiftrows(
                  addroundkey(round_keys[Len(round_keys)], tmp_block))))

(* Mutant: the round keys are one off.                                     *)
InvMainRoundLate ==
  /\ i \in 1 .. NumRounds - 1
  /\ DecipherTo(inv_subbytes(inv_shiftrows(inv_mixcolumns(
                  addroundkey(round_keys[NumRounds - i], tmp_block)))))

InvMainRound ==
  /\ i \in 1 .. NumRounds - 1
  /\ DecipherTo(inv_subbytes(inv_shiftrows(inv_mixcolumns(
                  addroundkey(round_keys[Len(round_keys) - i], tmp_block)))))

InvFinalRound ==
  /\ i = NumRounds
  /\ DecipherTo(addroundkey(round_keys[1], tmp_block))

Next == \/ ExpandKey
        \/ InitRound \/ MainRound \/ FinalRound
        \/ Decipher
        \/ InvInitRound \/ InvMainRound \/ InvFinalRound

Spec == Init /\ [][Next]_vars

-----------------------------------------------------------------------------
(* Properties.                                                             *)

(* Every variable has its type.                                            *)
TypeOK ==
  /\ KeyTypeOK
  /\ encdec \in {"encipher", "decipher"}
  /\ i \in 0 .. NumRounds + 1
  /\ tmp_block \in Block
  /\ trace \in Seq(Block)
  /\ Len(trace) = IF encdec = "encipher" THEN i + 1 ELSE NumRounds + 2

(* Deciphering retraces the steps of enciphering: the n-th step leaves the *)
(* block as it was before the n-th last step of the first call, which has  *)
(* the inverse operations in another order.  The last step gives back the  *)
(* plain text.                                                             *)
DecipherRetraces ==
  encdec = "decipher" => tmp_block = trace[NumRounds + 2 - i]

=============================================================================
