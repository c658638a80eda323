--------------------------------- MODULE MCAes ---------------------------------
(***************************************************************************)
(* The model of the cipher on the S-box of aes.py and on the keys, blocks  *)
(* and expected values of the tests in aes.py and aes_key_gen.py.          *)
(***************************************************************************)
EXTENDS AesCipher

(* Numbers as sets of bits, and words of two 16-bit halves each.           *)
Bits(n) == {p \in 0 .. 15 : (n \div 2 ^ p) % 2 = 1}
Words(h) == [n \in 1 .. Len(h) \div 2 |->
               Shl(Bits(h[2 * n - 1]), 16) \cup Bits(h[2 * n])]

Table(list) ==
  LET index == [b \in Byte |-> CHOOSE n \in 0 .. 255 : Bits(n) = b]
  IN [b \in Byte |-> Bits(list[index[b] + 1])]

SboxList ==
  << 99, 124, 119, 123, 242, 107, 111, 197,  48,   1, 103,  43, 254, 215, 171, 118,
     202, 130, 201, 125, 250,  89,  71, 240, 173, 212, 162, 175, 156, 164, 114, 192,
     183, 253, 147,  38,  54,  63, 247, 204,  52, 165, 229, 241, 113, 216,  49,  21,
       4, 199,  35, 195,  24, 150,   5, 154,   7,  18, 128, 226, 235,  39, 178, 117,
       9, 131,  44,  26,  27, 110,  90, 160,  82,  59, 214, 179,  41, 227,  47, 132,
      83, 209,   0, 237,  32, 252, 177,  91, 106, 203, 190,  57,  74,  76,  88, 207,
     208, 239, 170, 251,  67,  77,  51, 133,  69, 249,   2, 127,  80,  60, 159, 168,
      81, 163,  64, 143, 146, 157,  56, 245, 188, 182, 218,  33,  16, 255, 243, 210,
     205,  12,  19, 236,  95, 151,  68,  23, 196, 167, 126,  61, 100,  93,  25, 115,
      96, 129,  79, 220,  34,  42, 144, 136,  70, 238, 184,  20, 222,  94,  11, 219,
     224,  50,  58,  10,  73,   6,  36,  92, 194, 211, 172,  98, 145, 149, 228, 121,
     231, 200,  55, 109, 141, 213,  78, 169, 108,  86, 244, 234, 101, 122, 174,   8,
     186, 120,  37,  46,  28, 166, 180, 198, 232, 221, 116,  31,  75, 189, 139, 138,
     112,  62, 181, 102,  72,   3, 246,  14,  97,  53,  87, 185, 134, 193,  29, 158,
     225, 248, 152,  17, 105, 217, 142, 148, 155,  30, 135, 233, 206,  85,  40, 223,
     140, 161, 137,  13, 191, 230,  66, 104,  65, 153,  45,  15, 176,  84, 187,  22 >>
InvSboxList ==
  << 82,   9, 106, 213,  48,  54, 165,  56, 191,  64, 163, 158, 129, 243, 215, 251,
     124, 227,  57, 130, 155,  47, 255, 135,  52, 142,  67,  68, 196, 222, 233, 203,
      84, 123, 148,  50, 166, 194,  35,  61, 238,  76, 149,  11,  66, 250, 195,  78,
       8,  46, 161, 102,  40, 217,  36, 178, 118,  91, 162,  73, 109, 139, 209,  37,
     114, 248, 246, 100, 134, 104, 152,  22, 212, 164,  92, 204,  93, 101, 182, 146,
     108, 112,  72,  80, 253, 237, 185, 218,  94,  21,  70,  87, 167, 141, 157, 132,
     144, 216, 171,   0, 140, 188, 211,  10, 247, 228,  88,   5, 184, 179,  69,   6,
     208,  44,  30, 143, 202,  63,  15,   2, 193, 175, 189,   3,   1,  19, 138, 107,
      58, 145,  17,  65,  79, 103, 220, 234, 151, 242, 207, 206, 240, 180, 230, 115,
     150, 172, 116,  34, 231, 173,  53, 133, 226, 249,  55, 232,  28, 117, 223, 110,
      71, 241,  26, 113,  29,  41, 197, 137, 111, 183,  98,  14, 170,  24, 190,  27,
     252,  86,  62,  75, 198, 210, 121,  32, 154, 219, 192, 254, 120, 205,  90, 244,
      31, 221, 168,  51, 136,   7, 199,  49, 177,  18,  16,  89,  39, 128, 236,  95,
      96,  81, 127, 169,  25, 181,  74,  13,  45, 229, 122, 159, 147, 201, 156, 239,
     160, 224,  59,  77, 174,  42, 245, 176, 200, 235, 187,  60, 131,  83, 153,  97,
      23,  43,   4, 126, 186, 119, 214,  38, 225, 105,  20,  99,  85,  33,  12, 125 >>

Sbox == Table(SboxList)
InvSbox == Table(InvSboxList)

-----------------------------------------------------------------------------
(* The keys of the tests, and the round keys expected for four of them.    *)

key128_1 ==
  Words(<< \h0000, \h0000, \h0000, \h0000, \h0000, \h0000, \h0000, \h0000 >>)
key128_2 ==
  Words(<< \hffff, \hffff, \hffff, \hffff, \hffff, \hffff, \hffff, \hffff >>)
key128_3 ==
  Words(<< \h0001, \h0203, \h0405, \h0607, \h0809, \h0a0b, \h0c0d, \h0e0f >>)
key128_4 ==
  Words(<< \h6920, \he299, \ha520, \h2a6d, \h656e, \h6368, \h6974, \h6f2a >>)
nist_aes128_key ==
  Words(<< \h2b7e, \h1516, \h28ae, \hd2a6, \habf7, \h1588, \h09cf, \h4f3c >>)
key256_1 ==
  Words(<< \h0000, \h0000, \h0000, \h0000, \h0000, \h0000, \h0000, \h0000 >> \o
        << \h0000, \h0000, \h0000, \h0000, \h0000, \h0000, \h0000, \h0000 >>)
key256_2 ==
  Words(<< \hffff, \hffff, \hffff, \hffff, \hffff, \hffff, \hffff, \hffff >> \o
        << \hffff, \hffff, \hffff, \hffff, \hffff, \hffff, \hffff, \hffff >>)
key256_3 ==
  Words(<< \h0001, \h0203, \h0405, \h0607, \h0809, \h0a0b, \h0c0d, \h0e0f >> \o
        << \h1011, \h1213, \h1415, \h1617, \h1819, \h1a1b, \h1c1d, \h1e1f >>)
nist_aes256_key ==
  Words(<< \h603d, \heb10, \h15ca, \h71be, \h2b73, \haef0, \h857d, \h7781 >> \o
        << \h1f35, \h2c07, \h3b61, \h08d7, \h2d98, \h10a3, \h0914, \hdff4 >>)

exp128_3 ==
  << Words(<< \h0001, \h0203, \h0405, \h0607, \h0809, \h0a0b, \h0c0d, \h0e0f >>),
     Words(<< \hd6aa, \h74fd, \hd2af, \h72fa, \hdaa6, \h78f1, \hd6ab, \h76fe >>),
     Words(<< \hb692, \hcf0b, \h643d, \hbdf1, \hbe9b, \hc500, \h6830, \hb3fe >>),
     Words(<< \hb6ff, \h744e, \hd2c2, \hc9bf, \h6c59, \h0cbf, \h0469, \hbf41 >>),
     Words(<< \h47f7, \hf7bc, \h9535, \h3e03, \hf96c, \h32bc, \hfd05, \h8dfd >>),
     Words(<< \h3caa, \ha3e8, \ha99f, \h9deb, \h50f3, \haf57, \hadf6, \h22aa >>),
     Words(<< \h5e39, \h0f7d, \hf7a6, \h9296, \ha755, \h3dc1, \h0aa3, \h1f6b >>),
     Words(<< \h14f9, \h701a, \he35f, \he28c, \h440a, \hdf4d, \h4ea9, \hc026 >>),
     Words(<< \h4743, \h8735, \ha41c, \h65b9, \he016, \hbaf4, \haebf, \h7ad2 >>),
     Words(<< \h5499, \h32d1, \hf085, \h5768, \h1093, \hed9c, \hbe2c, \h974e >>),
     Words(<< \h1311, \h1d7f, \he394, \h4a17, \hf307, \ha78b, \h4d2b, \h30c5 >>) >>
exp_nist128_key ==
  << Words(<< \h2b7e, \h1516, \h28ae, \hd2a6, \habf7, \h1588, \h09cf, \h4f3c >>),
     Words(<< \ha0fa, \hfe17, \h8854, \h2cb1, \h23a3, \h3939, \h2a6c, \h7605 >>),
     Words(<< \hf2c2, \h95f2, \h7a96, \hb943, \h5935, \h807a, \h7359, \hf67f >>),
     Words(<< \h3d80, \h477d, \h4716, \hfe3e, \h1e23, \h7e44, \h6d7a, \h883b >>),
     Words(<< \hef44, \ha541, \ha852, \h5b7f, \hb671, \h253b, \hdb0b, \had00 >>),
     Words(<< \hd4d1, \hc6f8, \h7c83, \h9d87, \hcaf2, \hb8bc, \h11f9, \h15bc >>),
     Words(<< \h6d88, \ha37a, \h110b, \h3efd, \hdbf9, \h8641, \hca00, \h93fd >>),
     Words(<< \h4e54, \hf70e, \h5f5f, \hc9f3, \h84a6, \h4fb2, \h4ea6, \hdc4f >>),
     Words(<< \head2, \h7321, \hb58d, \hbad2, \h312b, \hf560, \h7f8d, \h292f >>),
     Words(<< \hac77, \h66f3, \h19fa, \hdc21, \h28d1, \h2941, \h575c, \h006e >>),
     Words(<< \hd014, \hf9a8, \hc9ee, \h2589, \he13f, \h0cc8, \hb663, \h0ca6 >>) >>
exp256_3 ==
  << Words(<< \h0001, \h0203, \h0405, \h0607, \h0809, \h0a0b, \h0c0d, \h0e0f >>),
     Words(<< \h1011, \h1213, \h1415, \h1617, \h1819, \h1a1b, \h1c1d, \h1e1f >>),
     Words(<< \ha573, \hc29f, \ha176, \hc498, \ha97f, \hce93, \ha572, \hc09c >>),
     Words(<< \h1651, \ha8cd, \h0244, \hbeda, \h1a5d, \ha4c1, \h0640, \hbade >>),
     Words(<< \hae87, \hdff0, \h0ff1, \h1b68, \ha68e, \hd5fb, \h03fc, \h1567 >>),
     Words(<< \h6de1, \hf148, \h6fa5, \h4f92, \h75f8, \heb53, \h73b8, \h518d >>),
     Words(<< \hc656, \h827f, \hc9a7, \h9917, \h6f29, \h4cec, \h6cd5, \h598b >>),
     Words(<< \h3de2, \h3a75, \h5247, \h75e7, \h27bf, \h9eb4, \h5407, \hcf39 >>),
     Words(<< \h0bdc, \h905f, \hc27b, \h0948, \had52, \h45a4, \hc187, \h1c2f >>),
     Words(<< \h45f5, \ha660, \h17b2, \hd387, \h300d, \h4d33, \h640a, \h820a >>),
     Words(<< \h7ccf, \hf71c, \hbeb4, \hfe54, \h13e6, \hbbf0, \hd261, \ha7df >>),
     Words(<< \hf01a, \hfafe, \he7a8, \h2979, \hd7a5, \h644a, \hb3af, \he640 >>),
     Words(<< \h2541, \hfe71, \h9bf5, \h0025, \h8813, \hbbd5, \h5a72, \h1c0a >>),
     Words(<< \h4e5a, \h6699, \ha9f2, \h4fe0, \h7e57, \h2baa, \hcdf8, \hcdea >>),
     Words(<< \h24fc, \h79cc, \hbf09, \h79e9, \h371a, \hc23c, \h6d68, \hde36 >>) >>
exp_nist256_key ==
  << Words(<< \h603d, \heb10, \h15ca, \h71be, \h2b73, \haef0, \h857d, \h7781 >>),
     Words(<< \h1f35, \h2c07, \h3b61, \h08d7, \h2d98, \h10a3, \h0914, \hdff4 >>),
     Words(<< \h9ba3, \h5411, \h8e69, \h25af, \ha51a, \h8b5f, \h2067, \hfcde >>),
     Words(<< \ha8b0, \h9c1a, \h93d1, \h94cd, \hbe49, \h846e, \hb75d, \h5b9a >>),
     Words(<< \hd59a, \hecb8, \h5bf3, \hc917, \hfee9, \h4248, \hde8e, \hbe96 >>),
     Words(<< \hb5a9, \h328a, \h2678, \ha647, \h9831, \h2229, \h2f6c, \h79b3 >>),
     Words(<< \h812c, \h81ad, \hdadf, \h48ba, \h2436, \h0af2, \hfab8, \hb464 >>),
     Words(<< \h98c5, \hbfc9, \hbebd, \h198e, \h268c, \h3ba7, \h09e0, \h4214 >>),
     Words(<< \h6800, \h7bac, \hb2df, \h3316, \h96e9, \h39e4, \h6c51, \h8d80 >>),
     Words(<< \hc814, \he204, \h76a9, \hfb8a, \h5025, \hc02d, \h59c5, \h8239 >>),
     Words(<< \hde13, \h6967, \h6ccc, \h5a71, \hfa25, \h6395, \h9674, \hee15 >>),
     Words(<< \h5886, \hca5d, \h2e2f, \h31d7, \h7e0a, \hf1fa, \h27cf, \h73c3 >>),
     Words(<< \h749c, \h47ab, \h1850, \h1dda, \he275, \h7e4f, \h7401, \h905a >>),
     Words(<< \hcafa, \haae3, \he4d5, \h9b34, \h9adf, \h6ace, \hbd10, \h190d >>),
     Words(<< \hfe48, \h90d1, \he618, \h8d0b, \h046d, \hf344, \h706c, \h631e >>) >>

KeyVectors == << << key128_3, exp128_3 >>, << nist_aes128_key, exp_nist128_key >>,
                 << key256_3, exp256_3 >>, << nist_aes256_key, exp_nist256_key >> >>

TestKeys == {key128_1, key128_2, key128_3, key128_4, nist_aes128_key,
             key256_1, key256_2, key256_3, nist_aes256_key}

-----------------------------------------------------------------------------
(* The blocks of test_aes and what they are enciphered to.                 *)

nist_plaintext ==
  << Words(<< \h6bc1, \hbee2, \h2e40, \h9f96, \he93d, \h7e11, \h7393, \h172a >>),
     Words(<< \hae2d, \h8a57, \h1e03, \hac9c, \h9eb7, \h6fac, \h45af, \h8e51 >>),
     Words(<< \h30c8, \h1c46, \ha35c, \he411, \he5fb, \hc119, \h1a0a, \h52ef >>),
     Words(<< \hf69f, \h2445, \hdf4f, \h9b17, \had2b, \h417b, \he66c, \h3710 >>) >>
nist_exp128 ==
  << Words(<< \h3ad7, \h7bb4, \h0d7a, \h3660, \ha89e, \hcaf3, \h2466, \hef97 >>),
     Words(<< \hf5d3, \hd585, \h03b9, \h699d, \he785, \h895a, \h96fd, \hbaaf >>),
     Words(<< \h43b1, \hcd7f, \h598e, \hce23, \h881b, \h00e3, \hed03, \h0688 >>),
     Words(<< \h7b0c, \h785e, \h27e8, \had3f, \h8223, \h2071, \h0472, \h5dd4 >>) >>
nist_exp256 ==
  << Words(<< \hf3ee, \hd1bd, \hb5d2, \ha03c, \h064b, \h5a7e, \h3db1, \h81f8 >>),
     Words(<< \h591c, \hcb10, \hd410, \hed26, \hdc5b, \ha74a, \h3136, \h2870 >>),
     Words(<< \hb6ed, \h21b9, \h9ca6, \hf4f9, \hf153, \he7b1, \hbeaf, \hed1d >>),
     Words(<< \h2330, \h4b7a, \h39f9, \hf3ff, \h067d, \h8d8f, \h9e24, \hecc7 >>) >>

TestBlocks == {nist_plaintext[n] : n \in 1 .. 4}

-----------------------------------------------------------------------------
(* Properties.                                                             *)

(* What test_key of aes_key_gen.py checks: the key expansion yields the    *)
(* round keys of the published vectors.                                    *)
KeyVectorsMatch ==
  \A n \in 1 .. Len(KeyVectors) :
    key = KeyVectors[n][1] /\ Expanded => round_keys = KeyVectors[n][2]

(* What test_aes checks: the vectors are enciphered to what it expects,    *)
(* and those results, which this run deciphers next, back to the vectors.  *)
NistVectorsMatch ==
  \A n \in 1 .. 4 :
    trace[1] = nist_plaintext[n] /\ Returned =>
      IF encdec = "decipher" THEN tmp_block = nist_plaintext[n]
      ELSE /\ key = nist_aes128_key => tmp_block = nist_exp128[n]
           /\ key = nist_aes256_key => tmp_block = nist_exp256[n]
=============================================================================
