-------------------------------- MODULE GCM --------------------------------
(***************************************************************************)
(* UARTControllerGCM: counter mode with an authentication tag.  Sizes are  *)
(* counted in blocks where the code adds 128 bits to a register of 64.     *)
(***************************************************************************)
EXTENDS UARTController

CONSTANTS
  IVNibs,         \* digits of the nonce (GCM_IV_SIZE/4 = 24 in the code)
  Enc(_, _),      \* EncryptBlock, settled: key, block -> block
  GMul(_, _),     \* the multiplication of ghash_iter (module GHash)
  SizeWrap,       \* where a size wraps (2^64/BLOCK_SIZE = 2^57 blocks in the code)
  LenBlock(_, _)  \* the block that holds AAD_size and C_size

ASSUME GCMAssumption ==
  /\ IVNibs \in 1 .. FINAL_NIBBLE
  /\ \A k \in MasterKey, b \in AESBlock : Enc(k, b) \in AESBlock
  /\ \A x, h \in AESBlock : GMul(x, h) \in AESBlock
  /\ SizeWrap \in Nat \ {0}
  /\ \A a, c \in 0 .. SizeWrap - 1 : LenBlock(a, c) \in AESBlock

VARIABLES
  IV, copy_from, T, in_auth_tag, AAD_block, C_size, AAD_size

auth == <<copy_from, T, in_auth_tag, AAD_block, C_size, AAD_size>>

vars == <<front, IV, auth>>

OneMore(size) == IF size = SizeWrap - 1 THEN 0 ELSE size + 1

ghash_iter(t, c, h) == GMul(XorBlock(t, c), h)

\* The counter part of a nonce that is complete: the number one.
FirstCounter(iv) ==
  [i \in 0 .. FINAL_NIBBLE |->
     IF i < IVNibs THEN iv[i] ELSE IF i = FINAL_NIBBLE THEN 1 ELSE 0]

J0       == FirstCounter(IV)
H        == Enc(key, ZERO_BLOCK)
oblk     == XorBlock(iblk, Enc(key, IV))
auth_tag == XorBlock(T, Enc(key, J0))

Init ==
  /\ FrontInit
  /\ IV = ZERO_BLOCK
  /\ copy_from = "FROM_OBLK"
  /\ T = ZERO_BLOCK
  /\ in_auth_tag = ZERO_BLOCK
  /\ AAD_block = ZERO_BLOCK
  /\ C_size = 0
  /\ AAD_size = 0

-----------------------------------------------------------------------------
CmdIV(c) ==
  /\ c \in {"I", "i"}
  /\ OpenEntry("TO_IV")
  /\ C_size' = 0
  /\ UNCHANGED <<IV, copy_from, T, in_auth_tag, AAD_block, AAD_size>>

CmdKey(c)   == StartKey(c) /\ UNCHANGED <<IV, auth>>
CmdBlock(c) == StartBlock(c) /\ UNCHANGED <<IV, auth>>

CmdCrypt(c) ==
  /\ StartReply(c, oblk)
  /\ copy_from' = "FROM_OBLK"
  /\ C_size' = OneMore(C_size)
  /\ UNCHANGED <<IV, T, in_auth_tag, AAD_block, AAD_size>>

CmdAAD(c) ==
  /\ c \in {"A", "a"}
  /\ OpenEntry("TO_AAD")
  /\ AAD_size' = OneMore(AAD_size)
  /\ UNCHANGED <<IV, copy_from, T, in_auth_tag, AAD_block, C_size>>

CmdTag(c) == c \in {"T", "t"} /\ OpenEntry("TO_AUTH_TAG") /\ UNCHANGED <<IV, auth>>

\* A mutant of CmdFinalize: a verdict is sent like a tag, from nibble 0 on.
CmdFinalizeWhole(c) ==
  /\ c \in {"F", "f"}
  /\ Commanding
  /\ T' = ghash_iter(T, LenBlock(AAD_size, C_size), H)
  /\ state' = "FINALIZING"
  /\ data_ofs' = 0
  /\ copy_from' = IF mode = "ENCRYPT" THEN "FROM_AUTH_TAG" ELSE copy_from
  /\ TX' = << >>
  /\ UNCHANGED <<mode, copy_to, frame_data, key, iblk, IV,
                 in_auth_tag, AAD_block, C_size, AAD_size>>

\* F: fold the sizes into T; then the tag (encryption) or a verdict of one
\* character, in the place of the last nibble (decryption), is sent.
CmdFinalize(c) ==
  /\ c \in {"F", "f"}
  /\ Commanding
  /\ T' = ghash_iter(T, LenBlock(AAD_size, C_size), H)
  /\ state' = "FINALIZING"
  /\ IF mode = "ENCRYPT"
       THEN copy_from' = "FROM_AUTH_TAG" /\ data_ofs' = 0
       ELSE data_ofs' = FINAL_NIBBLE /\ UNCHANGED copy_from
  /\ TX' = << >>
  /\ UNCHANGED <<mode, copy_to, frame_data, key, iblk, IV,
                 in_auth_tag, AAD_block, C_size, AAD_size>>

\* R leaves T and copy_from as they are.
CmdReset(c) ==
  /\ ResetFront(c)
  /\ C_size' = 0
  /\ AAD_size' = 0
  /\ in_auth_tag' = ZERO_BLOCK
  /\ AAD_block' = ZERO_BLOCK
  /\ IV' = ZERO_BLOCK
  /\ UNCHANGED <<copy_from, T>>

-----------------------------------------------------------------------------
\* A mutant of EnterIV: the counter part of the nonce is not set.
EnterIVPlain(c) ==
  /\ Entering("TO_IV", c)
  /\ IV' = set_nibble(IV, data_ofs, hex_to_nibble(c))
  /\ StepEntry(IVNibs - 1)
  /\ UNCHANGED <<state, mode, frame_data, key, iblk, TX, auth>>

EnterIV(c) ==
  /\ Entering("TO_IV", c)
  /\ LET iv == set_nibble(IV, data_ofs, hex_to_nibble(c))
     IN  IV' = IF data_ofs = IVNibs - 1 THEN FirstCounter(iv) ELSE iv
  /\ StepEntry(IVNibs - 1)
  /\ UNCHANGED <<state, mode, frame_data, key, iblk, TX, auth>>

EnterKeyDigit(c)   == EnterKey(c) /\ UNCHANGED <<IV, auth>>
EnterBlockDigit(c) == EnterBlock(c) /\ UNCHANGED <<IV, auth>>

\* A mutant of EnterAAD: the block is folded before its last digit is in.
EnterAADStale(c) ==
  /\ Entering("TO_AAD", c)
  /\ AAD_block' = set_nibble(AAD_block, data_ofs, hex_to_nibble(c))
  /\ T' = IF data_ofs = FINAL_NIBBLE THEN ghash_iter(T, AAD_block, H) ELSE T
  /\ StepEntry(FINAL_NIBBLE)
  /\ UNCHANGED <<state, mode, frame_data, key, iblk, TX, IV,
                 copy_from, in_auth_tag, C_size, AAD_size>>

EnterAAD(c) ==
  /\ Entering("TO_AAD", c)
  /\ AAD_block' = set_nibble(AAD_block, data_ofs, hex_to_nibble(c))
  /\ T' = IF data_ofs = FINAL_NIBBLE THEN ghash_iter(T, AAD_block', H) ELSE T
  /\ StepEntry(FINAL_NIBBLE)
  /\ UNCHANGED <<state, mode, frame_data, key, iblk, TX, IV,
                 copy_from, in_auth_tag, C_size, AAD_size>>

EnterTag(c) ==
  /\ Entering("TO_AUTH_TAG", c)
  /\ in_auth_tag' = set_nibble(in_auth_tag, data_ofs, hex_to_nibble(c))
  /\ StepEntry(FINAL_NIBBLE)
  /\ UNCHANGED <<state, mode, frame_data, key, iblk, TX, IV,
                 copy_from, T, AAD_block, C_size, AAD_size>>

Receive(c) ==
  \/ CmdIV(c) \/ CmdKey(c) \/ CmdBlock(c) \/ CmdCrypt(c)
  \/ CmdAAD(c) \/ CmdTag(c) \/ CmdFinalize(c) \/ CmdReset(c)
  \/ EnterIV(c) \/ EnterKeyDigit(c) \/ EnterBlockDigit(c) \/ EnterAAD(c) \/ EnterTag(c)

-----------------------------------------------------------------------------
\* One UART cycle after F, when T has its final value.
Finalize ==
  /\ state = "FINALIZING"
  /\ state' = "WRITING"
  /\ frame_data' = IF mode = "ENCRYPT" THEN nibble_to_hex(get_nibble(auth_tag, 0))
                   ELSE IF block_eq(auth_tag, in_auth_tag) THEN "P" ELSE "F"
  /\ UNCHANGED <<mode, copy_to, data_ofs, key, iblk, TX, IV, auth>>

SendNext ==
  /\ SendNibble(get_nibble(IF copy_from = "FROM_OBLK" THEN oblk ELSE auth_tag, data_ofs + 1))
  /\ UNCHANGED <<IV, auth>>

\* A mutant of SendLast: the output is folded into T in both directions.
SendLastOutput ==
  /\ FinishReply
  /\ IF copy_from = "FROM_OBLK"
       THEN IV' = incr_iv(IV, IVNibs) /\ T' = ghash_iter(T, oblk, H)
       ELSE UNCHANGED <<IV, T>>
  /\ UNCHANGED <<copy_from, in_auth_tag, AAD_block, C_size, AAD_size>>

\* The ciphertext is folded into T, whichever side of the cipher it is on.
SendLast ==
  /\ FinishReply
  /\ IF copy_from = "FROM_OBLK"
       THEN /\ IV' = incr_iv(IV, IVNibs)
            /\ T' = ghash_iter(T, IF mode = "ENCRYPT" THEN oblk ELSE iblk, H)
       ELSE UNCHANGED <<IV, T>>
  /\ UNCHANGED <<copy_from, in_auth_tag, AAD_block, C_size, AAD_size>>

Transmit == Finalize \/ SendNext \/ SendLast

Next == (\E c \in Chars : Receive(c)) \/ Transmit

Safety == Init /\ [][Next]_vars

Spec == Safety /\ WF_vars(Transmit)

-----------------------------------------------------------------------------
TypeOK ==
  /\ FrontTypeOK(Chars \union {"P", "F"})
  /\ {IV, T, in_auth_tag, AAD_block} \subseteq AESBlock
  /\ state \in {"IDLE", "WRITING", "FINALIZING"}
  /\ copy_to \in {"TO_NOWHERE", "TO_KEY", "TO_IV", "TO_BLOCK", "TO_AAD", "TO_AUTH_TAG"}
  /\ copy_from \in {"FROM_OBLK", "FROM_AUTH_TAG"}
  /\ data_ofs \in 0 .. (IF copy_to = "TO_KEY" THEN KeyNibs - 1 ELSE FINAL_NIBBLE)
  /\ {C_size, AAD_size} \subseteq 0 .. SizeWrap - 1
=============================================================================
