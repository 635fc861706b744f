-------------------------------- MODULE CBC --------------------------------
(***************************************************************************)
(* UARTControllerCBC: cipher block chaining.  The register IV holds the    *)
(* ciphertext of the previous block; it is xored into the input of the     *)
(* encryption or into the output of the decryption.                        *)
(***************************************************************************)
EXTENDS BlockCipher

VARIABLE IV

vars == <<front, IV>>

Output(m, k, v, b) ==
  IF m = "DECRYPT" THEN XorBlock(v, Dec(k, b)) ELSE Enc(k, XorBlock(v, b))

oblk == Output(mode, key, IV, iblk)

Init == FrontInit /\ IV = ZERO_BLOCK

-----------------------------------------------------------------------------
CmdIV(c)    == c \in {"I", "i"} /\ OpenEntry("TO_IV") /\ UNCHANGED IV
CmdKey(c)   == StartKey(c) /\ UNCHANGED IV
CmdBlock(c) == StartBlock(c) /\ UNCHANGED IV

\* oblk is read at the edge that assigns mode: it is still the old mode's.
CmdCrypt(c) == StartReply(c, oblk) /\ UNCHANGED IV

CmdReset(c) == ResetFront(c) /\ IV' = ZERO_BLOCK

EnterIV(c) ==
  /\ Entering("TO_IV", c)
  /\ IV' = set_nibble(IV, data_ofs, hex_to_nibble(c))
  /\ StepEntry(FINAL_NIBBLE)
  /\ UNCHANGED <<state, mode, frame_data, key, iblk, TX>>

EnterKeyDigit(c)   == EnterKey(c) /\ UNCHANGED IV
EnterBlockDigit(c) == EnterBlock(c) /\ UNCHANGED IV

Receive(c) ==
  \/ CmdIV(c) \/ CmdKey(c) \/ CmdBlock(c) \/ CmdCrypt(c) \/ CmdReset(c)
  \/ EnterIV(c) \/ EnterKeyDigit(c) \/ EnterBlockDigit(c)

SendNext == SendNibble(get_nibble(oblk, data_ofs + 1)) /\ UNCHANGED IV

\* Mutants of SendLast: the output always becomes the next IV; the plaintext does.
SendLastOutput == FinishReply /\ IV' = oblk
SendLastPlain  == FinishReply /\ IV' = IF mode = "ENCRYPT" THEN iblk ELSE oblk

\* The ciphertext becomes the next IV, whichever side of the cipher it is on.
SendLast == FinishReply /\ IV' = IF mode = "ENCRYPT" THEN oblk ELSE iblk

Transmit == SendNext \/ SendLast

Next == (\E c \in Chars : Receive(c)) \/ Transmit

Safety == Init /\ [][Next]_vars

Spec == Safety /\ WF_vars(Transmit)

-----------------------------------------------------------------------------
TypeOK ==
  /\ FrontTypeOK(Chars)
  /\ IV \in AESBlock
  /\ state \in {"IDLE", "WRITING"}
  /\ copy_to \in {"TO_NOWHERE", "TO_KEY", "TO_IV", "TO_BLOCK"}
  /\ data_ofs \in 0 .. (IF copy_to = "TO_KEY" THEN KeyNibs - 1 ELSE FINAL_NIBBLE)
=============================================================================
