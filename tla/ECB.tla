-------------------------------- MODULE ECB --------------------------------
(***************************************************************************)
(* UARTControllerECB: every block is encrypted or decrypted by itself.     *)
(* Both directions are computed all the time and the register mode selects *)
(* which one oblk shows.                                                   *)
(***************************************************************************)
EXTENDS BlockCipher

Output(m, k, b) == IF m = "DECRYPT" THEN Dec(k, b) ELSE Enc(k, b)

oblk == Output(mode, key, iblk)

Init == FrontInit

-----------------------------------------------------------------------------
\* D and E assign mode and read oblk at the same clock edge, so the first
\* nibble is read from the output that the old mode selects.
CmdCrypt(c) == StartReply(c, oblk)

Receive(c) ==
  \/ StartKey(c) \/ StartBlock(c) \/ CmdCrypt(c) \/ ResetFront(c)
  \/ EnterKey(c) \/ EnterBlock(c)

\* A mutant of SendNext: data_ofs is read before it is advanced.
SendNextStale == SendNibble(get_nibble(oblk, data_ofs))

SendNext == SendNibble(get_nibble(oblk, data_ofs + 1))

SendLast == FinishReply

\* A mutant of Transmit: the branch of the last nibble is missing.
TransmitMost == SendNext

Transmit == SendNext \/ SendLast

Next == (\E c \in Chars : Receive(c)) \/ Transmit

Safety == Init /\ [][Next]_front

Spec == Safety /\ WF_front(Transmit)

-----------------------------------------------------------------------------
TypeOK ==
  /\ FrontTypeOK(Chars)
  /\ state \in {"IDLE", "WRITING"}
  /\ copy_to \in {"TO_NOWHERE", "TO_KEY", "TO_BLOCK"}
  /\ data_ofs \in 0 .. (IF copy_to = "TO_KEY" THEN KeyNibs - 1 ELSE FINAL_NIBBLE)
-----------------------------------------------------------------------------
(* With a host, and a history variable: the mode that the controller was   *)
(* in when the reply that is under way, or the last one, was requested.    *)

VARIABLE before

SessionInit == Init /\ before = "ENCRYPT"

SessionNext ==
  /\ Next
  /\ before' = IF \E c \in Chars : CmdCrypt(c) THEN mode ELSE before

\* The block the host reads has the first digit of the mode that the controller was
\* in when it got the request, and the other digits of the mode asked for.
AnswersAsBuilt ==
  SendLast => ReadBack(TX') =
    [Output(mode, key, iblk) EXCEPT ![0] = Output(before, key, iblk)[0]]
=============================================================================
