-------------------------------- MODULE CTR --------------------------------
(***************************************************************************)
(* UARTControllerCTR: counter mode.  The output is the input block xor the *)
(* encryption of the counter IV, for encryption and decryption alike, and  *)
(* the counter moves on when the last nibble has been sent.                *)
(***************************************************************************)
EXTENDS UARTController

CONSTANT Enc(_, _)   \* EncryptBlock, settled: key, block -> block

ASSUME EncAssumption ==
  \A k \in MasterKey, b \in AESBlock : Enc(k, b) \in AESBlock

VARIABLE IV

vars == <<front, IV>>

keystream == Enc(key, IV)

oblk == XorBlock(iblk, keystream)

Init == FrontInit /\ IV = ZERO_BLOCK

-----------------------------------------------------------------------------
CmdIV(c)    == c \in {"I", "i"} /\ OpenEntry("TO_IV") /\ UNCHANGED IV
CmdKey(c)   == StartKey(c) /\ UNCHANGED IV
CmdBlock(c) == StartBlock(c) /\ UNCHANGED IV
CmdCrypt(c) == StartReply(c, oblk) /\ UNCHANGED IV
\* A mutant of CmdReset: the counter is kept.
CmdResetKeepsIV(c) == ResetFront(c) /\ UNCHANGED IV

CmdReset(c) == ResetFront(c) /\ IV' = ZERO_BLOCK

EnterIV(c) ==
  /\ Entering("TO_IV", c)
  /\ IV' = set_nibble(IV, data_ofs, hex_to_nibble(c))
  /\ StepEntry(FINAL_NIBBLE)
  /\ UNCHANGED <<state, mode, frame_data, key, iblk, TX>>

EnterKeyDigit(c)   == EnterKey(c) /\ UNCHANGED IV
EnterBlockDigit(c) == EnterBlock(c) /\ UNCHANGED IV

Receive(c) ==
  \/ CmdIV(c) \/ CmdKey(c) \/ CmdBlock(c) \/ CmdCrypt(c) \/ CmdReset(c)
  \/ EnterIV(c) \/ EnterKeyDigit(c) \/ EnterBlockDigit(c)

\* A mutant of SendNext: data_ofs is read before it is advanced.
SendNextStale == SendNibble(get_nibble(oblk, data_ofs)) /\ UNCHANGED IV

SendNext == SendNibble(get_nibble(oblk, data_ofs + 1)) /\ UNCHANGED IV

SendLast == FinishReply /\ IV' = incr_iv(IV, 0)

Transmit == SendNext \/ SendLast

Next == (\E c \in Chars : Receive(c)) \/ Transmit

Safety == Init /\ [][Next]_vars

\* The controller transmits without waiting for anything but its clock.
Spec == Safety /\ WF_vars(Transmit)

-----------------------------------------------------------------------------
TypeOK ==
  /\ FrontTypeOK(Chars)
  /\ IV \in AESBlock
  /\ state \in {"IDLE", "WRITING"}
  /\ copy_to \in {"TO_NOWHERE", "TO_KEY", "TO_IV", "TO_BLOCK"}
  /\ data_ofs \in 0 .. (IF copy_to = "TO_KEY" THEN KeyNibs - 1 ELSE FINAL_NIBBLE)

(***************************************************************************)
(* While a reply is being sent nothing is being entered, the characters on *)
(* the line are the first data_ofs digits of the output block, and the     *)
(* character in frame_data is the next one.  The output is combinational:  *)
(* the code reads it anew for every nibble, so this holds only because no  *)
(* register it depends on moves before the last nibble is gone.            *)
(***************************************************************************)
ReplyOnTrack ==
  state = "WRITING" =>
    /\ copy_to = "TO_NOWHERE"
    /\ Len(TX) = data_ofs
    /\ \A i \in 1 .. data_ofs : TX[i] = nibble_to_hex(oblk[i - 1])
    /\ frame_data = nibble_to_hex(oblk[data_ofs])

(***************************************************************************)
(* The block-level device that this controller implements.  A register is  *)
(* unknown while it is being entered, and the reply is known once all of   *)
(* its digits are on the line.                                             *)
(***************************************************************************)
CONSTANT Unknown

CTROut(m, k, v, b)   == XorBlock(b, Enc(k, v))
CTRChain(m, k, v, b) == incr_iv(v, 0)

Device == INSTANCE BlockDevice WITH
  Keys      <- MasterKey,
  Blocks    <- AESBlock,
  ZeroKey   <- ZERO_KEY,
  ZeroBlock <- ZERO_BLOCK,
  Out       <- CTROut,
  Chain     <- CTRChain,
  key       <- IF copy_to = "TO_KEY" THEN Unknown ELSE key,
  IV        <- IF copy_to = "TO_IV" THEN Unknown ELSE IV,
  iblk      <- IF copy_to = "TO_BLOCK" THEN Unknown ELSE iblk,
  loading   <- copy_to,
  busy      <- (state = "WRITING"),
  reply     <- IF Len(TX) = BlockNibs THEN ReadBack(TX) ELSE Unknown

\* The controller behaves as a block device that answers each request with
\* the input block xor the encrypted counter, takes a fresh counter for each
\* answer and answers every request (ff0 of UARTControllerCTR.vhd).
ImplementsDevice == Device!Spec
=============================================================================
