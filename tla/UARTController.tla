--------------------------- MODULE UARTController ---------------------------
(***************************************************************************)
(* The part that UARTControllerECB, CBC, CTR and GCM have in common: the   *)
(* command interpreter, the entry of a key or a block as hex digits, and   *)
(* the transmission of a block as hex digits.                              *)
(*                                                                         *)
(* A step is the handling of one whole character.  The reception of a      *)
(* frame ends at the clock edge that samples data bit 7, where the code    *)
(* does all its work on the byte, so that edge is the action Cmd.. or      *)
(* Enter..; the transmission of a frame ends at the edge that drives the   *)
(* stop bit, where the code picks the next nibble, so that edge is the     *)
(* action SendNibble or FinishReply.  Module UARTFrame models the clock    *)
(* cycles and the bits in between, and EncryptBlock the 14 clock cycles    *)
(* after which an AES output can be read.                                  *)
(***************************************************************************)
EXTENDS AESIO

VARIABLES
  state,       \* IDLE, WRITING (and FINALIZING in GCM); READING is inside a step
  mode,        \* ENCRYPT or DECRYPT
  copy_to,     \* the register that hex digits are being copied to
  data_ofs,    \* index of the nibble being received or sent
  frame_data,  \* the character being sent
  key,
  iblk,        \* the input block
  TX           \* the characters sent since the last request for output

front == <<state, mode, copy_to, data_ofs, frame_data, key, iblk, TX>>

FrontInit ==
  /\ state = "IDLE"
  /\ mode = "ENCRYPT"
  /\ copy_to = "TO_NOWHERE"
  /\ data_ofs = 0
  /\ frame_data = HexChar[0]   \* eight zero bits in the code; never sent
  /\ key = ZERO_KEY
  /\ iblk = ZERO_BLOCK
  /\ TX = << >>

-----------------------------------------------------------------------------
(* Commands: single characters, in either case. *)

Commanding == state = "IDLE" /\ copy_to = "TO_NOWHERE"

OpenEntry(dest) ==
  /\ Commanding
  /\ copy_to' = dest
  /\ data_ofs' = 0
  /\ UNCHANGED <<state, mode, frame_data, key, iblk, TX>>

StartKey(c)   == c \in {"K", "k"} /\ OpenEntry("TO_KEY")
StartBlock(c) == c \in {"B", "b"} /\ OpenEntry("TO_BLOCK")

ModeOf(c) == IF c \in {"D", "d"} THEN "DECRYPT" ELSE "ENCRYPT"

\* D and E: latch the first nibble of the output and start sending.
StartReply(c, oblk) ==
  /\ c \in {"D", "d", "E", "e"}
  /\ Commanding
  /\ state' = "WRITING"
  /\ mode' = ModeOf(c)
  /\ data_ofs' = 0
  /\ frame_data' = nibble_to_hex(get_nibble(oblk, 0))
  /\ TX' = << >>
  /\ UNCHANGED <<copy_to, key, iblk>>

ResetFront(c) ==
  /\ c \in {"R", "r"}
  /\ Commanding
  /\ copy_to' = "TO_NOWHERE"
  /\ mode' = "ENCRYPT"
  /\ data_ofs' = 0
  /\ key' = ZERO_KEY
  /\ iblk' = ZERO_BLOCK
  /\ UNCHANGED <<state, frame_data, TX>>

-----------------------------------------------------------------------------
(* Entry of hex digits.  A character that is no hex digit is ignored, and  *)
(* a command letter that is a hex digit is a digit here.                   *)

Entering(dest, c) == state = "IDLE" /\ copy_to = dest /\ is_valid_hex(c)

\* One more digit of a register whose last digit has index last.
StepEntry(last) ==
  IF data_ofs = last
    THEN copy_to' = "TO_NOWHERE" /\ data_ofs' = 0
    ELSE data_ofs' = data_ofs + 1 /\ UNCHANGED copy_to

EnterKey(c) ==
  /\ Entering("TO_KEY", c)
  /\ key' = set_nibble(key, data_ofs, hex_to_nibble(c))
  /\ StepEntry(KeyNibs - 1)
  /\ UNCHANGED <<state, mode, frame_data, iblk, TX>>

EnterBlock(c) ==
  /\ Entering("TO_BLOCK", c)
  /\ iblk' = set_nibble(iblk, data_ofs, hex_to_nibble(c))
  /\ StepEntry(FINAL_NIBBLE)
  /\ UNCHANGED <<state, mode, frame_data, key, TX>>

-----------------------------------------------------------------------------
(* Transmission. *)

\* The stop bit of a nibble that is not the last one; next is the nibble
\* that the code latches at this moment.
SendNibble(next) ==
  /\ state = "WRITING"
  /\ data_ofs # FINAL_NIBBLE
  /\ TX' = Append(TX, frame_data)
  /\ frame_data' = nibble_to_hex(next)
  /\ data_ofs' = data_ofs + 1
  /\ UNCHANGED <<state, mode, copy_to, key, iblk>>

\* The stop bit of the last nibble.
FinishReply ==
  /\ state = "WRITING"
  /\ data_ofs = FINAL_NIBBLE
  /\ TX' = Append(TX, frame_data)
  /\ state' = "IDLE"
  /\ data_ofs' = 0
  /\ UNCHANGED <<mode, copy_to, frame_data, key, iblk>>

-----------------------------------------------------------------------------
\* The block that the digits on the line stand for.
ReadBack(text) == [i \in 0 .. FINAL_NIBBLE |-> hex_to_nibble(text[i + 1])]

\* chars: what the controller may send.
FrontTypeOK(chars) ==
  /\ mode \in {"ENCRYPT", "DECRYPT"}
  /\ frame_data \in chars
  /\ key \in MasterKey
  /\ iblk \in AESBlock
  /\ TX \in Seq(chars)
=============================================================================
