--------------------------- MODULE MC_Controllers ---------------------------
(***************************************************************************)
(* The ECB and the CBC controller, whichever of them the FPGA was built    *)
(* with, and what a host may say about the replies.                        *)
(***************************************************************************)
EXTENDS BlockCipher, SmallCipher

CONSTANT MaxBlocks

VARIABLES built, before, IV, first, message, steady

E == INSTANCE ECB
C == INSTANCE CBCSession

cbc  == <<IV, first, message, steady>>
vars == <<built, front, before, cbc>>

Init ==
  /\ built \in {"ECB", "CBC"}
  /\ E!SessionInit /\ C!SessionInit

StepECB == built = "ECB" /\ E!SessionNext /\ UNCHANGED <<built, cbc>>

StepCBC == built = "CBC" /\ C!SessionNext /\ UNCHANGED <<built, before>>

Next == StepECB \/ StepCBC

Sends == state = "WRITING" /\ Next

\* The controllers transmit without waiting for anything but their clock.
Spec == Init /\ [][Next]_vars /\ WF_vars(Sends)

-----------------------------------------------------------------------------
\* Exactly what the host reads from ECB: the block it asked for, but with the
\* first digit of the other direction if the request changed the mode (the D
\* and E branches of UARTControllerECB).  A request that keeps the mode is
\* answered right.
ReplyAsBuilt == [][built = "ECB" => E!AnswersAsBuilt]_vars

\* A message that CBC processes in one direction, with requests that do not
\* change the mode, is CBC.  This spans the requests of the message: IV must
\* be the previous ciphertext in both directions (the last nibble of a reply
\* in UARTControllerCBC), and must not move in between, whatever else the
\* host enters.
SteadyMessageIsCBC == steady => C!MessageIsCBC

\* The chain itself survives the wrong first digit of a reply that changed
\* the direction: the controller goes on from the ciphertext it computed, or
\* was given, and not from the one that the host was sent.
ChainSurvivesModeChange == C!ChainIsKept

\* A request is answered in full: the controller comes back to IDLE with all
\* the digits of a block on the line.
RequestsAreAnswered ==
  state = "WRITING" ~> state = "IDLE" /\ Len(TX) = BlockNibs
=============================================================================
