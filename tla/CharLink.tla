------------------------------ MODULE CharLink ------------------------------
(***************************************************************************)
(* What the command interpreter expects of the serial line: the characters *)
(* of the host arrive once each, unchanged and in order, and each one      *)
(* before the host begins the next.                                        *)
(***************************************************************************)
EXTENDS Integers

CONSTANTS Chars, None

VARIABLES
  wire,     \* the character on its way, or None
  arrived   \* the last character that arrived, and a bit that flips with each

vars == <<wire, arrived>>

Init == wire = None /\ arrived = <<None, 0>>

Send ==
  /\ wire = None
  /\ wire' \in Chars
  /\ UNCHANGED arrived

Deliver ==
  /\ wire # None
  /\ arrived' = <<wire, 1 - arrived[2]>>
  /\ wire' = None

Next == Send \/ Deliver

Spec == Init /\ [][Next]_vars /\ WF_vars(Deliver)
=============================================================================
