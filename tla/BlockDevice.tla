---------------------------- MODULE BlockDevice ----------------------------
(***************************************************************************)
(* What a block cipher controller promises to the host on its serial line, *)
(* with whole registers and whole blocks as units: the host opens a        *)
(* register, its contents are then unknown until the register is complete, *)
(* and a request is answered by one block, a function of the registers at  *)
(* the time of the request, after which the chaining register moves on.    *)
(***************************************************************************)
CONSTANTS
  Keys, Blocks,        \* the values of the registers
  ZeroKey, ZeroBlock,  \* what they hold after power-up and after a reset
  Unknown,             \* not a value of a register
  Out(_, _, _, _),     \* the answer to a request in mode m with key k, IV v, block b
  Chain(_, _, _, _)    \* the IV after that answer

VARIABLES
  key, IV, iblk, mode,
  loading,  \* the register that is open, or TO_NOWHERE
  busy,     \* a request is not answered yet
  reply     \* the last answer

vars == <<key, IV, iblk, mode, loading, busy, reply>>

Init ==
  /\ key = ZeroKey
  /\ IV = ZeroBlock
  /\ iblk = ZeroBlock
  /\ mode = "ENCRYPT"
  /\ loading = "TO_NOWHERE"
  /\ busy = FALSE
  /\ reply = Unknown

Free == loading = "TO_NOWHERE" /\ ~busy

OpenKey ==
  /\ Free
  /\ loading' = "TO_KEY"
  /\ key' = Unknown
  /\ UNCHANGED <<IV, iblk, mode, busy, reply>>

OpenIV ==
  /\ Free
  /\ loading' = "TO_IV"
  /\ IV' = Unknown
  /\ UNCHANGED <<key, iblk, mode, busy, reply>>

OpenBlock ==
  /\ Free
  /\ loading' = "TO_BLOCK"
  /\ iblk' = Unknown
  /\ UNCHANGED <<key, IV, mode, busy, reply>>

CloseKey ==
  /\ loading = "TO_KEY"
  /\ loading' = "TO_NOWHERE"
  /\ key' \in Keys
  /\ UNCHANGED <<IV, iblk, mode, busy, reply>>

CloseIV ==
  /\ loading = "TO_IV"
  /\ loading' = "TO_NOWHERE"
  /\ IV' \in Blocks
  /\ UNCHANGED <<key, iblk, mode, busy, reply>>

CloseBlock ==
  /\ loading = "TO_BLOCK"
  /\ loading' = "TO_NOWHERE"
  /\ iblk' \in Blocks
  /\ UNCHANGED <<key, IV, mode, busy, reply>>

Request ==
  /\ Free
  /\ busy' = TRUE
  /\ mode' \in {"ENCRYPT", "DECRYPT"}
  /\ reply' = Unknown
  /\ UNCHANGED <<key, IV, iblk, loading>>

Answer ==
  /\ busy
  /\ busy' = FALSE
  /\ reply' = Out(mode, key, IV, iblk)
  /\ IV' = Chain(mode, key, IV, iblk)
  /\ UNCHANGED <<key, iblk, mode, loading>>

Reset ==
  /\ Free
  /\ key' = ZeroKey
  /\ IV' = ZeroBlock
  /\ iblk' = ZeroBlock
  /\ mode' = "ENCRYPT"
  /\ UNCHANGED <<loading, busy, reply>>

Next ==
  \/ OpenKey  \/ OpenIV  \/ OpenBlock
  \/ CloseKey \/ CloseIV \/ CloseBlock
  \/ Request  \/ Answer  \/ Reset

Safety == Init /\ [][Next]_vars

Spec == Safety /\ WF_vars(Answer)
=============================================================================
