----------------------------- MODULE CBCSession -----------------------------
(***************************************************************************)
(* CBC seen by a host that processes a message: history variables for the  *)
(* IV the message started with and for the blocks that went in and out.    *)
(***************************************************************************)
EXTENDS CBC

CONSTANT MaxBlocks   \* bound on the length of the message

VARIABLES
  first,    \* the IV that was entered, or that of the reset
  message,  \* the <<plaintext, ciphertext>> pairs since then, as the host sees them
  steady    \* no request for one of them changed the mode

history == <<first, message, steady>>

svars == <<vars, history>>

SessionInit == Init /\ first = ZERO_BLOCK /\ message = << >> /\ steady = TRUE

Asked    == \E c \in Chars : CmdCrypt(c)
NewStart == ~SendLast /\ (IV' # IV \/ key' # key)

\* The pair that a completed reply adds to the message.
Pair == LET answer == ReadBack(TX')
        IN  IF mode = "ENCRYPT" THEN <<iblk, answer>> ELSE <<answer, iblk>>

SessionNext ==
  /\ Next
  /\ IF NewStart
       THEN first' = IV' /\ message' = << >> /\ steady' = TRUE
     ELSE IF SendLast
       THEN message' = Append(message, Pair) /\ UNCHANGED <<first, steady>>
     ELSE IF Asked
       THEN /\ Len(message) < MaxBlocks
            /\ steady' = (steady /\ mode' = mode)
            /\ UNCHANGED <<first, message>>
     ELSE UNCHANGED history

-----------------------------------------------------------------------------
Previous(i) == IF i = 1 THEN first ELSE message[i - 1][2]

\* The blocks of the message are related as CBC defines it: each ciphertext is
\* the encryption of its plaintext xor the ciphertext before it, where the
\* one before the first is the IV.
MessageIsCBC ==
  \A i \in 1 .. Len(message) :
    message[i][2] = Enc(key, XorBlock(Previous(i), message[i][1]))

\* The block that the next one is chained to, as the host sees it.
Last == IF message = << >> THEN first ELSE message[Len(message)][2]

\* The controller goes on from the ciphertext of the last block, but for the
\* first digit when the host was sent a wrong one; before the first block, from
\* the IV.
ChainIsKept ==
  /\ \A i \in 1 .. FINAL_NIBBLE : IV[i] = Last[i]
  /\ steady => IV = Last
=============================================================================
