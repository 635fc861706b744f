------------------------------- MODULE MC_GCM -------------------------------
(* GCM on blocks of three bits, with the field of eight elements. *)
EXTENDS GCMSession, SmallCipher

Field == INSTANCE GHash WITH Width <- BlockNibs, Taps <- {0, 1}

Ones(b) == {i \in 0 .. FINAL_NIBBLE : b[i] = 1}

\* A table, which TLC computes once.
Products ==
  [x \in AESBlock |-> [h \in AESBlock |->
     LET z == Field!Mul(Ones(x), Ones(h))
     IN  [i \in 0 .. FINAL_NIBBLE |-> IF i \in z THEN 1 ELSE 0]]]

MCGMul(x, h) == Products[x][h]

\* Two messages; the second has no more than a block of text.
MCMessages == << [aad |-> 1, text |-> 2], [aad |-> 0, text |-> 1] >>

\* The same without additional data.
MCShort == << [aad |-> 0, text |-> 1], [aad |-> 0, text |-> 1] >>

MCLenBlock(a, c) == Digits(4 * a + c)
=============================================================================
