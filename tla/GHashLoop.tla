----------------------------- MODULE GHashLoop -----------------------------
(***************************************************************************)
(* Calls of ghash_iter that fold blocks into a hash, one round of the loop *)
(* at a time.                                                              *)
(***************************************************************************)
EXTENDS GHash

CONSTANTS
  Factors,   \* the blocks that are folded in
  Hs,        \* the values of H
  MaxFolds   \* bound on the number of calls

ASSUME FactorsAssumption ==
  Factors \subseteq SUBSET (0 .. Width - 1) /\ Hs \subseteq SUBSET (0 .. Width - 1)

VARIABLES
  in_X, in_H,   \* X and H of the call
  rounds,       \* the number of rounds done
  loop,         \* the variables Z and V
  folds         \* the number of calls

ghash == <<in_X, in_H, rounds, loop, folds>>

StartLoop(T, C) == in_X' = Plus(T, C) /\ rounds' = 0 /\ loop' = [Z |-> {}, V |-> in_H]

LoopInit ==
  /\ in_X \in Factors /\ in_H \in Hs
  /\ rounds = 0 /\ loop = [Z |-> {}, V |-> in_H]
  /\ folds = 1

DoRound ==
  /\ rounds < Width
  /\ loop' = Round(in_X, rounds, loop) /\ rounds' = rounds + 1
  /\ UNCHANGED <<in_X, in_H, folds>>

\* The hash so far and the next block are the factor of the next call.
FoldBlock ==
  /\ rounds = Width /\ folds < MaxFolds
  /\ \E C \in Factors : StartLoop(loop.Z, C)
  /\ folds' = folds + 1
  /\ UNCHANGED in_H

LoopNext == DoRound \/ FoldBlock

LoopSpec == LoopInit /\ [][LoopNext]_ghash

\* After n rounds V is H times x^n and Z is H times the first n bits of X, in
\* the field: at the end, when the code reads it, Z is the product of X and H.
LoopIsProduct ==
  /\ loop.Z = RefMul({i \in in_X : i < rounds}, in_H)
  /\ rounds < Width => loop.V = RefMul({rounds}, in_H)
=============================================================================
