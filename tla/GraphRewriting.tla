--------------------------- MODULE GraphRewriting ---------------------------
(***************************************************************************)
(* What the optimiser may do to a graph of equations, however it looks for *)
(* reductions: move shared terms into a new signal, replace a signal by    *)
(* its definition, and renumber the signals.  A signal is replaced with a  *)
(* union of sets where GF(2) asks for a symmetric difference; this is      *)
(* right because no two terms of an equation ever overlap in what they     *)
(* stand for.                                                              *)
(***************************************************************************)
EXTENDS Equations

VARIABLES
  given,   \* the equations of the caller
  defs,    \* the definitions of the signals 1 .. n
  outs,    \* the outputs
  stand    \* what each signal stands for, in terms of the caller

graph == <<given, defs, outs, stand>>

Val(x) == IF IsTmp(x) THEN stand[-x] ELSE {x}

Value(e) == UNION {Val(x) : x \in e}

Apart(e) == \A x, y \in e : x # y => Val(x) \intersect Val(y) = {}

\* The caller has no signals.
Init ==
  /\ defs = <<>> /\ stand = <<>>
  /\ outs = given
  /\ \A i \in DOMAIN given : \A x \in given[i] : x = None \/ x \in Nat

-----------------------------------------------------------------------------
\* The equation e becomes f when new moves into the signal id.
Takes(e, f, new, id) == f = e \/ (new \subseteq e /\ f = (e \ new) \union {-id})

Extract ==
  LET n  == Cardinality(DOMAIN defs)
      id == n + 1
  IN  /\ DOMAIN defs' = 1 .. id
      /\ DOMAIN outs' = DOMAIN outs
      /\ \A t \in 1 .. n : Takes(defs[t], defs'[t], defs'[id], id)
      /\ \A i \in DOMAIN outs : Takes(outs[i], outs'[i], defs'[id], id)
      /\ \E i \in DOMAIN outs \union 1 .. n :
           \/ i \in DOMAIN outs /\ defs'[id] \subseteq outs[i]
           \/ i \in 1 .. n /\ defs'[id] \subseteq defs[i]
      /\ stand' = [t \in 1 .. id |-> IF t = id THEN Value(defs'[id]) ELSE stand[t]]

Inline(t) ==
  LET n == Cardinality(DOMAIN defs)
  IN  /\ -t \notin defs[t]
      /\ defs' = DeletedDefs(defs, t)
      /\ outs' = DeletedOuts(defs, outs, t)
      /\ stand' = [k \in 1 .. n - 1 |-> IF k = t THEN stand[n] ELSE stand[k]]

\* Signal p[k] becomes signal k.
Renumber(p) ==
  LET pos == [t \in DOMAIN defs |-> CHOOSE k \in DOMAIN defs : p[k] = t]
  IN  /\ defs' = [k \in DOMAIN defs |-> Moved(defs[p[k]], pos)]
      /\ outs' = [i \in DOMAIN outs |-> Moved(outs[i], pos)]
      /\ stand' = [k \in DOMAIN defs |-> stand[p[k]]]

\* The permutations of the signals.
Orders == {p \in [DOMAIN defs -> DOMAIN defs] : \A t \in DOMAIN defs : \E k \in DOMAIN defs : p[k] = t}

Next ==
  /\ \/ Extract
     \/ \E t \in DOMAIN defs : Inline(t)
     \/ \E p \in Orders : Renumber(p)
  /\ UNCHANGED given

Spec == Init /\ [][Next]_graph

-----------------------------------------------------------------------------
\* No step changes what an output stands for, and the terms of an equation
\* never overlap, so the union in _delete_tmp does what an XOR would.
ValuesKept ==
  /\ \A i \in DOMAIN outs : Apart(outs[i]) /\ Value(outs[i]) = given[i]
  /\ \A t \in DOMAIN defs : Apart(defs[t]) /\ Value(defs[t]) = stand[t]
=============================================================================
