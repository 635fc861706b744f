----------------------------- MODULE Equations -----------------------------
(***************************************************************************)
(* The equations of gf2_cse.py and the operations on them.  An equation is *)
(* the set of terms that are XORed: an input n >= 0, the constant None, or *)
(* a temporary signal, -t for the signal t.  While reductions are looked   *)
(* for, all equations are in one list s, the definitions of the temporary  *)
(* signals first, the newest one at the front.  Afterwards the definitions *)
(* are a dictionary td from 1 .. n, beside the list of the outputs.        *)
(* Positions of lists count from 1 here.                                   *)
(***************************************************************************)
EXTENDS Integers, Sequences, FiniteSets, FiniteSetsExt

CONSTANT None   \* the constant term

ASSUME NoneAssumption == None \notin Int

IsTmp(x) == x # None /\ x < 0

Terms(e) == Cardinality(e)

\* The terms of e that occupy an input of a LUT: the constant does not.
Fanin(e) == Cardinality(e \ {None})

-----------------------------------------------------------------------------
(* What a list or dictionary of equations costs. *)

Gates(eqs) ==
  MapThenSumSet(LAMBDA i : IF eqs[i] = {} THEN 0 ELSE Terms(eqs[i]) - 1, DOMAIN eqs)

Luts(eqs, lut) ==
  MapThenSumSet(LAMBDA i : (Fanin(eqs[i]) + lut - 3) \div (lut - 1), DOMAIN eqs)

\* The count by the metric of a run, gates (0 here) or LUTs of some size.
Count(eqs, lut) == IF lut = 0 THEN Gates(eqs) ELSE Luts(eqs, lut)

-----------------------------------------------------------------------------
(* Changes. *)

\* Mutant of AddTmpList: the definition goes to the end of the list.
AddTmpList_end(s, idxs, new, id) ==
  [i \in DOMAIN s |-> IF i \in idxs THEN (s[i] \ new) \union {-id} ELSE s[i]] \o <<new>>

\* The signal id takes the place of the terms new in the equations idxs.
AddTmpList(s, idxs, new, id) ==
  <<new>> \o [i \in DOMAIN s |-> IF i \in idxs THEN (s[i] \ new) \union {-id} ELSE s[i]]

\* The signal t is replaced by its definition, by a union of sets.
Inlined(e, t, defn) == IF -t \in e THEN (e \ {-t}) \union defn ELSE e

\* The last signal takes the number of the deleted one.
Renamed(e, from, to) == IF -from \in e THEN (e \ {-from}) \union {-to} ELSE e

\* _delete_tmp with patch = True, on the definitions and on the outputs.
DeletedDefs(td, t) ==
  LET n == Cardinality(DOMAIN td)
      at(k) == Renamed(Inlined(td[k], t, td[t]), n, t)
  IN  [k \in 1 .. n - 1 |-> IF k = t THEN at(n) ELSE at(k)]

DeletedOuts(td, out, t) ==
  [i \in DOMAIN out |-> Renamed(Inlined(out[i], t, td[t]), Cardinality(DOMAIN td), t)]

\* The terms of an equation under a new numbering of the signals.
Moved(e, pos) == {IF IsTmp(x) THEN -pos[-x] ELSE x : x \in e}

-----------------------------------------------------------------------------
(* The gain of a reduction in LUTs. *)

\* Mutant of LutDelta: the cost of the new signal is not rounded up.
LutDelta_floor(idxs, inter, s, lut) ==
  LET k   == Fanin(inter)
      ls1 == lut - 1
      ls2 == lut - 2
  IN  - (MapThenSumSet(LAMBDA j :
           (Fanin(s[j]) + ls2 - k) \div ls1 - (Fanin(s[j]) + ls2 - 1) \div ls1, idxs)
         + (k - 1) \div ls1)

LutDelta(idxs, inter, s, lut) ==
  LET k   == Fanin(inter)
      ls1 == lut - 1
      ls2 == lut - 2
  IN  - (MapThenSumSet(LAMBDA j :
           (Fanin(s[j]) + ls2 - k) \div ls1 - (Fanin(s[j]) + ls2 - 1) \div ls1, idxs)
         + (k - 1 + ls2) \div ls1)

-----------------------------------------------------------------------------
(* Dependencies between the signals. *)

Deps(td, t) == {-x : x \in {y \in td[t] : IsTmp(y)}}

Users(td, u) == {t \in DOMAIN td : u \in Deps(td, t)}

\* What an equation stands for, in inputs and the constant: a term that is
\* reached an odd number of times.  The signals are unfolded as often as
\* there are signals, which is enough without a cycle.
Odd(e, v) ==
  {x \in UNION {v[y] : y \in e} : Cardinality({y \in e : x \in v[y]}) % 2 = 1}

\* One unfolding: the signals of v by their definitions.
Unfolded(td, v) ==
  [x \in DOMAIN v |-> IF IsTmp(x) /\ -x \in DOMAIN td THEN Odd(td[-x], v) ELSE v[x]]

Meaning(td, e) ==
  LET n     == Cardinality(DOMAIN td)
      names == e \union {-t : t \in DOMAIN td} \union UNION {td[t] : t \in DOMAIN td}
      val[k \in 0 .. n] ==
        IF k = 0 THEN [x \in names |-> IF IsTmp(x) THEN {} ELSE {x}]
        ELSE Unfolded(td, val[k - 1])
  IN  Odd(e, val[n])
=============================================================================
