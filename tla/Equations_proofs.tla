-------------------------- MODULE Equations_proofs --------------------------
(***************************************************************************)
(* What the changes to equations preserve, for every graph: what each      *)
(* equation stands for, that its terms do not overlap, that there is no    *)
(* cycle.  And what Meaning computes by unfolding the signals is what they *)
(* stand for.                                                              *)
(***************************************************************************)
EXTENDS Equations, FiniteSetTheorems, WellFoundedInduction, TLAPS

(* What terms and equations stand for, when st is what signals stand for.  *)
ValIn(st, x)   == IF IsTmp(x) THEN st[-x] ELSE {x}
ValueIn(st, e) == UNION {ValIn(st, x) : x \in e}
ApartIn(st, e) == \A x, y \in e : x # y => ValIn(st, x) \intersect ValIn(st, y) = {}

\* The equation e stands for v, without overlaps.
Stands(st, e, v) == ApartIn(st, e) /\ ValueIn(st, e) = v

\* The terms that there may be with n signals.
TermsUpTo(n) == {None} \union {x \in Int : x >= -n}

\* The equation e becomes f when the terms new move into the signal id.
Moves(e, f, new, id) == f = e \/ (new \subseteq e /\ f = (e \ new) \union {-id})

\* A signal may be replaced by its definition.
LEMMA InliningKeeps ==
  ASSUME NEW st, NEW e, NEW d, NEW t, NEW v,
         Stands(st, e, v), Stands(st, d, ValIn(st, -t))
  PROVE  Stands(st, Inlined(e, t, d), v)
<1>1. CASE -t \notin e
  BY <1>1 DEF Inlined
<1>2. CASE -t \in e
  <2> DEFINE f == (e \ {-t}) \union d
  <2>1. Inlined(e, t, d) = f
    BY <1>2 DEF Inlined
  <2>2. \A y \in d : ValIn(st, y) \subseteq ValIn(st, -t)
    BY DEF Stands, ValueIn
  <2>3. \A x \in e \ {-t} : ValIn(st, x) \intersect ValIn(st, -t) = {}
    BY <1>2 DEF Stands, ApartIn
  <2>4. ApartIn(st, f)
    <3> SUFFICES ASSUME NEW x \in f, NEW y \in f, x # y
                 PROVE  ValIn(st, x) \intersect ValIn(st, y) = {}
      BY DEF ApartIn
    <3>1. CASE x \in d /\ y \in d
      BY <3>1 DEF Stands, ApartIn
    <3>2. CASE x \in e \ {-t} /\ y \in e \ {-t}
      BY <3>2 DEF Stands, ApartIn
    <3>3. CASE x \in d /\ y \in e \ {-t}
      BY <3>3, <2>2, <2>3
    <3>4. CASE x \in e \ {-t} /\ y \in d
      BY <3>4, <2>2, <2>3
    <3> QED BY <3>1, <3>2, <3>3, <3>4
  <2>5. ValueIn(st, f) = ValueIn(st, e \ {-t}) \union ValueIn(st, d)
    BY DEF ValueIn
  <2>6. ValueIn(st, e) = ValueIn(st, e \ {-t}) \union ValIn(st, -t)
    BY <1>2 DEF ValueIn
  <2> QED BY <2>1, <2>4, <2>5, <2>6 DEF Stands
<1> QED BY <1>1, <1>2

\* Terms may be replaced by others that stand for the same.
LEMMA ReplacingKeeps ==
  ASSUME NEW st, NEW st2, NEW e, NEW f, NEW v, Stands(st, e, v),
         \A x \in e : ValIn(st2, f[x]) = ValIn(st, x)
  PROVE  Stands(st2, {f[x] : x \in e}, v)
<1>1. ValueIn(st2, {f[x] : x \in e}) = ValueIn(st, e)
  BY DEF ValueIn
<1>2. ApartIn(st2, {f[x] : x \in e})
  BY DEF Stands, ApartIn
<1> QED BY <1>1, <1>2 DEF Stands

\* Shared terms may move into a new signal.
LEMMA TakingKeeps ==
  ASSUME NEW st, NEW e, NEW new, NEW id, NEW v, NEW f,
         Stands(st, e, v), Moves(e, f, new, id), ValIn(st, -id) = ValueIn(st, new)
  PROVE  Stands(st, f, v)
<1>1. CASE f = e
  BY <1>1
<1>2. CASE new \subseteq e /\ f = (e \ new) \union {-id}
  <2>1. \A x \in e \ new : ValIn(st, x) \intersect ValueIn(st, new) = {}
    BY <1>2 DEF Stands, ApartIn, ValueIn
  <2>2. ApartIn(st, f)
    BY <1>2, <2>1 DEF Stands, ApartIn
  <2>3. ValueIn(st, e) = ValueIn(st, e \ new) \union ValueIn(st, new)
    BY <1>2 DEF ValueIn
  <2>4. ValueIn(st, f) = ValueIn(st, e \ new) \union ValIn(st, -id)
    BY <1>2 DEF ValueIn
  <2> QED BY <2>2, <2>3, <2>4 DEF Stands
<1> QED BY <1>1, <1>2 DEF Moves

\* It matters only what the terms of an equation stand for.
LEMMA AgreeingKeeps ==
  ASSUME NEW st, NEW st2, NEW e, NEW v, Stands(st, e, v),
         \A x \in e : ValIn(st2, x) = ValIn(st, x)
  PROVE  Stands(st2, e, v)
<1> DEFINE f == [x \in e |-> x]
<1>1. \A x \in e : ValIn(st2, f[x]) = ValIn(st, x)
  OBVIOUS
<1>2. {f[x] : x \in e} = e
  OBVIOUS
<1> HIDE DEF f
<1>3. Stands(st2, {f[x] : x \in e}, v)
  BY <1>1, ReplacingKeeps
<1> QED BY <1>2, <1>3

\* A term that is a signal has the number of a signal.
LEMMA SignalNumber ==
  ASSUME NEW n \in Nat, NEW x \in TermsUpTo(n), IsTmp(x)
  PROVE  x \in Int /\ -x \in 1 .. n /\ -(-x) = x
BY NoneAssumption DEF TermsUpTo, IsTmp

\* A signal stands for what stand says of its number.
LEMMA ValueOfSignal ==
  ASSUME NEW st, NEW t \in Nat \ {0}
  PROVE  IsTmp(-t) /\ ValIn(st, -t) = st[t]
BY NoneAssumption DEF ValIn, IsTmp

-----------------------------------------------------------------------------
(* _delete_tmp, on one equation. *)

\* What _delete_tmp makes of an equation stands for the same, in the new
\* numbering.
LEMMA DeletingKeeps ==
  ASSUME NEW n \in Nat \ {0}, NEW t \in 1 .. n, NEW st, NEW st2, NEW e, NEW d, NEW v,
         e \subseteq TermsUpTo(n), d \subseteq TermsUpTo(n), -t \notin d,
         Stands(st, e, v), Stands(st, d, st[t]),
         \A k \in 1 .. n - 1 : st2[k] = IF k = t THEN st[n] ELSE st[k]
  PROVE  /\ Stands(st2, Renamed(Inlined(e, t, d), n, t), v)
         /\ Renamed(Inlined(e, t, d), n, t) \subseteq TermsUpTo(n - 1)
<1> DEFINE g == Inlined(e, t, d)
           f == [x \in g |-> IF x = -n THEN -t ELSE x]
<1>1. Stands(st, g, v)
  BY InliningKeeps, ValueOfSignal
<1>2. g \subseteq TermsUpTo(n) /\ -t \notin g
  BY DEF Inlined
<1>3. Renamed(g, n, t) = {f[x] : x \in g}
  BY DEF Renamed
<1>4. ASSUME NEW x \in g
      PROVE  f[x] \in TermsUpTo(n - 1) /\ ValIn(st2, f[x]) = ValIn(st, x)
  <2>1. CASE ~IsTmp(x)
    <3>1. f[x] = x
      BY <2>1, ValueOfSignal
    <3> QED BY <2>1, <3>1, <1>2, NoneAssumption DEF ValIn, TermsUpTo, IsTmp
  <2>2. CASE IsTmp(x) /\ x # -n
    <3>1. f[x] = x /\ x \in Int /\ -x \in 1 .. n - 1 /\ -x # t
      BY <2>2, <1>2, <1>4, SignalNumber
    <3> QED BY <2>2, <3>1 DEF ValIn, TermsUpTo
  <2>3. CASE x = -n
    <3>1. f[x] = -t /\ t \in 1 .. n - 1
      BY <2>3, <1>2, <1>4
    <3>2. ValIn(st2, -t) = st2[t] /\ ValIn(st, -n) = st[n]
      BY ValueOfSignal
    <3> QED BY <2>3, <3>1, <3>2 DEF TermsUpTo
  <2> QED BY <2>1, <2>2, <2>3
<1> HIDE DEF f, g
<1>5. Stands(st2, {f[x] : x \in g}, v)
  BY <1>1, <1>4, ReplacingKeeps
<1> QED BY <1>3, <1>4, <1>5 DEF g

-----------------------------------------------------------------------------
(* Graphs of equations. *)

Size(d) == Cardinality(DOMAIN d)

\* The signals are numbered from 1 without gaps, there are no others in the
\* equations; d[t] stands for st[t], and the outputs o for the equations g.
Graph(st, d, o, g) ==
  /\ Size(d) \in Nat /\ DOMAIN d = 1 .. Size(d)
  /\ \A t \in 1 .. Size(d) : d[t] \subseteq TermsUpTo(Size(d)) /\ Stands(st, d[t], st[t])
  /\ DOMAIN o = DOMAIN g
  /\ \A i \in DOMAIN o : o[i] \subseteq TermsUpTo(Size(d)) /\ Stands(st, o[i], g[i])

\* _delete_tmp finds the last signal by counting: 1 .. n has n members.
LEMMA CountOfInterval == ASSUME NEW n \in Nat PROVE Cardinality(1 .. n) = n
BY FS_Interval

\* A new signal id, with terms that some equation has, and what moves into it.
Extraction(d, o, d2, o2) ==
  LET id == Size(d) + 1
  IN  /\ DOMAIN d2 = 1 .. id /\ DOMAIN o2 = DOMAIN o
      /\ \A t \in 1 .. Size(d) : Moves(d[t], d2[t], d2[id], id)
      /\ \A i \in DOMAIN o : Moves(o[i], o2[i], d2[id], id)
      /\ \/ \E t \in 1 .. Size(d) : d2[id] \subseteq d[t]
         \/ \E i \in DOMAIN o : d2[id] \subseteq o[i]

\* What the signals stand for after an extraction.
Extended(st, d, d2) ==
  [t \in 1 .. Size(d) + 1 |-> IF t = Size(d) + 1 THEN ValueIn(st, d2[Size(d) + 1]) ELSE st[t]]

\* _add_tmp_list keeps a graph one: what moves into the new signal overlaps
\* nothing that stays behind.
LEMMA ExtractionKeeps ==
  ASSUME NEW st, NEW d, NEW o, NEW g, NEW d2, NEW o2, Graph(st, d, o, g), Extraction(d, o, d2, o2)
  PROVE  Graph(Extended(st, d, d2), d2, o2, g) /\ Size(d2) = Size(d) + 1
<1> DEFINE id  == Size(d) + 1
           new == d2[id]
           st2 == Extended(st, d, d2)
<1>1. Size(d) \in Nat /\ DOMAIN d2 = 1 .. id /\ Size(d2) = id
  BY CountOfInterval DEF Graph, Extraction, Size
<1>2. ASSUME NEW x \in TermsUpTo(Size(d))
      PROVE  x \in TermsUpTo(id) /\ ValIn(st2, x) = ValIn(st, x)
  BY <1>1, <1>2, SignalNumber DEF TermsUpTo, ValIn, Extended
<1>3. st2[id] = ValueIn(st, new) /\ ValIn(st2, -id) = st2[id]
  <2>1. st2[id] = ValueIn(st, new) /\ id \in Nat \ {0}
    BY <1>1 DEF Extended
  <2> HIDE DEF id, st2
  <2> QED BY <2>1, ValueOfSignal
<1>4. new \subseteq TermsUpTo(Size(d)) /\ ApartIn(st, new)
  BY DEF Extraction, Graph, Stands, ApartIn
<1> HIDE DEF st2
<1>5. Stands(st2, new, st2[id]) /\ ValIn(st2, -id) = ValueIn(st2, new)
  <2>1. Stands(st, new, st2[id])
    BY <1>3, <1>4 DEF Stands
  <2>2. Stands(st2, new, st2[id])
    BY <2>1, <1>2, <1>4, AgreeingKeeps
  <2> QED BY <2>2, <1>3 DEF Stands
<1>6. ASSUME NEW e, NEW f, NEW v, e \subseteq TermsUpTo(Size(d)), Stands(st, e, v),
             Moves(e, f, new, id)
      PROVE  f \subseteq TermsUpTo(id) /\ Stands(st2, f, v)
  <2>1. Stands(st2, e, v)
    BY <1>6, <1>2, AgreeingKeeps
  <2>2. Stands(st2, f, v)
    BY <2>1, <1>6, <1>5, TakingKeeps
  <2>3. -id \in TermsUpTo(id)
    BY <1>1 DEF TermsUpTo
  <2> QED BY <2>2, <2>3, <1>6, <1>2 DEF Moves
<1>7. ASSUME NEW t \in 1 .. id
      PROVE  d2[t] \subseteq TermsUpTo(id) /\ Stands(st2, d2[t], st2[t])
  <2>1. CASE t = id
    BY <2>1, <1>2, <1>4, <1>5
  <2>2. CASE t \in 1 .. Size(d)
    <3>1. Moves(d[t], d2[t], new, id) /\ st2[t] = st[t]
      BY <2>2, <1>1 DEF Extraction, Extended, st2
    <3>2. d[t] \subseteq TermsUpTo(Size(d)) /\ Stands(st, d[t], st[t])
      BY <2>2 DEF Graph
    <3> QED BY <3>1, <3>2, <1>6
  <2> QED BY <2>1, <2>2, <1>1
<1>8. ASSUME NEW i \in DOMAIN o
      PROVE  o2[i] \subseteq TermsUpTo(id) /\ Stands(st2, o2[i], g[i])
  <2>1. Moves(o[i], o2[i], new, id)
    BY <1>8 DEF Extraction
  <2>2. o[i] \subseteq TermsUpTo(Size(d)) /\ Stands(st, o[i], g[i])
    BY <1>8 DEF Graph
  <2> QED BY <2>1, <2>2, <1>6
<1>9. DOMAIN o2 = DOMAIN g
  BY DEF Extraction, Graph
<1> QED BY <1>1, <1>7, <1>8, <1>9 DEF Graph, st2

\* What the signals stand for when the last one takes the place of t.
Shortened(st, d, t) == [k \in 1 .. Size(d) - 1 |-> IF k = t THEN st[Size(d)] ELSE st[k]]

\* _delete_tmp, applied to every equation, keeps a graph one.
LEMMA DeletionKeeps ==
  ASSUME NEW st, NEW d, NEW o, NEW g, Graph(st, d, o, g), NEW t \in DOMAIN d, -t \notin d[t]
  PROVE  Graph(Shortened(st, d, t), DeletedDefs(d, t), DeletedOuts(d, o, t), g)
<1> DEFINE n == Size(d)
           st2 == Shortened(st, d, t)
           d2 == DeletedDefs(d, t)
           o2 == DeletedOuts(d, o, t)
<1>1. n \in Nat \ {0} /\ t \in 1 .. n /\ n - 1 \in Nat
  BY DEF Graph
<1>2. DOMAIN d2 = 1 .. n - 1 /\ Size(d2) = n - 1
  BY <1>1, CountOfInterval DEF DeletedDefs, Size
<1>3. \A k \in 1 .. n - 1 : st2[k] = IF k = t THEN st[n] ELSE st[k]
  BY DEF Shortened
<1>4. d[t] \subseteq TermsUpTo(n) /\ Stands(st, d[t], st[t])
  BY <1>1 DEF Graph
<1>5. ASSUME NEW e, NEW v, e \subseteq TermsUpTo(n), Stands(st, e, v)
      PROVE  /\ Stands(st2, Renamed(Inlined(e, t, d[t]), n, t), v)
             /\ Renamed(Inlined(e, t, d[t]), n, t) \subseteq TermsUpTo(n - 1)
  <2> HIDE DEF st2, n
  <2> QED BY <1>1, <1>3, <1>4, <1>5, DeletingKeeps
<1>6. ASSUME NEW k \in 1 .. n - 1
      PROVE  d2[k] \subseteq TermsUpTo(n - 1) /\ Stands(st2, d2[k], st2[k])
  <2> DEFINE m == IF k = t THEN n ELSE k
  <2>1. d2[k] = Renamed(Inlined(d[m], t, d[t]), n, t) /\ st2[k] = st[m]
    BY <1>3 DEF DeletedDefs, Size
  <2>2. d[m] \subseteq TermsUpTo(n) /\ Stands(st, d[m], st[m])
    BY <1>1 DEF Graph
  <2> QED BY <2>1, <2>2, <1>5
<1>7. ASSUME NEW i \in DOMAIN o
      PROVE  o2[i] \subseteq TermsUpTo(n - 1) /\ Stands(st2, o2[i], g[i])
  <2>1. o2[i] = Renamed(Inlined(o[i], t, d[t]), n, t)
    BY <1>7 DEF DeletedOuts, Size
  <2>2. o[i] \subseteq TermsUpTo(n) /\ Stands(st, o[i], g[i])
    BY <1>7 DEF Graph
  <2> QED BY <2>1, <2>2, <1>5
<1>8. DOMAIN o2 = DOMAIN g
  BY DEF DeletedOuts, Graph
<1> HIDE DEF st2, d2, o2
<1>9. Graph(st2, d2, o2, g)
  BY <1>1, <1>2, <1>6, <1>7, <1>8 DEF Graph
<1> QED BY <1>9 DEF st2, d2, o2

\* pos and p are a new numbering of n signals, and the way back.
Numbering(p, pos, n) ==
  /\ p \in [1 .. n -> 1 .. n] /\ pos \in [1 .. n -> 1 .. n]
  /\ \A t \in 1 .. n : p[pos[t]] = t /\ pos[p[t]] = t

RenumberedDefs(d, p, pos) == [k \in DOMAIN d |-> Moved(d[p[k]], pos)]
RenumberedOuts(o, pos) == [i \in DOMAIN o |-> Moved(o[i], pos)]
Permuted(st, d, p) == [k \in DOMAIN d |-> st[p[k]]]

\* An equation stands for the same under a new numbering.
LEMMA MovingKeeps ==
  ASSUME NEW st, NEW st2, NEW n \in Nat, NEW p, NEW pos, Numbering(p, pos, n),
         \A k \in 1 .. n : st2[k] = st[p[k]],
         NEW e, NEW v, e \subseteq TermsUpTo(n), Stands(st, e, v)
  PROVE  Moved(e, pos) \subseteq TermsUpTo(n) /\ Stands(st2, Moved(e, pos), v)
<1> DEFINE f == [x \in e |-> IF IsTmp(x) THEN -pos[-x] ELSE x]
<1>1. Moved(e, pos) = {f[x] : x \in e}
  BY DEF Moved
<1>2. ASSUME NEW x \in e
      PROVE  f[x] \in TermsUpTo(n) /\ ValIn(st2, f[x]) = ValIn(st, x)
  <2>1. CASE ~IsTmp(x)
    <3>1. f[x] = x
      BY <2>1
    <3> QED BY <3>1, <2>1 DEF ValIn
  <2>2. CASE IsTmp(x)
    <3>1. -x \in 1 .. n /\ f[x] = -pos[-x]
      BY <2>2, SignalNumber
    <3>2. pos[-x] \in 1 .. n /\ p[pos[-x]] = -x
      BY <3>1 DEF Numbering
    <3>3. ValIn(st2, f[x]) = st2[pos[-x]]
      BY <3>1, <3>2, ValueOfSignal
    <3>4. st2[pos[-x]] = st[-x]
      BY <3>2
    <3>5. f[x] \in TermsUpTo(n)
      BY <3>1, <3>2 DEF TermsUpTo
    <3> QED BY <2>2, <3>3, <3>4, <3>5 DEF ValIn
  <2> QED BY <2>1, <2>2
<1> HIDE DEF f
<1>3. Stands(st2, {f[x] : x \in e}, v)
  BY <1>2, ReplacingKeeps
<1> QED BY <1>1, <1>2, <1>3

\* A new numbering keeps a graph one.
LEMMA RenumberingKeeps ==
  ASSUME NEW st, NEW d, NEW o, NEW g, Graph(st, d, o, g), NEW p, NEW pos,
         Numbering(p, pos, Size(d))
  PROVE  Graph(Permuted(st, d, p), RenumberedDefs(d, p, pos), RenumberedOuts(o, pos), g)
<1> DEFINE n == Size(d)
           st2 == Permuted(st, d, p)
           d2 == RenumberedDefs(d, p, pos)
           o2 == RenumberedOuts(o, pos)
<1>1. n \in Nat /\ DOMAIN d = 1 .. n /\ DOMAIN d2 = 1 .. n /\ Size(d2) = n
  BY DEF Graph, RenumberedDefs, Size
<1>2. \A k \in 1 .. n : st2[k] = st[p[k]]
  BY <1>1 DEF Permuted
<1>3. ASSUME NEW e, NEW v, e \subseteq TermsUpTo(n), Stands(st, e, v)
      PROVE  Moved(e, pos) \subseteq TermsUpTo(n) /\ Stands(st2, Moved(e, pos), v)
  <2> HIDE DEF st2, n
  <2> QED BY <1>1, <1>2, <1>3, MovingKeeps DEF n
<1>4. ASSUME NEW k \in 1 .. n
      PROVE  d2[k] \subseteq TermsUpTo(n) /\ Stands(st2, d2[k], st2[k])
  <2>1. d2[k] = Moved(d[p[k]], pos) /\ st2[k] = st[p[k]] /\ p[k] \in 1 .. n
    BY <1>1, <1>2 DEF RenumberedDefs, Numbering
  <2>2. d[p[k]] \subseteq TermsUpTo(n) /\ Stands(st, d[p[k]], st[p[k]])
    BY <2>1 DEF Graph
  <2> QED BY <2>1, <2>2, <1>3
<1>5. ASSUME NEW i \in DOMAIN o
      PROVE  o2[i] \subseteq TermsUpTo(n) /\ Stands(st2, o2[i], g[i])
  <2>1. o[i] \subseteq TermsUpTo(n) /\ Stands(st, o[i], g[i])
    BY <1>5 DEF Graph
  <2> QED BY <2>1, <1>3 DEF RenumberedOuts
<1>6. DOMAIN o2 = DOMAIN g
  BY DEF RenumberedOuts, Graph
<1> HIDE DEF st2, d2, o2
<1>7. Graph(st2, d2, o2, g)
  BY <1>1, <1>4, <1>5, <1>6 DEF Graph
<1> QED BY <1>7 DEF st2, d2, o2

-----------------------------------------------------------------------------
(* Cycles. *)

\* However signals are chosen, one of them uses none of the others.
Acyclic(d) ==
  \A T \in SUBSET DOMAIN d : T # {} => \E t \in T : \A u \in T : -u \notin d[t]

\* An extraction closes no cycle: the new signal comes before the signals that
\* use it, and after those that they used in its place.
LEMMA ExtractionIsAcyclic ==
  ASSUME NEW st, NEW d, NEW o, NEW g, NEW d2, NEW o2, Graph(st, d, o, g),
         Extraction(d, o, d2, o2), Acyclic(d)
  PROVE  Acyclic(d2)
<1> DEFINE n  == Size(d)
           id == n + 1
<1>1. n \in Nat /\ DOMAIN d = 1 .. n /\ DOMAIN d2 = 1 .. id /\ id \notin 1 .. n
  BY DEF Graph, Extraction
<1>2. d2[id] \subseteq TermsUpTo(n)
  BY DEF Extraction, Graph
<1>3. -id \notin TermsUpTo(n)
  BY <1>1, NoneAssumption DEF TermsUpTo
<1>4. ASSUME NEW t \in 1 .. n, NEW u \in 1 .. n, -u \in d2[t]
      PROVE  -u \in d[t]
  BY <1>1, <1>4 DEF Extraction, Moves
<1>5. ASSUME NEW t \in 1 .. n, -id \in d2[t]
      PROVE  d2[id] \subseteq d[t]
  <2>1. Moves(d[t], d2[t], d2[id], id) /\ d[t] \subseteq TermsUpTo(n)
    BY DEF Extraction, Graph
  <2> QED BY <2>1, <1>3, <1>5 DEF Moves
<1> SUFFICES ASSUME NEW T \in SUBSET (1 .. id), T # {}
             PROVE  \E t \in T : \A u \in T : -u \notin d2[t]
  BY <1>1 DEF Acyclic
<1>6. CASE T \subseteq {id}
  BY <1>2, <1>3, <1>6
<1>7. CASE ~(T \subseteq {id})
  <2> DEFINE S == T \ {id}
  <2>1. S \in SUBSET (1 .. n) /\ S # {}
    <3>1. \A x \in 1 .. id : x # id => x \in 1 .. n
      BY <1>1
    <3> HIDE DEF id, n
    <3> QED BY <3>1, <1>7
  <2>2. PICK t \in S : \A u \in S : -u \notin d[t]
    BY <1>1, <2>1 DEF Acyclic
  <2>3. t \in 1 .. n /\ \A u \in S : -u \notin d2[t]
    BY <2>1, <2>2, <1>4
  <2>4. CASE id \in T /\ -id \in d2[t]
    <3>1. \A u \in S : -u \notin d2[id]
      BY <2>2, <2>3, <2>4, <1>5
    <3> QED BY <3>1, <2>4, <1>2, <1>3
  <2>5. CASE ~(id \in T /\ -id \in d2[t])
    BY <2>2, <2>3, <2>5
  <2> QED BY <2>4, <2>5
<1> QED BY <1>6, <1>7

\* A signal that _delete_tmp made use another one used it before, or through
\* the signal that was deleted.
LEMMA TermsAfterDeletion ==
  ASSUME NEW n \in Nat, NEW t \in 1 .. n, NEW e, NEW f, e \subseteq TermsUpTo(n),
         f \subseteq TermsUpTo(n), -t \notin f, NEW k \in 1 .. n - 1,
         -k \in Renamed(Inlined(e, t, f), n, t)
  PROVE  LET m == IF k = t THEN n ELSE k IN -m \in e \/ (-t \in e /\ -m \in f)
<1> DEFINE g == Inlined(e, t, f)
           m == IF k = t THEN n ELSE k
<1>1. -t \notin g
  BY DEF Inlined
<1>2. -m \in g
  <2>1. CASE -n \in g
    BY <2>1, <1>1 DEF Renamed
  <2>2. CASE -n \notin g
    BY <2>2, <1>1 DEF Renamed
  <2> QED BY <2>1, <2>2
<1> QED BY <1>2 DEF Inlined

\* _delete_tmp closes no cycle.
LEMMA DeletionIsAcyclic ==
  ASSUME NEW st, NEW d, NEW o, NEW g, Graph(st, d, o, g), NEW t \in DOMAIN d, Acyclic(d)
  PROVE  -t \notin d[t] /\ Acyclic(DeletedDefs(d, t))
<1> DEFINE n == Size(d)
           d2 == DeletedDefs(d, t)
           old(k) == IF k = t THEN n ELSE k
<1>1. n \in Nat \ {0} /\ DOMAIN d = 1 .. n /\ t \in 1 .. n /\ DOMAIN d2 = 1 .. n - 1
  BY DEF Graph, DeletedDefs, Size
<1>2. -t \notin d[t]
  <2>1. {t} \in SUBSET DOMAIN d /\ {t} # {}
    OBVIOUS
  <2> QED BY <2>1 DEF Acyclic
<1>3. ASSUME NEW k \in 1 .. n - 1, NEW u \in 1 .. n - 1, -u \in d2[k]
      PROVE  -old(u) \in d[old(k)] \/ (-t \in d[old(k)] /\ -old(u) \in d[t])
  <2>1. d2[k] = Renamed(Inlined(d[old(k)], t, d[t]), n, t)
    BY DEF DeletedDefs, Size
  <2>2. old(k) \in 1 .. n /\ d[old(k)] \subseteq TermsUpTo(n) /\ d[t] \subseteq TermsUpTo(n)
    BY <1>1 DEF Graph
  <2> HIDE DEF d2, n
  <2> QED BY <2>1, <2>2, <1>1, <1>2, <1>3, TermsAfterDeletion
<1>4. ASSUME NEW T \in SUBSET (1 .. n - 1), T # {}
      PROVE  \E k \in T : \A u \in T : -u \notin d2[k]
  <2> DEFINE S == {old(k) : k \in T}
  <2>1. S \in SUBSET (1 .. n) /\ t \notin S /\ S # {}
    <3>1. \A k \in 1 .. n - 1 : old(k) \in 1 .. n /\ old(k) # t
      BY <1>1
    <3>2. \A k \in T : old(k) \in S /\ k \in 1 .. n - 1
      BY <1>4
    <3> HIDE DEF old, n
    <3> QED BY <3>1, <3>2, <1>4
  <2>2. PICK s \in S \union {t} : \A u \in S \union {t} : -u \notin d[s]
    <3>1. S \union {t} \in SUBSET DOMAIN d /\ S \union {t} # {}
      BY <1>1, <2>1
    <3> HIDE DEF S
    <3> QED BY <3>1 DEF Acyclic
  <2>3. PICK r \in S : \A u \in S : -u \notin d[r]
    BY <1>1, <2>1 DEF Acyclic
  <2>4. CASE s = t
    <3>1. PICK k \in T : r = old(k)
      OBVIOUS
    <3>2. \A u \in T : -old(u) \notin d[r] /\ -old(u) \notin d[t]
      BY <2>2, <2>3, <2>4
    <3> HIDE DEF d2, n, old, S
    <3> QED BY <3>1, <3>2, <1>3
  <2>5. CASE s # t
    <3>1. PICK k \in T : s = old(k)
      BY <2>5
    <3>2. \A u \in T : -old(u) \notin d[s] /\ -t \notin d[s]
      BY <2>2
    <3> HIDE DEF d2, n, old, S
    <3> QED BY <3>1, <3>2, <1>3
  <2> QED BY <2>4, <2>5
<1> QED BY <1>1, <1>2, <1>4 DEF Acyclic

-----------------------------------------------------------------------------
(* Sizes. *)

\* Every definition has terms, finitely many, and stands for something.
Solid(st, d, o) ==
  /\ \A t \in DOMAIN d : IsFiniteSet(d[t]) /\ d[t] # {} /\ st[t] # {}
  /\ \A i \in DOMAIN o : IsFiniteSet(o[i])

Many(e) == \E x, y \in e : x # y

\* Two terms and no alias: what cleanup_aliases looks for, by counting.
LEMMA TermsOfMany ==
  ASSUME NEW e, IsFiniteSet(e), e # {}
  PROVE  /\ Terms(e) \in Nat
         /\ Many(e) <=> Terms(e) >= 2
         /\ Terms(e) = 1 <=> \E a : e = {a}
         /\ Many(e) <=> Terms(e) # 1
<1>1. Terms(e) \in Nat /\ Terms(e) # 0
  BY FS_CardinalityType, FS_EmptySet DEF Terms
<1>2. Terms(e) = 1 <=> \E a : e = {a}
  BY FS_Singleton DEF Terms
<1>3. Many(e) <=> ~ \E a : e = {a}
  BY DEF Many
<1> QED BY <1>1, <1>2, <1>3

\* The terms of an equation stand for something.
LEMMA TermsStandForSomething ==
  ASSUME NEW st, NEW d, NEW o, NEW g, Graph(st, d, o, g), Solid(st, d, o),
         NEW x \in TermsUpTo(Size(d))
  PROVE  ValIn(st, x) # {}
<1>1. Size(d) \in Nat /\ DOMAIN d = 1 .. Size(d)
  BY DEF Graph
<1>2. CASE IsTmp(x)
  <2>1. -x \in 1 .. Size(d)
    BY <1>1, <1>2, SignalNumber
  <2> QED BY <1>1, <1>2, <2>1 DEF Solid, ValIn
<1>3. CASE ~IsTmp(x)
  BY <1>3 DEF ValIn
<1> QED BY <1>2, <1>3

\* An extraction makes no empty definition.
LEMMA ExtractionIsSolid ==
  ASSUME NEW st, NEW d, NEW o, NEW g, NEW d2, NEW o2, Graph(st, d, o, g), Solid(st, d, o),
         Extraction(d, o, d2, o2), d2[Size(d) + 1] # {}
  PROVE  Solid(Extended(st, d, d2), d2, o2)
<1> DEFINE n   == Size(d)
           id  == n + 1
           new == d2[id]
           st2 == Extended(st, d, d2)
<1>1. n \in Nat /\ DOMAIN d = 1 .. n /\ DOMAIN d2 = 1 .. id /\ DOMAIN o2 = DOMAIN o
  BY DEF Graph, Extraction
<1>2. new \subseteq TermsUpTo(n)
  BY DEF Extraction, Graph
<1>3. IsFiniteSet(new)
  <2>1. CASE \E t \in 1 .. n : new \subseteq d[t]
    BY <2>1, <1>1, FS_Subset DEF Solid
  <2>2. CASE \E i \in DOMAIN o : new \subseteq o[i]
    BY <2>2, FS_Subset DEF Solid
  <2> QED BY <2>1, <2>2 DEF Extraction
<1>4. ValueIn(st, new) # {}
  <2>1. PICK x \in new : TRUE
    OBVIOUS
  <2>2. ValIn(st, x) # {}
    BY <1>2, TermsStandForSomething
  <2> QED BY <2>1, <2>2 DEF ValueIn
<1>5. ASSUME NEW e, NEW f, IsFiniteSet(e), Moves(e, f, new, id)
      PROVE  IsFiniteSet(f) /\ (e # {} => f # {})
  <2>1. IsFiniteSet(e \ new)
    BY <1>5, FS_Difference
  <2>2. IsFiniteSet((e \ new) \union {-id})
    BY <2>1, FS_AddElement
  <2> QED BY <2>2, <1>5 DEF Moves
<1>6. ASSUME NEW t \in 1 .. id
      PROVE  IsFiniteSet(d2[t]) /\ d2[t] # {} /\ st2[t] # {}
  <2>1. CASE t = id
    <3>1. st2[id] = ValueIn(st, new)
      BY <1>1 DEF Extended
    <3> QED BY <2>1, <3>1, <1>3, <1>4
  <2>2. CASE t \in 1 .. n
    <3>1. st2[t] = st[t] /\ Moves(d[t], d2[t], new, id)
      BY <2>2, <1>1 DEF Extended, Extraction
    <3>2. IsFiniteSet(d[t]) /\ d[t] # {} /\ st[t] # {}
      BY <2>2, <1>1 DEF Solid
    <3> QED BY <3>1, <3>2, <1>5
  <2> QED BY <2>1, <2>2, <1>1
<1>7. ASSUME NEW i \in DOMAIN o
      PROVE  IsFiniteSet(o2[i])
  <2>1. Moves(o[i], o2[i], new, id) /\ IsFiniteSet(o[i])
    BY DEF Extraction, Solid
  <2> QED BY <2>1, <1>5
<1> HIDE DEF st2
<1>8. Solid(st2, d2, o2)
  BY <1>1, <1>6, <1>7 DEF Solid
<1> QED BY <1>8 DEF st2

\* The terms of an equation after the deletion of a signal are finitely many.
LEMMA FiniteAfterDeletion ==
  ASSUME NEW e, NEW f, NEW t, NEW n, IsFiniteSet(e), IsFiniteSet(f)
  PROVE  /\ IsFiniteSet(Renamed(Inlined(e, t, f), n, t))
         /\ e # {} /\ f # {} => Renamed(Inlined(e, t, f), n, t) # {}
<1> DEFINE g == Inlined(e, t, f)
<1>1. IsFiniteSet(g) /\ (e # {} /\ f # {} => g # {})
  <2>1. IsFiniteSet(e \ {-t})
    BY FS_Difference
  <2>2. IsFiniteSet((e \ {-t}) \union f)
    BY <2>1, FS_Union
  <2> QED BY <2>2 DEF Inlined
<1> HIDE DEF g
<1>2. IsFiniteSet((g \ {-n}) \union {-t})
  <2>1. IsFiniteSet(g \ {-n})
    BY <1>1, FS_Difference
  <2> QED BY <2>1, FS_AddElement
<1>3. IsFiniteSet(Renamed(g, n, t)) /\ (g # {} => Renamed(g, n, t) # {})
  BY <1>1, <1>2 DEF Renamed
<1> QED BY <1>1, <1>3 DEF g

\* Nor does a deletion, and an equation with two terms or more keeps two when
\* an alias is replaced: the terms of an equation do not overlap.
LEMMA DeletionIsSolid ==
  ASSUME NEW st, NEW d, NEW o, NEW g, Graph(st, d, o, g), Solid(st, d, o),
         NEW t \in DOMAIN d
  PROVE  Solid(Shortened(st, d, t), DeletedDefs(d, t), DeletedOuts(d, o, t))
<1> DEFINE n == Size(d)
           st2 == Shortened(st, d, t)
           d2 == DeletedDefs(d, t)
           o2 == DeletedOuts(d, o, t)
<1>1. /\ n \in Nat \ {0} /\ DOMAIN d = 1 .. n /\ t \in 1 .. n
      /\ DOMAIN d2 = 1 .. n - 1 /\ DOMAIN o2 = DOMAIN o
  BY DEF Graph, DeletedDefs, DeletedOuts, Size
<1>2. ASSUME NEW k \in 1 .. n - 1
      PROVE  IsFiniteSet(d2[k]) /\ d2[k] # {} /\ st2[k] # {}
  <2> DEFINE m == IF k = t THEN n ELSE k
  <2>1. d2[k] = Renamed(Inlined(d[m], t, d[t]), n, t) /\ st2[k] = st[m]
    BY DEF DeletedDefs, Shortened, Size
  <2>2. m \in 1 .. n
    BY <1>1
  <2>3. /\ IsFiniteSet(d[m]) /\ d[m] # {} /\ st[m] # {}
        /\ IsFiniteSet(d[t]) /\ d[t] # {}
    BY <1>1, <2>2 DEF Solid
  <2> QED BY <2>1, <2>3, FiniteAfterDeletion
<1>3. ASSUME NEW i \in DOMAIN o
      PROVE  IsFiniteSet(o2[i])
  <2>1. o2[i] = Renamed(Inlined(o[i], t, d[t]), n, t)
    BY DEF DeletedOuts, Size
  <2>2. IsFiniteSet(o[i]) /\ IsFiniteSet(d[t])
    BY DEF Solid
  <2> QED BY <2>1, <2>2, FiniteAfterDeletion
<1> HIDE DEF st2, d2, o2
<1>4. Solid(st2, d2, o2)
  BY <1>1, <1>2, <1>3 DEF Solid
<1> QED BY <1>4 DEF st2, d2, o2

\* Two terms stay two when an alias is replaced, since the terms of an equation
\* do not overlap.
LEMMA ManyAfterDeletion ==
  ASSUME NEW st, NEW e, NEW v, NEW n, NEW t \in Nat \ {0}, NEW a, a # -t,
         Stands(st, e, v), ValIn(st, a) = st[t], st[t] # {}, Many(e)
  PROVE  Many(Renamed(Inlined(e, t, {a}), n, t))
<1> DEFINE g == Inlined(e, t, {a})
<1>1. PICK x \in e, y \in e : x # y
  BY DEF Many
<1>2. -t \notin g
  BY DEF Inlined
<1>3. Many(g)
  <2>1. CASE -t \notin e
    BY <2>1 DEF Inlined
  <2>2. CASE -t \in e
    <3>1. ValIn(st, -t) = st[t]
      BY ValueOfSignal
    <3>2. a \notin e
      BY <2>2, <3>1 DEF Stands, ApartIn
    <3>3. PICK z \in e : z # -t
      BY <1>1
    <3>4. z \in g /\ a \in g /\ z # a
      BY <2>2, <3>2, <3>3 DEF Inlined
    <3> QED BY <3>4 DEF Many
  <2> QED BY <2>1, <2>2
<1> HIDE DEF g
<1>4. Many(Renamed(g, n, t))
  BY <1>2, <1>3 DEF Many, Renamed
<1> QED BY <1>4 DEF g

\* Under a new numbering an equation has as many terms.
LEMMA MovingIsSolid ==
  ASSUME NEW n \in Nat, NEW p, NEW pos, Numbering(p, pos, n), NEW e, e \subseteq TermsUpTo(n),
         IsFiniteSet(e)
  PROVE  IsFiniteSet(Moved(e, pos)) /\ (e # {} => Moved(e, pos) # {})
         /\ (Many(e) => Many(Moved(e, pos)))
<1> DEFINE f == [x \in e |-> IF IsTmp(x) THEN -pos[-x] ELSE x]
           T == {f[x] : x \in e}
<1>1. Moved(e, pos) = T
  BY DEF Moved
<1>2. f \in Surjection(e, T)
  <2> HIDE DEF f
  <2>1. f \in [e -> T]
    BY DEF f
  <2> QED BY <2>1 DEF Surjection
<1>3. IsFiniteSet(T)
  BY <1>2, FS_Surjection
<1>4. ASSUME NEW x \in e, NEW y \in e, x # y
      PROVE  f[x] # f[y]
  <2>1. ASSUME NEW z \in e, IsTmp(z)
        PROVE  /\ z \in Int /\ -z \in 1 .. n /\ -(-z) = z /\ f[z] = -pos[-z]
               /\ pos[-z] \in 1 .. n /\ p[pos[-z]] = -z
    <3>1. z \in Int /\ -z \in 1 .. n /\ -(-z) = z
      BY <2>1, SignalNumber
    <3> QED BY <3>1, <2>1 DEF Numbering
  <2>2. CASE IsTmp(x) /\ IsTmp(y)
    BY <2>1, <2>2, <1>4
  <2>3. CASE IsTmp(x) /\ ~IsTmp(y)
    BY <2>1, <2>3, NoneAssumption DEF IsTmp
  <2>4. CASE ~IsTmp(x) /\ IsTmp(y)
    BY <2>1, <2>4, NoneAssumption DEF IsTmp
  <2>5. CASE ~IsTmp(x) /\ ~IsTmp(y)
    BY <2>5, <1>4
  <2> QED BY <2>2, <2>3, <2>4, <2>5
<1> HIDE DEF f
<1> QED BY <1>1, <1>3, <1>4 DEF Many

\* A signal of an equation under a new numbering was one before.
LEMMA TermsAfterMoving ==
  ASSUME NEW n \in Nat, NEW p, NEW pos, Numbering(p, pos, n), NEW e, e \subseteq TermsUpTo(n),
         NEW u \in 1 .. n, -u \in Moved(e, pos)
  PROVE  p[u] \in 1 .. n /\ -p[u] \in e
<1>1. PICK y \in e : -u = IF IsTmp(y) THEN -pos[-y] ELSE y
  BY DEF Moved
<1>2. IsTmp(-u)
  BY ValueOfSignal
<1>3. IsTmp(y)
  BY <1>1, <1>2
<1>4. y \in Int /\ -y \in 1 .. n /\ -(-y) = y
  BY <1>3, SignalNumber
<1>5. pos[-y] \in 1 .. n /\ p[pos[-y]] = -y
  BY <1>4 DEF Numbering
<1>6. u = pos[-y]
  BY <1>1, <1>3, <1>5
<1> QED BY <1>4, <1>5, <1>6

\* A new numbering closes no cycle.
LEMMA RenumberingIsAcyclic ==
  ASSUME NEW st, NEW d, NEW o, NEW g, Graph(st, d, o, g), NEW p, NEW pos,
         Numbering(p, pos, Size(d)), Acyclic(d)
  PROVE  Acyclic(RenumberedDefs(d, p, pos))
<1> DEFINE n == Size(d)
           d2 == RenumberedDefs(d, p, pos)
<1>1. n \in Nat /\ DOMAIN d = 1 .. n /\ DOMAIN d2 = 1 .. n
  BY DEF Graph, RenumberedDefs
<1>2. ASSUME NEW k \in 1 .. n, NEW u \in 1 .. n, -u \in d2[k]
      PROVE  p[k] \in 1 .. n /\ -p[u] \in d[p[k]]
  <2>1. d2[k] = Moved(d[p[k]], pos) /\ p[k] \in 1 .. n
    BY <1>1 DEF RenumberedDefs, Numbering
  <2>2. d[p[k]] \subseteq TermsUpTo(n)
    BY <2>1 DEF Graph
  <2> HIDE DEF n, d2
  <2> QED BY <2>1, <2>2, <1>1, <1>2, TermsAfterMoving DEF n
<1> SUFFICES ASSUME NEW T \in SUBSET (1 .. n), T # {}
             PROVE  \E k \in T : \A u \in T : -u \notin d2[k]
  BY <1>1 DEF Acyclic
<1> DEFINE S == {p[k] : k \in T}
<1>3. S \in SUBSET DOMAIN d /\ S # {}
  <2>1. \A k \in 1 .. n : p[k] \in DOMAIN d
    BY <1>1 DEF Numbering
  <2> HIDE DEF n
  <2> QED BY <2>1
<1>4. PICK r \in S : \A u \in S : -u \notin d[r]
  <2> HIDE DEF S
  <2> QED BY <1>3 DEF Acyclic
<1>5. PICK k \in T : r = p[k]
  OBVIOUS
<1>6. \A u \in T : -p[u] \notin d[p[k]]
  BY <1>4, <1>5
<1> HIDE DEF n, d2
<1> QED BY <1>2, <1>6

\* A new numbering changes no sizes.
LEMMA RenumberingIsSolid ==
  ASSUME NEW st, NEW d, NEW o, NEW g, Graph(st, d, o, g), Solid(st, d, o), NEW p, NEW pos,
         Numbering(p, pos, Size(d))
  PROVE  Solid(Permuted(st, d, p), RenumberedDefs(d, p, pos), RenumberedOuts(o, pos))
<1> DEFINE n == Size(d)
           st2 == Permuted(st, d, p)
           d2 == RenumberedDefs(d, p, pos)
           o2 == RenumberedOuts(o, pos)
<1>1. n \in Nat /\ DOMAIN d = 1 .. n /\ DOMAIN d2 = 1 .. n /\ DOMAIN o2 = DOMAIN o
  BY DEF Graph, RenumberedDefs, RenumberedOuts
<1>2. ASSUME NEW k \in 1 .. n
      PROVE  IsFiniteSet(d2[k]) /\ d2[k] # {} /\ st2[k] # {}
  <2>1. d2[k] = Moved(d[p[k]], pos) /\ st2[k] = st[p[k]] /\ p[k] \in 1 .. n
    BY <1>1 DEF RenumberedDefs, Permuted, Numbering
  <2>2. d[p[k]] \subseteq TermsUpTo(n)
    BY <2>1 DEF Graph
  <2>3. IsFiniteSet(d[p[k]]) /\ d[p[k]] # {} /\ st[p[k]] # {}
    BY <2>1, <1>1 DEF Solid
  <2> HIDE DEF n, d2, st2
  <2> QED BY <2>1, <2>2, <2>3, <1>1, MovingIsSolid DEF n
<1>3. ASSUME NEW i \in DOMAIN o
      PROVE  IsFiniteSet(o2[i])
  <2>1. o2[i] = Moved(o[i], pos) /\ o[i] \subseteq TermsUpTo(n) /\ IsFiniteSet(o[i])
    BY DEF RenumberedOuts, Graph, Solid
  <2> HIDE DEF n, o2
  <2> QED BY <2>1, <1>1, MovingIsSolid DEF n
<1> HIDE DEF st2, d2, o2
<1>4. Solid(st2, d2, o2)
  BY <1>1, <1>2, <1>3 DEF Solid
<1> QED BY <1>4 DEF st2, d2, o2

-----------------------------------------------------------------------------
(* Inputs. *)

\* Every term of e that is no signal is one of U.
From(e, U) == \A x \in e : IsTmp(x) \/ x \in U

Within(d, o, U) == (\A t \in DOMAIN d : From(d[t], U)) /\ (\A i \in DOMAIN o : From(o[i], U))

\* A new signal brings no new inputs.
LEMMA ExtractionStaysWithin ==
  ASSUME NEW d, NEW o, NEW U, Within(d, o, U), Size(d) \in Nat, DOMAIN d = 1 .. Size(d),
         NEW d2, NEW o2, Extraction(d, o, d2, o2)
  PROVE  Within(d2, o2, U)
<1> DEFINE id == Size(d) + 1
<1>1. /\ id \in Nat \ {0} /\ DOMAIN d2 = 1 .. id /\ DOMAIN o2 = DOMAIN o
      /\ \A t \in 1 .. Size(d) : Moves(d[t], d2[t], d2[id], id)
      /\ \A i \in DOMAIN o : Moves(o[i], o2[i], d2[id], id)
  BY DEF Extraction
<1>2. From(d2[id], U)
  BY DEF Extraction, Within, From
<1> HIDE DEF id
<1>3. IsTmp(-id)
  BY <1>1, ValueOfSignal
<1>4. ASSUME NEW e, NEW f, From(e, U), Moves(e, f, d2[id], id) PROVE From(f, U)
  BY <1>3, <1>4 DEF Moves, From
<1>5. ASSUME NEW t \in 1 .. id PROVE From(d2[t], U)
  <2>1. CASE t = id
    BY <2>1, <1>2
  <2>2. CASE t # id
    <3>1. t \in 1 .. Size(d)
      BY <2>2, <1>1 DEF id
    <3> QED BY <3>1, <1>1, <1>4 DEF Within
  <2> QED BY <2>1, <2>2
<1>6. ASSUME NEW i \in DOMAIN o PROVE From(o2[i], U)
  BY <1>1, <1>4 DEF Within
<1> QED BY <1>1, <1>5, <1>6 DEF Within

\* Neither does a deletion.
LEMMA DeletionStaysWithin ==
  ASSUME NEW d, NEW o, NEW U, Within(d, o, U), Size(d) \in Nat, DOMAIN d = 1 .. Size(d),
         NEW t \in DOMAIN d
  PROVE  Within(DeletedDefs(d, t), DeletedOuts(d, o, t), U)
<1> DEFINE n == Size(d)
<1>1. IsTmp(-t) /\ From(d[t], U) /\ n \in DOMAIN d
  BY ValueOfSignal DEF Within
<1>2. ASSUME NEW e, From(e, U) PROVE From(Renamed(Inlined(e, t, d[t]), n, t), U)
  <2>1. From(Inlined(e, t, d[t]), U)
    BY <1>1, <1>2 DEF Inlined, From
  <2> QED BY <2>1, <1>1 DEF Renamed, From
<1>3. ASSUME NEW k \in 1 .. n - 1 PROVE From(DeletedDefs(d, t)[k], U)
  <2> DEFINE m == IF k = t THEN n ELSE k
  <2>1. DeletedDefs(d, t)[k] = Renamed(Inlined(d[m], t, d[t]), n, t) /\ m \in DOMAIN d
    BY <1>1 DEF DeletedDefs, Size
  <2> QED BY <2>1, <1>2 DEF Within
<1>4. ASSUME NEW i \in DOMAIN o PROVE From(DeletedOuts(d, o, t)[i], U)
  BY <1>2 DEF DeletedOuts, Within, Size
<1>5. DOMAIN DeletedDefs(d, t) = 1 .. n - 1 /\ DOMAIN DeletedOuts(d, o, t) = DOMAIN o
  BY DEF DeletedDefs, DeletedOuts, Size
<1> QED BY <1>3, <1>4, <1>5 DEF Within

\* Nor a renumbering, which maps signals to signals.
LEMMA RenumberingStaysWithin ==
  ASSUME NEW d, NEW o, NEW U, Within(d, o, U), Size(d) \in Nat, DOMAIN d = 1 .. Size(d),
         \A t \in DOMAIN d : d[t] \subseteq TermsUpTo(Size(d)),
         \A i \in DOMAIN o : o[i] \subseteq TermsUpTo(Size(d)),
         NEW p, NEW pos, Numbering(p, pos, Size(d))
  PROVE  Within(RenumberedDefs(d, p, pos), RenumberedOuts(o, pos), U)
<1> DEFINE n == Size(d)
<1>1. ASSUME NEW e, e \subseteq TermsUpTo(n), From(e, U) PROVE From(Moved(e, pos), U)
  <2> SUFFICES ASSUME NEW x \in e, IsTmp(x) PROVE IsTmp(-pos[-x])
    BY <1>1 DEF Moved, From
  <2>1. -x \in 1 .. n
    BY <1>1, SignalNumber
  <2>2. pos[-x] \in Nat \ {0}
    BY <2>1 DEF Numbering
  <2> QED BY <2>2, ValueOfSignal
<1>2. ASSUME NEW k \in DOMAIN d PROVE From(RenumberedDefs(d, p, pos)[k], U)
  <2>1. RenumberedDefs(d, p, pos)[k] = Moved(d[p[k]], pos) /\ p[k] \in DOMAIN d
    BY DEF RenumberedDefs, Numbering
  <2> QED BY <2>1, <1>1 DEF Within
<1>3. ASSUME NEW i \in DOMAIN o PROVE From(RenumberedOuts(o, pos)[i], U)
  BY <1>1 DEF RenumberedOuts, Within
<1> QED BY <1>2, <1>3 DEF Within, RenumberedDefs, RenumberedOuts

-----------------------------------------------------------------------------
(* What Meaning computes. *)

\* Numbers have a least one.
LEMMA LeastNumber ==
  ASSUME NEW S, S \subseteq Nat, S # {}
  PROVE  \E m \in S : \A k \in S : ~(k < m)
<1>1. IsWellFoundedOn(OpToRel(<, Nat), Nat)
  BY NatLessThanWellFounded
<1>2. PICK m \in S : \A k \in S : ~(<<k, m>> \in OpToRel(<, Nat))
  BY <1>1, WFMin
<1>3. \A k \in S : ~(k < m)
  BY <1>2 DEF OpToRel
<1> QED BY <1>3

\* The names of everything in a graph, and what they stand for before the
\* first unfolding.
NamesOf(d, e) == e \union {-t : t \in DOMAIN d} \union UNION {d[t] : t \in DOMAIN d}
Folded(d, e) == [x \in NamesOf(d, e) |-> IF IsTmp(x) THEN {} ELSE {x}]

\* The values after up to n unfoldings.
Unfoldings(d, e, n, val) ==
  val = [k \in 0 .. n |-> IF k = 0 THEN Folded(d, e) ELSE Unfolded(d, val[k - 1])]

\* However often a graph is unfolded, the recursive definition in Meaning has a value.
LEMMA UnfoldingsExist == ASSUME NEW d, NEW e, NEW n \in Nat PROVE \E val : Unfoldings(d, e, n, val)
<1> DEFINE S == {m \in Nat : ~ \E val : Unfoldings(d, e, m, val)}
<1>1. SUFFICES ASSUME S # {} PROVE FALSE
  OBVIOUS
<1>2. PICK m \in S : \A k \in S : ~(k < m)
  BY <1>1, LeastNumber
<1>3. CASE m = 0
  <2> DEFINE val == [k \in 0 .. 0 |-> Folded(d, e)]
  <2>1. val = [k \in 0 .. 0 |-> IF k = 0 THEN Folded(d, e) ELSE Unfolded(d, val[k - 1])]
    OBVIOUS
  <2> QED BY <1>3, <2>1 DEF Unfoldings
<1>4. CASE m # 0
  <2>1. m \in Nat /\ m - 1 \in Nat /\ m - 1 \notin S
    BY <1>2, <1>4
  <2>2. PICK old : Unfoldings(d, e, m - 1, old)
    BY <2>1
  <2> DEFINE val == [k \in 0 .. m |-> IF k = m THEN Unfolded(d, old[m - 1]) ELSE old[k]]
  <2>3. ASSUME NEW k \in 0 .. m
        PROVE  val[k] = IF k = 0 THEN Folded(d, e) ELSE Unfolded(d, val[k - 1])
    <3>1. CASE k = m
      <4>1. k # 0 /\ k - 1 \in 0 .. m /\ k - 1 # m
        BY <3>1, <1>4, <2>1
      <4>2. val[k - 1] = old[k - 1]
        BY <4>1
      <4> QED BY <3>1, <4>1, <4>2
    <3>2. CASE k # m
      <4>1. k \in 0 .. m - 1 /\ val[k] = old[k]
        BY <3>2, <2>1
      <4>2. old[k] = IF k = 0 THEN Folded(d, e) ELSE Unfolded(d, old[k - 1])
        BY <4>1, <2>2 DEF Unfoldings
      <4>3. k # 0 => k - 1 \in 0 .. m /\ k - 1 # m
        BY <4>1, <2>1
      <4>4. k # 0 => val[k - 1] = old[k - 1]
        BY <4>3
      <4> QED BY <4>1, <4>2, <4>4
    <3> QED BY <3>1, <3>2
  <2>4. val = [k \in 0 .. m |-> IF k = 0 THEN Folded(d, e) ELSE Unfolded(d, val[k - 1])]
    <3>1. DOMAIN val = 0 .. m /\ val = [k \in 0 .. m |-> val[k]]
      OBVIOUS
    <3> HIDE DEF val
    <3> QED BY <3>1, <2>3
  <2> QED BY <2>1, <2>4 DEF Unfoldings
<1> QED BY <1>3, <1>4

\* Without an overlap, what is reached an odd number of times is what is reached.
LEMMA OddOfApart ==
  ASSUME NEW st, NEW e, NEW v, ApartIn(st, e), \A x \in e : v[x] = ValIn(st, x)
  PROVE  Odd(e, v) = ValueIn(st, e)
<1> DEFINE all == UNION {v[y] : y \in e}
<1>1. all = ValueIn(st, e)
  BY DEF ValueIn
<1>2. ASSUME NEW x \in all PROVE Cardinality({y \in e : x \in v[y]}) % 2 = 1
  <2>1. PICK y \in e : x \in v[y]
    OBVIOUS
  <2>2. {z \in e : x \in v[z]} = {y}
    BY <2>1 DEF ApartIn
  <2>3. Cardinality({y}) = 1 /\ 1 % 2 = 1
    BY FS_Singleton
  <2> QED BY <2>2, <2>3, Zenon
<1>3. Odd(e, v) = {x \in all : Cardinality({y \in e : x \in v[y]}) % 2 = 1}
  BY DEF Odd
<1> QED BY <1>1, <1>2, <1>3

\* In a graph without a cycle, each unfolding settles one signal more at least.
LEMMA UnfoldingSettles ==
  ASSUME NEW st, NEW d, NEW o, NEW g, Graph(st, d, o, g), Acyclic(d),
         NEW e, e \subseteq TermsUpTo(Size(d)), NEW val, Unfoldings(d, e, Size(d), val)
  PROVE  \A x \in NamesOf(d, e) : val[Size(d)][x] = ValIn(st, x)
<1> DEFINE n == Size(d)
           G(k) == {t \in 1 .. n : \A j \in k .. n : val[j][-t] = st[t]}
           Bad == {k \in 0 .. n : G(k) # 1 .. n /\ Cardinality(G(k)) < k}
<1>1. n \in Nat /\ DOMAIN d = 1 .. n
  BY DEF Graph
<1>2. NamesOf(d, e) \subseteq TermsUpTo(n)
  <2>1. \A t \in 1 .. n : d[t] \subseteq TermsUpTo(n) /\ -t \in TermsUpTo(n)
    BY <1>1 DEF Graph, TermsUpTo
  <2>2. e \subseteq TermsUpTo(n)
    OBVIOUS
  <2> HIDE DEF n
  <2> QED BY <1>1, <2>1, <2>2 DEF NamesOf
<1>3. \A t \in 1 .. n : -t \in NamesOf(d, e) /\ d[t] \subseteq NamesOf(d, e)
  <2> HIDE DEF n
  <2> QED BY <1>1 DEF NamesOf
<1>4. ASSUME NEW k \in 0 .. n
      PROVE  /\ val[k] = IF k = 0 THEN Folded(d, e) ELSE Unfolded(d, val[k - 1])
             /\ k # 0 => k - 1 \in 0 .. n
  BY <1>1 DEF Unfoldings
<1>5. ASSUME NEW k \in 0 .. n
      PROVE  /\ DOMAIN val[k] = NamesOf(d, e)
             /\ \A x \in NamesOf(d, e) : ~IsTmp(x) => val[k][x] = {x}
  <2> DEFINE Right(m) == /\ DOMAIN val[m] = NamesOf(d, e)
                         /\ \A x \in NamesOf(d, e) : ~IsTmp(x) => val[m][x] = {x}
             Off == {m \in 0 .. n : ~Right(m)}
  <2> SUFFICES ASSUME Off # {} PROVE FALSE
    OBVIOUS
  <2>1. Off \subseteq Nat
    BY <1>1
  <2>2. PICK m \in Off : \A j \in Off : ~(j < m)
    BY <2>1, LeastNumber
  <2>3. m # 0
    BY <1>4, <2>2 DEF Folded
  <2>4. m - 1 \in 0 .. n /\ m - 1 \notin Off
    BY <1>4, <2>2, <2>3
  <2>5. val[m] = Unfolded(d, val[m - 1])
    BY <1>4, <2>2, <2>3
  <2>6. /\ DOMAIN val[m - 1] = NamesOf(d, e)
        /\ \A x \in NamesOf(d, e) : ~IsTmp(x) => val[m - 1][x] = {x}
    BY <2>4
  <2>7. /\ DOMAIN val[m] = NamesOf(d, e)
        /\ \A x \in NamesOf(d, e) : ~IsTmp(x) => val[m][x] = {x}
    BY <2>5, <2>6 DEF Unfolded
  <2> QED BY <2>2, <2>7
<1>6. ASSUME NEW k \in 0 .. n, k # 0, NEW t \in 1 .. n,
             \A x \in d[t] : val[k - 1][x] = ValIn(st, x)
      PROVE  val[k][-t] = st[t]
  <2>1. val[k] = Unfolded(d, val[k - 1]) /\ DOMAIN val[k - 1] = NamesOf(d, e)
    BY <1>4, <1>5, <1>6
  <2>2. IsTmp(-t) /\ -(-t) = t /\ t \in DOMAIN d
    BY <1>1, ValueOfSignal
  <2>3. val[k][-t] = Odd(d[t], val[k - 1])
    BY <2>1, <2>2, <1>3 DEF Unfolded
  <2>4. Stands(st, d[t], st[t])
    BY DEF Graph
  <2> QED BY <2>3, <2>4, <1>6, OddOfApart DEF Stands
<1>7. ASSUME NEW k \in 0 .. n, NEW j \in k .. n, NEW x \in NamesOf(d, e), IsTmp(x) => -x \in G(k)
      PROVE  val[j][x] = ValIn(st, x)
  <2>1. CASE ~IsTmp(x)
    <3>1. j \in 0 .. n
      BY <1>1
    <3> QED BY <3>1, <2>1, <1>5 DEF ValIn
  <2>2. CASE IsTmp(x)
    <3>1. -(-x) = x
      BY <2>2, <1>1, <1>2, SignalNumber
    <3>2. val[j][-(-x)] = st[-x]
      BY <2>2, <1>7
    <3> QED BY <3>1, <3>2, <2>2 DEF ValIn
  <2> QED BY <2>1, <2>2
<1>8. ASSUME NEW k \in 0 .. n, k # 0
      PROVE  G(k - 1) \subseteq G(k)
  BY <1>1, <1>8
<1>9. ASSUME NEW k \in 0 .. n, k # 0, G(k - 1) # 1 .. n
      PROVE  \E t \in 1 .. n : t \in G(k) /\ t \notin G(k - 1)
  <2> DEFINE T == (1 .. n) \ G(k - 1)
  <2>1. T \in SUBSET DOMAIN d /\ T # {}
    BY <1>1, <1>9
  <2>2. PICK t \in T : \A u \in T : -u \notin d[t]
    BY <2>1 DEF Acyclic
  <2>3. k - 1 \in 0 .. n
    BY <1>4, <1>9
  <2>4. ASSUME NEW x \in d[t] PROVE x \in NamesOf(d, e) /\ (IsTmp(x) => -x \in G(k - 1))
    <3>1. x \in NamesOf(d, e) /\ x \in TermsUpTo(n)
      BY <1>2, <1>3
    <3>2. IsTmp(x) => -x \in 1 .. n /\ -(-x) = x
      BY <1>1, <3>1, SignalNumber
    <3>3. IsTmp(x) => -x \notin T
      BY <2>2, <3>2
    <3> QED BY <3>1, <3>2, <3>3
  <2>5. ASSUME NEW j \in k .. n PROVE val[j][-t] = st[t]
    <3>1. j \in 0 .. n /\ j # 0 /\ j - 1 \in k - 1 .. n
      BY <1>1, <1>9
    <3>2. \A x \in d[t] : val[j - 1][x] = ValIn(st, x)
      <4> HIDE DEF n, G, T
      <4> QED BY <2>3, <2>4, <3>1, <1>7
    <3> QED BY <3>1, <3>2, <1>6
  <2> QED BY <2>5
<1>10. ASSUME NEW k \in 0 .. n
       PROVE  IsFiniteSet(G(k)) /\ Cardinality(G(k)) \in Nat /\ Cardinality(G(k)) <= n
              /\ (Cardinality(G(k)) = n => G(k) = 1 .. n)
  <2>1. IsFiniteSet(1 .. n) /\ Cardinality(1 .. n) = n
    BY <1>1, FS_Interval
  <2>2. G(k) \in SUBSET (1 .. n)
    OBVIOUS
  <2> HIDE DEF G, n
  <2>3. IsFiniteSet(G(k)) /\ Cardinality(G(k)) <= n /\ (Cardinality(G(k)) = n => G(k) = 1 .. n)
    BY <2>1, <2>2, FS_Subset
  <2> QED BY <2>3, FS_CardinalityType
<1>11. Bad = {}
  <2> SUFFICES ASSUME Bad # {} PROVE FALSE
    OBVIOUS
  <2>1. Bad \subseteq Nat
    OBVIOUS
  <2>2. PICK k \in Bad : \A j \in Bad : ~(j < k)
    BY <2>1, LeastNumber
  <2>3. k \in 0 .. n /\ G(k) # 1 .. n /\ Cardinality(G(k)) < k
    BY <2>2
  <2> HIDE DEF G
  <2>4. k # 0 /\ k - 1 \in 0 .. n /\ k - 1 < k
    BY <2>3, <1>10, <1>4
  <2>5. G(k - 1) = 1 .. n \/ Cardinality(G(k - 1)) >= k - 1
    BY <2>2, <2>4, <1>10
  <2>6. G(k - 1) # 1 .. n
    <3>1. G(k) \subseteq 1 .. n
      BY DEF G
    <3> QED BY <3>1, <2>3, <2>4, <1>8
  <2>7. PICK t \in 1 .. n : t \in G(k) /\ t \notin G(k - 1)
    BY <2>3, <2>4, <2>6, <1>9
  <2>8. G(k - 1) \union {t} \in SUBSET G(k)
    BY <2>3, <2>4, <2>7, <1>8
  <2>9. Cardinality(G(k - 1) \union {t}) = Cardinality(G(k - 1)) + 1
    BY <2>4, <2>7, <1>10, FS_AddElement
  <2>10. Cardinality(G(k - 1) \union {t}) <= Cardinality(G(k))
    BY <2>3, <2>8, <1>10, FS_Subset
  <2> QED BY <2>3, <2>4, <2>5, <2>6, <2>9, <2>10, <1>10
<1>12. n \in 0 .. n /\ n \in n .. n
  BY <1>1
<1>13. G(n) = 1 .. n
  <2> HIDE DEF G
  <2>1. n \notin Bad
    BY <1>11
  <2> QED BY <2>1, <1>10, <1>12
<1>14. ASSUME NEW x \in NamesOf(d, e), IsTmp(x) PROVE -x \in G(n)
  <2>1. -x \in 1 .. n
    BY <1>1, <1>2, <1>14, SignalNumber
  <2> HIDE DEF G
  <2> QED BY <1>13, <2>1
<1> HIDE DEF n, G
<1> QED BY <1>7, <1>12, <1>14 DEF n

\* Unfolding finds what an equation stands for.
LEMMA MeaningIsValue ==
  ASSUME NEW st, NEW d, NEW o, NEW g, Graph(st, d, o, g), Acyclic(d),
         NEW e, e \subseteq TermsUpTo(Size(d)), ApartIn(st, e)
  PROVE  Meaning(d, e) = ValueIn(st, e)
<1> DEFINE n == Size(d)
           val == CHOOSE val : Unfoldings(d, e, n, val)
<1>1. n \in Nat
  BY DEF Graph
<1>2. Unfoldings(d, e, n, val)
  <2>1. \E w : Unfoldings(d, e, n, w)
    BY <1>1, UnfoldingsExist
  <2> HIDE DEF n
  <2> QED BY <2>1, Zenon
<1>3. Meaning(d, e) = Odd(e, val[n])
  BY DEF Meaning, Unfoldings, Folded, NamesOf, Size
<1> HIDE DEF val
<1>4. \A x \in e : val[n][x] = ValIn(st, x)
  <2>1. e \subseteq NamesOf(d, e)
    BY DEF NamesOf
  <2> QED BY <1>2, <2>1, UnfoldingSettles
<1> QED BY <1>3, <1>4, OddOfApart
=============================================================================
