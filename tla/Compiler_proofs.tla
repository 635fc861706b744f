-------------------------- MODULE Compiler_proofs --------------------------
(***************************************************************************)
(* The parts of a run of the compiler, one after the other.  The matrix of *)
(* crcc.py, for every checksum and any length of data: its rows are the    *)
(* equations of the checksum.  The optimiser of gf2_cse.py, for every list *)
(* of equations, every option and every search, and for any number of ^C:  *)
(* no work is lost, the outputs keep their meaning, and the signals are in *)
(* an order in which they can be computed.  The routine of asm_gen.py, for *)
(* every graph that comes from it, every target and all data: it computes  *)
(* the equations.  The proofs about the matrix are the last in this        *)
(* module.                                                                 *)
(***************************************************************************)
EXTENDS Compiler, Equations_proofs, SequenceTheorems, CRCMatrix

Loop     == {"head", "search", "found", "extract", "added", "left"}
Handling == {"except", "result"}
After    == {"lns", "cleanup", "sort", "done", "cyclic", "crashed"}

\* Between the count and the end of a round nothing is raised, the handler that
\* raises needs a first ^C to be set, what is raised before the result is safe
\* needs a second one, and afterwards the handler of the caller is back.
SigintInv ==
  /\ presses \in Nat
  /\ pc \in Loop \union Handling \union After \union {"raised"}
  /\ handler = "now" => presses >= 1
  /\ pc \in {"extract", "added"} => critical
  /\ pc \in Handling => critical \/ presses >= 2
  /\ pc = "raised" => presses >= 3
  /\ pc \in After => handler = "orig"

\* The invariant holds at the start of optimize_graph.
LEMMA InitSigint == Init => SigintInv
BY DEF Init, SigintInv, Loop, Handling, After

\* A ^C keeps the invariant, whichever handler it meets.
LEMMA PressStep == ASSUME SigintInv, Press PROVE SigintInv'
<1> USE DEF SigintInv, Press, Loop, Handling, After, InTry
<1>1. presses' = presses + 1 /\ critical' = critical /\ presses \in Nat
  OBVIOUS
<1>2. CASE SigintSoon
  BY <1>1, <1>2 DEF SigintSoon
<1>3. CASE SigintNow /\ critical
  BY <1>1, <1>3 DEF SigintNow
<1>4. CASE SigintNow /\ ~critical /\ pc \in Loop
  <2>1. handler = "now" /\ handler' = "now" /\ pc' = "except"
    BY <1>4 DEF SigintNow
  <2> QED BY <1>1, <2>1
<1>5. CASE SigintNow /\ ~critical /\ pc \in Handling
  <2>1. handler' = handler /\ pc' = "raised" /\ presses >= 2
    BY <1>5 DEF SigintNow
  <2> QED BY <1>1, <2>1
<1>6. CASE SigintNow /\ pc \in After
  BY <1>6 DEF SigintNow
<1> QED BY <1>2, <1>3, <1>4, <1>5, <1>6

\* A step of the program keeps it: the flag is set before the list of equations
\* and the count differ, and cleared only at the head of the loop.
LEMMA WorkStep == ASSUME SigintInv, Work PROVE SigintInv'
<1> USE DEF SigintInv, Loop, Handling, After, sigint
<1>1. CASE Begins       BY <1>1 DEF Begins
<1>2. CASE Searches     BY <1>2 DEF Searches
<1>3. CASE Counts       BY <1>3 DEF Counts, Guarded
<1>4. CASE Extracts     BY <1>4 DEF Extracts
<1>5. CASE EndsRound    BY <1>5 DEF EndsRound
<1>6. CASE Leaves       BY <1>6 DEF Leaves
<1>7. CASE Caught       BY <1>7 DEF Caught
<1>8. CASE Unpacks      BY <1>8 DEF Unpacks
<1>9. CASE SearchesAround BY <1>9 DEF SearchesAround
<1>10. CASE Cleans      BY <1>10 DEF Cleans
<1>11. CASE CleansNoMore BY <1>11 DEF CleansNoMore
<1>12. CASE Places      BY <1>12 DEF Places
<1>13. CASE Sorts       BY <1>13 DEF Sorts
<1> QED
  BY <1>1, <1>2, <1>3, <1>4, <1>5, <1>6, <1>7, <1>8, <1>9, <1>10, <1>11, <1>12, <1>13 DEF Work

\* Every step of the optimiser, or a stutter, keeps the invariant.
LEMMA SigintStep == SigintInv /\ [Next]_vars => SigintInv'
<1> SUFFICES ASSUME SigintInv, [Next]_vars PROVE SigintInv'
  OBVIOUS
<1>1. CASE Work   BY <1>1, WorkStep
<1>2. CASE Press  BY <1>2, PressStep
<1>3. CASE UNCHANGED vars
  BY <1>3 DEF vars, sigint, SigintInv
<1> QED BY <1>1, <1>2, <1>3 DEF Next

\* A KeyboardInterrupt reaches the caller of optimize_graph, which then has no
\* graph, only when ^C was pressed three times.
THEOREM WorkIsKept == Spec => []InterruptKeepsResult
<1>1. SigintInv => InterruptKeepsResult
  BY DEF SigintInv, InterruptKeepsResult
<1> QED BY InitSigint, SigintStep, <1>1, PTL DEF Spec

-----------------------------------------------------------------------------
(* The list of equations as a graph. *)

Equation == SUBSET (Int \union {None})

\* The first m equations of a list are the signals, the newest one first.
ListDefs(l, m) == [t \in 1 .. m |-> l[m - t + 1]]
ListOuts(l, m) == SubSeq(l, m + 1, Len(l))

\* Where the signals and outputs of a list are.
LEMMA ListAsGraph ==
  ASSUME NEW l \in Seq(Equation), NEW m \in Nat, m <= Len(l)
  PROVE  /\ DOMAIN ListDefs(l, m) = 1 .. m /\ Size(ListDefs(l, m)) = m
         /\ \A t \in 1 .. m : ListDefs(l, m)[t] = l[m - t + 1]
         /\ Len(ListOuts(l, m)) = Len(l) - m /\ DOMAIN ListOuts(l, m) = 1 .. Len(l) - m
         /\ \A i \in 1 .. Len(l) - m : ListOuts(l, m)[i] = l[m + i]
<1>1. DOMAIN ListDefs(l, m) = 1 .. m /\ Size(ListDefs(l, m)) = m
  BY CountOfInterval DEF ListDefs, Size
<1>2. Len(l) \in Nat /\ \A i \in m + 1 .. Len(l) : l[i] \in Equation
  BY LenProperties, ElementOfSeq
<1>3. /\ ListOuts(l, m) \in Seq(Equation)
      /\ Len(ListOuts(l, m)) = IF m + 1 <= Len(l) THEN Len(l) - (m + 1) + 1 ELSE 0
      /\ \A i \in 1 .. Len(l) - (m + 1) + 1 : ListOuts(l, m)[i] = l[m + 1 + i - 1]
  BY <1>2, SubSeqProperties DEF ListOuts
<1>4. Len(ListOuts(l, m)) = Len(l) - m
  BY <1>2, <1>3
<1>5. DOMAIN ListOuts(l, m) = 1 .. Len(l) - m
  BY <1>3, <1>4, LenProperties
<1>6. ASSUME NEW i \in 1 .. Len(l) - m PROVE ListOuts(l, m)[i] = l[m + i]
  <2>1. i \in 1 .. Len(l) - (m + 1) + 1 /\ m + 1 + i - 1 = m + i
    BY <1>2
  <2> QED BY <1>3, <2>1
<1> QED BY <1>1, <1>4, <1>5, <1>6 DEF ListDefs

\* The list l2 is l with the signal id in front, and new moved into it.
Grown(l, idxs, new, id, l2) ==
  /\ l2 \in Seq(Equation) /\ Len(l2) = Len(l) + 1
  /\ l2[1] = new
  /\ \A i \in 1 .. Len(l) :
       l2[i + 1] = IF i \in idxs THEN (l[i] \ new) \union {-id} ELSE l[i]

\* What _add_tmp_list makes of a list.
LEMMA ListAfterExtraction ==
  ASSUME NEW l \in Seq(Equation), NEW idxs, NEW new \in Equation, NEW id \in Int,
         NEW l2, l2 = AddTmpList(l, idxs, new, id)
  PROVE  Grown(l, idxs, new, id, l2)
<1> DEFINE f == [i \in DOMAIN l |-> IF i \in idxs THEN (l[i] \ new) \union {-id} ELSE l[i]]
<1>1. Len(l) \in Nat /\ DOMAIN l = 1 .. Len(l) /\ \A i \in 1 .. Len(l) : l[i] \in Equation
  BY LenProperties, ElementOfSeq
<1>2. \A i \in 1 .. Len(l) : (l[i] \ new) \union {-id} \in Equation
  BY <1>1 DEF Equation
<1>3. f \in Seq(Equation) /\ Len(f) = Len(l)
  <2>1. f \in [1 .. Len(l) -> Equation]
    BY <1>1, <1>2
  <2> HIDE DEF f
  <2>2. f \in Seq(Equation)
    BY <1>1, <2>1, SeqDef
  <2> QED BY <1>1, <2>1, <2>2, LenProperties
<1>4. <<new>> \in Seq(Equation) /\ Len(<<new>>) = 1 /\ <<new>>[1] = new
  OBVIOUS
<1>5. l2 = <<new>> \o f
  BY DEF AddTmpList
<1>6. /\ l2 \in Seq(Equation) /\ Len(l2) = 1 + Len(l)
      /\ \A i \in 1 .. 1 + Len(l) : l2[i] = IF i <= 1 THEN <<new>>[i] ELSE f[i - 1]
  <2> HIDE DEF f
  <2> QED BY <1>3, <1>4, <1>5, ConcatProperties
<1>7. l2[1] = new
  <2>1. 1 \in 1 .. 1 + Len(l) /\ 1 <= 1
    BY <1>1
  <2> HIDE DEF f
  <2> QED BY <1>4, <1>6, <2>1
<1>8. ASSUME NEW i \in 1 .. Len(l) PROVE l2[i + 1] = f[i]
  <2>1. i + 1 \in 1 .. 1 + Len(l) /\ ~(i + 1 <= 1) /\ i + 1 - 1 = i
    BY <1>1
  <2> HIDE DEF f
  <2> QED BY <1>6, <2>1
<1>9. \A i \in 1 .. Len(l) : f[i] = IF i \in idxs THEN (l[i] \ new) \union {-id} ELSE l[i]
  BY <1>1
<1>10. Len(l2) = Len(l) + 1
  BY <1>1, <1>6
<1> HIDE DEF f
<1> QED BY <1>6, <1>7, <1>8, <1>9, <1>10 DEF Grown

\* With m + 1 instead of m signals in front, the list l2 is an extraction from l.
Extracted(l, m, new, l2) ==
  /\ l2 \in Seq(Equation) /\ Len(l2) = Len(l) + 1
  /\ Extraction(ListDefs(l, m), ListOuts(l, m), ListDefs(l2, m + 1), ListOuts(l2, m + 1))
  /\ ListDefs(l2, m + 1)[m + 1] = new

\* On the list, _add_tmp_list is an extraction.
LEMMA ListExtraction ==
  ASSUME NEW l \in Seq(Equation), NEW m \in Nat, m <= Len(l), NEW idxs, NEW new,
         idxs # {}, \A i \in idxs : i \in DOMAIN l /\ new \subseteq l[i],
         NEW l2, l2 = AddTmpList(l, idxs, new, m + 1)
  PROVE  Extracted(l, m, new, l2)
<1> DEFINE id == m + 1
           d  == ListDefs(l, m)
           o  == ListOuts(l, m)
           d2 == ListDefs(l2, id)
           o2 == ListOuts(l2, id)
<1>1. Len(l) \in Nat /\ DOMAIN l = 1 .. Len(l) /\ \A i \in 1 .. Len(l) : l[i] \in Equation
  BY LenProperties, ElementOfSeq
<1>2. new \in Equation
  BY <1>1 DEF Equation
<1>3. /\ l2 \in Seq(Equation) /\ Len(l2) = Len(l) + 1
      /\ l2[1] = new
      /\ \A i \in 1 .. Len(l) :
           l2[i + 1] = IF i \in idxs THEN (l[i] \ new) \union {-id} ELSE l[i]
  <2>1. id \in Int
    OBVIOUS
  <2>2. l2 = AddTmpList(l, idxs, new, id)
    OBVIOUS
  <2> HIDE DEF id
  <2>3. Grown(l, idxs, new, id, l2)
    BY <1>2, <2>1, <2>2, ListAfterExtraction
  <2> QED BY <2>3 DEF Grown
<1>4. id \in Nat /\ id <= Len(l2) /\ Len(l2) - id = Len(l) - m
  BY <1>1, <1>3
<1>5. /\ DOMAIN d = 1 .. m /\ Size(d) = m
      /\ \A t \in 1 .. m : d[t] = l[m - t + 1]
      /\ DOMAIN o = 1 .. Len(l) - m
      /\ \A i \in 1 .. Len(l) - m : o[i] = l[m + i]
  BY ListAsGraph
<1>6. /\ DOMAIN d2 = 1 .. id /\ Size(d2) = id
      /\ \A t \in 1 .. id : d2[t] = l2[id - t + 1]
      /\ DOMAIN o2 = 1 .. Len(l) - m
      /\ \A i \in 1 .. Len(l) - m : o2[i] = l2[id + i]
  <2> HIDE DEF id
  <2>1. /\ DOMAIN d2 = 1 .. id /\ Size(d2) = id
        /\ \A t \in 1 .. id : d2[t] = l2[id - t + 1]
        /\ DOMAIN o2 = 1 .. Len(l2) - id
        /\ \A i \in 1 .. Len(l2) - id : o2[i] = l2[id + i]
    BY <1>3, <1>4, ListAsGraph
  <2> HIDE DEF d2, o2
  <2> QED BY <1>4, <2>1
<1>7. d2[id] = new
  <2>1. id \in 1 .. id /\ id - id + 1 = 1
    BY <1>4
  <2> HIDE DEF id, d2
  <2> QED BY <1>3, <1>6, <2>1
<1>8. ASSUME NEW i \in 1 .. Len(l) PROVE Moves(l[i], l2[i + 1], new, id)
  BY <1>3 DEF Moves
<1>9. ASSUME NEW t \in 1 .. m PROVE Moves(d[t], d2[t], d2[id], id)
  <2>1. t \in 1 .. id /\ m - t + 1 \in 1 .. Len(l) /\ id - t + 1 = m - t + 1 + 1
    BY <1>1
  <2> HIDE DEF id, d, d2
  <2> QED BY <1>5, <1>6, <1>7, <1>8, <2>1
<1>10. ASSUME NEW i \in DOMAIN o PROVE Moves(o[i], o2[i], d2[id], id)
  <2>1. i \in 1 .. Len(l) - m
    BY <1>5
  <2>2. m + i \in 1 .. Len(l) /\ id + i = m + i + 1
    BY <1>1, <2>1
  <2>3. Moves(l[m + i], l2[m + i + 1], new, id)
    BY <1>8, <2>2
  <2> HIDE DEF id, o, o2, d2
  <2>4. o[i] = l[m + i] /\ o2[i] = l2[m + i + 1]
    BY <1>5, <1>6, <2>1, <2>2
  <2> QED BY <1>7, <2>3, <2>4
<1>11. (\E t \in 1 .. m : new \subseteq d[t]) \/ (\E i \in DOMAIN o : new \subseteq o[i])
  <2>1. PICK i \in idxs : i \in 1 .. Len(l) /\ new \subseteq l[i]
    BY <1>1
  <2>2. CASE i <= m
    <3>1. m - i + 1 \in 1 .. m /\ m - (m - i + 1) + 1 = i
      BY <2>1, <2>2, <1>1
    <3>2. d[m - i + 1] = l[i]
      <4> HIDE DEF d
      <4> QED BY <3>1, <1>5
    <3> QED BY <2>1, <3>1, <3>2
  <2>3. CASE ~(i <= m)
    <3>1. i - m \in 1 .. Len(l) - m /\ m + (i - m) = i
      BY <2>1, <2>3, <1>1
    <3>2. o[i - m] = l[i] /\ i - m \in DOMAIN o
      <4> HIDE DEF o
      <4> QED BY <3>1, <1>5
    <3> QED BY <2>1, <3>2
  <2> QED BY <2>2, <2>3
<1> HIDE DEF d, o, d2, o2
<1>12. Extraction(d, o, d2, o2)
  BY <1>5, <1>6, <1>7, <1>9, <1>10, <1>11 DEF Extraction
<1> QED BY <1>3, <1>7, <1>12 DEF Extracted, d, o, d2, o2

-----------------------------------------------------------------------------
(* The queue of the sort. *)

\* The sequence q has each member of S once.
Lists(q, S) ==
  /\ q \in Seq(S)
  /\ \A x \in S : \E i \in 1 .. Len(q) : q[i] = x
  /\ \A i, j \in 1 .. Len(q) : i # j => q[i] # q[j]

\* Whatever order a set is gone through in, each member comes once.
LEMMA SetAsList ==
  ASSUME NEW S, IsFiniteSet(S), NEW q \in SetToSeqs(S)
  PROVE  Lists(q, S)
<1> DEFINE n == Cardinality(S)
           D == 1 .. n
<1>1. n \in Nat /\ IsFiniteSet(D) /\ Cardinality(D) = n
  BY FS_CardinalityType, FS_Interval
<1>2. q \in [D -> S] /\ \A i, j \in D : i # j => q[i] # q[j]
  BY DEF SetToSeqs
<1> HIDE DEF D
<1>3. q \in Injection(D, S)
  BY <1>2 DEF Injection, IsInjective
<1>4. q \in Surjection(D, S)
  BY <1>1, <1>3, FS_Injection
<1>5. q \in Seq(S) /\ Len(q) = n
  <2>1. q \in Seq(S)
    BY <1>1, <1>2, SeqDef DEF D
  <2>2. DOMAIN q = 1 .. Len(q) /\ Len(q) \in Nat /\ DOMAIN q = 1 .. n
    BY <2>1, <1>2, LenProperties DEF D
  <2> QED BY <1>1, <2>1, <2>2
<1>6. D = 1 .. Len(q)
  BY <1>5 DEF D
<1>7. \A x \in S : \E i \in D : q[i] = x
  BY <1>4 DEF Surjection
<1> QED BY <1>2, <1>5, <1>6, <1>7 DEF Lists

\* A signal leaves the queue, from whatever position.
LEMMA RemovedFromList ==
  ASSUME NEW S, NEW q, Lists(q, S), NEW i \in 1 .. Len(q)
  PROVE  Lists(RemoveAt(q, i), S \ {q[i]})
<1> DEFINE n == Len(q)
           T == S \ {q[i]}
           a == SubSeq(q, 1, i - 1)
           b == SubSeq(q, i + 1, n)
           r == RemoveAt(q, i)
<1>1. n \in Nat /\ i \in 1 .. n /\ \A j \in 1 .. n : q[j] \in S /\ (j # i => q[j] \in T)
  BY LenProperties, ElementOfSeq DEF Lists
<1>2. /\ a \in Seq(T) /\ Len(a) = i - 1
      /\ \A j \in 1 .. i - 1 : a[j] = q[j]
  <2>1. 1 \in Int /\ i - 1 \in Int /\ \A j \in 1 .. i - 1 : q[j] \in T
    BY <1>1
  <2> HIDE DEF T
  <2>2. /\ a \in Seq(T) /\ Len(a) = IF 1 <= i - 1 THEN i - 1 - 1 + 1 ELSE 0
        /\ \A j \in 1 .. i - 1 - 1 + 1 : a[j] = q[1 + j - 1]
    BY <2>1, SubSeqProperties
  <2> HIDE DEF a
  <2> QED BY <1>1, <2>2
<1>3. /\ b \in Seq(T) /\ Len(b) = n - i
      /\ \A j \in 1 .. n - i : b[j] = q[i + j]
  <2>1. i + 1 \in Int /\ n \in Int /\ \A j \in i + 1 .. n : q[j] \in T
    BY <1>1
  <2> HIDE DEF T, n
  <2>2. /\ b \in Seq(T) /\ Len(b) = IF i + 1 <= n THEN n - (i + 1) + 1 ELSE 0
        /\ \A j \in 1 .. n - (i + 1) + 1 : b[j] = q[i + 1 + j - 1]
    BY <2>1, SubSeqProperties
  <2> HIDE DEF b
  <2>3. n - (i + 1) + 1 = n - i /\ \A j \in 1 .. n - i : i + 1 + j - 1 = i + j
    BY <1>1
  <2> QED BY <1>1, <2>2, <2>3
<1>4. r = a \o b
  BY DEF RemoveAt
<1> HIDE DEF a, b, r, T, n
<1>5. /\ r \in Seq(T) /\ Len(r) = n - 1
      /\ \A j \in 1 .. n - 1 : r[j] = q[IF j < i THEN j ELSE j + 1]
  <2>1. /\ r \in Seq(T) /\ Len(r) = Len(a) + Len(b)
        /\ \A j \in 1 .. Len(a) + Len(b) : r[j] = IF j <= Len(a) THEN a[j] ELSE b[j - Len(a)]
    BY <1>2, <1>3, <1>4, ConcatProperties
  <2>2. Len(a) + Len(b) = n - 1
    BY <1>1, <1>2, <1>3
  <2>3. ASSUME NEW j \in 1 .. n - 1 PROVE r[j] = q[IF j < i THEN j ELSE j + 1]
    <3>1. r[j] = IF j <= i - 1 THEN a[j] ELSE b[j - (i - 1)]
      BY <2>1, <2>2, <1>2
    <3>2. CASE j < i
      BY <3>1, <3>2, <1>1, <1>2
    <3>3. CASE ~(j < i)
      <4>1. j - (i - 1) \in 1 .. n - i /\ i + (j - (i - 1)) = j + 1 /\ ~(j <= i - 1)
        BY <3>3, <1>1
      <4> QED BY <3>1, <3>3, <4>1, <1>3
    <3> QED BY <3>2, <3>3
  <2> QED BY <2>1, <2>2, <2>3
<1>6. ASSUME NEW x \in T PROVE \E j \in 1 .. n - 1 : r[j] = x
  <2>1. PICK k \in 1 .. n : q[k] = x /\ k # i
    BY <1>6 DEF Lists, T, n
  <2>2. CASE k < i
    <3>1. k \in 1 .. n - 1
      BY <2>1, <2>2, <1>1
    <3> QED BY <3>1, <2>1, <2>2, <1>5
  <2>3. CASE ~(k < i)
    <3>1. k - 1 \in 1 .. n - 1 /\ ~(k - 1 < i) /\ k - 1 + 1 = k
      BY <2>1, <2>3, <1>1
    <3> QED BY <3>1, <2>1, <1>5
  <2> QED BY <2>2, <2>3
<1>7. ASSUME NEW j \in 1 .. n - 1, NEW k \in 1 .. n - 1, j # k PROVE r[j] # r[k]
  <2> DEFINE at(x) == IF x < i THEN x ELSE x + 1
  <2>1. at(j) \in 1 .. n /\ at(k) \in 1 .. n /\ at(j) # at(k)
    BY <1>1, <1>7
  <2>2. r[j] = q[at(j)] /\ r[k] = q[at(k)]
    BY <1>5
  <2> HIDE DEF at
  <2> QED BY <2>1, <2>2 DEF Lists, n
<1> QED BY <1>5, <1>6, <1>7 DEF Lists, r, T

\* Signals enter the queue at its end.
LEMMA AddedToList ==
  ASSUME NEW S, NEW T, NEW q, NEW r, Lists(q, S), Lists(r, T), S \intersect T = {}
  PROVE  Lists(q \o r, S \union T)
<1> DEFINE n == Len(q)
           m == Len(r)
           c == q \o r
<1>1. n \in Nat /\ m \in Nat
  BY LenProperties DEF Lists
<1>2. (\A i \in 1 .. n : q[i] \in S) /\ (\A i \in 1 .. m : r[i] \in T)
  BY ElementOfSeq DEF Lists
<1>3. q \in Seq(S \union T) /\ r \in Seq(S \union T)
  BY SeqMonotonic DEF Lists
<1>4. /\ c \in Seq(S \union T) /\ Len(c) = n + m
      /\ \A i \in 1 .. n + m : c[i] = IF i <= n THEN q[i] ELSE r[i - n]
  BY <1>3, ConcatProperties
<1> HIDE DEF n, m, c
<1>5. ASSUME NEW i \in 1 .. n PROVE i \in 1 .. n + m /\ c[i] = q[i] /\ c[i] \in S
  BY <1>1, <1>2, <1>4
<1>6. ASSUME NEW i \in 1 .. n + m, ~(i <= n)
      PROVE  i - n \in 1 .. m /\ c[i] = r[i - n] /\ c[i] \in T
  BY <1>1, <1>2, <1>4, <1>6
<1>7. ASSUME NEW x \in S \union T PROVE \E i \in 1 .. n + m : c[i] = x
  <2>1. CASE x \in S
    BY <2>1, <1>5 DEF Lists, n
  <2>2. CASE x \in T
    <3>1. PICK i \in 1 .. m : r[i] = x
      BY <2>2 DEF Lists, m
    <3> DEFINE k == n + i
    <3>2. k \in 1 .. n + m /\ ~(k <= n) /\ k - n = i
      BY <1>1
    <3> HIDE DEF k
    <3> QED BY <3>1, <3>2, <1>6
  <2> QED BY <2>1, <2>2
<1>8. ASSUME NEW i \in 1 .. n + m, NEW j \in 1 .. n + m, i # j PROVE c[i] # c[j]
  <2>1. CASE i <= n /\ j <= n
    <3>1. i \in 1 .. n /\ j \in 1 .. n
      BY <2>1, <1>1
    <3> QED BY <3>1, <1>5, <1>8 DEF Lists, n
  <2>2. CASE ~(i <= n) /\ ~(j <= n)
    <3>1. i - n # j - n
      BY <1>1, <1>8
    <3>2. /\ i - n \in 1 .. m /\ c[i] = r[i - n]
          /\ j - n \in 1 .. m /\ c[j] = r[j - n]
      BY <2>2, <1>6
    <3> QED BY <3>1, <3>2, ZenonT(60) DEF Lists, m
  <2>3. CASE i <= n /\ ~(j <= n)
    <3>1. i \in 1 .. n
      BY <2>3, <1>1
    <3> QED BY <3>1, <2>3, <1>5, <1>6
  <2>4. CASE ~(i <= n) /\ j <= n
    <3>1. j \in 1 .. n
      BY <2>4, <1>1
    <3> QED BY <3>1, <2>4, <1>5, <1>6
  <2> QED BY <2>1, <2>2, <2>3, <2>4
<1> QED BY <1>4, <1>7, <1>8 DEF Lists, c

-----------------------------------------------------------------------------
(* Kahn's algorithm. *)

\* What the sort needs of the definitions: the signals that one uses are some
\* of the others, and there is no cycle.
Sortable(d) ==
  /\ IsFiniteSet(DOMAIN d)
  /\ \A t \in DOMAIN d :
       /\ Deps(d, t) \subseteq DOMAIN d /\ IsFiniteSet(Deps(d, t)) /\ t \notin Deps(d, t)
       /\ \A u \in DOMAIN d : u \in Deps(d, t) <=> -u \in d[t]
  /\ Acyclic(d)

\* The signals that can be computed from those in P.
Waiting(d, P) == {t \in DOMAIN d \ P : Deps(d, t) \subseteq P}

\* The placed signals have distinct positions, behind all they use; the queue
\* has the others that use only placed ones; and the rest is counted.
Kahn(d, ps, ind, q) ==
  /\ DOMAIN ps \subseteq DOMAIN d
  /\ ps \in [DOMAIN ps -> 1 .. Cardinality(DOMAIN ps)]
  /\ \A t, u \in DOMAIN ps : t # u => ps[t] # ps[u]
  /\ Lists(q, Waiting(d, DOMAIN ps))
  /\ DOMAIN ind = DOMAIN d
  /\ \A t \in DOMAIN d : ind[t] = Cardinality(Deps(d, t) \ DOMAIN ps)
  /\ \A t \in DOMAIN ps : \A u \in Deps(d, t) : u \in DOMAIN ps /\ ps[u] < ps[t]

\* The positions and counts after u is placed.
Placed(ps, u) ==
  [t \in DOMAIN ps \union {u} |-> IF t = u THEN Cardinality(DOMAIN ps) + 1 ELSE ps[t]]
Counted(d, ind, u) == [t \in DOMAIN ind |-> IF t \in Users(d, u) THEN ind[t] - 1 ELSE ind[t]]

\* The signals by their positions.
ByPosition(d, ps, n) == [k \in 1 .. n |-> CHOOSE t \in DOMAIN d : ps[t] = k]

\* A graph can be sorted.
LEMMA GraphIsSortable ==
  ASSUME NEW st, NEW d, NEW o, NEW g, Graph(st, d, o, g), Acyclic(d)
  PROVE  Sortable(d)
<1> DEFINE n == Size(d)
<1>1. n \in Nat /\ DOMAIN d = 1 .. n /\ IsFiniteSet(1 .. n)
  BY FS_Interval DEF Graph
<1>2. ASSUME NEW t \in 1 .. n
      PROVE  /\ Deps(d, t) \subseteq 1 .. n
             /\ \A u \in 1 .. n : u \in Deps(d, t) <=> -u \in d[t]
  <2>1. d[t] \subseteq TermsUpTo(n)
    BY DEF Graph
  <2>2. ASSUME NEW u \in Deps(d, t) PROVE u \in 1 .. n /\ -u \in d[t]
    <3>1. PICK x \in d[t] : IsTmp(x) /\ u = -x
      BY DEF Deps
    <3>2. x \in Int /\ -x \in 1 .. n /\ -(-x) = x
      BY <3>1, <2>1, <1>1, SignalNumber
    <3> QED BY <3>1, <3>2
  <2>3. ASSUME NEW u \in 1 .. n, -u \in d[t] PROVE u \in Deps(d, t)
    <3>1. IsTmp(-u) /\ -(-u) = u
      BY ValueOfSignal
    <3> QED BY <3>1, <2>3 DEF Deps
  <2> QED BY <2>2, <2>3
<1>3. ASSUME NEW t \in 1 .. n PROVE -t \notin d[t]
  <2>1. {t} \in SUBSET DOMAIN d /\ {t} # {}
    BY <1>1
  <2> QED BY <2>1 DEF Acyclic
<1>4. \A t \in 1 .. n : IsFiniteSet(Deps(d, t))
  <2> HIDE DEF n
  <2> QED BY <1>1, <1>2, FS_Subset
<1> HIDE DEF n
<1> QED BY <1>1, <1>2, <1>3, <1>4 DEF Sortable

\* At the start nothing is placed.
LEMMA KahnStarts ==
  ASSUME NEW d, Sortable(d), NEW q \in SetToSeqs({t \in DOMAIN d : Deps(d, t) = {}})
  PROVE  Kahn(d, Nowhere, [t \in DOMAIN d |-> Cardinality(Deps(d, t))], q)
<1>1. DOMAIN Nowhere = {}
  BY DEF Nowhere
<1>2. Waiting(d, {}) = {t \in DOMAIN d : Deps(d, t) = {}}
  BY DEF Waiting
<1>3. IsFiniteSet(Waiting(d, {}))
  <2>1. Waiting(d, {}) \in SUBSET DOMAIN d /\ IsFiniteSet(DOMAIN d)
    BY DEF Waiting, Sortable
  <2> QED BY <2>1, FS_Subset
<1>4. Lists(q, Waiting(d, {}))
  BY <1>2, <1>3, SetAsList
<1>5. \A t \in DOMAIN d : Deps(d, t) \ {} = Deps(d, t)
  OBVIOUS
<1> QED BY <1>1, <1>4, <1>5 DEF Kahn

\* A signal is placed, and its users that wait for nothing else follow.
LEMMA KahnPlaces ==
  ASSUME NEW d, Sortable(d), NEW ps, NEW ind, NEW q, Kahn(d, ps, ind, q),
         NEW i \in 1 .. Len(q), NEW u, u = q[i],
         NEW new \in SetToSeqs({t \in Users(d, u) : ind[t] = 1})
  PROVE  Kahn(d, Placed(ps, u), Counted(d, ind, u), RemoveAt(q, i) \o new)
<1> DEFINE ps2 == Placed(ps, u)
           ind2 == Counted(d, ind, u)
           P == DOMAIN ps
           P2 == P \union {u}
           n == Cardinality(P)
           now == {t \in Users(d, u) : ind[t] = 1}
<1>1. u \in DOMAIN d \ P /\ Deps(d, u) \subseteq P
  <2>1. q \in Seq(Waiting(d, P))
    BY DEF Kahn, Lists
  <2>2. u \in Waiting(d, P)
    BY <2>1, ElementOfSeq
  <2> QED BY <2>2 DEF Waiting
<1>2. IsFiniteSet(P) /\ n \in Nat /\ IsFiniteSet(DOMAIN d)
  BY FS_Subset, FS_CardinalityType DEF Kahn, Sortable
<1>3. Cardinality(P2) = n + 1 /\ DOMAIN ps2 = P2
  BY <1>1, <1>2, FS_AddElement DEF Placed
<1>4. ASSUME NEW t \in P2
      PROVE  ps2[t] = (IF t = u THEN n + 1 ELSE ps[t]) /\ ps2[t] \in 1 .. n + 1
             /\ (t # u => t \in P /\ ps2[t] \in 1 .. n)
  BY <1>2 DEF Kahn, Placed
<1> HIDE DEF n
<1>5. ASSUME NEW t \in P2, NEW v \in P2, t # v PROVE ps2[t] # ps2[v]
  <2>1. CASE t # u /\ v # u
    BY <2>1, <1>4, <1>5 DEF Kahn
  <2>2. CASE t = u
    <3>1. v # u
      BY <2>2, <1>5
    <3>2. ps2[t] = n + 1 /\ ps2[v] \in 1 .. n
      BY <2>2, <3>1, <1>4
    <3> QED BY <3>2, <1>2
  <2>3. CASE v = u
    <3>1. t # u
      BY <2>3, <1>5
    <3>2. ps2[v] = n + 1 /\ ps2[t] \in 1 .. n
      BY <2>3, <3>1, <1>4
    <3> QED BY <3>2, <1>2
  <2> QED BY <2>1, <2>2, <2>3
<1>6. ASSUME NEW t \in P2, NEW v \in Deps(d, t) PROVE v \in P2 /\ ps2[v] < ps2[t]
  <2>1. CASE t = u
    <3>1. v \in P /\ v # u
      BY <2>1, <1>1
    <3>2. ps2[t] = n + 1 /\ ps2[v] \in 1 .. n
      BY <2>1, <3>1, <1>4
    <3> QED BY <3>1, <3>2, <1>2
  <2>2. CASE t # u
    <3>1. t \in P /\ v \in P /\ v # u /\ ps[v] < ps[t]
      BY <2>2, <1>1 DEF Kahn
    <3> QED BY <2>2, <3>1, <1>4
  <2> QED BY <2>1, <2>2
<1>7. ASSUME NEW t \in DOMAIN d
      PROVE  /\ ind2[t] = Cardinality(Deps(d, t) \ P2)
             /\ u \in Deps(d, t) => (ind[t] = 1 <=> Deps(d, t) \subseteq P2)
  <2> DEFINE A == Deps(d, t) \ P
  <2>1. IsFiniteSet(A) /\ Cardinality(A) \in Nat /\ ind[t] = Cardinality(A)
    BY FS_Difference, FS_CardinalityType DEF Sortable, Kahn
  <2>2. ind2[t] = IF u \in Deps(d, t) THEN ind[t] - 1 ELSE ind[t]
    BY DEF Kahn, Users, Counted
  <2>3. CASE u \in Deps(d, t)
    <3>1. u \in A /\ Deps(d, t) \ P2 = A \ {u}
      BY <2>3, <1>1
    <3>2. IsFiniteSet(A \ {u}) /\ Cardinality(A \ {u}) = Cardinality(A) - 1
      BY <2>1, <3>1, FS_RemoveElement
    <3>3. Cardinality(A \ {u}) = 0 <=> A \ {u} = {}
      BY <3>2, FS_EmptySet
    <3>4. Cardinality(A) = 1 <=> Cardinality(A \ {u}) = 0
      BY <2>1, <3>2
    <3> QED BY <2>1, <2>2, <2>3, <3>1, <3>2, <3>3, <3>4
  <2>4. CASE u \notin Deps(d, t)
    <3>1. Deps(d, t) \ P2 = A
      BY <2>4
    <3> QED BY <2>1, <2>2, <2>4, <3>1
  <2> QED BY <2>3, <2>4
<1>8. Waiting(d, P2) = (Waiting(d, P) \ {u}) \union now
  <2>1. ASSUME NEW t \in Waiting(d, P2) PROVE t \in (Waiting(d, P) \ {u}) \union now
    <3>1. t \in DOMAIN d /\ t \notin P /\ t # u /\ Deps(d, t) \subseteq P2
      BY DEF Waiting
    <3>2. CASE u \in Deps(d, t)
      BY <3>1, <3>2, <1>7 DEF Users
    <3>3. CASE u \notin Deps(d, t)
      BY <3>1, <3>3 DEF Waiting
    <3> QED BY <3>2, <3>3
  <2>2. ASSUME NEW t \in Waiting(d, P) \ {u} PROVE t \in Waiting(d, P2)
    BY DEF Waiting
  <2>3. ASSUME NEW t \in now PROVE t \in Waiting(d, P2)
    <3>1. t \in DOMAIN d /\ u \in Deps(d, t) /\ ind[t] = 1
      BY DEF Users
    <3>2. t \notin P /\ t # u
      BY <3>1, <1>1 DEF Kahn, Sortable
    <3>3. Deps(d, t) \subseteq P2
      BY <3>1, <1>7
    <3> QED BY <3>1, <3>2, <3>3 DEF Waiting
  <2> HIDE DEF now, P2, P
  <2> QED BY <2>1, <2>2, <2>3
<1>9. Lists(RemoveAt(q, i) \o new, Waiting(d, P2))
  <2>1. Lists(RemoveAt(q, i), Waiting(d, P) \ {u})
    BY RemovedFromList DEF Kahn
  <2>2. IsFiniteSet(now)
    <3>1. now \in SUBSET DOMAIN d
      BY DEF Users
    <3> QED BY <3>1, <1>2, FS_Subset
  <2>3. Lists(new, now)
    BY <2>2, SetAsList
  <2>4. (Waiting(d, P) \ {u}) \intersect now = {}
    BY <1>1 DEF Waiting, Users
  <2> HIDE DEF now, P, P2
  <2> QED BY <2>1, <2>3, <2>4, <1>8, AddedToList
<1>10. DOMAIN ind2 = DOMAIN d
  BY DEF Kahn, Counted
<1>11. P2 \subseteq DOMAIN d
  BY <1>1 DEF Kahn
<1>12. ps2 \in [P2 -> 1 .. n + 1]
  <2>1. ps2 = [t \in P2 |-> ps2[t]]
    BY DEF Placed
  <2>2. \A t \in P2 : ps2[t] \in 1 .. n + 1
    BY <1>4
  <2> QED BY <2>1, <2>2, Zenon
<1> HIDE DEF P, P2, n, now, ps2, ind2
<1>13. ps2 \in [DOMAIN ps2 -> 1 .. Cardinality(DOMAIN ps2)]
  BY <1>3, <1>12
<1>14. \A t, v \in DOMAIN ps2 : t # v => ps2[t] # ps2[v]
  BY <1>3, <1>5
<1>15. \A t \in DOMAIN ps2 : \A v \in Deps(d, t) : v \in DOMAIN ps2 /\ ps2[v] < ps2[t]
  BY <1>3, <1>6
<1>16. \A t \in DOMAIN d : ind2[t] = Cardinality(Deps(d, t) \ DOMAIN ps2)
  BY <1>3, <1>7
<1>17. DOMAIN ps2 \subseteq DOMAIN d /\ Lists(RemoveAt(q, i) \o new, Waiting(d, DOMAIN ps2))
  BY <1>3, <1>9, <1>11
<1> QED BY <1>10, <1>13, <1>14, <1>15, <1>16, <1>17 DEF Kahn, ps2, ind2

\* When the queue is empty, every signal is placed: on a cycle the sort would
\* stop before.  The positions are then a new numbering.
LEMMA KahnEnds ==
  ASSUME NEW d, Sortable(d), NEW n \in Nat, DOMAIN d = 1 .. n,
         NEW ps, NEW ind, Kahn(d, ps, ind, <<>>)
  PROVE  /\ DOMAIN ps = DOMAIN d
         /\ Numbering(ByPosition(d, ps, n), ps, n)
<1> DEFINE P == DOMAIN ps
           p == ByPosition(d, ps, n)
<1>1. P = DOMAIN d
  <2> SUFFICES ASSUME DOMAIN d \ P # {} PROVE FALSE
    BY DEF Kahn
  <2>1. PICK t \in DOMAIN d \ P : \A u \in DOMAIN d \ P : -u \notin d[t]
    BY DEF Sortable, Acyclic
  <2>2. Deps(d, t) \subseteq P
    BY <2>1 DEF Sortable
  <2>3. t \in Waiting(d, P)
    BY <2>2 DEF Waiting
  <2>4. Len(<<>>) = 0
    OBVIOUS
  <2>5. \E i \in 1 .. 0 : TRUE
    BY <2>3, <2>4 DEF Kahn, Lists
  <2> QED BY <2>5
<1>2. IsFiniteSet(1 .. n) /\ Cardinality(1 .. n) = n
  BY FS_Interval
<1>11. ps \in [1 .. n -> 1 .. n]
  BY <1>1, <1>2 DEF Kahn
<1>3. \A t \in 1 .. n : ps[t] \in 1 .. n
  BY <1>1, <1>2 DEF Kahn
<1>4. \A t, u \in 1 .. n : t # u => ps[t] # ps[u]
  BY <1>1 DEF Kahn
<1> DEFINE f == [t \in 1 .. n |-> ps[t]]
<1>5. f \in Injection(1 .. n, 1 .. n)
  BY <1>3, <1>4 DEF Injection, IsInjective
<1>6. f \in Surjection(1 .. n, 1 .. n)
  <2> HIDE DEF f
  <2> QED BY <1>2, <1>5, FS_Injection
<1>7. \A k \in 1 .. n : \E t \in 1 .. n : ps[t] = k
  BY <1>6 DEF Surjection
<1>8. ASSUME NEW k \in 1 .. n PROVE p[k] \in 1 .. n /\ ps[p[k]] = k
  BY <1>7 DEF ByPosition
<1>9. ASSUME NEW t \in 1 .. n PROVE p[ps[t]] = t
  <2>1. ps[t] \in 1 .. n
    BY <1>3
  <2>2. p[ps[t]] \in 1 .. n /\ ps[p[ps[t]]] = ps[t]
    BY <2>1, <1>8
  <2> HIDE DEF p
  <2> QED BY <2>2, <1>4
<1>10. p \in [1 .. n -> 1 .. n]
  <2>1. p = [k \in 1 .. n |-> p[k]]
    BY DEF ByPosition
  <2> HIDE DEF p
  <2> QED BY <2>1, <1>8
<1> HIDE DEF p
<1> QED BY <1>1, <1>8, <1>9, <1>10, <1>11 DEF Numbering, p

-----------------------------------------------------------------------------
(* Graphs for the equations of the caller. *)

\* The terms that the equations g have.
TermsOf(g) == UNION {g[i] : i \in DOMAIN g}

\* The signals can be given values such that the outputs stand for g, there is no
\* cycle, and no other inputs than those of g.
Good(d, o, g) ==
  \E st : Graph(st, d, o, g) /\ Solid(st, d, o) /\ Acyclic(d) /\ Within(d, o, TermsOf(g))

\* A signal is added.
LEMMA GoodExtraction ==
  ASSUME NEW d, NEW o, NEW g, Good(d, o, g), NEW d2, NEW o2, Extraction(d, o, d2, o2),
         d2[Size(d) + 1] # {}
  PROVE  Good(d2, o2, g)
<1>1. PICK st : Graph(st, d, o, g) /\ Solid(st, d, o) /\ Acyclic(d) /\ Within(d, o, TermsOf(g))
  BY DEF Good
<1>2. Graph(Extended(st, d, d2), d2, o2, g)
  BY <1>1, ExtractionKeeps
<1>3. Solid(Extended(st, d, d2), d2, o2)
  BY <1>1, ExtractionIsSolid
<1>4. Acyclic(d2)
  BY <1>1, ExtractionIsAcyclic
<1>5. Within(d2, o2, TermsOf(g))
  BY <1>1, ExtractionStaysWithin DEF Graph
<1> QED BY <1>2, <1>3, <1>4, <1>5 DEF Good

\* A signal is deleted, and if it is an alias, no other one becomes an alias.
LEMMA GoodDeletion ==
  ASSUME NEW d, NEW o, NEW g, Good(d, o, g), NEW t \in DOMAIN d
  PROVE  /\ Good(DeletedDefs(d, t), DeletedOuts(d, o, t), g)
         /\ DOMAIN DeletedDefs(d, t) = DOMAIN d \ {Size(d)}
         /\ -t \notin d[t]
         /\ \A k \in DOMAIN d \ {Size(d)} :
              Terms(d[t]) = 1 /\ k # t /\ Many(d[k]) => Many(DeletedDefs(d, t)[k])
<1> DEFINE n == Size(d)
           d2 == DeletedDefs(d, t)
<1>1. PICK st : Graph(st, d, o, g) /\ Solid(st, d, o) /\ Acyclic(d) /\ Within(d, o, TermsOf(g))
  BY DEF Good
<1>2. -t \notin d[t] /\ Acyclic(d2)
  <2> HIDE DEF d2
  <2> QED BY <1>1, DeletionIsAcyclic DEF d2
<1>3. Graph(Shortened(st, d, t), d2, DeletedOuts(d, o, t), g)
  BY <1>1, <1>2, DeletionKeeps
<1>4. Solid(Shortened(st, d, t), d2, DeletedOuts(d, o, t))
  BY <1>1, DeletionIsSolid
<1>5. n \in Nat \ {0} /\ DOMAIN d = 1 .. n /\ DOMAIN d2 = 1 .. n - 1 /\ t \in 1 .. n
  BY <1>1 DEF Graph, DeletedDefs, Size
<1>6. ASSUME NEW k \in 1 .. n - 1, Terms(d[t]) = 1, k # t, Many(d[k])
      PROVE  Many(d2[k])
  <2>1. Stands(st, d[t], st[t]) /\ Stands(st, d[k], st[k]) /\ k \in 1 .. n
    BY <1>1, <1>5 DEF Graph
  <2>2. IsFiniteSet(d[t]) /\ d[t] # {} /\ st[t] # {}
    BY <1>1, <1>5 DEF Solid
  <2>3. PICK a : d[t] = {a}
    BY <1>6, <2>2, TermsOfMany
  <2>4. ValIn(st, a) = st[t] /\ a # -t
    BY <2>1, <2>3, <1>2 DEF Stands, ValueIn
  <2>5. d2[k] = Renamed(Inlined(d[k], t, {a}), n, t)
    BY <1>6, <2>3 DEF DeletedDefs, Size
  <2>6. t \in Nat \ {0}
    BY <1>5
  <2> HIDE DEF n, d2
  <2>7. Many(Renamed(Inlined(d[k], t, {a}), n, t))
    BY <2>1, <2>2, <2>4, <2>6, <1>6, ManyAfterDeletion
  <2> QED BY <2>5, <2>7
<1>7. DOMAIN d2 = DOMAIN d \ {n}
  BY <1>5
<1>8. Good(d2, DeletedOuts(d, o, t), g)
  <2>1. Within(d2, DeletedOuts(d, o, t), TermsOf(g))
    BY <1>1, DeletionStaysWithin DEF Graph
  <2> HIDE DEF d2
  <2> QED BY <1>2, <1>3, <1>4, <2>1 DEF Good
<1> HIDE DEF n, d2
<1>9. DOMAIN d \ {n} = 1 .. n - 1
  BY <1>5, <1>7
<1> QED BY <1>2, <1>6, <1>7, <1>8, <1>9 DEF n, d2

\* The signals are renumbered.
LEMMA GoodRenumbering ==
  ASSUME NEW d, NEW o, NEW g, Good(d, o, g), NEW p, NEW ps, Numbering(p, ps, Size(d))
  PROVE  /\ Good(RenumberedDefs(d, p, ps), RenumberedOuts(o, ps), g)
         /\ \A k \in DOMAIN d : Many(d[p[k]]) => Many(RenumberedDefs(d, p, ps)[k])
         /\ \A k, u \in DOMAIN d :
              -u \in RenumberedDefs(d, p, ps)[k] => p[u] \in Deps(d, p[k]) /\ p[k] \in DOMAIN d
<1> DEFINE n == Size(d)
           d2 == RenumberedDefs(d, p, ps)
<1>1. PICK st : Graph(st, d, o, g) /\ Solid(st, d, o) /\ Acyclic(d) /\ Within(d, o, TermsOf(g))
  BY DEF Good
<1>2. n \in Nat /\ DOMAIN d = 1 .. n
  BY <1>1 DEF Graph
<1>3. Good(d2, RenumberedOuts(o, ps), g)
  <2>1. Graph(Permuted(st, d, p), d2, RenumberedOuts(o, ps), g)
    BY <1>1, RenumberingKeeps
  <2>2. Solid(Permuted(st, d, p), d2, RenumberedOuts(o, ps))
    BY <1>1, RenumberingIsSolid
  <2>3. Acyclic(d2)
    BY <1>1, RenumberingIsAcyclic
  <2>4. Within(d2, RenumberedOuts(o, ps), TermsOf(g))
    BY <1>1, RenumberingStaysWithin DEF Graph
  <2> HIDE DEF d2
  <2> QED BY <2>1, <2>2, <2>3, <2>4 DEF Good
<1>4. ASSUME NEW k \in 1 .. n
      PROVE  /\ p[k] \in 1 .. n /\ d2[k] = Moved(d[p[k]], ps)
             /\ d[p[k]] \subseteq TermsUpTo(n) /\ IsFiniteSet(d[p[k]])
  <2>1. p[k] \in 1 .. n
    BY DEF Numbering
  <2>2. d2[k] = Moved(d[p[k]], ps)
    BY <1>2 DEF RenumberedDefs
  <2> QED BY <2>1, <2>2, <1>1, <1>2 DEF Graph, Solid
<1>5. Numbering(p, ps, n)
  OBVIOUS
<1> HIDE DEF n, d2
<1>6. ASSUME NEW k \in 1 .. n, Many(d[p[k]]) PROVE Many(d2[k])
  <2>1. Many(Moved(d[p[k]], ps))
    BY <1>2, <1>4, <1>5, <1>6, MovingIsSolid
  <2> QED BY <2>1, <1>4
<1>7. ASSUME NEW k \in 1 .. n, NEW u \in 1 .. n, -u \in d2[k]
      PROVE  p[u] \in Deps(d, p[k]) /\ p[k] \in DOMAIN d
  <2>1. p[u] \in 1 .. n /\ -p[u] \in d[p[k]]
    BY <1>2, <1>4, <1>5, <1>7, TermsAfterMoving
  <2>2. Sortable(d)
    BY <1>1, GraphIsSortable
  <2> QED BY <2>1, <2>2, <1>2, <1>4 DEF Sortable
<1> QED BY <1>2, <1>3, <1>6, <1>7 DEF d2

\* What is given is a graph without signals.
LEMMA GivenIsGood ==
  ASSUME NEW g \in Seq(SUBSET (Nat \union {None})), \A i \in DOMAIN g : IsFiniteSet(g[i])
  PROVE  g \in Seq(Equation) /\ Good(ListDefs(g, 0), ListOuts(g, 0), g)
<1> DEFINE d == ListDefs(g, 0)
           o == ListOuts(g, 0)
<1>1. g \in Seq(Equation)
  <2>1. SUBSET (Nat \union {None}) \subseteq Equation
    BY DEF Equation
  <2> QED BY <2>1, SeqMonotonic
<1>2. Len(g) \in Nat /\ DOMAIN g = 1 .. Len(g)
  BY LenProperties
<1>3. \A i \in 1 .. Len(g) : g[i] \subseteq Nat \union {None}
  BY ElementOfSeq
<1>4. /\ DOMAIN d = 1 .. 0 /\ Size(d) = 0
      /\ DOMAIN o = 1 .. Len(g)
      /\ \A i \in 1 .. Len(g) : o[i] = g[i]
  <2>1. 0 \in Nat /\ 0 <= Len(g)
    BY <1>2
  <2>2. /\ DOMAIN d = 1 .. 0 /\ Size(d) = 0
        /\ DOMAIN o = 1 .. Len(g) - 0
        /\ \A i \in 1 .. Len(g) - 0 : o[i] = g[0 + i]
    BY <1>1, <2>1, ListAsGraph
  <2> HIDE DEF d, o
  <2> QED BY <2>2, <1>2
<1> HIDE DEF d, o
<1>5. ASSUME NEW i \in 1 .. Len(g)
      PROVE  g[i] \subseteq TermsUpTo(0) /\ Stands(<<>>, g[i], g[i])
  <2>1. \A x \in g[i] : ~IsTmp(x) /\ x \in TermsUpTo(0)
    BY <1>3, NoneAssumption DEF IsTmp, TermsUpTo
  <2>2. \A x \in g[i] : ValIn(<<>>, x) = {x}
    BY <2>1 DEF ValIn
  <2> QED BY <2>1, <2>2 DEF Stands, ApartIn, ValueIn
<1>6. Graph(<<>>, d, o, g)
  BY <1>2, <1>4, <1>5 DEF Graph
<1>7. Solid(<<>>, d, o)
  BY <1>2, <1>4 DEF Solid
<1>8. Acyclic(d)
  BY <1>4 DEF Acyclic
<1>9. Within(d, o, TermsOf(g))
  BY <1>2, <1>4 DEF Within, From, TermsOf
<1> QED BY <1>1, <1>6, <1>7, <1>8, <1>9 DEF Good, d, o

-----------------------------------------------------------------------------
(* The rounds. *)

\* Of the list, the equations that the caller did not give are the signals, and
\* but for the moment between count and list in a round tmp_count says how many.
ListInv ==
  /\ given \in Systems
  /\ s \in Seq(Equation) /\ listed \in Nat
  /\ pc \in Loop \union Handling => tmpCount = IF pc = "extract" THEN listed + 1 ELSE listed
  /\ Good(ListDefs(s, listed), ListOuts(s, listed), given)

\* The list of the caller has no signals.
LEMMA InitList == Init => ListInv
<1> SUFFICES ASSUME Init PROVE ListInv
  OBVIOUS
<1>1. /\ given \in Systems /\ s = given /\ tmpCount = 0 /\ pc = "head"
  BY DEF Init
<1>2. given \in Seq(SUBSET (Nat \union {None})) /\ \A i \in DOMAIN given : IsFiniteSet(given[i])
  BY <1>1, SystemsAssumption
<1>3. given \in Seq(Equation) /\ Good(ListDefs(given, 0), ListOuts(given, 0), given)
  BY <1>2, GivenIsGood
<1>4. listed = 0
  <2>1. Len(given) \in Nat
    BY <1>2, LenProperties
  <2> QED BY <1>1, <2>1 DEF listed
<1> QED BY <1>1, <1>3, <1>4 DEF ListInv

\* A round that adds a signal extracts what its equations share.
LEMMA RoundExtracts ==
  ASSUME ListInv, AnswerIsSound, Extracts
  PROVE  /\ s' \in Seq(Equation) /\ listed' = listed + 1 /\ listed + 1 \in Nat
         /\ Size(ListDefs(s, listed)) = listed
         /\ Extraction(ListDefs(s, listed), ListOuts(s, listed),
                       ListDefs(s', listed'), ListOuts(s', listed'))
         /\ ListDefs(s', listed')[listed + 1] # {}
<1> DEFINE best == answer.best
           idxs == {best.idxs[i] : i \in DOMAIN best.idxs}
           new == best.inter
           m == listed
<1>1. /\ m \in Nat /\ Len(s) \in Nat /\ Len(given) \in Nat /\ m = Len(s) - Len(given)
      /\ s \in Seq(Equation)
  <2>1. given \in Seq(SUBSET (Nat \union {None}))
    BY SystemsAssumption DEF ListInv
  <2> QED BY <2>1, LenProperties DEF ListInv, listed
<1>2. m <= Len(s)
  BY <1>1
<1>3. idxs # {} /\ new # {} /\ \A i \in idxs : i \in DOMAIN s /\ new \subseteq s[i]
  BY DEF AnswerIsSound, Extracts
<1>4. s' = AddTmpList(s, idxs, new, m + 1) /\ given' = given
  BY DEF Extracts, ListInv, Loop, args
<1> DEFINE d2 == ListDefs(s', m + 1)
           o2 == ListOuts(s', m + 1)
<1> HIDE DEF idxs, new, m
<1>5. /\ s' \in Seq(Equation) /\ Len(s') = Len(s) + 1
      /\ Extraction(ListDefs(s, m), ListOuts(s, m), d2, o2)
      /\ d2[m + 1] = new
  <2>1. Extracted(s, m, new, s')
    BY <1>1, <1>2, <1>3, <1>4, ListExtraction
  <2> QED BY <2>1 DEF Extracted
<1>6. Size(ListDefs(s, m)) = m
  BY <1>1, <1>2, ListAsGraph
<1>7. listed' = m + 1 /\ m + 1 \in Nat
  BY <1>1, <1>4, <1>5 DEF listed
<1> QED BY <1>3, <1>5, <1>6, <1>7 DEF m

\* So there is still a graph for the equations of the caller.
LEMMA ListExtracts == ASSUME ListInv, AnswerIsSound, Extracts PROVE ListInv'
<1>1. /\ s' \in Seq(Equation) /\ listed' = listed + 1 /\ listed' \in Nat
      /\ Size(ListDefs(s, listed)) = listed
      /\ Extraction(ListDefs(s, listed), ListOuts(s, listed),
                    ListDefs(s', listed'), ListOuts(s', listed'))
      /\ ListDefs(s', listed')[listed + 1] # {}
  BY RoundExtracts
<1>2. given' = given /\ pc' = "added" /\ tmpCount' = listed'
  BY <1>1 DEF Extracts, ListInv, Loop, args
<1>3. Good(ListDefs(s', listed'), ListOuts(s', listed'), given)
  BY <1>1, GoodExtraction DEF ListInv
<1>4. Good(ListDefs(s', listed'), ListOuts(s', listed'), given')
  BY <1>2, <1>3
<1>5. given' \in Systems
  BY <1>2 DEF ListInv
<1> QED BY <1>1, <1>2, <1>4, <1>5 DEF ListInv

\* Everything else leaves the list alone.
LEMMA ListStep == ASSUME SigintInv, ListInv, AnswerIsSound, [Next]_vars PROVE ListInv'
<1>1. ASSUME UNCHANGED <<s, given>>,
             pc' \in Loop \union Handling
               => tmpCount' = IF pc' = "extract" THEN listed + 1 ELSE listed
      PROVE  ListInv'
  <2>1. s' = s /\ given' = given
    BY <1>1
  <2>2. listed' = listed
    BY <2>1 DEF listed
  <2>3. Good(ListDefs(s', listed'), ListOuts(s', listed'), given')
    BY <2>1, <2>2 DEF ListInv
  <2> QED BY <1>1, <2>1, <2>2, <2>3 DEF ListInv
<1> USE DEF Loop, Handling, args, rounds
<1>2. CASE Begins       BY <1>1, <1>2 DEF Begins, ListInv
<1>3. CASE Searches     BY <1>1, <1>3 DEF Searches, ListInv
<1>4. CASE Counts
  <2>1. pc' = "extract" /\ tmpCount' = tmpCount + 1 /\ tmpCount = listed
    BY <1>4 DEF Counts, ListInv
  <2> QED BY <1>1, <1>4, <2>1 DEF Counts
<1>5. CASE Extracts     BY <1>5, ListExtracts
<1>6. CASE EndsRound    BY <1>1, <1>6 DEF EndsRound, ListInv
<1>7. CASE Leaves       BY <1>1, <1>7 DEF Leaves, ListInv
<1>8. CASE Caught       BY <1>1, <1>8 DEF Caught, ListInv
<1>9. CASE Unpacks      BY <1>1, <1>9 DEF Unpacks, ListInv
<1>10. CASE SearchesAround BY <1>1, <1>10 DEF SearchesAround, ListInv
<1>11. CASE Cleans      BY <1>1, <1>11 DEF Cleans, ListInv
<1>12. CASE CleansNoMore BY <1>1, <1>12 DEF CleansNoMore, ListInv
<1>13. CASE Places      BY <1>1, <1>13 DEF Places, ListInv
<1>14. CASE Sorts       BY <1>1, <1>14 DEF Sorts, ListInv
<1>15. CASE Press
  <2>1. s' = s /\ given' = given /\ tmpCount' = tmpCount
    BY <1>15 DEF Press
  <2>2. pc' = pc \/ pc' = "raised" \/ (pc' = "except" /\ pc \in Loop \ {"extract"})
    BY <1>15 DEF Press, SigintSoon, SigintNow, SigintInv, InTry
  <2>3. pc' \in Loop \union Handling
          => tmpCount' = IF pc' = "extract" THEN listed + 1 ELSE listed
    BY <2>1, <2>2 DEF ListInv
  <2> QED BY <1>1, <2>1, <2>3
<1>16. CASE UNCHANGED vars
  BY <1>1, <1>16 DEF vars, ListInv
<1> QED
  BY <1>2, <1>3, <1>4, <1>5, <1>6, <1>7, <1>8, <1>9, <1>10, <1>11, <1>12, <1>13, <1>14, <1>15,
     <1>16 DEF Next, Work

-----------------------------------------------------------------------------
(* The result. *)

\* What the functions after the rounds leave to each other: the removal of
\* aliases is done with the signals that are not in keys any more, and the sort
\* gets a graph without aliases.
ResultInv ==
  /\ pc # "cyclic"
  /\ pc \in After => Good(td, out, given)
  /\ pc = "lns" => td = ListDefs(s, listed) /\ out = ListOuts(s, listed)
  /\ pc = "cleanup" => keys \subseteq DOMAIN td /\ \A t \in DOMAIN td \ keys : Many(td[t])
  /\ pc \in {"sort", "done"} => \A t \in DOMAIN td : Many(td[t])
  /\ pc = "sort" => Kahn(td, pos, indegree, queue)
  /\ pc = "done" /\ opt.sort # "off" =>
       \A t, u \in DOMAIN td : -u \in td[t] => u < t

\* A deletion leaves no alias behind where cleanup_aliases has been.
LEMMA ResultCleans == ASSUME ResultInv, Cleans PROVE ResultInv'
<1> USE DEF After
<1>1. PICK t \in keys :
        /\ keys' = Passed(t)
        /\ IF Terms(td[t]) = 1
           THEN td' = DeletedDefs(td, t) /\ out' = DeletedOuts(td, out, t)
           ELSE td' = td /\ out' = out
  BY DEF Cleans, graph
<1>2. /\ pc = "cleanup" /\ pc' = "cleanup" /\ given' = given
      /\ Good(td, out, given) /\ t \in DOMAIN td /\ keys \subseteq DOMAIN td
      /\ \A k \in DOMAIN td \ keys : Many(td[k])
  BY <1>1 DEF Cleans, ResultInv, args
<1>3. CASE Terms(td[t]) = 1
  <2>1. /\ td' = DeletedDefs(td, t) /\ out' = DeletedOuts(td, out, t)
        /\ keys' = keys \ {Size(td)}
    BY <1>1, <1>3 DEF Passed, Size
  <2>2. /\ Good(td', out', given) /\ DOMAIN td' = DOMAIN td \ {Size(td)}
        /\ \A k \in DOMAIN td \ {Size(td)} : k # t /\ Many(td[k]) => Many(td'[k])
    BY <1>2, <1>3, <2>1, GoodDeletion
  <2>3. keys' \subseteq DOMAIN td' /\ \A k \in DOMAIN td' \ keys' : Many(td'[k])
    BY <1>2, <2>1, <2>2
  <2>4. Good(td', out', given')
    BY <1>2, <2>2
  <2> QED BY <1>2, <2>3, <2>4 DEF ResultInv
<1>4. CASE Terms(td[t]) # 1
  <2>1. td' = td /\ out' = out /\ keys' = keys \ {t}
    BY <1>1, <1>4 DEF Passed
  <2>2. Many(td[t])
    <3>1. IsFiniteSet(td[t]) /\ td[t] # {}
      BY <1>2 DEF Good, Solid
    <3> QED BY <1>4, <3>1, TermsOfMany
  <2>3. keys' \subseteq DOMAIN td' /\ \A k \in DOMAIN td' \ keys' : Many(td'[k])
    BY <1>2, <2>1, <2>2
  <2>4. Good(td', out', given')
    BY <1>2, <2>1
  <2> QED BY <1>2, <2>3, <2>4 DEF ResultInv
<1> QED BY <1>3, <1>4

\* A graph of the caller can be sorted.
LEMMA GoodIsSortable ==
  ASSUME NEW d, NEW o, NEW g, Good(d, o, g)
  PROVE  Sortable(d) /\ Size(d) \in Nat /\ DOMAIN d = 1 .. Size(d)
<1>1. PICK st : Graph(st, d, o, g) /\ Solid(st, d, o) /\ Acyclic(d) /\ Within(d, o, TermsOf(g))
  BY DEF Good
<1>2. Sortable(d)
  BY <1>1, GraphIsSortable
<1> QED BY <1>1, <1>2 DEF Graph

\* The sort starts.
LEMMA ResultSorts ==  ASSUME ResultInv, CleansNoMore PROVE ResultInv'
<1> USE DEF After
<1>1. /\ td' = td /\ out' = out /\ given' = given /\ opt' = opt
      /\ Good(td, out, given) /\ \A t \in DOMAIN td : Many(td[t])
  BY DEF CleansNoMore, ResultInv, args, graph
<1>2. Good(td', out', given') /\ \A t \in DOMAIN td' : Many(td'[t])
  BY <1>1
<1>3. CASE opt.sort = "off"
  <2>1. pc' = "done" /\ opt'.sort = "off"
    BY <1>1, <1>3 DEF CleansNoMore
  <2> QED BY <1>2, <2>1 DEF ResultInv
<1>4. CASE opt.sort # "off"
  <2>1. /\ pc' = "sort" /\ pos' = Nowhere
        /\ indegree' = [t \in DOMAIN td |-> Cardinality(Deps(td, t))]
        /\ queue' \in SetToSeqs({t \in DOMAIN td : Deps(td, t) = {}})
    BY <1>4 DEF CleansNoMore
  <2>2. Sortable(td)
    BY <1>1, GoodIsSortable
  <2>3. Kahn(td, pos', indegree', queue')
    BY <2>1, <2>2, KahnStarts
  <2>4. Kahn(td', pos', indegree', queue')
    BY <1>1, <2>3
  <2> QED BY <1>2, <2>1, <2>4 DEF ResultInv
<1> QED BY <1>3, <1>4

\* A signal is placed.
LEMMA ResultPlaces == ASSUME ResultInv, Places PROVE ResultInv'
<1> USE DEF After
<1>1. /\ td' = td /\ out' = out /\ given' = given /\ pc = "sort" /\ pc' = "sort"
      /\ Good(td, out, given) /\ \A t \in DOMAIN td : Many(td[t])
      /\ Kahn(td, pos, indegree, queue)
  BY DEF Places, ResultInv, args, graph
<1>2. PICK i \in DOMAIN queue :
        /\ pos' = Placed(pos, queue[i]) /\ indegree' = Counted(td, indegree, queue[i])
        /\ \E new \in SetToSeqs(Ready(queue[i])) : queue' = RemoveAt(queue, i) \o new
  BY DEF Places, Placed, Counted
<1>3. PICK new \in SetToSeqs(Ready(queue[i])) : queue' = RemoveAt(queue, i) \o new
  BY <1>2
<1>4. i \in 1 .. Len(queue)
  BY <1>1, LenProperties DEF Kahn, Lists
<1>5. new \in SetToSeqs({t \in Users(td, queue[i]) : indegree[t] = 1})
  BY DEF Ready
<1>6. Kahn(td, Placed(pos, queue[i]), Counted(td, indegree, queue[i]), RemoveAt(queue, i) \o new)
  <2>1. Sortable(td)
    BY <1>1, GoodIsSortable
  <2> QED BY <2>1, <1>1, <1>4, <1>5, KahnPlaces
<1>7. Kahn(td', pos', indegree', queue')
  BY <1>1, <1>2, <1>3, <1>6
<1>8. Good(td', out', given') /\ \A t \in DOMAIN td' : Many(td'[t])
  BY <1>1
<1> QED BY <1>1, <1>7, <1>8 DEF ResultInv

\* The sort finds no cycle, and renumbers.
LEMMA SortRenumbers ==
  ASSUME ResultInv, Sorts
  PROVE  LET p == ByPosition(td, pos, Size(td))
         IN  /\ pc' = "done" /\ Numbering(p, pos, Size(td))
             /\ td' = RenumberedDefs(td, p, pos) /\ out' = RenumberedOuts(out, pos)
<1> USE DEF After
<1> DEFINE n == Size(td)
           p == ByPosition(td, pos, n)
<1>1. pc = "sort" /\ Good(td, out, given) /\ Kahn(td, pos, indegree, <<>>)
  BY DEF Sorts, ResultInv
<1>2. Sortable(td) /\ n \in Nat /\ DOMAIN td = 1 .. n
  BY <1>1, GoodIsSortable
<1>3. DOMAIN pos = DOMAIN td /\ Numbering(p, pos, n)
  <2> HIDE DEF n
  <2> QED BY <1>1, <1>2, KahnEnds
<1>4. pc' = "done" /\ Renumbers
  BY <1>3 DEF Sorts
<1>5. td' = [k \in 1 .. n |-> Moved(td[p[k]], pos)]
  <2> DEFINE at(k) == CHOOSE t \in DOMAIN td : pos[t] = k
  <2>1. td' = [k \in 1 .. n |-> Moved(td[at(k)], pos)]
    BY <1>4 DEF Renumbers, Size
  <2>2. \A k \in 1 .. n : at(k) = p[k]
    BY DEF ByPosition
  <2> HIDE DEF at, p, n
  <2> QED BY <2>1, <2>2
<1> HIDE DEF p, n
<1>6. td' = RenumberedDefs(td, p, pos) /\ out' = RenumberedOuts(out, pos)
  BY <1>2, <1>4, <1>5 DEF Renumbers, RenumberedDefs, RenumberedOuts
<1> QED BY <1>3, <1>4, <1>6 DEF p, n

\* Afterwards each signal has a higher number than the ones it uses.
LEMMA ResultRenumbers == ASSUME ResultInv, Sorts PROVE ResultInv'
<1> USE DEF After
<1> DEFINE n == Size(td)
           p == ByPosition(td, pos, n)
<1>1. /\ given' = given /\ Good(td, out, given) /\ \A t \in DOMAIN td : Many(td[t])
      /\ Kahn(td, pos, indegree, queue)
  BY DEF Sorts, ResultInv, args
<1>2. n \in Nat /\ DOMAIN td = 1 .. n
  BY <1>1, GoodIsSortable
<1>3. /\ pc' = "done" /\ Numbering(p, pos, n)
      /\ td' = RenumberedDefs(td, p, pos) /\ out' = RenumberedOuts(out, pos)
  BY SortRenumbers
<1> HIDE DEF p, n
<1>4. /\ Good(td', out', given)
      /\ \A k \in 1 .. n : Many(td[p[k]]) => Many(td'[k])
      /\ \A k, u \in 1 .. n :
           -u \in td'[k] => p[u] \in Deps(td, p[k]) /\ p[k] \in DOMAIN td
  BY <1>1, <1>2, <1>3, GoodRenumbering DEF n
<1>5. DOMAIN td' = 1 .. n
  BY <1>2, <1>3 DEF RenumberedDefs
<1>6. DOMAIN pos = 1 .. n /\ \A k \in 1 .. n : p[k] \in 1 .. n /\ pos[p[k]] = k
  BY <1>3 DEF Numbering
<1>7. \A t \in DOMAIN td' : Many(td'[t])
  BY <1>1, <1>2, <1>4, <1>5, <1>6
<1>8. ASSUME NEW t \in DOMAIN td', NEW u \in DOMAIN td', -u \in td'[t] PROVE u < t
  <2>1. p[u] \in Deps(td, p[t]) /\ p[t] \in DOMAIN pos
    BY <1>4, <1>5, <1>6, <1>8
  <2>2. pos[p[u]] < pos[p[t]]
    BY <1>1, <2>1 DEF Kahn
  <2> QED BY <2>2, <1>5, <1>6
<1>9. Good(td', out', given')
  BY <1>1, <1>4
<1> QED BY <1>3, <1>7, <1>8, <1>9 DEF ResultInv

\* The rounds are over: the list becomes definitions and outputs.
LEMMA ResultUnpacks == ASSUME ListInv, ResultInv, Unpacks PROVE ResultInv'
<1> USE DEF After
<1>1. /\ given' = given /\ pc = "result" /\ pc' \in {"lns", "cleanup"}
      /\ td' = Unpacked /\ out' = SubSeq(s, tmpCount + 1, Len(s)) /\ keys' = 1 .. tmpCount
  BY DEF Unpacks, args
<1>2. tmpCount = listed
  BY <1>1 DEF ListInv, Loop, Handling
<1>3. td' = ListDefs(s, listed) /\ out' = ListOuts(s, listed)
  BY <1>1, <1>2 DEF Unpacked, ListDefs, ListOuts
<1>4. Good(td', out', given')
  BY <1>1, <1>3 DEF ListInv
<1>5. DOMAIN td' = keys'
  BY <1>1, <1>2, <1>3 DEF ListDefs
<1>6. s' = s /\ listed' = listed
  <2>1. s' = s /\ given' = given
    BY DEF Unpacks, rounds, args
  <2> QED BY <2>1 DEF listed
<1>7. td' = ListDefs(s', listed') /\ out' = ListOuts(s', listed')
  BY <1>3, <1>6
<1> QED BY <1>1, <1>4, <1>5, <1>7 DEF ResultInv

\* No other step touches the result.
LEMMA ResultStep ==
  ASSUME SigintInv, ListInv, ResultInv, [Next]_vars PROVE ResultInv'
<1>1. ASSUME pc' \notin After PROVE ResultInv'
  BY <1>1 DEF ResultInv, After
<1> USE DEF Loop, Handling, After
<1>2. CASE Begins       BY <1>1, <1>2 DEF Begins
<1>3. CASE Searches     BY <1>1, <1>3 DEF Searches
<1>4. CASE Counts       BY <1>1, <1>4 DEF Counts
<1>5. CASE Extracts     BY <1>1, <1>5 DEF Extracts
<1>6. CASE EndsRound    BY <1>1, <1>6 DEF EndsRound
<1>7. CASE Leaves       BY <1>1, <1>7 DEF Leaves
<1>8. CASE Caught       BY <1>1, <1>8 DEF Caught
<1>9. CASE Unpacks      BY <1>9, ResultUnpacks
<1>10. CASE SearchesAround
  <2>1. td' = td /\ out' = out /\ given' = given /\ pc = "lns" /\ pc' = "crashed"
    BY <1>10 DEF SearchesAround, graph, args
  <2>2. Good(td', out', given')
    BY <2>1 DEF ResultInv
  <2> QED BY <2>1, <2>2 DEF ResultInv
<1>11. CASE Cleans      BY <1>11, ResultCleans
<1>12. CASE CleansNoMore BY <1>12, ResultSorts
<1>13. CASE Places      BY <1>13, ResultPlaces
<1>14. CASE Sorts       BY <1>14, ResultRenumbers
<1>15. CASE Press
  BY <1>1, <1>15 DEF Press, SigintSoon, SigintNow, SigintInv, InTry
<1>16. CASE UNCHANGED vars
  <2>1. td' = td /\ out' = out /\ given' = given /\ opt' = opt
    BY <1>16 DEF vars, graph, args
  <2>2. pc' = pc /\ keys' = keys /\ pos' = pos /\ indegree' = indegree /\ queue' = queue
    BY <1>16 DEF vars, sorting
  <2>3. s' = s
    BY <1>16 DEF vars, rounds
  <2>4. listed' = listed
    BY <2>1, <2>3 DEF listed
  <2> QED BY <2>1, <2>2, <2>3, <2>4 DEF ResultInv
<1> QED
  BY <1>2, <1>3, <1>4, <1>5, <1>6, <1>7, <1>8, <1>9, <1>10, <1>11, <1>12, <1>13, <1>14, <1>15,
     <1>16 DEF Next, Work

-----------------------------------------------------------------------------
(* The theorems, for every search whose answers are sound. *)

AllInv == SigintInv /\ ListInv /\ ResultInv

\* The invariants hold from the start.
LEMMA InitAll == Init => AllInv
<1>1. Init => ResultInv
  BY DEF Init, ResultInv, After
<1> QED BY <1>1, InitSigint, InitList DEF AllInv

\* Every step keeps them.
LEMMA AllStep == AllInv /\ AnswerIsSound /\ [Next]_vars => AllInv'
<1> SUFFICES ASSUME AllInv, AnswerIsSound, [Next]_vars PROVE AllInv'
  OBVIOUS
<1>1. SigintInv'
  BY SigintStep DEF AllInv
<1>2. ListInv'
  BY ListStep DEF AllInv
<1>3. ResultInv'
  BY ResultStep DEF AllInv
<1> QED BY <1>1, <1>2, <1>3 DEF AllInv

\* No cycle is reported, no alias is left, and after a sort every signal uses
\* only signals with lower numbers.
THEOREM ResultOrder == Spec /\ []AnswerIsSound => []ResultIsOrdered
<1>1. AllInv => ResultIsOrdered
  <2> SUFFICES ASSUME AllInv PROVE ResultIsOrdered
    OBVIOUS
  <2>1. pc # "cyclic"
    BY DEF AllInv, ResultInv
  <2>2. ASSUME pc = "done", NEW t \in DOMAIN td
        PROVE  /\ Terms(td[t]) >= 2
               /\ opt.sort # "off" => Deps(td, t) \subseteq 1 .. t - 1
    <3>1. Good(td, out, given) /\ Many(td[t])
      BY <2>2 DEF AllInv, ResultInv, After
    <3>2. Terms(td[t]) >= 2
      <4>1. IsFiniteSet(td[t]) /\ td[t] # {}
        BY <3>1 DEF Good, Solid
      <4> QED BY <3>1, <4>1, TermsOfMany
    <3>3. Sortable(td) /\ Size(td) \in Nat /\ DOMAIN td = 1 .. Size(td)
      BY <3>1, GoodIsSortable
    <3>4. ASSUME opt.sort # "off", NEW u \in Deps(td, t) PROVE u \in 1 .. t - 1
      <4>1. u \in DOMAIN td /\ -u \in td[t]
        BY <3>3, <3>4 DEF Sortable
      <4>2. u < t
        BY <2>2, <3>4, <4>1 DEF AllInv, ResultInv
      <4> QED BY <3>3, <4>1, <4>2
    <3> QED BY <3>2, <3>4
  <2> QED BY <2>1, <2>2 DEF ResultIsOrdered
<1> QED BY InitAll, AllStep, <1>1, PTL DEF Spec

\* In a graph of the caller an equation means what its output stands for.
LEMMA GoodMeans ==
  ASSUME NEW d, NEW o, NEW g, Good(d, o, g)
  PROVE  DOMAIN o = DOMAIN g /\ \A i \in DOMAIN o : Meaning(d, o[i]) = g[i]
<1>1. PICK st : Graph(st, d, o, g) /\ Solid(st, d, o) /\ Acyclic(d) /\ Within(d, o, TermsOf(g))
  BY DEF Good
<1>2. ASSUME NEW i \in DOMAIN o PROVE Meaning(d, o[i]) = g[i]
  <2>1. o[i] \subseteq TermsUpTo(Size(d)) /\ ApartIn(st, o[i]) /\ ValueIn(st, o[i]) = g[i]
    BY <1>1 DEF Graph, Stands
  <2> QED BY <1>1, <2>1, MeaningIsValue
<1> QED BY <1>1, <1>2 DEF Graph

\* The outputs of optimize_graph mean the equations of its caller, when it
\* returns from the rounds and after each later step.
THEOREM EquationsAreKept == Spec /\ []AnswerIsSound => []SameEquations
<1>1. AllInv => SameEquations
  <2> SUFFICES ASSUME AllInv, HasGraph PROVE
                 /\ Len(out) = Len(given)
                 /\ \A i \in DOMAIN out : Meaning(td, out[i]) = given[i]
    BY DEF SameEquations
  <2>1. Good(td, out, given)
    BY DEF AllInv, ResultInv, SigintInv, HasGraph, Loop, Handling, After
  <2>2. DOMAIN out = DOMAIN given /\ \A i \in DOMAIN out : Meaning(td, out[i]) = given[i]
    BY <2>1, GoodMeans
  <2>3. Len(out) = Len(given)
    BY <2>2
  <2> QED BY <2>2, <2>3
<1> QED BY InitAll, AllStep, <1>1, PTL DEF Spec

-----------------------------------------------------------------------------
(* The steps on the graph. *)

\* What each signal means.
Meanings(d) == [t \in DOMAIN d |-> Meaning(d, d[t])]

\* What the signals mean is what they stand for.
LEMMA MeaningsAreValues ==
  ASSUME NEW st, NEW d, NEW o, NEW g, Graph(st, d, o, g), Acyclic(d)
  PROVE  \A t \in DOMAIN d : Meanings(d)[t] = st[t]
<1> SUFFICES ASSUME NEW t \in DOMAIN d PROVE Meaning(d, d[t]) = st[t]
  BY DEF Meanings
<1>1. d[t] \subseteq TermsUpTo(Size(d)) /\ ApartIn(st, d[t]) /\ ValueIn(st, d[t]) = st[t]
  BY DEF Graph, Stands
<1> QED BY <1>1, MeaningIsValue

\* A new signal means what its terms stood for, the others what they did.
LEMMA MeaningsAfterExtraction ==
  ASSUME NEW d, NEW o, NEW g, Good(d, o, g), NEW d2, NEW o2, Extraction(d, o, d2, o2)
  PROVE  LET id == Size(d) + 1
         IN  Meanings(d2) = [t \in 1 .. id |-> IF t = id THEN ValueIn(Meanings(d), d2[id])
                                               ELSE Meanings(d)[t]]
<1> DEFINE n == Size(d)
           id == n + 1
           new == d2[id]
<1>1. PICK st : Graph(st, d, o, g) /\ Solid(st, d, o) /\ Acyclic(d) /\ Within(d, o, TermsOf(g))
  BY DEF Good
<1>2. n \in Nat /\ DOMAIN d = 1 .. n /\ DOMAIN d2 = 1 .. id
  BY <1>1 DEF Graph, Extraction
<1>3. \A t \in 1 .. n : Meanings(d)[t] = st[t]
  BY <1>1, <1>2, MeaningsAreValues
<1>4. \A t \in 1 .. id : Meanings(d2)[t] = Extended(st, d, d2)[t]
  <2>1. Graph(Extended(st, d, d2), d2, o2, g) /\ Acyclic(d2)
    BY <1>1, ExtractionKeeps, ExtractionIsAcyclic
  <2> QED BY <2>1, <1>2, MeaningsAreValues
<1>5. new \subseteq TermsUpTo(n)
  BY <1>1 DEF Extraction, Graph
<1>6. ValueIn(Meanings(d), new) = ValueIn(st, new)
  <2> SUFFICES ASSUME NEW x \in new PROVE ValIn(Meanings(d), x) = ValIn(st, x)
    BY DEF ValueIn
  <2>1. CASE IsTmp(x)
    <3>1. -x \in 1 .. n
      BY <2>1, <1>2, <1>5, SignalNumber
    <3> QED BY <2>1, <3>1, <1>3 DEF ValIn
  <2>2. CASE ~IsTmp(x)
    BY <2>2 DEF ValIn
  <2> QED BY <2>1, <2>2
<1>7. ASSUME NEW t \in 1 .. id
      PROVE  Meanings(d2)[t] = IF t = id THEN ValueIn(Meanings(d), new) ELSE Meanings(d)[t]
  <2>1. CASE t = id
    BY <2>1, <1>2, <1>4, <1>6 DEF Extended
  <2>2. CASE t \in 1 .. n
    BY <2>2, <1>2, <1>3, <1>4 DEF Extended
  <2> QED BY <2>1, <2>2, <1>2
<1>8. Meanings(d2) = [t \in 1 .. id |-> Meanings(d2)[t]]
  BY <1>2 DEF Meanings
<1> QED BY <1>7, <1>8

\* The other signals mean what they did, also the one with a new number.
LEMMA MeaningsAfterDeletion ==
  ASSUME NEW d, NEW o, NEW g, Good(d, o, g), NEW t \in DOMAIN d
  PROVE  Meanings(DeletedDefs(d, t)) = Shortened(Meanings(d), d, t)
<1> DEFINE n == Size(d)
           d2 == DeletedDefs(d, t)
<1>1. PICK st : Graph(st, d, o, g) /\ Solid(st, d, o) /\ Acyclic(d) /\ Within(d, o, TermsOf(g))
  BY DEF Good
<1>2. n \in Nat \ {0} /\ DOMAIN d = 1 .. n /\ DOMAIN d2 = 1 .. n - 1
  BY <1>1 DEF Graph, DeletedDefs, Size
<1>3. \A k \in 1 .. n : Meanings(d)[k] = st[k]
  BY <1>1, <1>2, MeaningsAreValues
<1>4. \A k \in 1 .. n - 1 : Meanings(d2)[k] = Shortened(st, d, t)[k]
  <2>1. -t \notin d[t] /\ Acyclic(d2)
    BY <1>1, DeletionIsAcyclic
  <2>2. Graph(Shortened(st, d, t), d2, DeletedOuts(d, o, t), g)
    BY <1>1, <2>1, DeletionKeeps
  <2> HIDE DEF d2
  <2> QED BY <2>1, <2>2, <1>2, MeaningsAreValues
<1>5. Meanings(d2) = [k \in 1 .. n - 1 |-> Meanings(d2)[k]]
  <2> HIDE DEF d2
  <2> QED BY <1>2 DEF Meanings
<1>6. ASSUME NEW k \in 1 .. n - 1
      PROVE  Meanings(d2)[k] = IF k = t THEN Meanings(d)[n] ELSE Meanings(d)[k]
  <2>1. k \in 1 .. n /\ n \in 1 .. n
    BY <1>2
  <2> HIDE DEF d2
  <2> QED BY <2>1, <1>3, <1>4 DEF Shortened
<1> HIDE DEF d2
<1> QED BY <1>5, <1>6 DEF Shortened, d2

\* Under a new numbering every signal means what it did.
LEMMA MeaningsAfterRenumbering ==
  ASSUME NEW d, NEW o, NEW g, Good(d, o, g), NEW p, NEW ps, Numbering(p, ps, Size(d))
  PROVE  Meanings(RenumberedDefs(d, p, ps)) = [k \in DOMAIN d |-> Meanings(d)[p[k]]]
<1> DEFINE n == Size(d)
           d2 == RenumberedDefs(d, p, ps)
<1>1. PICK st : Graph(st, d, o, g) /\ Solid(st, d, o) /\ Acyclic(d) /\ Within(d, o, TermsOf(g))
  BY DEF Good
<1>2. n \in Nat /\ DOMAIN d = 1 .. n /\ DOMAIN d2 = 1 .. n
  BY <1>1 DEF Graph, RenumberedDefs
<1>3. \A k \in 1 .. n : Meanings(d)[k] = st[k]
  BY <1>1, <1>2, MeaningsAreValues
<1>4. \A k \in 1 .. n : Meanings(d2)[k] = Permuted(st, d, p)[k]
  <2>1. Graph(Permuted(st, d, p), d2, RenumberedOuts(o, ps), g) /\ Acyclic(d2)
    BY <1>1, RenumberingKeeps, RenumberingIsAcyclic
  <2> HIDE DEF d2
  <2> QED BY <2>1, <1>2, MeaningsAreValues
<1>5. Meanings(d2) = [k \in 1 .. n |-> Meanings(d2)[k]]
  <2> HIDE DEF d2
  <2> QED BY <1>2 DEF Meanings
<1>6. ASSUME NEW k \in 1 .. n PROVE Meanings(d2)[k] = Meanings(d)[p[k]]
  <2>1. p[k] \in 1 .. n
    BY DEF Numbering
  <2> HIDE DEF d2
  <2> QED BY <2>1, <1>2, <1>3, <1>4 DEF Permuted
<1> HIDE DEF d2
<1> QED BY <1>2, <1>5, <1>6 DEF d2

-----------------------------------------------------------------------------
(* The optimiser rewrites graphs. *)

\* Both modules count in the same way.
LEMMA SameCardinality == ASSUME NEW S PROVE Rewriting!Cardinality(S) = Cardinality(S)
BY DEF Rewriting!Cardinality, Cardinality, Rewriting!IsFiniteSet, IsFiniteSet

\* An extraction is one of the rewriting.
LEMMA ExtractIsRewriting ==
  ASSUME Good(nowDefs, nowOuts, given), Extraction(nowDefs, nowOuts, nowDefs', nowOuts')
  PROVE  Rewriting!Extract
<1> DEFINE n  == Cardinality(DOMAIN nowDefs)
           id == n + 1
<1>1. n = Size(nowDefs)
  BY DEF Size
<1>2. /\ DOMAIN nowDefs' = 1 .. id /\ DOMAIN nowOuts' = DOMAIN nowOuts
      /\ \A t \in 1 .. n : Moves(nowDefs[t], nowDefs'[t], nowDefs'[id], id)
      /\ \A i \in DOMAIN nowOuts : Moves(nowOuts[i], nowOuts'[i], nowDefs'[id], id)
      /\ \/ \E t \in 1 .. n : nowDefs'[id] \subseteq nowDefs[t]
         \/ \E i \in DOMAIN nowOuts : nowDefs'[id] \subseteq nowOuts[i]
  BY <1>1 DEF Extraction
<1>3. Meanings(nowDefs') =
        [t \in 1 .. id |-> IF t = id THEN ValueIn(Meanings(nowDefs), nowDefs'[id])
                           ELSE Meanings(nowDefs)[t]]
  BY <1>1, MeaningsAfterExtraction
<1>4. Rewriting!Cardinality(DOMAIN nowDefs) = n
  BY SameCardinality
<1> HIDE DEF n
<1>5. /\ \A t \in 1 .. n : Rewriting!Takes(nowDefs[t], nowDefs'[t], nowDefs'[id], id)
      /\ \A i \in DOMAIN nowOuts : Rewriting!Takes(nowOuts[i], nowOuts'[i], nowDefs'[id], id)
  BY <1>2 DEF Rewriting!Takes, Moves
<1>6. \E i \in DOMAIN nowOuts \union 1 .. n :
        \/ i \in DOMAIN nowOuts /\ nowDefs'[id] \subseteq nowOuts[i]
        \/ i \in 1 .. n /\ nowDefs'[id] \subseteq nowDefs[i]
  BY <1>2
<1>7. \A e : Rewriting!Value(e) = ValueIn(Meanings(nowDefs), e)
  BY DEF Rewriting!Value, Rewriting!Val, Rewriting!IsTmp, IsTmp, ValueIn, ValIn, Meanings
<1>8. Meanings(nowDefs') =
        [t \in 1 .. id |-> IF t = id THEN Rewriting!Value(nowDefs'[id])
                           ELSE Meanings(nowDefs)[t]]
  BY <1>3, <1>7
<1> QED BY <1>2, <1>4, <1>5, <1>6, <1>8 DEF Rewriting!Extract, Meanings

\* A deletion is an inlining.
LEMMA DeletionIsRewriting ==
  ASSUME Good(nowDefs, nowOuts, given), NEW t \in DOMAIN nowDefs,
         nowDefs' = DeletedDefs(nowDefs, t), nowOuts' = DeletedOuts(nowDefs, nowOuts, t)
  PROVE  Rewriting!Inline(t)
<1> DEFINE n == Cardinality(DOMAIN nowDefs)
<1>1. Rewriting!Cardinality(DOMAIN nowDefs) = n /\ n = Size(nowDefs)
  BY SameCardinality DEF Size
<1>2. -t \notin nowDefs[t]
  BY GoodDeletion
<1>3. Meanings(nowDefs') =
        [k \in 1 .. n - 1 |-> IF k = t THEN Meanings(nowDefs)[n] ELSE Meanings(nowDefs)[k]]
  BY <1>1, MeaningsAfterDeletion DEF Shortened
<1>4. nowDefs' = Rewriting!DeletedDefs(nowDefs, t)
  BY <1>1 DEF DeletedDefs, Renamed, Inlined, Rewriting!DeletedDefs, Rewriting!Renamed,
              Rewriting!Inlined
<1>5. nowOuts' = Rewriting!DeletedOuts(nowDefs, nowOuts, t)
  BY <1>1 DEF DeletedOuts, Renamed, Inlined, Rewriting!DeletedOuts, Rewriting!Renamed,
              Rewriting!Inlined
<1> HIDE DEF n
<1> QED BY <1>1, <1>2, <1>3, <1>4, <1>5 DEF Rewriting!Inline, Meanings

\* A new numbering is a renumbering.
LEMMA NumberingIsRewriting ==
  ASSUME Good(nowDefs, nowOuts, given), NEW p, NEW ps, Numbering(p, ps, Size(nowDefs)),
         nowDefs' = RenumberedDefs(nowDefs, p, ps), nowOuts' = RenumberedOuts(nowOuts, ps)
  PROVE  p \in Rewriting!Orders /\ Rewriting!Renumber(p)
<1> DEFINE n == Size(nowDefs)
           back == [t \in DOMAIN nowDefs |-> CHOOSE k \in DOMAIN nowDefs : p[k] = t]
<1>1. n \in Nat /\ DOMAIN nowDefs = 1 .. n
  BY GoodIsSortable
<1> HIDE DEF n
<1>2. p \in Rewriting!Orders
  BY <1>1 DEF Rewriting!Orders, Numbering, n
<1>3. back = ps
  <2>1. ASSUME NEW t \in 1 .. n PROVE back[t] = ps[t]
    <3>1. ps[t] \in 1 .. n /\ p[ps[t]] = t
      BY DEF Numbering, n
    <3>2. back[t] \in 1 .. n /\ p[back[t]] = t
      BY <1>1, <3>1
    <3>3. ps[p[back[t]]] = back[t]
      BY <3>2 DEF Numbering, n
    <3> QED BY <3>2, <3>3
  <2>2. ps = [t \in 1 .. n |-> ps[t]] /\ back = [t \in 1 .. n |-> back[t]]
    BY <1>1 DEF Numbering, n
  <2> HIDE DEF back
  <2> QED BY <2>1, <2>2
<1>4. Meanings(nowDefs') = [k \in DOMAIN nowDefs |-> Meanings(nowDefs)[p[k]]]
  BY MeaningsAfterRenumbering
<1>5. \A e, q : Rewriting!Moved(e, q) = Moved(e, q)
  BY DEF Rewriting!Moved, Moved, Rewriting!IsTmp, IsTmp
<1>6. /\ nowDefs' = [k \in DOMAIN nowDefs |-> Rewriting!Moved(nowDefs[p[k]], back)]
      /\ nowOuts' = [i \in DOMAIN nowOuts |-> Rewriting!Moved(nowOuts[i], back)]
  <2> HIDE DEF back
  <2> QED BY <1>3, <1>5 DEF RenumberedDefs, RenumberedOuts
<1>7. Rewriting!Renumber(p)
  BY <1>4, <1>6 DEF Rewriting!Renumber, Meanings
<1> QED BY <1>2, <1>7

\* A step that leaves the graph alone is none of the rewriting.
LEMMA RewritingStutters ==
  ASSUME nowDefs' = nowDefs, nowOuts' = nowOuts, given' = given
  PROVE  UNCHANGED Rewriting!graph
BY DEF Rewriting!graph

\* While the list is the graph, a step that keeps it changes nothing.
LEMMA ListStutters ==
  ASSUME UNCHANGED <<s, given>>, ~HasGraph, ~HasGraph'
  PROVE  UNCHANGED Rewriting!graph
<1>1. s' = s /\ given' = given
  OBVIOUS
<1>2. listed' = listed
  BY <1>1 DEF listed
<1>3. nowDefs' = nowDefs /\ nowOuts' = nowOuts
  BY <1>1, <1>2 DEF nowDefs, nowOuts
<1> QED BY <1>1, <1>3, RewritingStutters

\* Afterwards likewise.
LEMMA GraphStutters ==
  ASSUME UNCHANGED <<td, out, given>>, HasGraph, HasGraph'
  PROVE  UNCHANGED Rewriting!graph
<1>1. nowDefs' = nowDefs /\ nowOuts' = nowOuts
  BY DEF nowDefs, nowOuts
<1> QED BY <1>1, RewritingStutters

\* The graph of the moment is one for the equations of the caller.
LEMMA NowIsGood == ASSUME AllInv PROVE Good(nowDefs, nowOuts, given)
<1>1. CASE HasGraph
  <2>1. Good(td, out, given)
    BY <1>1 DEF AllInv, ResultInv, SigintInv, HasGraph, Loop, Handling, After
  <2> QED BY <1>1, <2>1 DEF nowDefs, nowOuts
<1>2. CASE ~HasGraph
  <2>1. Good(ListDefs(s, listed), ListOuts(s, listed), given)
    BY DEF AllInv, ListInv
  <2> QED BY <1>2, <2>1 DEF nowDefs, nowOuts, ListDefs, ListOuts
<1> QED BY <1>1, <1>2

\* Every step of the optimiser is one of the rewriting, or none.
LEMMA RewritingStep ==
  ASSUME AllInv, AnswerIsSound, [Next]_vars
  PROVE  [Rewriting!Next]_(Rewriting!graph)
<1> USE DEF HasGraph
<1>1. CASE Begins       BY <1>1, ListStutters DEF Begins, rounds, args
<1>2. CASE Searches     BY <1>2, ListStutters DEF Searches, args
<1>3. CASE Counts       BY <1>3, ListStutters DEF Counts, args
<1>4. CASE Extracts
  <2>1. Extraction(ListDefs(s, listed), ListOuts(s, listed),
                   ListDefs(s', listed'), ListOuts(s', listed'))
    BY <1>4, RoundExtracts DEF AllInv
  <2>2. nowDefs = ListDefs(s, listed) /\ nowOuts = ListOuts(s, listed)
    BY <1>4 DEF Extracts, nowDefs, nowOuts, ListDefs, ListOuts
  <2>3. nowDefs' = ListDefs(s', listed') /\ nowOuts' = ListOuts(s', listed')
    BY <1>4 DEF Extracts, nowDefs, nowOuts, ListDefs, ListOuts
  <2>4. Rewriting!Extract
    BY <2>1, <2>2, <2>3, NowIsGood, ExtractIsRewriting
  <2> QED BY <1>4, <2>4 DEF Rewriting!Next, Extracts, args
<1>5. CASE EndsRound    BY <1>5, ListStutters DEF EndsRound, args
<1>6. CASE Leaves       BY <1>6, ListStutters DEF Leaves, rounds, args
<1>7. CASE Caught       BY <1>7, ListStutters DEF Caught, rounds, args
<1>8. CASE Unpacks
  <2>1. /\ pc = "result" /\ pc' \in {"lns", "cleanup"} /\ given' = given
        /\ td' = Unpacked /\ out' = SubSeq(s, tmpCount + 1, Len(s))
    BY <1>8 DEF Unpacks, args
  <2>2. tmpCount = listed
    BY <2>1 DEF AllInv, ListInv, Loop, Handling
  <2>3. nowDefs' = nowDefs /\ nowOuts' = nowOuts
    BY <2>1, <2>2 DEF nowDefs, nowOuts, Unpacked
  <2> QED BY <2>1, <2>3, RewritingStutters
<1>9. CASE SearchesAround
  <2>1. pc = "lns" /\ pc' = "crashed" /\ s' = s /\ given' = given
    BY <1>9 DEF SearchesAround, rounds, args
  <2>2. td = ListDefs(s, listed) /\ out = ListOuts(s, listed)
    BY <2>1 DEF AllInv, ResultInv
  <2>3. listed' = listed
    BY <2>1 DEF listed
  <2>4. nowDefs' = nowDefs /\ nowOuts' = nowOuts
    BY <2>1, <2>2, <2>3 DEF nowDefs, nowOuts, ListDefs, ListOuts
  <2> QED BY <2>1, <2>4, RewritingStutters
<1>10. CASE Cleans
  <2>1. PICK t \in keys :
          IF Terms(td[t]) = 1
          THEN td' = DeletedDefs(td, t) /\ out' = DeletedOuts(td, out, t)
          ELSE td' = td /\ out' = out
    BY <1>10 DEF Cleans, graph
  <2>2. pc = "cleanup" /\ pc' = "cleanup" /\ given' = given
    BY <1>10 DEF Cleans, args
  <2>3. nowDefs = td /\ nowOuts = out /\ nowDefs' = td' /\ nowOuts' = out'
    BY <2>2 DEF nowDefs, nowOuts
  <2>4. t \in DOMAIN nowDefs
    BY <2>2, <2>3 DEF AllInv, ResultInv
  <2>5. CASE Terms(td[t]) = 1
    <3>1. nowDefs' = DeletedDefs(nowDefs, t) /\ nowOuts' = DeletedOuts(nowDefs, nowOuts, t)
      BY <2>1, <2>3, <2>5
    <3>2. Rewriting!Inline(t)
      BY <2>4, <3>1, NowIsGood, DeletionIsRewriting
    <3> QED BY <2>2, <2>4, <3>2 DEF Rewriting!Next
  <2>6. CASE Terms(td[t]) # 1
    BY <2>1, <2>2, <2>6, GraphStutters
  <2> QED BY <2>5, <2>6
<1>11. CASE CleansNoMore BY <1>11, GraphStutters DEF CleansNoMore, graph, args
<1>12. CASE Places      BY <1>12, GraphStutters DEF Places, graph, args
<1>13. CASE Sorts
  <2> DEFINE p == ByPosition(td, pos, Size(td))
  <2>1. /\ pc = "sort" /\ pc' = "done" /\ given' = given /\ Numbering(p, pos, Size(td))
        /\ td' = RenumberedDefs(td, p, pos) /\ out' = RenumberedOuts(out, pos)
    BY <1>13, SortRenumbers DEF AllInv, Sorts, args
  <2>2. nowDefs = td /\ nowOuts = out /\ nowDefs' = td' /\ nowOuts' = out'
    BY <2>1 DEF nowDefs, nowOuts
  <2> HIDE DEF p
  <2>3. p \in Rewriting!Orders /\ Rewriting!Renumber(p)
    BY <2>1, <2>2, NowIsGood, NumberingIsRewriting
  <2> QED BY <2>1, <2>3 DEF Rewriting!Next
<1>14. CASE Press
  <2>1. s' = s /\ given' = given
    BY <1>14 DEF Press, rounds, args
  <2>2. ~HasGraph /\ ~HasGraph'
    BY <1>14 DEF Press, SigintSoon, SigintNow, AllInv, SigintInv, InTry, Loop, Handling, After
  <2> QED BY <2>1, <2>2, ListStutters
<1>15. CASE UNCHANGED vars
  <2>1. s' = s /\ td' = td /\ out' = out /\ given' = given /\ pc' = pc
    BY <1>15 DEF vars, rounds, graph, args
  <2> QED BY <2>1, ListStutters, GraphStutters
<1> QED
  BY <1>1, <1>2, <1>3, <1>4, <1>5, <1>6, <1>7, <1>8, <1>9, <1>10, <1>11, <1>12, <1>13, <1>14,
     <1>15 DEF Next, Work

\* The list of the caller is where the rewriting starts.
LEMMA RewritingInit == Init => Rewriting!Init
<1> SUFFICES ASSUME Init PROVE Rewriting!Init
  OBVIOUS
<1>1. given \in Systems /\ s = given /\ pc = "head"
  BY DEF Init
<1>2. given \in Seq(SUBSET (Nat \union {None}))
  BY <1>1, SystemsAssumption
<1>3. Len(given) \in Nat /\ DOMAIN given = 1 .. Len(given)
      /\ \A i \in 1 .. Len(given) : given[i] \subseteq Nat \union {None}
  BY <1>2, LenProperties, ElementOfSeq
<1>4. listed = 0
  BY <1>1, <1>3 DEF listed
<1>5. nowDefs = [t \in 1 .. 0 |-> s[0 - t + 1]] /\ nowOuts = SubSeq(given, 1, Len(given))
  BY <1>1, <1>4 DEF nowDefs, nowOuts, HasGraph
<1>6. nowDefs = <<>> /\ DOMAIN nowDefs = {}
  BY <1>5
<1>7. nowOuts = given
  BY <1>2, <1>5, SubSeqFull
<1>8. [t \in DOMAIN nowDefs |-> Meaning(nowDefs, nowDefs[t])] = <<>>
  BY <1>6
<1> QED BY <1>3, <1>6, <1>7, <1>8 DEF Rewriting!Init

\* Whatever is searched and whenever ^C comes, the optimiser only extracts shared
\* terms, inlines signals and renumbers them: it implements GraphRewriting.
THEOREM OptimizerRewrites == Spec /\ []AnswerIsSound => Refines
<1>1. AllInv /\ AnswerIsSound /\ [Next]_vars => [Rewriting!Next]_(Rewriting!graph)
  BY RewritingStep
<1> QED BY InitAll, AllStep, RewritingInit, <1>1, PTL DEF Spec, Refines, Rewriting!Spec

-----------------------------------------------------------------------------
(* The routine. *)

\* The cells that equations are computed in, and their equations: those of the
\* signals are negative.
Dsts     == -NumTmps .. Len(outs) - 1
Eqn(dst) == IF IsTmp(dst) THEN defs[-dst] ELSE outs[dst + 1]

\* The terms that a routine finds in its frame.
Operands == {None} \union (-NumTmps .. tmp_ofs - 1)

\* The signals can be given values such that the equations can be computed term by
\* term, and the target is one of those that gen_ir takes.
Program(st) ==
  /\ NumTmps \in Nat /\ datalen \in Nat /\ tmp_ofs \in Nat /\ sumlen \in Nat /\ Len(outs) \in Nat
  /\ DOMAIN defs = 1 .. NumTmps /\ DOMAIN outs = 1 .. Len(outs)
  /\ Len(outs) <= sumlen * ByteBits /\ (Len(outs) = 0 => sumlen = 0)
  /\ target.slots \in Nat /\ target.first \in {0, 1} /\ target.maxOfs \in Int
  /\ target.far => target.maxOfs >= tmp_ofs
  /\ \A dst \in Dsts : Eqn(dst) \subseteq Operands /\ ApartIn(st, Eqn(dst))
  /\ \A t \in 1 .. NumTmps : ValueIn(st, Eqn(-t)) = st[t]
  /\ \A i \in 0 .. Len(outs) - 1 : Meaning(defs, outs[i + 1]) = ValueIn(st, outs[i + 1])

\* Where the frame has its parts.
LEMMA FrameParts ==
  ASSUME NEW st, Program(st)
  PROVE  /\ stack_size \in Nat /\ out_ofs \in Nat /\ sumlen * ByteBits \in Nat
         /\ stack_size = out_ofs + sumlen * ByteBits /\ OutBase = out_ofs
         /\ out_ofs = tmp_ofs + NumTmps /\ stack_size >= out_ofs + Len(outs)
         /\ Len(outs) = 0 => stack_size = out_ofs
<1>1. /\ NumTmps \in Nat /\ datalen \in Nat /\ tmp_ofs \in Nat /\ sumlen \in Nat
      /\ Len(outs) \in Nat /\ Len(outs) <= sumlen * ByteBits /\ ByteBits \in Nat
  BY BytesAssumption DEF Program
<1>2. sumlen * ByteBits \in Nat /\ ByteBits * sumlen = sumlen * ByteBits
  BY <1>1
<1>3. (sumlen + datalen) * ByteBits = sumlen * ByteBits + datalen * ByteBits
  BY <1>1
<1>4. stack_size = sumlen * ByteBits + tmp_ofs + NumTmps
  BY <1>3 DEF stack_size, tmp_ofs
<1>5. OutBase = stack_size - sumlen * ByteBits
  BY <1>2 DEF OutBase
<1>6. out_ofs = tmp_ofs + NumTmps
  BY DEF out_ofs
<1> DEFINE W == sumlen * ByteBits
<1>7. W \in Nat /\ Len(outs) <= W /\ stack_size = W + tmp_ofs + NumTmps /\ OutBase = stack_size - W
  BY <1>1, <1>2, <1>4, <1>5
<1> HIDE DEF W
<1>8. /\ stack_size \in Nat /\ out_ofs \in Nat
      /\ stack_size = out_ofs + W /\ OutBase = out_ofs
      /\ stack_size >= out_ofs + Len(outs)
  BY <1>1, <1>6, <1>7
<1>9. Len(outs) = 0 => stack_size = out_ofs
  <2>1. Len(outs) = 0 => sumlen = 0
    BY DEF Program
  <2>2. sumlen = 0 => W = 0
    BY <1>1 DEF W
  <2> QED BY <2>1, <2>2, <1>7, <1>8
<1> QED BY <1>2, <1>6, <1>8, <1>9 DEF W

\* Where a destination is written and a source is read.
DstCell(x) == Cell(x, TRUE)
SrcCell(x) == Cell(x, FALSE)

\* The cell of each operand: only outputs are far.
LEMMA CellOf ==
  ASSUME NEW st, Program(st)
  PROVE  /\ \A x \in -NumTmps .. -1 :
              /\ IsTmp(x) /\ ~Far(x, FALSE)
              /\ DstCell(x) = tmp_ofs - x - target.first /\ SrcCell(x) = DstCell(x)
         /\ \A x \in 0 .. Len(outs) - 1 : ~IsTmp(x) /\ DstCell(x) = out_ofs + x
         /\ \A x \in 0 .. tmp_ofs - 1 : ~IsTmp(x) /\ ~Far(x, FALSE) /\ SrcCell(x) = x
         /\ ~Far(None, FALSE)
<1>1. /\ NumTmps \in Nat /\ tmp_ofs \in Nat /\ Len(outs) \in Nat /\ out_ofs \in Nat
      /\ target.first \in {0, 1} /\ target.maxOfs \in Int
      /\ target.far => target.maxOfs >= tmp_ofs
  BY FrameParts DEF Program
<1>2. ASSUME NEW x \in -NumTmps .. -1, NEW b \in BOOLEAN
      PROVE  IsTmp(x) /\ ~Far(x, b) /\ Cell(x, b) = tmp_ofs - x - target.first
  <2>1. IsTmp(x) /\ x # None /\ x \in Int /\ x < 0
    BY <1>1, NoneAssumption DEF IsTmp
  <2>2. Offset(x, b) = tmp_ofs + x
    BY <2>1 DEF Offset
  <2>3. ~Far(x, b)
    BY <2>1, <2>2, <1>1 DEF Far
  <2> QED BY <2>1, <2>3 DEF Cell
<1>3. ASSUME NEW x \in Nat PROVE ~IsTmp(x) /\ x # None
  BY NoneAssumption DEF IsTmp
<1>4. ASSUME NEW x \in 0 .. Len(outs) - 1 PROVE ~IsTmp(x) /\ Cell(x, TRUE) = out_ofs + x
  <2>1. x \in Nat /\ ~IsTmp(x) /\ x # None
    BY <1>1, <1>3
  <2>2. Offset(x, TRUE) = x + out_ofs
    BY <2>1 DEF Offset
  <2>3. Cell(x, TRUE) = Offset(x, TRUE)
    BY <2>1 DEF Cell
  <2>4. x + out_ofs = out_ofs + x
    BY <1>1, <2>1
  <2> QED BY <2>1, <2>2, <2>3, <2>4
<1>5. ASSUME NEW x \in 0 .. tmp_ofs - 1 PROVE ~IsTmp(x) /\ ~Far(x, FALSE) /\ Cell(x, FALSE) = x
  <2>1. ~IsTmp(x) /\ x # None /\ x \in Int /\ x < tmp_ofs
    BY <1>1, <1>3
  <2>2. Offset(x, FALSE) = x
    BY <2>1 DEF Offset, in_ofs
  <2>3. ~Far(x, FALSE)
    BY <2>1, <1>1 DEF Far, Offset, in_ofs
  <2>4. Cell(x, FALSE) = Offset(x, FALSE)
    BY <2>1 DEF Cell
  <2> QED BY <2>1, <2>2, <2>3, <2>4
<1>6. ~Far(None, FALSE)
  BY <1>1 DEF Far, Offset
<1>7. ASSUME NEW x \in -NumTmps .. -1
      PROVE  /\ IsTmp(x) /\ ~Far(x, FALSE)
             /\ DstCell(x) = tmp_ofs - x - target.first /\ SrcCell(x) = DstCell(x)
  BY <1>2 DEF DstCell, SrcCell
<1> QED BY <1>4, <1>5, <1>6, <1>7 DEF DstCell, SrcCell

\* The cells of the signals and outputs lie behind the inputs, and are different
\* ones, except that the last signal may have that of output 0.
LEMMA CellsApart ==
  ASSUME NEW st, Program(st)
  PROVE  /\ \A x \in Dsts : DstCell(x) \in tmp_ofs .. out_ofs + Len(outs) - 1
                            \/ (Overlaps /\ x = -NumTmps)
         /\ \A x \in Dsts : DstCell(x) \in Int /\ DstCell(x) >= tmp_ofs
         /\ \A x \in Dsts : Overlaps /\ x = -NumTmps => DstCell(x) = out_ofs
         /\ \A x, y \in Dsts :
              x # y /\ DstCell(x) = DstCell(y) => Overlaps /\ {x, y} = {-NumTmps, 0}
<1>1. /\ NumTmps \in Nat /\ tmp_ofs \in Nat /\ Len(outs) \in Nat /\ out_ofs \in Nat
      /\ target.first \in {0, 1} /\ out_ofs = tmp_ofs + NumTmps
  BY FrameParts DEF Program
<1>2. ASSUME NEW x \in Dsts
      PROVE  \/ x \in -NumTmps .. -1 /\ DstCell(x) = tmp_ofs - x - target.first
             \/ x \in 0 .. Len(outs) - 1 /\ DstCell(x) = out_ofs + x
  <2>1. x \in -NumTmps .. -1 \/ x \in 0 .. Len(outs) - 1
    BY <1>1 DEF Dsts
  <2> QED BY <2>1, CellOf
<1>3. \A x \in Dsts : DstCell(x) \in tmp_ofs .. out_ofs + Len(outs) - 1
                      \/ (Overlaps /\ x = -NumTmps)
  BY <1>1, <1>2 DEF Overlaps
<1>4. \A x \in Dsts : DstCell(x) \in Int /\ DstCell(x) >= tmp_ofs
  BY <1>1, <1>2
<1>5. \A x \in Dsts : Overlaps /\ x = -NumTmps => DstCell(x) = out_ofs
  BY <1>1, <1>2 DEF Overlaps
<1>6. ASSUME NEW x \in Dsts, NEW y \in Dsts, x # y, DstCell(x) = DstCell(y)
      PROVE  Overlaps /\ {x, y} = {-NumTmps, 0}
  <2>1. CASE x \in -NumTmps .. -1 /\ y \in -NumTmps .. -1
    BY <1>1, <1>2, <1>6, <2>1
  <2>2. CASE x \in 0 .. Len(outs) - 1 /\ y \in 0 .. Len(outs) - 1
    BY <1>1, <1>2, <1>6, <2>2
  <2>3. CASE x \in -NumTmps .. -1 /\ y \in 0 .. Len(outs) - 1
    <3>1. tmp_ofs - x - target.first = tmp_ofs + NumTmps + y
      BY <1>1, <1>2, <1>6, <2>3
    <3>2. target.first = 0 /\ x = -NumTmps /\ y = 0 /\ NumTmps > 0
      BY <1>1, <2>3, <3>1
    <3> QED BY <3>2 DEF Overlaps
  <2>4. CASE y \in -NumTmps .. -1 /\ x \in 0 .. Len(outs) - 1
    <3>1. tmp_ofs - y - target.first = tmp_ofs + NumTmps + x
      BY <1>1, <1>2, <1>6, <2>4
    <3>2. target.first = 0 /\ y = -NumTmps /\ x = 0 /\ NumTmps > 0
      BY <1>1, <2>4, <3>1
    <3> QED BY <3>2 DEF Overlaps
  <2> QED BY <1>2, <2>1, <2>2, <2>3, <2>4
<1> QED BY <1>3, <1>4, <1>5, <1>6

-----------------------------------------------------------------------------
(* Parity. *)

\* Without an overlap parities add up, and a bit of the data is its own parity.
LEMMA ParityAdds ==
  ASSUME tmp_ofs \in Nat
  PROVE  /\ \A m : Parity(m) \in {0, 1}
         /\ \A m, n : m \intersect n = {} => Parity(m \union n) = (Parity(m) + Parity(n)) % 2
         /\ Parity({}) = 0 /\ Parity({None}) = 1
         /\ \A x \in 0 .. tmp_ofs - 1 : Parity({x}) = IF x \in Ones THEN 1 ELSE 0
<1>1. IsFiniteSet(0 .. tmp_ofs - 1) /\ Ones \in SUBSET (0 .. tmp_ofs - 1)
  BY FS_Interval DEF Ones
<1>2. IsFiniteSet(Ones) /\ None \notin Ones
  <2>1. IsFiniteSet(Ones)
    BY <1>1, FS_Subset
  <2>2. None \notin 0 .. tmp_ofs - 1
    BY NoneAssumption
  <2> QED BY <1>1, <2>1, <2>2
<1> DEFINE C(m) == Cardinality(m \intersect Ones)
           N(m) == IF None \in m THEN 1 ELSE 0
<1>3. \A m : Parity(m) = (C(m) + N(m)) % 2
  BY DEF Parity
<1>4. ASSUME NEW m PROVE IsFiniteSet(m \intersect Ones) /\ C(m) \in Nat
  <2>1. IsFiniteSet(m \intersect Ones)
    BY <1>2, FS_Subset
  <2> QED BY <2>1, FS_CardinalityType
<1>5. ASSUME NEW m, NEW n, m \intersect n = {} PROVE C(m \union n) = C(m) + C(n)
  <2> DEFINE S == m \intersect Ones
             T == n \intersect Ones
  <2>1. IsFiniteSet(S) /\ IsFiniteSet(T) /\ S \cap T = {}
    BY <1>4, <1>5
  <2>2. (m \union n) \intersect Ones = S \cup T
    OBVIOUS
  <2>3. Cardinality(S \cup T) = Cardinality(S) + Cardinality(T) - Cardinality(S \cap T)
    <3> HIDE DEF S, T
    <3> QED BY <2>1, FS_Union
  <2>4. Cardinality(S \cap T) = 0
    BY <2>1, FS_EmptySet
  <2>5. Cardinality(S) \in Nat /\ Cardinality(T) \in Nat
    BY <1>4
  <2> HIDE DEF S, T
  <2>6. Cardinality(S \cup T) = Cardinality(S) + Cardinality(T)
    BY <2>3, <2>4, <2>5
  <2> QED BY <2>2, <2>6 DEF S, T
<1>6. C({}) = 0 /\ C({None}) = 0
  <2>1. {} \intersect Ones = {} /\ {None} \intersect Ones = {}
    BY <1>2
  <2> QED BY <2>1, FS_EmptySet
<1>7. ASSUME NEW x \in 0 .. tmp_ofs - 1
      PROVE  C({x}) = (IF x \in Ones THEN 1 ELSE 0) /\ N({x}) = 0
  <2>1. ASSUME x \in Ones PROVE C({x}) = 1
    <3>1. {x} \intersect Ones = {x}
      BY <2>1
    <3> QED BY <2>1, <3>1, FS_Singleton
  <2>2. ASSUME x \notin Ones PROVE C({x}) = 0
    <3>1. {x} \intersect Ones = {}
      BY <2>2
    <3> QED BY <2>2, <3>1, FS_EmptySet
  <2>3. None \notin {x}
    BY NoneAssumption
  <2>4. N({x}) = 0
    BY <2>3
  <2> HIDE DEF C, N
  <2> QED BY <2>1, <2>2, <2>4
<1>8. \A m : N(m) \in {0, 1}
  OBVIOUS
<1>9. N({}) = 0 /\ N({None}) = 1
  OBVIOUS
<1>10. ASSUME NEW m, NEW n, m \intersect n = {} PROVE N(m \union n) = N(m) + N(n)
  BY <1>10
<1> HIDE DEF C, N
<1>11. ASSUME NEW m PROVE Parity(m) \in {0, 1}
  <2>1. C(m) \in Nat /\ N(m) \in {0, 1} /\ Parity(m) = (C(m) + N(m)) % 2
    BY <1>3, <1>4, <1>8
  <2> QED BY <2>1
<1>12. ASSUME NEW m, NEW n, m \intersect n = {}
       PROVE  Parity(m \union n) = (Parity(m) + Parity(n)) % 2
  <2>1. Parity(m \union n) = (C(m) + C(n) + (N(m) + N(n))) % 2
    <3>1. Parity(m \union n) = (C(m \union n) + N(m \union n)) % 2
      BY <1>3
    <3>2. C(m \union n) = C(m) + C(n) /\ N(m \union n) = N(m) + N(n)
      BY <1>5, <1>10, <1>12
    <3> QED BY <3>1, <3>2
  <2>2. /\ Parity(m) = (C(m) + N(m)) % 2 /\ Parity(n) = (C(n) + N(n)) % 2
        /\ C(m) \in Nat /\ C(n) \in Nat /\ N(m) \in Nat /\ N(n) \in Nat
    <3>1. C(m) \in Nat /\ C(n) \in Nat
      BY <1>4
    <3>2. N(m) \in {0, 1} /\ N(n) \in {0, 1}
      BY <1>8
    <3> QED BY <3>1, <3>2, <1>3
  <2>3. \A a, b \in Nat : ((a % 2) + (b % 2)) % 2 = (a + b) % 2
    OBVIOUS
  <2>4. (((C(m) + N(m)) % 2) + ((C(n) + N(n)) % 2)) % 2 = (C(m) + N(m) + (C(n) + N(n))) % 2
    BY <2>2, <2>3
  <2>5. C(m) + N(m) + (C(n) + N(n)) = C(m) + C(n) + (N(m) + N(n))
    BY <2>2
  <2> QED BY <2>1, <2>2, <2>4, <2>5
<1>13. Parity({}) = 0 /\ Parity({None}) = 1
  BY <1>3, <1>6, <1>9
<1>14. ASSUME NEW x \in 0 .. tmp_ofs - 1 PROVE Parity({x}) = IF x \in Ones THEN 1 ELSE 0
  BY <1>3, <1>7
<1> QED BY <1>11, <1>12, <1>13, <1>14
-----------------------------------------------------------------------------
(* A round. *)

InRound == {"load_dst", "load_src", "xor_mem", "xor_regs", "store"}

\* The terms that are not in the cell dst yet.
Pending(dst) == IF step \in InRound THEN Taken(plan, dst) ELSE {}
Undone(dst)  == Left(dst) \union Pending(dst)

\* With a RISC machine the property is about routines without unused slots.
Claimed == target.risc => allFull

\* The cells that the overlap of the last signal with output 0 reaches.
Spoiled(dst) ==
  Overlaps /\ (dst \in {-NumTmps, 0} \/ (dst > 0 /\ -NumTmps \in Eqn(dst)))

\* What is left of an equation is a part of it.
WorkInv ==
  /\ DOMAIN left \subseteq 1 .. NumTmps /\ DOMAIN outLeft = 1 .. Len(outs)
  /\ \A dst \in Dsts : Left(dst) \subseteq Eqn(dst)

\* Each cell has the value of the terms that are in it.
MemInv(st) ==
  /\ DOMAIN mem = 0 .. stack_size - 1
  /\ \A a \in DOMAIN mem : mem[a] \in {0, 1}
  /\ \A x \in 0 .. tmp_ofs - 1 : mem[x] = IF x \in Ones THEN 1 ELSE 0
  /\ \A dst \in Dsts : ~Spoiled(dst) =>
       mem[DstCell(dst)] = Parity(ValueIn(st, Eqn(dst) \ Undone(dst)))
  /\ \A a \in out_ofs + Len(outs) .. stack_size - 1 : mem[a] = 0

\* A source is an input, the constant or a signal that is complete, and one that
\* comes before the destination.
Found(dst, src) ==
  /\ src \in Eqn(dst)
  /\ IsTmp(src) => Undone(src) = {} /\ (dst < 0 => dst < src)

\* The elements of a round write to different cells, each takes a term that may be
\* read, and there is a register left if one is needed for immediates.
PlanInv ==
  /\ Len(plan) \in Nat /\ DOMAIN plan = 1 .. Len(plan) /\ Slots \in Nat
  /\ \A k \in DOMAIN plan :
       /\ plan[k].dst \in Dsts /\ Found(plan[k].dst, plan[k].src)
       /\ plan[k].src \notin Left(plan[k].dst)
  /\ \A j, k \in DOMAIN plan : plan[j].dst = plan[k].dst => j = k
  /\ Len(plan) <= Slots /\ (FarAt("dst") # {} => Len(plan) < Slots)
  /\ target.risc /\ allFull => Len(plan) = Slots

\* What is loaded for a source.
Val(x) == IF x = None THEN 1 ELSE mem[SrcCell(x)]

\* A source has its value, if the overlap does not reach the destination.
LEMMA SourceIsRight ==
  ASSUME NEW st, Program(st), WorkInv, MemInv(st), NEW dst \in Dsts, NEW src, Found(dst, src)
  PROVE  /\ Val(src) \in {0, 1}
         /\ ~Spoiled(dst) => Val(src) = Parity(ValIn(st, src))
<1>1. /\ NumTmps \in Nat /\ tmp_ofs \in Nat /\ Len(outs) \in Nat /\ out_ofs \in Nat
      /\ stack_size \in Nat /\ stack_size >= out_ofs + Len(outs) /\ out_ofs = tmp_ofs + NumTmps
  BY FrameParts DEF Program
<1>2. src \in Operands /\ dst \in -NumTmps .. Len(outs) - 1
  BY DEF Program, Found, Dsts
<1>3. CASE src = None
  <2>1. ~IsTmp(None)
    BY DEF IsTmp
  <2>2. ValIn(st, src) = {None} /\ Val(src) = 1
    BY <1>3, <2>1 DEF ValIn, Val
  <2> QED BY <2>2, <1>1, ParityAdds
<1>4. CASE src \in 0 .. tmp_ofs - 1
  <2>1. ~IsTmp(src) /\ SrcCell(src) = src /\ src # None
    <3>1. src \in Int /\ src # None
      BY <1>4, <1>1, NoneAssumption
    <3> QED BY <3>1, <1>4, CellOf
  <2>2. Val(src) = IF src \in Ones THEN 1 ELSE 0
    BY <2>1, <1>4 DEF Val, MemInv
  <2>3. ValIn(st, src) = {src}
    BY <2>1 DEF ValIn
  <2>4. Parity({src}) = IF src \in Ones THEN 1 ELSE 0
    BY <1>1, <1>4, ParityAdds
  <2> QED BY <2>2, <2>3, <2>4
<1>5. CASE src \in -NumTmps .. -1
  <2>1. /\ IsTmp(src) /\ src # None /\ SrcCell(src) = DstCell(src)
        /\ src \in Dsts /\ -src \in 1 .. NumTmps /\ -(-src) = src
    <3>1. src \in Int /\ src # None
      BY <1>5, <1>1, NoneAssumption
    <3>2. IsTmp(src) /\ SrcCell(src) = DstCell(src)
      BY <1>5, CellOf
    <3>3. src \in Dsts /\ -src \in 1 .. NumTmps /\ -(-src) = src
      BY <1>1, <1>5 DEF Dsts
    <3> QED BY <3>1, <3>2, <3>3
  <2>2. Val(src) = mem[DstCell(src)] /\ Undone(src) = {} /\ (dst < 0 => dst < src)
    BY <2>1 DEF Val, Found
  <2>3. ASSUME dst = -NumTmps PROVE ~(src = -NumTmps)
    BY <2>2, <2>3, <1>1, <1>5
  <2>4. DstCell(src) \in DOMAIN mem
    <3>1. DstCell(src) \in tmp_ofs .. out_ofs + Len(outs) - 1 \/ (Overlaps /\ src = -NumTmps)
      BY <2>1, CellsApart
    <3>2. CASE DstCell(src) \in tmp_ofs .. out_ofs + Len(outs) - 1
      BY <3>2, <1>1 DEF MemInv
    <3>3. CASE Overlaps /\ src = -NumTmps
      <4>1. DstCell(src) = out_ofs
        BY <3>3, <2>1, CellsApart
      <4>2. ~(dst < 0)
        BY <2>2, <3>3, <1>1, <1>2
      <4>3. Len(outs) > 0
        BY <4>2, <1>1, <1>2
      <4> QED BY <4>1, <4>3, <1>1 DEF MemInv
    <3> QED BY <3>1, <3>2, <3>3
  <2>5. Val(src) \in {0, 1}
    BY <2>2, <2>4 DEF MemInv
  <2>6. ASSUME ~Spoiled(dst) PROVE ~Spoiled(src)
    <3>1. ~(src = 0) /\ ~(src > 0)
      BY <1>1, <1>5
    <3>2. ASSUME Overlaps, src = -NumTmps PROVE FALSE
      <4>1. ~(dst < 0) /\ dst # 0
        <5>1. ~(dst < 0)
          BY <2>2, <3>2, <1>1, <1>2
        <5> QED BY <5>1, <3>2, <2>6 DEF Spoiled
      <4>2. dst > 0
        BY <4>1, <1>1, <1>2
      <4> QED BY <4>2, <3>2, <2>6 DEF Spoiled, Found
    <3> QED BY <3>1, <3>2 DEF Spoiled
  <2>7. ASSUME ~Spoiled(dst) PROVE Val(src) = Parity(ValIn(st, src))
    <3>1. mem[DstCell(src)] = Parity(ValueIn(st, Eqn(src) \ {}))
      BY <2>1, <2>2, <2>6, <2>7 DEF MemInv
    <3>2. Eqn(src) \ {} = Eqn(src)
      OBVIOUS
    <3>3. ValueIn(st, Eqn(-(-src))) = st[-src]
      BY <2>1 DEF Program
    <3>4. ValIn(st, src) = st[-src]
      BY <2>1 DEF ValIn
    <3> QED BY <2>1, <2>2, <3>1, <3>2, <3>3, <3>4
  <2> QED BY <2>5, <2>7
<1> QED BY <1>1, <1>2, <1>3, <1>4, <1>5 DEF Operands

\* A term that is XORed to a cell adds its parity, since the terms do not overlap.
LEMMA TermAdds ==
  ASSUME NEW st, NEW E, ApartIn(st, E), NEW x \in E, NEW L, x \notin L, tmp_ofs \in Nat
  PROVE  Parity(ValueIn(st, E \ L))
           = (Parity(ValueIn(st, E \ (L \union {x}))) + Parity(ValIn(st, x))) % 2
<1> DEFINE F == E \ (L \union {x})
<1>1. ValueIn(st, E \ L) = ValueIn(st, F) \union ValIn(st, x)
  BY DEF ValueIn
<1>2. ValueIn(st, F) \intersect ValIn(st, x) = {}
  BY DEF ValueIn, ApartIn
<1> HIDE DEF F
<1>3. Parity(ValueIn(st, F) \union ValIn(st, x))
        = (Parity(ValueIn(st, F)) + Parity(ValIn(st, x))) % 2
  BY <1>2, ParityAdds
<1> QED BY <1>1, <1>3 DEF F

\* The memory that a round is to leave: each element adds its source to its
\* destination.
Executed(m) ==
  /\ DOMAIN m = DOMAIN mem
  /\ \A a \in DOMAIN mem :
       /\ m[a] \in {0, 1}
       /\ Storing(a) = {} => m[a] = mem[a]
       /\ \A k \in DOMAIN plan : Storing(a) = {k} => m[a] = (mem[a] + Val(plan[k].src)) % 2

\* Only the element for a cell that the overlap does not reach writes to it.
LEMMA WritersOf ==
  ASSUME NEW st, Program(st), PlanInv, NEW dst \in Dsts, ~Spoiled(dst)
  PROVE  /\ Taken(plan, dst) = {} => Storing(DstCell(dst)) = {}
         /\ \A k \in DOMAIN plan : plan[k].dst = dst =>
              Storing(DstCell(dst)) = {k} /\ Taken(plan, dst) = {plan[k].src}
<1>1. ASSUME NEW k \in Storing(DstCell(dst)) PROVE k \in DOMAIN plan /\ plan[k].dst = dst
  <2>1. k \in DOMAIN plan /\ DstCell(plan[k].dst) = DstCell(dst) /\ plan[k].dst \in Dsts
    BY <1>1 DEF Storing, PlanInv, DstCell
  <2>2. ~(Overlaps /\ dst \in {-NumTmps, 0})
    BY DEF Spoiled
  <2> QED BY <2>1, <2>2, CellsApart
<1>2. ASSUME NEW k \in DOMAIN plan, plan[k].dst = dst
      PROVE  Storing(DstCell(dst)) = {k} /\ Taken(plan, dst) = {plan[k].src}
  <2>1. k \in Storing(DstCell(dst))
    BY <1>2 DEF Storing, DstCell
  <2>2. \A j \in DOMAIN plan : plan[j].dst = dst => j = k
    BY <1>2 DEF PlanInv
  <2>3. {j \in DOMAIN plan : plan[j].dst = dst} = {k}
    BY <1>2, <2>2
  <2>4. Taken(plan, dst) = {plan[j].src : j \in {k}}
    BY <2>3 DEF Taken
  <2> QED BY <1>1, <2>1, <2>2, <2>4
<1>3. ASSUME Taken(plan, dst) = {} PROVE Storing(DstCell(dst)) = {}
  BY <1>1, <1>2, <1>3
<1> QED BY <1>2, <1>3

\* During the routine its equations, its frame and its target stay.
LEMMA CallStays ==
  ASSUME UNCHANGED call
  PROVE  /\ NumTmps' = NumTmps /\ tmp_ofs' = tmp_ofs /\ out_ofs' = out_ofs
         /\ stack_size' = stack_size /\ OutBase' = OutBase
         /\ Slots' = Slots /\ imm_reg' = imm_reg /\ Ones' = Ones /\ Dsts' = Dsts
         /\ \A x : DstCell(x)' = DstCell(x) /\ SrcCell(x)' = SrcCell(x)
         /\ \A x : Eqn(x)' = Eqn(x) /\ Spoiled(x)' = Spoiled(x)
         /\ \A m : Parity(m)' = Parity(m)
         /\ \A st : Program(st)' = Program(st)
<1>1. /\ defs' = defs /\ outs' = outs /\ datalen' = datalen /\ sumlen' = sumlen
      /\ target' = target /\ data' = data
  BY DEF call
<1>2. /\ NumTmps' = NumTmps /\ tmp_ofs' = tmp_ofs /\ out_ofs' = out_ofs
      /\ stack_size' = stack_size /\ OutBase' = OutBase
      /\ Slots' = Slots /\ imm_reg' = imm_reg
  BY <1>1 DEF NumTmps, tmp_ofs, out_ofs, stack_size, OutBase, Slots, imm_reg
<1>3. Ones' = Ones /\ Dsts' = Dsts
  BY <1>1, <1>2 DEF Ones, Dsts
<1>4. ASSUME NEW x PROVE DstCell(x)' = DstCell(x) /\ SrcCell(x)' = SrcCell(x)
  BY <1>1, <1>2 DEF DstCell, SrcCell, Cell, Far, Offset
<1>5. ASSUME NEW x PROVE Eqn(x)' = Eqn(x) /\ Spoiled(x)' = Spoiled(x)
  BY <1>1, <1>2 DEF Eqn, Spoiled, Overlaps
<1>6. ASSUME NEW m PROVE Parity(m)' = Parity(m)
  BY <1>3 DEF Parity
<1>7. ASSUME NEW st PROVE Program(st)' = Program(st)
  BY <1>1, <1>2, <1>3, <1>5 DEF Program, Operands
<1> QED BY <1>2, <1>3, <1>4, <1>5, <1>6, <1>7

\* After a round as planned each cell has the value of the terms that are in it.
LEMMA RoundDone ==
  ASSUME NEW st, Program(st), WorkInv, PlanInv, MemInv(st), step \in InRound,
         Executed(mem'), step' = "plan", UNCHANGED <<call, work>>
  PROVE  MemInv(st)'
<1>1. /\ NumTmps \in Nat /\ tmp_ofs \in Nat /\ Len(outs) \in Nat /\ out_ofs \in Nat
      /\ stack_size \in Nat /\ stack_size >= out_ofs + Len(outs) /\ out_ofs = tmp_ofs + NumTmps
      /\ (Len(outs) = 0 => stack_size = out_ofs)
  BY FrameParts DEF Program
<1>2. /\ tmp_ofs' = tmp_ofs /\ out_ofs' = out_ofs /\ stack_size' = stack_size
      /\ Ones' = Ones /\ Dsts' = Dsts /\ outs' = outs
      /\ \A x : DstCell(x)' = DstCell(x)
      /\ \A x : Eqn(x)' = Eqn(x) /\ Spoiled(x)' = Spoiled(x)
      /\ \A m : Parity(m)' = Parity(m)
  BY CallStays DEF call
<1>3. \A dst : Undone(dst)' = Left(dst)
  BY DEF Undone, Pending, InRound, Left, work
<1>4. DOMAIN mem' = DOMAIN mem /\ \A a \in DOMAIN mem : mem'[a] \in {0, 1}
  BY DEF Executed
<1>5. ASSUME NEW a \in DOMAIN mem, a < tmp_ofs \/ a >= out_ofs + Len(outs)
      PROVE  mem'[a] = mem[a]
  <2>1. ASSUME NEW k \in Storing(a) PROVE FALSE
    <3>1. k \in DOMAIN plan /\ DstCell(plan[k].dst) = a /\ plan[k].dst \in Dsts
      BY <2>1 DEF Storing, PlanInv, DstCell
    <3>2. a \in tmp_ofs .. out_ofs + Len(outs) - 1
            \/ (Overlaps /\ plan[k].dst = -NumTmps /\ a = out_ofs)
      BY <3>1, CellsApart
    <3>3. a \in 0 .. stack_size - 1
      BY DEF MemInv
    <3> QED BY <1>1, <1>5, <3>2, <3>3
  <2>2. Storing(a) = {}
    BY <2>1
  <2> QED BY <2>2 DEF Executed
<1>6. ASSUME NEW x \in 0 .. tmp_ofs - 1 PROVE mem'[x] = IF x \in Ones THEN 1 ELSE 0
  <2>1. x \in DOMAIN mem /\ x < tmp_ofs
    BY <1>1 DEF MemInv
  <2> QED BY <2>1, <1>5 DEF MemInv
<1>7. ASSUME NEW a \in out_ofs + Len(outs) .. stack_size - 1 PROVE mem'[a] = 0
  <2>1. a \in DOMAIN mem /\ a >= out_ofs + Len(outs)
    BY <1>1 DEF MemInv
  <2> QED BY <2>1, <1>5 DEF MemInv
<1>8. ASSUME NEW dst \in Dsts, ~Spoiled(dst)
      PROVE  mem'[DstCell(dst)] = Parity(ValueIn(st, Eqn(dst) \ Left(dst)))
  <2> DEFINE a == DstCell(dst)
             E == Eqn(dst)
             L == Left(dst)
  <2>1. a \in DOMAIN mem
    <3>1. a \in tmp_ofs .. out_ofs + Len(outs) - 1
      BY <1>8, CellsApart DEF Spoiled
    <3> HIDE DEF a
    <3> QED BY <1>1, <3>1 DEF MemInv
  <2>2. mem[a] = Parity(ValueIn(st, E \ (L \union Taken(plan, dst))))
    BY <1>8 DEF MemInv, Undone, Pending
  <2>3. CASE Taken(plan, dst) = {}
    <3>1. Storing(a) = {}
      BY <2>3, <1>8, WritersOf
    <3>2. mem'[a] = mem[a]
      BY <3>1, <2>1 DEF Executed
    <3>3. L \union Taken(plan, dst) = L
      BY <2>3
    <3> HIDE DEF a, E, L
    <3>4. mem'[a] = Parity(ValueIn(st, E \ L))
      BY <2>2, <3>2, <3>3
    <3> QED BY <3>4 DEF a, E, L
  <2>4. CASE Taken(plan, dst) # {}
    <3>1. PICK k \in DOMAIN plan : plan[k].dst = dst
      BY <2>4 DEF Taken
    <3> DEFINE x == plan[k].src
    <3>2. Storing(a) = {k} /\ Taken(plan, dst) = {x}
      BY <3>1, <1>8, WritersOf
    <3>3. Found(dst, x) /\ x \notin L /\ x \in E
      BY <3>1 DEF PlanInv, Found
    <3>4. mem'[a] = (mem[a] + Val(x)) % 2
      BY <3>2, <2>1 DEF Executed
    <3>5. Val(x) = Parity(ValIn(st, x))
      BY <3>3, <1>8, SourceIsRight
    <3>6. ApartIn(st, E)
      BY DEF Program
    <3> HIDE DEF x, E, L, a
    <3>7. Parity(ValueIn(st, E \ L))
            = (Parity(ValueIn(st, E \ (L \union {x}))) + Parity(ValIn(st, x))) % 2
      BY <3>3, <3>6, <1>1, TermAdds
    <3>8. mem'[a] = Parity(ValueIn(st, E \ L))
      BY <3>2, <3>4, <3>5, <3>7, <2>2
    <3> QED BY <3>8 DEF a, E, L
  <2> QED BY <2>3, <2>4
<1> QED BY <1>2, <1>3, <1>4, <1>6, <1>7, <1>8 DEF MemInv

\* What is in the registers at each stage of a round.
RegInv ==
  /\ DOMAIN reg = 0 .. target.slots - 1
  /\ step \in {"load_dst", "xor_regs", "store"} => target.risc
  /\ step = "xor_mem" => ~target.risc
  /\ \A k \in DOMAIN plan :
       LET old == mem[DstCell(plan[k].dst)]
           add == Val(plan[k].src)
       IN  /\ step = "load_src" /\ target.risc => reg[k - 1] = old
           /\ step = "xor_mem" => reg[k - 1] = add
           /\ step = "xor_regs" => reg[k - 1] = old /\ reg[Partner(k - 1)] = add
           /\ step = "store" => reg[k - 1] = Xor(old, add)

\* There is a register for each element of the round, and two on a RISC machine;
\* that of the immediate is not the register of an element that needs none.
LEMMA RegistersSuffice ==
  ASSUME NEW st, Program(st), PlanInv, RegInv, Claimed
  PROVE  /\ \A k \in DOMAIN plan :
              /\ k \in Int /\ k >= 1 /\ k <= Len(plan) /\ k - 1 \in DOMAIN reg
              /\ k - 1 = imm_reg => FarAt("dst") = {}
         /\ target.risc => /\ Len(plan) = Slots /\ FarAt("dst") = {}
                           /\ \A k \in DOMAIN plan : Partner(k - 1) \in DOMAIN reg
         /\ FarAt("src") = {}
         /\ \A k \in DOMAIN plan : plan[k].src # None \/ Val(plan[k].src) = 1
<1>1. /\ target.slots \in Nat /\ Slots \in Nat /\ Len(plan) \in Nat /\ DOMAIN plan = 1 .. Len(plan)
      /\ DOMAIN reg = 0 .. target.slots - 1 /\ Len(plan) <= Slots
      /\ imm_reg = target.slots - 1
  BY DEF Program, PlanInv, RegInv, imm_reg
<1>2. Slots <= target.slots /\ (target.risc => Slots + Slots <= target.slots)
  <2>1. CASE target.risc
    <3>1. Slots = target.slots \div 2
      BY <2>1 DEF Slots
    <3> QED BY <3>1, <1>1
  <2>2. CASE ~target.risc
    <3>1. Slots = target.slots
      BY <2>2 DEF Slots
    <3> QED BY <3>1, <2>2, <1>1
  <2> QED BY <2>1, <2>2
<1>3. target.risc => Len(plan) = Slots
  BY DEF PlanInv, Claimed
<1>4. Len(plan) = Slots => FarAt("dst") = {}
  <2>1. FarAt("dst") # {} => Len(plan) < Slots
    BY DEF PlanInv
  <2> QED BY <2>1, <1>1, SMTT(20)
<1>5. ASSUME NEW k \in DOMAIN plan
      PROVE  k \in Int /\ k >= 1 /\ k <= Len(plan) /\ k - 1 \in DOMAIN reg
  BY <1>1, <1>2
<1>6. ASSUME NEW k \in DOMAIN plan, k - 1 = imm_reg PROVE FarAt("dst") = {}
  <2>1. k - 1 = target.slots - 1
    BY <1>1, <1>6
  <2>2. k \in Int /\ k <= Len(plan)
    BY <1>5
  <2>3. k = target.slots
    BY <1>1, <2>1, <2>2
  <2>4. Len(plan) = Slots
    <3>1. k <= Len(plan) /\ Len(plan) <= Slots /\ Slots <= k
      BY <1>1, <1>2, <2>2, <2>3
    <3>2. \A a, b \in Nat, c \in Int : c <= a /\ a <= b /\ b <= c => a = b
      OBVIOUS
    <3> QED BY <1>1, <2>2, <3>1, <3>2
  <2> QED BY <2>4, <1>4
<1>7. ASSUME target.risc, NEW k \in DOMAIN plan PROVE Partner(k - 1) \in DOMAIN reg
  <2>1. Partner(k - 1) = k - 1 + Slots
    BY DEF Partner
  <2> QED BY <2>1, <1>1, <1>2, <1>5, <1>7
<1>8. ASSUME NEW k \in FarAt("src") PROVE FALSE
  <2>1. k \in DOMAIN plan /\ Far(plan[k].src, FALSE)
    BY <1>8 DEF FarAt
  <2>2. plan[k].src \in Operands
    BY <2>1 DEF PlanInv, Found, Program
  <2>3. /\ NumTmps \in Nat /\ tmp_ofs \in Nat
    BY DEF Program
  <2>4. plan[k].src = None \/ plan[k].src \in -NumTmps .. -1 \/ plan[k].src \in 0 .. tmp_ofs - 1
    BY <2>2, <2>3 DEF Operands
  <2> QED BY <2>1, <2>4, CellOf
<1>9. FarAt("src") = {}
  BY <1>8
<1>10. \A k \in DOMAIN plan : plan[k].src # None \/ Val(plan[k].src) = 1
  BY DEF Val
<1> QED BY <1>3, <1>4, <1>5, <1>6, <1>7, <1>9, <1>10

\* The registers after a load of destinations or of sources.
LEMMA LoadGives ==
  ASSUME NEW st, Program(st), PlanInv, RegInv, Claimed
  PROVE  /\ DOMAIN Loaded("dst", 0) = DOMAIN reg
         /\ \A n : DOMAIN Loaded("src", n) = DOMAIN reg
         /\ target.risc => \A k \in DOMAIN plan :
              /\ Loaded("dst", 0)[k - 1] = mem[DstCell(plan[k].dst)]
              /\ Loaded("src", Len(plan))[k - 1] = reg[k - 1]
              /\ Loaded("src", Len(plan))[Partner(k - 1)] = Val(plan[k].src)
         /\ \A k \in DOMAIN plan : Loaded("src", 0)[k - 1] = Val(plan[k].src)
<1>1. /\ target.slots \in Nat /\ Slots \in Nat /\ Len(plan) \in Nat /\ DOMAIN plan = 1 .. Len(plan)
      /\ DOMAIN reg = 0 .. target.slots - 1
  BY DEF Program, PlanInv, RegInv
<1>2. DOMAIN Loaded("dst", 0) = DOMAIN reg /\ \A n : DOMAIN Loaded("src", n) = DOMAIN reg
  BY DEF Loaded
<1>3. ASSUME NEW k \in DOMAIN plan, target.risc
      PROVE  Loaded("dst", 0)[k - 1] = mem[DstCell(plan[k].dst)]
  <2>0. k - 1 \in DOMAIN reg /\ k \in Int /\ FarAt("dst") = {}
    BY <1>3, RegistersSuffice
  <2>1. k - 1 \in DOMAIN reg /\ (k - 1) + 1 - 0 = k /\ FarAt("dst") = {}
    BY <2>0
  <2>2. plan[k].dst # None
    <3>1. plan[k].dst \in Dsts /\ NumTmps \in Nat /\ Len(outs) \in Nat
      BY DEF PlanInv, Program
    <3> QED BY <3>1, NoneAssumption DEF Dsts
  <2>3. Loaded("dst", 0)[k - 1] = mem[Cell(plan[k].dst, TRUE)]
    BY <2>1, <2>2 DEF Loaded
  <2> QED BY <2>3 DEF DstCell
<1>4. ASSUME NEW k \in DOMAIN plan, NEW r \in DOMAIN reg, NEW n \in Nat, r + 1 - n = k
      PROVE  Loaded("src", n)[r] = Val(plan[k].src)
  <2>1. FarAt("src") = {}
    BY RegistersSuffice
  <2>2. Loaded("src", n)[r] = IF plan[k].src = None THEN 1 ELSE mem[Cell(plan[k].src, FALSE)]
    BY <2>1, <1>4 DEF Loaded
  <2> QED BY <2>2 DEF Val, SrcCell
<1>5. ASSUME NEW k \in DOMAIN plan PROVE Loaded("src", 0)[k - 1] = Val(plan[k].src)
  <2>1. k - 1 \in DOMAIN reg /\ k \in Int
    BY <1>5, RegistersSuffice
  <2>2. (k - 1) + 1 - 0 = k /\ 0 \in Nat
    BY <2>1
  <2> QED BY <2>1, <2>2, <1>4
<1>6. ASSUME NEW k \in DOMAIN plan, target.risc
      PROVE  /\ Loaded("src", Len(plan))[k - 1] = reg[k - 1]
             /\ Loaded("src", Len(plan))[Partner(k - 1)] = Val(plan[k].src)
  <2>1. /\ k - 1 \in DOMAIN reg /\ Partner(k - 1) \in DOMAIN reg /\ Len(plan) = Slots
        /\ k \in Int /\ k <= Len(plan) /\ FarAt("src") = {}
    BY <1>6, RegistersSuffice
  <2>2. (k - 1) + 1 - Len(plan) \notin DOMAIN plan /\ Partner(k - 1) + 1 - Len(plan) = k
    BY <1>1, <2>1 DEF Partner
  <2>3. Loaded("src", Len(plan))[k - 1] = reg[k - 1]
    BY <2>1, <2>2 DEF Loaded
  <2> QED BY <1>1, <2>1, <2>2, <2>3, <1>4
<1> QED BY <1>2, <1>3, <1>5, <1>6

\* The stages that load registers, and the XOR of registers, keep the invariants.
LEMMA RoundGoesOn ==
  ASSUME NEW st, Program(st), WorkInv, step \in InRound, step' \in InRound,
         UNCHANGED <<call, work, allFull>>
  PROVE  /\ WorkInv' /\ (PlanInv => PlanInv') /\ Claimed' = Claimed
         /\ MemInv(st) /\ mem' = mem => MemInv(st)'
         /\ mem' = mem => \A x : Val(x)' = Val(x)
<1>1. /\ UNCHANGED call /\ left' = left /\ outLeft' = outLeft /\ plan' = plan
      /\ defs' = defs /\ outs' = outs /\ target' = target /\ allFull' = allFull
  BY DEF call, work
<1>2. /\ NumTmps' = NumTmps /\ tmp_ofs' = tmp_ofs /\ out_ofs' = out_ofs
      /\ stack_size' = stack_size /\ Slots' = Slots /\ Ones' = Ones /\ Dsts' = Dsts
      /\ \A x : DstCell(x)' = DstCell(x) /\ SrcCell(x)' = SrcCell(x)
      /\ \A x : Eqn(x)' = Eqn(x) /\ Spoiled(x)' = Spoiled(x)
      /\ \A m : Parity(m)' = Parity(m)
  BY <1>1, CallStays
<1>3. ASSUME NEW x PROVE Left(x)' = Left(x)
  BY <1>1 DEF Left
<1>4. ASSUME NEW x PROVE Undone(x)' = Undone(x)
  BY <1>1, <1>3 DEF Undone, Pending
<1>5. WorkInv'
  BY <1>1, <1>2, <1>3 DEF WorkInv
<1>6. FarAt("dst")' = FarAt("dst")
  BY <1>1, <1>2 DEF FarAt, Far, Offset
<1>7. ASSUME PlanInv PROVE PlanInv'
  <2>1. ASSUME NEW x, NEW y PROVE Found(x, y)' = Found(x, y)
    BY <1>2, <1>4 DEF Found
  <2>2. ASSUME NEW k \in DOMAIN plan
        PROVE  /\ plan'[k].dst \in Dsts' /\ Found(plan[k].dst, plan[k].src)'
               /\ plan'[k].src \notin Left(plan[k].dst)'
    <3>1. plan[k].dst \in Dsts /\ Found(plan[k].dst, plan[k].src)
          /\ plan[k].src \notin Left(plan[k].dst)
      BY <1>7, <2>2 DEF PlanInv
    <3> QED BY <1>1, <1>2, <1>3, <2>1, <3>1
  <2>3. /\ Len(plan') \in Nat /\ DOMAIN plan' = 1 .. Len(plan') /\ Slots' \in Nat
        /\ Len(plan') <= Slots' /\ (FarAt("dst")' # {} => Len(plan') < Slots')
        /\ \A j, k \in DOMAIN plan' : plan'[j].dst = plan'[k].dst => j = k
    BY <1>1, <1>2, <1>6, <1>7 DEF PlanInv
  <2>4. target'.risc /\ allFull' => Len(plan') = Slots'
    BY <1>1, <1>2, <1>7 DEF PlanInv
  <2>5. \A k \in DOMAIN plan' :
           /\ plan'[k].dst \in Dsts' /\ Found(plan[k].dst, plan[k].src)'
           /\ plan'[k].src \notin Left(plan[k].dst)'
    BY <1>1, <2>2
  <2> QED BY <2>3, <2>4, <2>5 DEF PlanInv
<1>8. ASSUME MemInv(st), mem' = mem PROVE MemInv(st)'
  BY <1>1, <1>2, <1>4, <1>8 DEF MemInv
<1>9. mem' = mem => \A x : Val(x)' = Val(x)
  BY <1>2 DEF Val
<1> QED BY <1>1, <1>5, <1>7, <1>8, <1>9 DEF Claimed

\* RISC: the destinations are in the registers of their elements.
LEMMA LoadDstKeeps ==
  ASSUME NEW st, Program(st), WorkInv, PlanInv, MemInv(st), RegInv, Claimed, LoadDst
  PROVE  RegInv'
<1>1. /\ mem' = mem /\ plan' = plan /\ target' = target /\ target.risc
      /\ reg' = Loaded("dst", 0) /\ step' = "load_src" /\ UNCHANGED call
  BY DEF LoadDst, call, work, RegInv
<1>2. \A x : DstCell(x)' = DstCell(x)
  BY <1>1, CallStays
<1>3. /\ DOMAIN reg' = DOMAIN reg
      /\ \A k \in DOMAIN plan : reg'[k - 1] = mem[DstCell(plan[k].dst)]
  BY <1>1, LoadGives
<1> QED BY <1>1, <1>2, <1>3 DEF RegInv

\* The sources are in the registers of their elements, or in those of the partners.
LEMMA LoadSrcKeeps ==
  ASSUME NEW st, Program(st), WorkInv, PlanInv, MemInv(st), RegInv, Claimed, LoadSrc
  PROVE  RegInv'
<1>1. /\ mem' = mem /\ plan' = plan /\ target' = target /\ step = "load_src" /\ UNCHANGED call
      /\ reg' = Loaded("src", IF target.risc THEN Len(plan) ELSE 0)
      /\ step' = IF target.risc THEN "xor_regs" ELSE "xor_mem"
  BY DEF LoadSrc, call, work
<1>2. /\ \A x : DstCell(x)' = DstCell(x) /\ SrcCell(x)' = SrcCell(x)
      /\ \A r : Partner(r)' = Partner(r)
  BY <1>1, CallStays DEF Partner
<1>3. \A x : Val(x)' = Val(x)
  BY <1>1, <1>2 DEF Val
<1>4. DOMAIN reg' = DOMAIN reg
  BY <1>1, LoadGives
<1>5. CASE target.risc
  <2>1. \A k \in DOMAIN plan :
          reg'[k - 1] = mem[DstCell(plan[k].dst)] /\ reg'[Partner(k - 1)] = Val(plan[k].src)
    BY <1>1, <1>5, LoadGives DEF RegInv
  <2> QED BY <1>1, <1>2, <1>3, <1>4, <1>5, <2>1 DEF RegInv
<1>6. CASE ~target.risc
  <2>1. \A k \in DOMAIN plan : reg'[k - 1] = Val(plan[k].src)
    BY <1>1, <1>6, LoadGives
  <2> QED BY <1>1, <1>2, <1>3, <1>4, <1>6, <2>1 DEF RegInv
<1> QED BY <1>5, <1>6

\* RISC: each register of a destination has taken its partner's value, the old one.
LEMMA XorRegsKeeps ==
  ASSUME NEW st, Program(st), WorkInv, PlanInv, MemInv(st), RegInv, Claimed, XorRegs
  PROVE  RegInv'
<1>1. /\ mem' = mem /\ plan' = plan /\ target' = target /\ UNCHANGED call /\ target.risc
      /\ step = "xor_regs" /\ step' = "store"
      /\ reg' = [r \in DOMAIN reg |->
                   IF r + 1 \in DOMAIN plan THEN Xor(reg[r], reg[Partner(r)]) ELSE reg[r]]
  BY DEF XorRegs, call, work, RegInv
<1>2. \A x : DstCell(x)' = DstCell(x) /\ SrcCell(x)' = SrcCell(x)
  BY <1>1, CallStays
<1>3. \A x : Val(x)' = Val(x)
  BY <1>1, <1>2 DEF Val
<1>4. ASSUME NEW k \in DOMAIN plan
      PROVE  reg'[k - 1] = Xor(mem[DstCell(plan[k].dst)], Val(plan[k].src))
  <2>1. k \in Int /\ k - 1 \in DOMAIN reg
    BY <1>4, RegistersSuffice
  <2>2. (k - 1) + 1 = k
    BY <2>1
  <2>3. reg'[k - 1] = Xor(reg[k - 1], reg[Partner(k - 1)])
    BY <1>1, <1>4, <2>1, <2>2
  <2> QED BY <1>1, <1>4, <2>3 DEF RegInv
<1>5. DOMAIN reg' = DOMAIN reg
  BY <1>1
<1> QED BY <1>1, <1>2, <1>3, <1>4, <1>5 DEF RegInv

\* CISC: the stage that XORs registers into memory executes the round.
LEMMA XorMemExecutes ==
  ASSUME NEW st, Program(st), WorkInv, PlanInv, MemInv(st), RegInv, Claimed, XorMem
  PROVE  Executed(mem') /\ RegInv'
<1>1. /\ step = "xor_mem" /\ step' = "plan" /\ plan' = plan /\ target' = target
      /\ mem' = [a \in DOMAIN mem |->
                   IF mem[a] = Junk \/ \E k \in Storing(a) : RegOf(k) = Junk THEN Junk
                   ELSE (mem[a] + Cardinality({k \in Storing(a) : RegOf(k) = 1})) % 2]
      /\ reg' = Spent
  BY DEF XorMem, call, work
<1>2. ASSUME NEW k \in DOMAIN plan
      PROVE  RegOf(k) = Val(plan[k].src) /\ Val(plan[k].src) \in {0, 1}
  <2>1. k - 1 = imm_reg => FarAt("dst") = {}
    BY <1>2, RegistersSuffice
  <2>2. RegOf(k) = reg[k - 1]
    BY <2>1 DEF RegOf
  <2>3. plan[k].dst \in Dsts /\ Found(plan[k].dst, plan[k].src)
    BY <1>2 DEF PlanInv
  <2> QED BY <2>2, <2>3, <1>1, <1>2, SourceIsRight DEF RegInv
<1>3. IsFiniteSet(DOMAIN plan)
  <2>1. Len(plan) \in Nat /\ DOMAIN plan = 1 .. Len(plan)
    BY DEF PlanInv
  <2> QED BY <2>1, FS_Interval
<1>4. ASSUME NEW a \in DOMAIN mem
      PROVE  /\ mem'[a] \in {0, 1}
             /\ Storing(a) = {} => mem'[a] = mem[a]
             /\ \A k \in DOMAIN plan : Storing(a) = {k} => mem'[a] = (mem[a] + Val(plan[k].src)) % 2
  <2> DEFINE S == {k \in Storing(a) : RegOf(k) = 1}
  <2>1. mem[a] \in {0, 1} /\ mem[a] # Junk /\ \A k \in Storing(a) : RegOf(k) # Junk
    <3>1. mem[a] \in {0, 1}
      BY <1>4 DEF MemInv
    <3>2. \A k \in Storing(a) : RegOf(k) \in {0, 1}
      BY <1>2 DEF Storing
    <3> QED BY <3>1, <3>2, BytesAssumption
  <2>2. mem'[a] = (mem[a] + Cardinality(S)) % 2
    BY <1>1, <1>4, <2>1
  <2>3. Cardinality(S) \in Nat
    <3>1. S \subseteq DOMAIN plan
      BY DEF Storing
    <3> QED BY <3>1, <1>3, FS_Subset, FS_CardinalityType
  <2>4. mem'[a] \in {0, 1}
    <3> HIDE DEF S
    <3> QED BY <2>1, <2>2, <2>3
  <2>5. ASSUME Storing(a) = {} PROVE mem'[a] = mem[a]
    <3>1. S = {}
      BY <2>5
    <3>2. Cardinality(S) = 0
      BY <3>1, FS_EmptySet
    <3> HIDE DEF S
    <3> QED BY <2>1, <2>2, <3>2
  <2>6. ASSUME NEW k \in DOMAIN plan, Storing(a) = {k}
        PROVE  mem'[a] = (mem[a] + Val(plan[k].src)) % 2
    <3>1. CASE Val(plan[k].src) = 1
      <4>1. S = {k}
        BY <2>6, <3>1, <1>2
      <4>2. Cardinality(S) = 1
        BY <4>1, FS_Singleton
      <4> HIDE DEF S
      <4> QED BY <2>2, <4>2, <3>1
    <3>2. CASE Val(plan[k].src) = 0
      <4>1. S = {}
        BY <2>6, <3>2, <1>2
      <4>2. Cardinality(S) = 0
        BY <4>1, FS_EmptySet
      <4> HIDE DEF S
      <4> QED BY <2>2, <4>2, <3>2
    <3> QED BY <2>6, <3>1, <3>2, <1>2
  <2> QED BY <2>4, <2>5, <2>6
<1>5. DOMAIN mem' = DOMAIN mem
  BY <1>1
<1>6. DOMAIN reg' = DOMAIN reg
  BY <1>1 DEF Spent
<1>7. RegInv'
  BY <1>1, <1>6 DEF RegInv
<1> QED BY <1>4, <1>5, <1>7 DEF Executed

\* A set of numbers up to a limit has a greatest one.
LEMMA GreatestNumber ==
  ASSUME NEW n \in Nat, NEW S, S \subseteq 1 .. n, S # {}
  PROVE  Max(S) \in S
<1> DEFINE T == {n - k : k \in S}
<1>1. T \subseteq Nat /\ T # {}
  <2>1. \A k \in S : n - k \in Nat
    OBVIOUS
  <2>2. PICK k \in S : TRUE
    OBVIOUS
  <2>3. n - k \in T
    BY <2>2
  <2>4. T \subseteq Nat
    BY <2>1
  <2> HIDE DEF T
  <2> QED BY <2>3, <2>4
<1>2. PICK m \in T : \A k \in T : ~(k < m)
  <2> HIDE DEF T
  <2> QED BY <1>1, LeastNumber
<1>3. PICK x \in S : m = n - x
  BY <1>2
<1>4. \A y \in S : x >= y
  <2>1. ASSUME NEW y \in S PROVE x >= y
    <3>1. n - y \in T
      BY <2>1
    <3>2. ~(n - y < n - x)
      BY <1>2, <1>3, <3>1
    <3>3. x \in Int /\ y \in Int
      BY <1>3, <2>1
    <3> QED BY <3>2, <3>3
  <2> QED BY <2>1
<1> QED BY <1>3, <1>4 DEF Max

\* RISC: the stage that stores registers executes the round.
LEMMA StoreExecutes ==
  ASSUME NEW st, Program(st), WorkInv, PlanInv, MemInv(st), RegInv, Claimed, StoreDst
  PROVE  Executed(mem') /\ RegInv'
<1>1. /\ step = "store" /\ step' = "plan" /\ plan' = plan /\ target' = target /\ target.risc
      /\ mem' = [a \in DOMAIN mem |-> IF Storing(a) = {} THEN mem[a] ELSE RegOf(Max(Storing(a)))]
      /\ reg' = Spent
  BY DEF StoreDst, call, work, RegInv
<1>2. ASSUME NEW a \in DOMAIN mem, NEW k \in Storing(a)
      PROVE  RegOf(k) \in {0, 1} /\ RegOf(k) = (mem[a] + Val(plan[k].src)) % 2
  <2>1. k \in DOMAIN plan /\ DstCell(plan[k].dst) = a
    BY <1>2 DEF Storing, DstCell
  <2>2. RegOf(k) = reg[k - 1]
    <3>1. FarAt("dst") = {}
      BY <1>1, RegistersSuffice
    <3> QED BY <3>1 DEF RegOf
  <2>3. reg[k - 1] = Xor(mem[a], Val(plan[k].src))
    BY <2>1, <1>1 DEF RegInv
  <2>4. mem[a] \in {0, 1} /\ Val(plan[k].src) \in {0, 1}
    <3>1. plan[k].dst \in Dsts /\ Found(plan[k].dst, plan[k].src)
      BY <2>1 DEF PlanInv
    <3> QED BY <3>1, <1>2, SourceIsRight DEF MemInv
  <2>5. Junk \notin {mem[a], Val(plan[k].src)}
    BY <2>4, BytesAssumption
  <2>6. reg[k - 1] = (mem[a] + Val(plan[k].src)) % 2
    BY <2>3, <2>5 DEF Xor
  <2>7. \A x, y \in {0, 1} : (x + y) % 2 \in {0, 1}
    OBVIOUS
  <2>8. (mem[a] + Val(plan[k].src)) % 2 \in {0, 1}
    BY <2>4, <2>7
  <2> QED BY <2>2, <2>6, <2>8
<1>3. ASSUME NEW a, Storing(a) # {} PROVE Max(Storing(a)) \in Storing(a)
  <2>1. Storing(a) \subseteq 1 .. Len(plan) /\ Len(plan) \in Nat
    BY DEF Storing, PlanInv
  <2> QED BY <2>1, <1>3, GreatestNumber
<1>4. ASSUME NEW a \in DOMAIN mem
      PROVE  /\ mem'[a] \in {0, 1}
             /\ Storing(a) = {} => mem'[a] = mem[a]
             /\ \A k \in DOMAIN plan : Storing(a) = {k} => mem'[a] = (mem[a] + Val(plan[k].src)) % 2
  <2>1. CASE Storing(a) = {}
    <3>1. mem'[a] = mem[a] /\ mem[a] \in {0, 1}
      BY <1>1, <1>4, <2>1 DEF MemInv
    <3> QED BY <3>1, <2>1
  <2>2. CASE Storing(a) # {}
    <3>1. mem'[a] = RegOf(Max(Storing(a))) /\ Max(Storing(a)) \in Storing(a)
      BY <1>1, <1>3, <1>4, <2>2
    <3>2. mem'[a] \in {0, 1}
      BY <3>1, <1>2, <1>4
    <3>3. ASSUME NEW k \in DOMAIN plan, Storing(a) = {k}
          PROVE  mem'[a] = (mem[a] + Val(plan[k].src)) % 2
      <4>1. Max(Storing(a)) = k
        BY <3>1, <3>3
      <4> QED BY <3>1, <4>1, <1>2, <1>4
    <3> QED BY <2>2, <3>2, <3>3
  <2> QED BY <2>1, <2>2
<1>5. DOMAIN mem' = DOMAIN mem
  BY <1>1
<1>6. DOMAIN reg' = DOMAIN reg
  BY <1>1 DEF Spent
<1>7. RegInv'
  BY <1>1, <1>6 DEF RegInv
<1> QED BY <1>4, <1>5, <1>7 DEF Executed

-----------------------------------------------------------------------------
(* Planning. *)

\* The offers to the first n cells.
Offers(n, after) ==
  after = [j \in 0 .. n |-> IF j = 0 THEN [plan |-> <<>>, imm |-> FALSE]
                            ELSE Offer(after[j - 1], Dst(j), Left(Dst(j)))]

\* The recursive definition in Planned has a value.
LEMMA OffersExist == ASSUME NEW n \in Nat PROVE \E after : Offers(n, after)
<1> DEFINE S == {m \in Nat : ~ \E after : Offers(m, after)}
           F(acc, j) == IF j = 0 THEN [plan |-> <<>>, imm |-> FALSE]
                        ELSE Offer(acc, Dst(j), Left(Dst(j)))
<1>1. SUFFICES ASSUME S # {} PROVE FALSE
  OBVIOUS
<1>2. PICK m \in S : \A k \in S : ~(k < m)
  BY <1>1, LeastNumber
<1>3. ASSUME NEW k, NEW after
      PROVE  Offers(k, after) <=> after = [j \in 0 .. k |-> F(after[j - 1], j)]
  BY DEF Offers
<1>4. \A acc : F(acc, 0) = [plan |-> <<>>, imm |-> FALSE]
  OBVIOUS
<1> HIDE DEF F
<1>5. CASE m = 0
  <2> DEFINE after == [j \in 0 .. 0 |-> [plan |-> <<>>, imm |-> FALSE]]
  <2>0. ASSUME NEW j \in 0 .. 0 PROVE F(after[j - 1], j) = [plan |-> <<>>, imm |-> FALSE]
    <3>1. j = 0
      OBVIOUS
    <3>2. \A acc : F(acc, j) = [plan |-> <<>>, imm |-> FALSE]
      BY <3>1, <1>4
    <3> QED BY <3>2
  <2>1. after = [j \in 0 .. 0 |-> F(after[j - 1], j)]
    BY <2>0
  <2> QED BY <1>3, <1>5, <2>1
<1>6. CASE m # 0
  <2>1. m \in Nat /\ m - 1 \in Nat /\ m - 1 \notin S
    BY <1>2, <1>6
  <2>2. PICK old : Offers(m - 1, old)
    BY <2>1
  <2> DEFINE after == [j \in 0 .. m |-> IF j = m THEN F(old[m - 1], m) ELSE old[j]]
  <2>3. ASSUME NEW j \in 0 .. m PROVE after[j] = F(after[j - 1], j)
    <3>1. CASE j = m
      <4>1. j - 1 \in 0 .. m /\ j - 1 # m
        BY <3>1, <1>6, <2>1
      <4>2. after[j - 1] = old[j - 1]
        BY <4>1
      <4> QED BY <3>1, <4>2
    <3>2. CASE j # m
      <4>1. j \in 0 .. m - 1 /\ after[j] = old[j]
        BY <3>2, <2>1
      <4>2. old = [i \in 0 .. m - 1 |-> F(old[i - 1], i)]
        BY <1>3, <2>2
      <4>3. old[j] = F(old[j - 1], j)
        BY <4>1, <4>2
      <4>4. CASE j = 0
        <5>1. \A acc, b : F(acc, j) = F(b, j)
          BY <4>4, <1>4
        <5>2. F(after[j - 1], j) = F(old[j - 1], j)
          BY <5>1
        <5> QED BY <4>1, <4>3, <5>2
      <4>5. CASE j # 0
        <5>1. j - 1 \in 0 .. m /\ j - 1 # m
          BY <4>1, <4>5, <2>1
        <5>2. after[j - 1] = old[j - 1]
          BY <5>1
        <5> QED BY <4>1, <4>3, <5>2
      <4> QED BY <4>4, <4>5
    <3> QED BY <3>1, <3>2
  <2>4. after = [j \in 0 .. m |-> F(after[j - 1], j)]
    <3>1. DOMAIN after = 0 .. m /\ after = [j \in 0 .. m |-> after[j]]
      OBVIOUS
    <3> HIDE DEF after
    <3> QED BY <3>1, <2>3
  <2> QED BY <1>3, <2>1, <2>4
<1> QED BY <1>5, <1>6

\* Integers from some number on have a least one.
LEMMA LeastInteger ==
  ASSUME NEW n \in Int, NEW S, S \subseteq Int, \A x \in S : x >= n, S # {}
  PROVE  Min(S) \in S /\ \A x \in S : Min(S) <= x
<1> DEFINE T == {x - n : x \in S}
<1>1. T \subseteq Nat /\ T # {}
  <2>1. \A x \in S : x - n \in Nat
    OBVIOUS
  <2>2. PICK x \in S : TRUE
    OBVIOUS
  <2>3. x - n \in T
    BY <2>2
  <2>4. T \subseteq Nat
    BY <2>1
  <2> HIDE DEF T
  <2> QED BY <2>3, <2>4
<1>2. PICK m \in T : \A k \in T : ~(k < m)
  <2> HIDE DEF T
  <2> QED BY <1>1, LeastNumber
<1>3. PICK x \in S : m = x - n
  BY <1>2
<1>4. ASSUME NEW y \in S PROVE x <= y
  <2>1. y - n \in T
    BY <1>4
  <2>2. ~(y - n < x - n)
    BY <1>2, <1>3, <2>1
  <2>3. x \in Int /\ y \in Int
    BY <1>3, <1>4
  <2> QED BY <2>2, <2>3
<1> QED BY <1>3, <1>4 DEF Min

\* What is offered next is left, and complete if it is a signal.
LEMMA NextIsUsable ==
  ASSUME NumTmps \in Nat, tmp_ofs \in Nat, NEW e, e \subseteq Operands,
         Usable(e) # {} \/ None \in e
  PROVE  Next1(e) \in e /\ (IsTmp(Next1(e)) => -Next1(e) <= MaxFinished)
<1>1. CASE Usable(e) # {}
  <2>1. Usable(e) \subseteq Int /\ \A x \in Usable(e) : x >= -NumTmps
    BY DEF Usable, Operands
  <2>2. Min(Usable(e)) \in Usable(e)
    <3>1. -NumTmps \in Int
      OBVIOUS
    <3> QED BY <1>1, <2>1, <3>1, LeastInteger
  <2>3. Next1(e) = Min(Usable(e))
    BY <1>1 DEF Next1
  <2> QED BY <2>2, <2>3 DEF Usable
<1>2. CASE Usable(e) = {}
  <2>1. Next1(e) = None /\ None \in e
    BY <1>2 DEF Next1
  <2>2. ~IsTmp(None)
    BY DEF IsTmp
  <2> QED BY <2>1, <2>2
<1> QED BY <1>1, <1>2

\* What the planning of a round has chosen after the offers to the first j cells.
Chosen(j, acc) ==
  /\ acc.plan \in Seq([dst : Dsts, src : Operands]) /\ acc.imm \in BOOLEAN
  /\ Len(acc.plan) <= Slots /\ (acc.imm => Len(acc.plan) < Slots)
  /\ \A k \in DOMAIN acc.plan :
       LET dst == acc.plan[k].dst
           src == acc.plan[k].src
       IN  /\ src \in Left(dst) /\ (IsTmp(src) => -src <= MaxFinished)
           /\ Far(dst, TRUE) => acc.imm
           /\ \E i \in 1 .. j : dst = Dst(i)
  /\ \A k, m \in DOMAIN acc.plan : acc.plan[k].dst = acc.plan[m].dst => k = m

\* An offer keeps what planning has chosen so far sound, and within the slots.
LEMMA OfferChooses ==
  ASSUME NEW st, Program(st), WorkInv, NEW j \in 1 .. NumTmps + Len(outs), NEW acc,
         Chosen(j - 1, acc)
  PROVE  Chosen(j, Offer(acc, Dst(j), Left(Dst(j))))
<1> DEFINE dst == Dst(j)
           e   == Left(dst)
           src == Next1(e)
           far == Far(dst, TRUE) \/ Far(src, FALSE)
           T   == [dst : Dsts, src : Operands]
           p   == acc.plan
           x   == [dst |-> dst, src |-> src]
           new == [plan |-> Append(p, x), imm |-> acc.imm \/ far]
<1>1. /\ NumTmps \in Nat /\ Len(outs) \in Nat /\ tmp_ofs \in Nat /\ Slots \in Nat
      /\ \A d \in Dsts : Left(d) \subseteq Operands
  <2>1. NumTmps \in Nat /\ Len(outs) \in Nat /\ tmp_ofs \in Nat /\ target.slots \in Nat
    BY DEF Program
  <2>2. Slots \in Nat
    BY <2>1 DEF Slots
  <2>3. \A d \in Dsts : Left(d) \subseteq Operands
    BY DEF Program, WorkInv
  <2> QED BY <2>1, <2>2, <2>3
<1>2. dst \in Dsts /\ \A i \in 1 .. j - 1 : Dst(i) # dst
  BY <1>1 DEF Dst, Dsts
<1>3. p \in Seq(T) /\ acc.imm \in BOOLEAN /\ Len(p) \in Nat /\ DOMAIN p = 1 .. Len(p)
  BY DEF Chosen
<1>4. ASSUME NEW k \in DOMAIN p
      PROVE  /\ p[k].src \in Left(p[k].dst) /\ (IsTmp(p[k].src) => -p[k].src <= MaxFinished)
             /\ Far(p[k].dst, TRUE) => acc.imm
             /\ p[k].dst # dst /\ \E i \in 1 .. j : p[k].dst = Dst(i)
  <2>1. /\ p[k].src \in Left(p[k].dst) /\ (IsTmp(p[k].src) => -p[k].src <= MaxFinished)
        /\ Far(p[k].dst, TRUE) => acc.imm
        /\ \E i \in 1 .. j - 1 : p[k].dst = Dst(i)
    BY <1>4 DEF Chosen
  <2>2. PICK i \in 1 .. j - 1 : p[k].dst = Dst(i)
    BY <2>1
  <2>3. i \in 1 .. j
    BY <1>1
  <2> QED BY <2>1, <2>2, <2>3, <1>2
<1>5. CASE ~((Usable(e) # {} \/ None \in e) /\ Room(acc, dst, src))
  <2>1. Offer(acc, dst, e) = acc
    BY <1>5 DEF Offer
  <2>2. Chosen(j, acc)
    BY <1>4 DEF Chosen
  <2> QED BY <2>1, <2>2
<1>6. CASE (Usable(e) # {} \/ None \in e) /\ Room(acc, dst, src)
  <2>1. Offer(acc, dst, e) = new
    BY <1>6 DEF Offer
  <2>2. e \subseteq Operands
    BY <1>1, <1>2
  <2>3. src \in e /\ (IsTmp(src) => -src <= MaxFinished)
    <3> HIDE DEF e
    <3> QED BY <1>1, <1>6, <2>2, NextIsUsable
  <2>4. x \in T /\ x.dst = dst /\ x.src = src
    <3> HIDE DEF dst, src, e
    <3> QED BY <1>2, <2>2, <2>3
  <2> DEFINE q == Append(p, x)
  <2>5. /\ q \in Seq(T) /\ Len(q) = Len(p) + 1 /\ DOMAIN q = 1 .. Len(p) + 1
        /\ \A k \in DOMAIN p : q[k] = p[k]
        /\ q[Len(p) + 1] = x
    <3> HIDE DEF T, x, p
    <3>1. q \in Seq(T) /\ Len(q) = Len(p) + 1 /\ (\A k \in 1 .. Len(p) : q[k] = p[k])
          /\ q[Len(p) + 1] = x
      BY <1>3, <2>4, AppendProperties
    <3>2. DOMAIN q = 1 .. Len(q)
      BY <3>1
    <3> HIDE DEF q
    <3> QED BY <1>3, <3>1, <3>2
  <2>6. Len(q) <= Slots /\ (acc.imm \/ far => Len(q) < Slots)
    <3>1. /\ Len(p) + (IF acc.imm THEN 1 ELSE 0) < Slots
          /\ ~(far /\ ~acc.imm /\ Len(p) + 1 = Slots)
      BY <1>6 DEF Room
    <3> HIDE DEF p, far, q
    <3>2. CASE acc.imm
      BY <1>1, <1>3, <2>5, <3>1, <3>2
    <3>3. CASE ~acc.imm
      BY <1>1, <1>3, <2>5, <3>1, <3>3
    <3> QED BY <3>2, <3>3
  <2>7. ASSUME NEW k \in DOMAIN q PROVE k \in DOMAIN p \/ k = Len(p) + 1
    BY <1>3, <2>5
  <2>8. ASSUME NEW k \in DOMAIN q
        PROVE  /\ q[k].src \in Left(q[k].dst) /\ (IsTmp(q[k].src) => -q[k].src <= MaxFinished)
               /\ Far(q[k].dst, TRUE) => acc.imm \/ far
               /\ \E i \in 1 .. j : q[k].dst = Dst(i)
    <3>1. CASE k \in DOMAIN p
      <4>1. q[k] = p[k]
        BY <2>5, <3>1
      <4> HIDE DEF q, p
      <4> QED BY <1>4, <3>1, <4>1
    <3>2. CASE k = Len(p) + 1
      <4>1. q[k].dst = dst /\ q[k].src = src
        BY <2>4, <2>5, <3>2
      <4>2. j \in 1 .. j
        BY <1>1
      <4> HIDE DEF q, p, src, e
      <4> QED BY <2>3, <4>1, <4>2 DEF e
    <3> QED BY <2>7, <3>1, <3>2
  <2>9. ASSUME NEW k \in DOMAIN q, NEW m \in DOMAIN q, q[k].dst = q[m].dst PROVE k = m
    <3>1. \A i \in DOMAIN p : q[i].dst = p[i].dst /\ q[i].dst # dst
      <4>1. \A i \in DOMAIN p : q[i] = p[i]
        BY <2>5
      <4> HIDE DEF q, p
      <4> QED BY <1>4, <4>1
    <3>2. q[Len(p) + 1].dst = dst
      BY <2>4, <2>5
    <3>3. \A i, l \in DOMAIN p : p[i].dst = p[l].dst => i = l
      BY DEF Chosen
    <3> HIDE DEF q, p, dst
    <3> QED BY <2>7, <2>9, <3>1, <3>2, <3>3
  <2>10. new.plan = q /\ new.imm = (acc.imm \/ far) /\ new.imm \in BOOLEAN
    <3> HIDE DEF p, x, far
    <3> QED BY <1>3
  <2> HIDE DEF q, new, far, p, T
  <2>11. Chosen(j, new)
    <3>1. new.plan \in Seq([dst : Dsts, src : Operands]) /\ new.imm \in BOOLEAN
      BY <2>5, <2>10 DEF T
    <3>2. Len(new.plan) <= Slots /\ (new.imm => Len(new.plan) < Slots)
      BY <2>6, <2>10
    <3>3. \A k \in DOMAIN new.plan :
            /\ new.plan[k].src \in Left(new.plan[k].dst)
            /\ IsTmp(new.plan[k].src) => -new.plan[k].src <= MaxFinished
            /\ Far(new.plan[k].dst, TRUE) => new.imm
            /\ \E i \in 1 .. j : new.plan[k].dst = Dst(i)
      BY <2>8, <2>10
    <3>4. \A k, m \in DOMAIN new.plan : new.plan[k].dst = new.plan[m].dst => k = m
      BY <2>9, <2>10
    <3> QED BY <3>1, <3>2, <3>3, <3>4 DEF Chosen
  <2> QED BY <2>1, <2>11
<1> QED BY <1>5, <1>6

\* The round that is planned.
LEMMA PlannedIsChosen ==
  ASSUME NEW st, Program(st), WorkInv
  PROVE  \E acc : Chosen(NumTmps + Len(outs), acc) /\ Planned = acc.plan
<1> DEFINE n == NumTmps + Len(outs)
           after == CHOOSE after : Offers(n, after)
<1>1. n \in Nat /\ target.slots \in Nat
  BY DEF Program
<1>2. Offers(n, after)
  <2>1. \E a : Offers(n, a)
    <3> HIDE DEF n
    <3> QED BY <1>1, OffersExist
  <2> HIDE DEF n
  <2> QED BY <2>1
<1>3. Planned = after[n].plan
  BY DEF Planned, Offers
<1> HIDE DEF after, n
<1>4. after[0] = [plan |-> <<>>, imm |-> FALSE]
  BY <1>1, <1>2 DEF Offers
<1>5. ASSUME NEW j \in 1 .. n PROVE after[j] = Offer(after[j - 1], Dst(j), Left(Dst(j)))
  <2>1. j \in 0 .. n /\ j # 0
    BY <1>1
  <2> QED BY <1>2, <2>1 DEF Offers
<1>6. Chosen(0, after[0])
  <2>1. Slots \in Nat
    BY <1>1 DEF Slots
  <2>2. after[0].plan = <<>> /\ after[0].imm = FALSE
    BY <1>4
  <2>3. /\ <<>> \in Seq([dst : Dsts, src : Operands]) /\ Len(<<>>) = 0 /\ DOMAIN <<>> = {}
    OBVIOUS
  <2>4. /\ after[0].plan \in Seq([dst : Dsts, src : Operands]) /\ Len(after[0].plan) = 0
        /\ DOMAIN after[0].plan = {} /\ after[0].imm \in BOOLEAN /\ ~after[0].imm
    BY <2>2, <2>3
  <2>5. Len(after[0].plan) <= Slots
    BY <2>1, <2>4
  <2> QED BY <2>4, <2>5 DEF Chosen
<1> DEFINE S == {m \in Nat : m <= n /\ ~Chosen(m, after[m])}
<1>7. S = {}
  <2>1. SUFFICES ASSUME S # {} PROVE FALSE
    OBVIOUS
  <2>2. PICK m \in S : \A k \in S : ~(k < m)
    BY <2>1, LeastNumber
  <2>3. m # 0
    BY <1>6, <2>2
  <2>4. m \in 1 .. n /\ m - 1 \in Nat /\ m - 1 <= n /\ m - 1 < m
    BY <1>1, <2>2, <2>3
  <2>5. Chosen(m - 1, after[m - 1])
    BY <2>2, <2>4
  <2>6. Chosen(m, Offer(after[m - 1], Dst(m), Left(Dst(m))))
    BY <2>4, <2>5, OfferChooses DEF n
  <2> QED BY <1>5, <2>2, <2>4, <2>6
<1>8. Chosen(n, after[n])
  BY <1>1, <1>7
<1> QED BY <1>3, <1>8 DEF n

\* A signal that is complete is none of those that have something left.
LEMMA CompleteHasNothingLeft ==
  ASSUME NEW st, Program(st), WorkInv, NEW x \in -NumTmps .. -1, -x <= MaxFinished
  PROVE  Left(x) = {} /\ \A dst \in Dsts : dst < 0 /\ Left(dst) # {} => dst < x
<1>1. NumTmps \in Nat /\ Len(outs) \in Nat /\ DOMAIN left \subseteq 1 .. NumTmps
  BY DEF Program, WorkInv
<1>2. ASSUME NEW y \in Int, y < 0 PROVE IsTmp(y) /\ -y \in Int
  BY <1>2, NoneAssumption DEF IsTmp
<1>3. ASSUME NEW y \in Int, y < 0, Left(y) # {} PROVE -y \in DOMAIN left
  BY <1>2, <1>3 DEF Left
<1>4. ASSUME NEW t \in DOMAIN left PROVE -x < t
  <2>1. Min(DOMAIN left) \in DOMAIN left /\ Min(DOMAIN left) <= t
    <3>1. /\ DOMAIN left \subseteq Int /\ DOMAIN left # {}
          /\ \A u \in DOMAIN left : u >= 1
          /\ 1 \in Int
      BY <1>1, <1>4
    <3> QED BY <1>4, <3>1, LeastInteger
  <2>2. MaxFinished = Min(DOMAIN left) - 1
    BY <1>4 DEF MaxFinished
  <2>3. Min(DOMAIN left) \in Int /\ t \in Int /\ x \in Int
    BY <1>1, <1>4, <2>1
  <2>4. -x <= Min(DOMAIN left) - 1
    BY <2>2
  <2> QED BY <2>1, <2>3, <2>4
<1>5. Left(x) = {}
  <2>1. SUFFICES ASSUME Left(x) # {} PROVE FALSE
    OBVIOUS
  <2>2. x \in Int /\ x < 0
    BY <1>1
  <2>3. -x < -x
    BY <1>3, <1>4, <2>1, <2>2
  <2> QED BY <2>2, <2>3
<1>6. ASSUME NEW dst \in Dsts, dst < 0, Left(dst) # {} PROVE dst < x
  <2>1. dst \in Int
    BY <1>1 DEF Dsts
  <2>2. -x < -dst
    BY <1>3, <1>4, <1>6, <2>1
  <2>3. x \in Int
    BY <1>1
  <2> QED BY <2>1, <2>2, <2>3
<1> QED BY <1>5, <1>6

\* The elements of a round are crossed off.
LEMMA CrossedOff ==
  ASSUME NEW st, Program(st), WorkInv, NEW p,
         left' = [t \in {u \in DOMAIN left : left[u] \ Taken(p, -u) # {}} |->
                    left[t] \ Taken(p, -t)],
         outLeft' = [i \in DOMAIN outLeft |-> outLeft[i] \ Taken(p, i - 1)]
  PROVE  \A dst \in Dsts : Left(dst)' = Left(dst) \ Taken(p, dst)
<1>1. NumTmps \in Nat /\ Len(outs) \in Nat /\ DOMAIN outLeft = 1 .. Len(outs)
  BY DEF Program, WorkInv
<1>2. ASSUME NEW dst \in -NumTmps .. -1 PROVE Left(dst)' = Left(dst) \ Taken(p, dst)
  <2>1. IsTmp(dst) /\ -(-dst) = dst
    <3>1. dst \in Int /\ dst < 0
      BY <1>1
    <3> QED BY <3>1, NoneAssumption DEF IsTmp
  <2> DEFINE t == -dst
  <2>2. -t = dst
    BY <2>1
  <2>3. /\ Left(dst) = IF t \in DOMAIN left THEN left[t] ELSE {}
        /\ Left(dst)' = IF t \in DOMAIN left' THEN left'[t] ELSE {}
    BY <2>1 DEF Left
  <2> HIDE DEF t
  <2>4. CASE t \in DOMAIN left /\ left[t] \ Taken(p, dst) # {}
    BY <2>2, <2>3, <2>4
  <2>5. CASE t \in DOMAIN left /\ left[t] \ Taken(p, dst) = {}
    BY <2>2, <2>3, <2>5
  <2>6. CASE t \notin DOMAIN left
    BY <2>3, <2>6
  <2> QED BY <2>4, <2>5, <2>6
<1>3. ASSUME NEW dst \in 0 .. Len(outs) - 1 PROVE Left(dst)' = Left(dst) \ Taken(p, dst)
  <2>1. ~IsTmp(dst) /\ dst + 1 \in DOMAIN outLeft /\ (dst + 1) - 1 = dst
    BY <1>1 DEF IsTmp
  <2>2. Left(dst) = outLeft[dst + 1] /\ Left(dst)' = outLeft'[dst + 1]
    BY <2>1 DEF Left
  <2>3. outLeft'[dst + 1] = outLeft[dst + 1] \ Taken(p, (dst + 1) - 1)
    BY <2>1
  <2> QED BY <2>1, <2>2, <2>3
<1>4. ASSUME NEW dst \in Dsts PROVE dst \in -NumTmps .. -1 \/ dst \in 0 .. Len(outs) - 1
  BY <1>1 DEF Dsts
<1> QED BY <1>2, <1>3, <1>4

\* What planning a round leaves to do, and that it plans what can be done.
LEMMA ScheduleKeeps ==
  ASSUME NEW st, Program(st), WorkInv, Schedule
  PROVE  /\ WorkInv' /\ (Claimed' => Claimed) /\ (step' \in InRound => PlanInv')
         /\ step' \in {"epilogue", "stuck", "load_dst", "load_src"}
         /\ step' = "load_dst" => target.risc
         /\ step' = "load_src" => ~target.risc
         /\ step' = "epilogue" => \A dst \in Dsts : Left(dst)' = {}
         /\ \A dst \in Dsts : Undone(dst)' = Undone(dst)
<1>1. /\ step = "plan" /\ UNCHANGED call /\ step \notin InRound
      /\ defs' = defs /\ outs' = outs /\ target' = target
  BY DEF Schedule, call, InRound
<1>2. /\ NumTmps' = NumTmps /\ tmp_ofs' = tmp_ofs /\ out_ofs' = out_ofs
      /\ Slots' = Slots /\ Dsts' = Dsts
      /\ \A x : Eqn(x)' = Eqn(x)
  BY <1>1, CallStays
<1>3. NumTmps \in Nat /\ Len(outs) \in Nat /\ tmp_ofs \in Nat /\ Slots \in Nat
  BY DEF Program, Slots
<1>4. \A x : Undone(x) = Left(x)
  BY <1>1 DEF Undone, Pending
<1>5. CASE Planned = <<>>
  <2>1. /\ step' = IF DOMAIN left = {} /\ \A i \in DOMAIN outLeft : outLeft[i] = {}
                   THEN "epilogue" ELSE "stuck"
        /\ left' = left /\ outLeft' = outLeft /\ plan' = plan /\ allFull' = allFull
    BY <1>5 DEF Schedule, work
  <2>2. ASSUME NEW x PROVE Left(x)' = Left(x)
    BY <2>1 DEF Left
  <2>3. step' \in {"epilogue", "stuck"} /\ step' \notin InRound
    BY <2>1 DEF InRound
  <2>4. ASSUME NEW x PROVE Undone(x)' = Undone(x)
    BY <2>2, <2>3, <1>4 DEF Undone, Pending
  <2>5. WorkInv'
    BY <1>1, <1>2, <2>1, <2>2 DEF WorkInv
  <2>6. ASSUME step' = "epilogue", NEW dst \in Dsts PROVE Left(dst)' = {}
    <3>1. DOMAIN left = {} /\ \A i \in DOMAIN outLeft : outLeft[i] = {}
      BY <2>1, <2>6
    <3>2. IsTmp(dst) \/ dst + 1 \in DOMAIN outLeft
      BY <1>3, NoneAssumption DEF Dsts, IsTmp, WorkInv
    <3> QED BY <2>2, <3>1, <3>2 DEF Left
  <2>7. Claimed' => Claimed
    BY <1>1, <2>1 DEF Claimed
  <2> QED BY <2>3, <2>4, <2>5, <2>6, <2>7
<1>6. CASE Planned # <<>>
  <2>0. PICK p : p = Planned
    OBVIOUS
  <2>1. /\ plan' = p
        /\ left' = [t \in {u \in DOMAIN left : left[u] \ Taken(p, -u) # {}} |->
                      left[t] \ Taken(p, -t)]
        /\ outLeft' = [i \in DOMAIN outLeft |-> outLeft[i] \ Taken(p, i - 1)]
        /\ allFull' = (allFull /\ Len(p) = Slots)
        /\ step' = IF target.risc THEN "load_dst" ELSE "load_src"
    <3>1. \A t \in DOMAIN left :
            [u \in DOMAIN left |-> left[u] \ Taken(p, -u)][t] = left[t] \ Taken(p, -t)
      OBVIOUS
    <3>2. [t \in {u \in DOMAIN left : [v \in DOMAIN left |-> left[v] \ Taken(p, -v)][u] # {}} |->
             [v \in DOMAIN left |-> left[v] \ Taken(p, -v)][t]]
           = [t \in {u \in DOMAIN left : left[u] \ Taken(p, -u) # {}} |-> left[t] \ Taken(p, -t)]
      BY <3>1
    <3>3. /\ plan' = p
          /\ left' = [t \in {u \in DOMAIN left :
                        [v \in DOMAIN left |-> left[v] \ Taken(p, -v)][u] # {}} |->
                          [v \in DOMAIN left |-> left[v] \ Taken(p, -v)][t]]
          /\ outLeft' = [i \in DOMAIN outLeft |-> outLeft[i] \ Taken(p, i - 1)]
          /\ allFull' = (allFull /\ Len(p) = Slots)
          /\ step' = IF target.risc THEN "load_dst" ELSE "load_src"
      BY <1>6, <2>0 DEF Schedule
    <3> QED BY <3>2, <3>3
  <2>2. \A dst \in Dsts : Left(dst)' = Left(dst) \ Taken(p, dst)
    BY <2>1, CrossedOff
  <2>3. PICK acc : Chosen(NumTmps + Len(outs), acc) /\ p = acc.plan
    BY <2>0, PlannedIsChosen
  <2>4. /\ p \in Seq([dst : Dsts, src : Operands]) /\ acc.imm \in BOOLEAN
        /\ Len(p) <= Slots /\ (acc.imm => Len(p) < Slots)
        /\ \A k, m \in DOMAIN p : p[k].dst = p[m].dst => k = m
        /\ \A k \in DOMAIN p :
             /\ p[k].src \in Left(p[k].dst)
             /\ IsTmp(p[k].src) => -p[k].src <= MaxFinished
             /\ Far(p[k].dst, TRUE) => acc.imm
    BY <2>3 DEF Chosen
  <2>5. /\ Len(p) \in Nat /\ DOMAIN p = 1 .. Len(p)
        /\ \A k \in DOMAIN p : p[k].dst \in Dsts /\ p[k].src \in Operands
    <3>1. Len(p) \in Nat /\ DOMAIN p = 1 .. Len(p)
      BY <2>4
    <3>2. \A k \in DOMAIN p : p[k] \in [dst : Dsts, src : Operands]
      BY <2>4, <3>1, ElementOfSeq
    <3> QED BY <3>1, <3>2
  <2>6. \A dst \in Dsts : Taken(p, dst) \subseteq Left(dst)
    BY <2>4 DEF Taken
  <2>7. step' \in {"load_dst", "load_src"} /\ step' \in InRound
    BY <2>1 DEF InRound
  <2>8. ASSUME NEW x PROVE Undone(x)' = Left(x)' \union Taken(p, x)
    BY <2>1, <2>7 DEF Undone, Pending
  <2>9. ASSUME NEW dst \in Dsts PROVE Undone(dst)' = Undone(dst)
    <3>1. Undone(dst)' = (Left(dst) \ Taken(p, dst)) \union Taken(p, dst)
      BY <2>2, <2>8
    <3> QED BY <3>1, <2>6, <1>4
  <2>10. WorkInv'
    <3>1. DOMAIN left' \subseteq 1 .. NumTmps /\ DOMAIN outLeft' = 1 .. Len(outs)
      BY <2>1 DEF WorkInv
    <3>2. \A dst \in Dsts : Left(dst)' \subseteq Eqn(dst)
      BY <2>2 DEF WorkInv
    <3> QED BY <1>1, <1>2, <3>1, <3>2 DEF WorkInv
  <2>11. ASSUME NEW k \in DOMAIN p
         PROVE  Found(p[k].dst, p[k].src)' /\ p[k].src \notin Left(p[k].dst)'
    <3> DEFINE d == p[k].dst
               x == p[k].src
    <3>1. d \in Dsts /\ x \in Operands /\ x \in Left(d) /\ (IsTmp(x) => -x <= MaxFinished)
      BY <2>4, <2>5, <2>11
    <3>2. x \in Taken(p, d)
      BY <2>11 DEF Taken
    <3> HIDE DEF d, x
    <3>3. x \notin Left(d)'
      BY <2>2, <3>1, <3>2
    <3>4. x \in Eqn(d)
      BY <3>1 DEF WorkInv
    <3>5. ASSUME IsTmp(x) PROVE Undone(x)' = {} /\ (d < 0 => d < x)
      <4>1. x \in -NumTmps .. -1
        BY <3>1, <3>5, <1>3 DEF Operands, IsTmp
      <4>2. Left(x) = {} /\ \A dst \in Dsts : dst < 0 /\ Left(dst) # {} => dst < x
        BY <3>1, <3>5, <4>1, CompleteHasNothingLeft
      <4>3. x \in Dsts
        BY <4>1, <1>3 DEF Dsts
      <4>4. Undone(x)' = {}
        BY <4>2, <4>3, <2>9, <1>4
      <4>5. d < 0 => d < x
        BY <4>2, <3>1
      <4> QED BY <4>4, <4>5
    <3> QED BY <1>2, <3>3, <3>4, <3>5 DEF Found, d, x
  <2>12. PlanInv'
    <3>1. /\ Len(plan') \in Nat /\ DOMAIN plan' = 1 .. Len(plan')
          /\ Slots' \in Nat /\ Len(plan') <= Slots'
      BY <1>2, <1>3, <2>1, <2>4, <2>5
    <3>2. \A k \in DOMAIN plan' :
            /\ plan'[k].dst \in Dsts' /\ Found(plan[k].dst, plan[k].src)'
            /\ plan'[k].src \notin Left(plan[k].dst)'
      <4>1. ASSUME NEW k \in DOMAIN plan'
            PROVE  /\ plan'[k].dst \in Dsts' /\ Found(plan[k].dst, plan[k].src)'
                   /\ plan'[k].src \notin Left(plan[k].dst)'
        <5>1. k \in DOMAIN p /\ plan'[k] = p[k]
          BY <2>1, <4>1
        <5> QED BY <5>1, <1>2, <2>1, <2>5, <2>11
      <4> QED BY <4>1
    <3>3. \A j, k \in DOMAIN plan' : plan'[j].dst = plan'[k].dst => j = k
      BY <2>1, <2>4
    <3>4. FarAt("dst")' # {} => Len(plan') < Slots'
      <4>1. ASSUME NEW k \in FarAt("dst")' PROVE acc.imm
        <5>1. k \in DOMAIN p /\ Far(p[k].dst, TRUE)'
          BY <4>1, <2>1 DEF FarAt
        <5>2. Far(p[k].dst, TRUE)
          BY <5>1, <1>1, <1>2 DEF Far, Offset
        <5> QED BY <5>1, <5>2, <2>4
      <4> QED BY <4>1, <1>2, <2>1, <2>4
    <3>5. target'.risc /\ allFull' => Len(plan') = Slots'
      BY <1>2, <2>1
    <3> QED BY <3>1, <3>2, <3>3, <3>4, <3>5, SMTT(20) DEF PlanInv
  <2>13. Claimed' => Claimed
    BY <1>1, <2>1 DEF Claimed
  <2>14. /\ step' = "load_dst" => target.risc
         /\ step' = "load_src" => ~target.risc
         /\ step' # "epilogue"
    BY <2>1
  <2> QED BY <2>7, <2>9, <2>10, <2>12, <2>13, <2>14
<1> QED BY <1>5, <1>6

-----------------------------------------------------------------------------
(* The whole routine. *)

\* The byte that the epilogue packs.
Packed(j) == {k \in 0 .. ByteBits - 1 : mem[OutBase + j * ByteBits + k] # 0}

PackInv ==
  /\ byte \in 0 .. sumlen /\ DOMAIN result = 0 .. sumlen - 1
  /\ step \notin {"epilogue", "returned"} => byte = 0
  /\ step = "returned" => byte = sumlen
  /\ Claimed => \A j \in 0 .. byte - 1 : result[Place(j)] = Packed(j)

\* How far the routine is, at each of its steps.
RoutineInv(st) ==
  /\ Program(st)
  /\ step \in {"prologue", "plan", "epilogue", "stuck", "returned"} \union InRound
  /\ step # "prologue" => WorkInv
  /\ step \in InRound => PlanInv
  /\ step \in {"epilogue", "returned"} => \A dst \in Dsts : Undone(dst) = {}
  /\ Claimed => RegInv /\ (step # "prologue" => MemInv(st))
  /\ PackInv

\* Nothing but the epilogue stores bytes.
LEMMA PackStays ==
  ASSUME PackInv, UNCHANGED <<byte, result, call>>, step \notin {"epilogue", "returned"},
         step' # "returned"
  PROVE  PackInv'
<1>1. byte' = byte /\ result' = result /\ sumlen' = sumlen
  BY DEF call
<1>2. byte = 0
  BY DEF PackInv
<1>3. 0 .. byte' - 1 = {}
  BY <1>1, <1>2
<1> QED BY <1>1, <1>2, <1>3 DEF PackInv

\* The prologue leaves a frame in which nothing has been computed yet.
LEMMA PrologueStarts == ASSUME NEW st, RoutineInv(st), Prologue PROVE RoutineInv(st)'
<1>1. /\ step = "prologue" /\ step' = "plan" /\ left' = defs /\ outLeft' = outs
      /\ UNCHANGED <<call, plan, reg, byte, result, allFull>>
      /\ mem' = [a \in 0 .. stack_size - 1 |->
                   IF a < tmp_ofs
                   THEN LET b == a \div ByteBits
                            k == ByteBits - 1 - (a % ByteBits)
                        IN  IF k \in data[b + 1] THEN 1 ELSE 0
                   ELSE 0]
  BY DEF Prologue
<1>2. /\ tmp_ofs' = tmp_ofs /\ out_ofs' = out_ofs /\ stack_size' = stack_size
      /\ NumTmps' = NumTmps /\ Ones' = Ones /\ Dsts' = Dsts /\ outs' = outs
      /\ \A x : DstCell(x)' = DstCell(x)
      /\ \A x : Eqn(x)' = Eqn(x) /\ Spoiled(x)' = Spoiled(x)
      /\ \A m : Parity(m)' = Parity(m)
      /\ Program(st)' = Program(st) /\ target' = target
  BY <1>1, CallStays DEF call
<1>3. /\ NumTmps \in Nat /\ tmp_ofs \in Nat /\ Len(outs) \in Nat /\ out_ofs \in Nat
      /\ stack_size \in Nat /\ stack_size >= out_ofs + Len(outs) /\ out_ofs = tmp_ofs + NumTmps
      /\ DOMAIN defs = 1 .. NumTmps /\ DOMAIN outs = 1 .. Len(outs)
  BY FrameParts DEF Program, RoutineInv
<1>4. ASSUME NEW dst \in Dsts PROVE Left(dst)' = Eqn(dst)
  <2>1. IsTmp(dst) => -dst \in DOMAIN defs
    BY <1>3 DEF Dsts, IsTmp
  <2> QED BY <1>1, <2>1 DEF Left, Eqn
<1>5. WorkInv'
  BY <1>1, <1>2, <1>3, <1>4 DEF WorkInv
<1>6. ASSUME NEW dst \in Dsts PROVE Undone(dst)' = Eqn(dst)
  BY <1>1, <1>4 DEF Undone, Pending, InRound
<1>7. ASSUME NEW a \in 0 .. stack_size - 1, a >= tmp_ofs PROVE mem'[a] = 0
  BY <1>1, <1>3, <1>7
<1>8. ASSUME NEW x \in 0 .. tmp_ofs - 1 PROVE mem'[x] = IF x \in Ones THEN 1 ELSE 0
  <2>1. x \in 0 .. stack_size - 1 /\ x < tmp_ofs
    BY <1>3
  <2>2. mem'[x] = IF (ByteBits - 1 - (x % ByteBits)) \in data[x \div ByteBits + 1] THEN 1 ELSE 0
    BY <1>1, <2>1
  <2> QED BY <2>2 DEF Ones
<1>9. MemInv(st)'
  <2>1. DOMAIN mem' = 0 .. stack_size - 1
    BY <1>1
  <2>2. ASSUME NEW a \in 0 .. stack_size - 1 PROVE mem'[a] \in {0, 1}
    <3>1. a \in 0 .. tmp_ofs - 1 \/ a >= tmp_ofs
      BY <1>3
    <3> QED BY <3>1, <1>7, <1>8
  <2>3. ASSUME NEW dst \in Dsts, ~Spoiled(dst)
        PROVE  mem'[DstCell(dst)] = Parity(ValueIn(st, Eqn(dst) \ Eqn(dst)))
    <3>1. DstCell(dst) \in tmp_ofs .. out_ofs + Len(outs) - 1
      BY <2>3, CellsApart DEF Spoiled, RoutineInv
    <3>2. mem'[DstCell(dst)] = 0
      BY <3>1, <1>3, <1>7
    <3>3. ValueIn(st, Eqn(dst) \ Eqn(dst)) = {}
      BY DEF ValueIn
    <3>4. Parity({}) = 0
      BY <1>3, ParityAdds
    <3> QED BY <3>2, <3>3, <3>4
  <2>4. ASSUME NEW a \in out_ofs + Len(outs) .. stack_size - 1 PROVE mem'[a] = 0
    BY <1>3, <1>7
  <2> QED BY <1>2, <1>6, <1>8, <2>1, <2>2, <2>3, <2>4 DEF MemInv
<1>10. Claimed' => RegInv'
  <2>1. Claimed' => Claimed
    BY <1>1, <1>2 DEF Claimed
  <2>2. RegInv => RegInv'
    BY <1>1, <1>2 DEF RegInv
  <2> QED BY <2>1, <2>2 DEF RoutineInv
<1>11. PackInv'
  BY <1>1, PackStays DEF RoutineInv
<1>12. step' \notin InRound
  BY <1>1 DEF InRound
<1> QED BY <1>1, <1>2, <1>5, <1>9, <1>10, <1>11, <1>12 DEF RoutineInv

\* Planning a round keeps the invariant of the routine, also when it ends the rounds.
LEMMA ScheduleGoesOn == ASSUME NEW st, RoutineInv(st), Schedule PROVE RoutineInv(st)'
<1>1. /\ step = "plan" /\ UNCHANGED <<call, machine>> /\ mem' = mem /\ reg' = reg
      /\ byte' = byte /\ result' = result
  BY DEF Schedule, machine
<1>2. /\ WorkInv' /\ (Claimed' => Claimed) /\ (step' \in InRound => PlanInv')
      /\ step' \in {"epilogue", "stuck", "load_dst", "load_src"}
      /\ step' = "load_dst" => target.risc
      /\ step' = "load_src" => ~target.risc
      /\ step' = "epilogue" => \A dst \in Dsts : Left(dst)' = {}
      /\ \A dst \in Dsts : Undone(dst)' = Undone(dst)
  BY <1>1, ScheduleKeeps DEF RoutineInv
<1>3. /\ tmp_ofs' = tmp_ofs /\ out_ofs' = out_ofs /\ stack_size' = stack_size
      /\ Ones' = Ones /\ Dsts' = Dsts /\ outs' = outs
      /\ \A x : DstCell(x)' = DstCell(x)
      /\ \A x : Eqn(x)' = Eqn(x) /\ Spoiled(x)' = Spoiled(x)
      /\ \A m : Parity(m)' = Parity(m)
      /\ Program(st)' = Program(st) /\ target' = target
  BY <1>1, CallStays DEF call
<1>4. MemInv(st) => MemInv(st)'
  BY <1>1, <1>2, <1>3 DEF MemInv
<1>5. RegInv => RegInv'
  BY <1>1, <1>2, <1>3 DEF RegInv
<1>6. PackInv'
  BY <1>1, <1>2, PackStays DEF RoutineInv
<1>7. step' \in {"epilogue", "returned"} => \A dst \in Dsts' : Undone(dst)' = {}
  <2>1. ASSUME step' = "epilogue", NEW dst \in Dsts PROVE Undone(dst)' = {}
    <3>1. step' \notin InRound
      BY <2>1 DEF InRound
    <3> QED BY <2>1, <3>1, <1>2 DEF Undone, Pending
  <2> QED BY <1>2, <1>3, <2>1
<1>8. Claimed' => RegInv' /\ MemInv(st)'
  BY <1>1, <1>2, <1>4, <1>5 DEF RoutineInv
<1>9. step' \in {"prologue", "plan", "epilogue", "stuck", "returned"} \union InRound
  BY <1>2 DEF InRound
<1> QED BY <1>2, <1>3, <1>6, <1>7, <1>8, <1>9 DEF RoutineInv

\* Each stage of a round keeps the invariant of the routine.
LEMMA StageGoesOn ==
  ASSUME NEW st, RoutineInv(st), LoadDst \/ LoadSrc \/ XorMem \/ XorRegs \/ StoreDst
  PROVE  RoutineInv(st)'
<1>1. /\ step \in InRound /\ UNCHANGED <<call, work, byte, result, allFull>>
      /\ step # "prologue" /\ step \notin {"epilogue", "returned"}
  BY DEF LoadDst, LoadSrc, XorMem, XorRegs, StoreDst, InRound
<1>2. Program(st) /\ WorkInv /\ PlanInv /\ (Claimed => MemInv(st) /\ RegInv)
  BY <1>1 DEF RoutineInv
<1>3. Program(st)' /\ Claimed' = Claimed
  <2>1. UNCHANGED call /\ target' = target /\ allFull' = allFull
    BY <1>1 DEF call
  <2>2. Program(st)' = Program(st)
    BY <2>1, CallStays
  <2> QED BY <1>2, <2>1, <2>2 DEF Claimed
<1>4. CASE LoadDst \/ LoadSrc \/ XorRegs
  <2>1. step' \in InRound /\ mem' = mem
    BY <1>4 DEF LoadDst, LoadSrc, XorRegs, InRound
  <2>2. WorkInv' /\ PlanInv' /\ (Claimed' => MemInv(st)')
    BY <1>1, <1>2, <1>3, <2>1, RoundGoesOn
  <2>3. Claimed' => RegInv'
    <3>1. CASE LoadDst
      BY <3>1, <1>2, <1>3, LoadDstKeeps
    <3>2. CASE LoadSrc
      BY <3>2, <1>2, <1>3, LoadSrcKeeps
    <3>3. CASE XorRegs
      BY <3>3, <1>2, <1>3, XorRegsKeeps
    <3> QED BY <1>4, <3>1, <3>2, <3>3
  <2>4. step' \notin {"epilogue", "returned"}
    BY <2>1 DEF InRound
  <2>5. PackInv'
    BY <1>1, <2>4, PackStays DEF RoutineInv
  <2> QED BY <1>3, <2>1, <2>2, <2>3, <2>4, <2>5 DEF RoutineInv
<1>5. CASE XorMem \/ StoreDst
  <2>1. step' = "plan" /\ step' \notin InRound
    BY <1>5 DEF XorMem, StoreDst, InRound
  <2>2. WorkInv'
    <3>1. /\ left' = left /\ outLeft' = outLeft /\ outs' = outs /\ UNCHANGED call
      BY <1>1 DEF work, call
    <3>2. NumTmps' = NumTmps /\ Dsts' = Dsts /\ \A x : Eqn(x)' = Eqn(x)
      BY <3>1, CallStays
    <3>3. \A x : Left(x)' = Left(x)
      BY <3>1 DEF Left
    <3> QED BY <1>2, <3>1, <3>2, <3>3 DEF WorkInv
  <2>3. Claimed => Executed(mem') /\ RegInv'
    <3>1. CASE XorMem
      BY <3>1, <1>2, XorMemExecutes
    <3>2. CASE StoreDst
      BY <3>2, <1>2, StoreExecutes
    <3> QED BY <1>5, <3>1, <3>2
  <2>4. Claimed => MemInv(st)'
    BY <1>1, <1>2, <2>1, <2>3, RoundDone
  <2>5. PackInv'
    BY <1>1, <2>1, PackStays DEF RoutineInv
  <2> QED BY <1>3, <2>1, <2>2, <2>3, <2>4, <2>5 DEF RoutineInv
<1> QED BY <1>4, <1>5

\* The epilogue leaves the frame alone.
LEMMA FrameStays ==
  ASSUME NEW st, RoutineInv(st), UNCHANGED <<call, work, mem, reg, allFull>>,
         step = "epilogue", step' \in {"epilogue", "returned"}
  PROVE  /\ Program(st)' /\ WorkInv' /\ step' \notin InRound
         /\ \A dst \in Dsts' : Undone(dst)' = {}
         /\ Claimed' = Claimed /\ (Claimed => RegInv' /\ MemInv(st)')
         /\ sumlen' = sumlen
         /\ \A j : Place(j)' = Place(j) /\ Packed(j)' = Packed(j)
<1>1. /\ UNCHANGED call /\ left' = left /\ outLeft' = outLeft /\ outs' = outs /\ plan' = plan
      /\ target' = target /\ sumlen' = sumlen /\ mem' = mem /\ reg' = reg /\ allFull' = allFull
  BY DEF call, work
<1>2. /\ tmp_ofs' = tmp_ofs /\ out_ofs' = out_ofs /\ stack_size' = stack_size
      /\ OutBase' = OutBase /\ NumTmps' = NumTmps /\ Ones' = Ones /\ Dsts' = Dsts
      /\ \A x : DstCell(x)' = DstCell(x)
      /\ \A x : Eqn(x)' = Eqn(x) /\ Spoiled(x)' = Spoiled(x)
      /\ \A m : Parity(m)' = Parity(m)
      /\ Program(st)' = Program(st)
  BY <1>1, CallStays
<1>3. step \notin InRound /\ step' \notin InRound
  BY DEF InRound
<1>4. \A x : Left(x)' = Left(x)
  BY <1>1 DEF Left
<1>5. \A x : Undone(x)' = Undone(x)
  BY <1>3, <1>4 DEF Undone, Pending
<1>6. WorkInv'
  BY <1>1, <1>2, <1>4 DEF WorkInv, RoutineInv
<1>7. Claimed => MemInv(st)'
  <2>1. Claimed => MemInv(st)
    BY DEF RoutineInv
  <2> QED BY <1>1, <1>2, <1>5, <2>1 DEF MemInv
<1>8. Claimed => RegInv'
  <2>1. Claimed => DOMAIN reg = 0 .. target.slots - 1
    BY DEF RoutineInv, RegInv
  <2> QED BY <1>1, <2>1 DEF RegInv
<1>9. \A j : Place(j)' = Place(j) /\ Packed(j)' = Packed(j)
  BY <1>1, <1>2 DEF Place, Packed
<1> QED BY <1>1, <1>2, <1>3, <1>5, <1>6, <1>7, <1>8, <1>9 DEF Claimed, RoutineInv

\* A byte that is stored is the one that was packed, and no other byte changes.
LEMMA PackGoesOn == ASSUME NEW st, RoutineInv(st), Pack PROVE RoutineInv(st)'
<1>1. /\ step = "epilogue" /\ step' = "epilogue" /\ byte < sumlen /\ byte' = byte + 1
      /\ UNCHANGED <<call, work, mem, reg, allFull>>
      /\ result' = [result EXCEPT ![Place(byte)] = Packed(byte)]
  BY DEF Pack, Packed
<1>2. /\ Program(st)' /\ WorkInv' /\ step' \notin InRound
      /\ \A dst \in Dsts' : Undone(dst)' = {}
      /\ Claimed' = Claimed /\ (Claimed => RegInv' /\ MemInv(st)')
      /\ sumlen' = sumlen
      /\ \A j : Place(j)' = Place(j) /\ Packed(j)' = Packed(j)
  BY <1>1, FrameStays
<1>3. /\ byte \in Nat /\ sumlen \in Nat /\ DOMAIN result = 0 .. sumlen - 1
      /\ Claimed => \A j \in 0 .. byte - 1 : result[Place(j)] = Packed(j)
  BY DEF RoutineInv, PackInv, Program
<1>4. byte' \in 0 .. sumlen' /\ DOMAIN result' = 0 .. sumlen' - 1
  BY <1>1, <1>2, <1>3
<1>5. ASSUME Claimed, NEW j \in 0 .. byte PROVE result'[Place(j)] = Packed(j)
  <2>1. Place(byte) \in DOMAIN result
    BY <1>1, <1>3 DEF Place
  <2>2. CASE j = byte
    BY <1>1, <2>1, <2>2
  <2>3. CASE j # byte
    <3>1. j \in 0 .. byte - 1
      BY <1>3, <2>3
    <3>2. Place(j) # Place(byte)
      BY <1>3, <3>1 DEF Place
    <3>3. Place(j) \in DOMAIN result
      BY <1>1, <1>3, <3>1 DEF Place
    <3> QED BY <1>1, <1>3, <1>5, <3>1, <3>2, <3>3
  <2> QED BY <2>2, <2>3
<1>6. byte' - 1 = byte
  BY <1>1, <1>3
<1>7. PackInv'
  BY <1>1, <1>2, <1>4, <1>5, <1>6 DEF PackInv
<1> QED BY <1>1, <1>2, <1>7 DEF RoutineInv

\* The routine returns with all of its bytes stored.
LEMMA ReturnGoesOn == ASSUME NEW st, RoutineInv(st), Return PROVE RoutineInv(st)'
<1>1. /\ step = "epilogue" /\ step' = "returned"
      /\ byte = sumlen /\ byte' = byte /\ result' = result
      /\ UNCHANGED <<call, work, mem, reg, allFull>>
  BY DEF Return, machine
<1>2. /\ Program(st)' /\ WorkInv' /\ step' \notin InRound
      /\ \A dst \in Dsts' : Undone(dst)' = {}
      /\ Claimed' = Claimed /\ (Claimed => RegInv' /\ MemInv(st)')
      /\ sumlen' = sumlen
      /\ \A j : Place(j)' = Place(j) /\ Packed(j)' = Packed(j)
  BY <1>1, FrameStays
<1>3. PackInv'
  BY <1>1, <1>2 DEF RoutineInv, PackInv
<1> QED BY <1>1, <1>2, <1>3 DEF RoutineInv

\* Each step of the routine keeps its invariant, and so does a step of anything else.
LEMMA RoutineStep ==
  ASSUME NEW st, RoutineInv(st), AsmNext \/ UNCHANGED asmVars
  PROVE  RoutineInv(st)'
<1>1. CASE Prologue
  BY <1>1, PrologueStarts
<1>2. CASE Schedule
  BY <1>2, ScheduleGoesOn
<1>3. CASE LoadDst \/ LoadSrc \/ XorMem \/ XorRegs \/ StoreDst
  BY <1>3, StageGoesOn
<1>4. CASE Pack
  BY <1>4, PackGoesOn
<1>5. CASE Return
  BY <1>5, ReturnGoesOn
<1>6. CASE UNCHANGED asmVars
  <2>1. /\ UNCHANGED call /\ step' = step /\ left' = left /\ outLeft' = outLeft /\ outs' = outs
        /\ plan' = plan /\ target' = target /\ sumlen' = sumlen /\ allFull' = allFull
        /\ mem' = mem /\ reg' = reg /\ byte' = byte /\ result' = result
    BY <1>6 DEF asmVars, call, work, machine
  <2>2. /\ tmp_ofs' = tmp_ofs /\ out_ofs' = out_ofs /\ stack_size' = stack_size
        /\ OutBase' = OutBase /\ NumTmps' = NumTmps /\ Slots' = Slots
        /\ Ones' = Ones /\ Dsts' = Dsts
        /\ \A x : DstCell(x)' = DstCell(x) /\ SrcCell(x)' = SrcCell(x)
        /\ \A x : Eqn(x)' = Eqn(x) /\ Spoiled(x)' = Spoiled(x)
        /\ \A m : Parity(m)' = Parity(m)
        /\ Program(st)' = Program(st)
    BY <2>1, CallStays
  <2>3. \A x : Left(x)' = Left(x) /\ Undone(x)' = Undone(x)
    BY <2>1 DEF Undone, Pending, Left
  <2>4. WorkInv => WorkInv'
    BY <2>1, <2>2, <2>3 DEF WorkInv
  <2>5. step' \in InRound => PlanInv'
    <3>1. ASSUME step' \in InRound PROVE PlanInv'
      BY <2>1, <3>1, RoundGoesOn DEF RoutineInv, work, InRound
    <3> QED BY <3>1
  <2>6. MemInv(st) => MemInv(st)'
    BY <2>1, <2>2, <2>3 DEF MemInv
  <2>7. RegInv => RegInv'
    <3>1. \A x : Val(x)' = Val(x) /\ Partner(x)' = Partner(x)
      BY <2>1, <2>2 DEF Val, Partner
    <3> QED BY <2>1, <2>2, <3>1 DEF RegInv
  <2>8. PackInv'
    <3>1. \A j : Place(j)' = Place(j) /\ Packed(j)' = Packed(j)
      BY <2>1, <2>2 DEF Place, Packed
    <3>2. Claimed' = Claimed
      BY <2>1 DEF Claimed
    <3> QED BY <2>1, <3>1, <3>2 DEF PackInv, RoutineInv
  <2>9. Claimed' = Claimed
    BY <2>1 DEF Claimed
  <2> QED BY <2>1, <2>2, <2>3, <2>4, <2>5, <2>6, <2>7, <2>8, <2>9 DEF RoutineInv
<1> QED BY <1>1, <1>2, <1>3, <1>4, <1>5, <1>6 DEF AsmNext

\* Where the bit i of the result comes from.
LEMMA BitOfByte ==
  ASSUME NEW b \in Nat \ {0}, NEW n \in Nat, NEW i \in 0 .. n * b - 1
  PROVE  /\ i \div b \in 0 .. n - 1 /\ i % b \in 0 .. b - 1
         /\ i = (i \div b) * b + (i % b)
<1>1. i \in Nat /\ i < n * b
  <2>1. n * b \in Nat
    OBVIOUS
  <2> QED BY <2>1
<1>2. i % b \in 0 .. b - 1 /\ i \div b \in Nat /\ i = (i \div b) * b + (i % b)
  BY <1>1
<1>3. ASSUME i \div b >= n PROVE FALSE
  <2> DEFINE q == i \div b
  <2>1. q \in Nat /\ q >= n
    BY <1>2, <1>3
  <2> HIDE DEF q
  <2>2. PICK d \in Nat : q = n + d
    <3>1. q - n \in Nat /\ q = n + (q - n)
      BY <2>1
    <3> QED BY <3>1
  <2>3. q * b = n * b + d * b
    BY <2>2
  <2>4. d * b \in Nat /\ n * b \in Nat
    OBVIOUS
  <2>5. i = q * b + (i % b) /\ i % b \in Nat
    BY <1>2 DEF q
  <2> QED BY <1>1, <2>3, <2>4, <2>5
<1> QED BY <1>2, <1>3

\* A routine that has returned has computed what the property claims.
LEMMA RoutineIsAsClaimed == ASSUME NEW st, RoutineInv(st) PROVE RoutineComputes
<1> SUFFICES ASSUME step = "returned", NEW i \in 0 .. sumlen * ByteBits - 1,
                    Claimed, ~(Overlaps /\ (i = 0 \/ (i < Len(outs) /\ -NumTmps \in outs[i + 1])))
             PROVE  RightAt(i)
  BY DEF RoutineComputes, Claimed
<1>1. /\ NumTmps \in Nat /\ tmp_ofs \in Nat /\ Len(outs) \in Nat /\ out_ofs \in Nat
      /\ sumlen * ByteBits \in Nat /\ sumlen \in Nat /\ ByteBits \in Nat \ {0}
      /\ stack_size = out_ofs + sumlen * ByteBits /\ OutBase = out_ofs
  BY FrameParts, BytesAssumption DEF Program, RoutineInv
<1>2. /\ byte = sumlen /\ MemInv(st) /\ Program(st)
      /\ \A j \in 0 .. sumlen - 1 : result[Place(j)] = Packed(j)
      /\ \A dst \in Dsts : Undone(dst) = {}
  BY DEF RoutineInv, PackInv
<1> DEFINE j == i \div ByteBits
           k == i % ByteBits
           a == out_ofs + i
<1>3. j \in 0 .. sumlen - 1 /\ k \in 0 .. ByteBits - 1 /\ i = j * ByteBits + k
  BY <1>1, BitOfByte
<1>4. i \in Nat /\ a \in DOMAIN mem /\ mem[a] \in {0, 1}
  <2> DEFINE W == sumlen * ByteBits
  <2>1. W \in Nat /\ i \in 0 .. W - 1 /\ stack_size = out_ofs + W
    BY <1>1
  <2> HIDE DEF W
  <2>2. i \in Nat /\ a \in 0 .. stack_size - 1
    BY <1>1, <2>1
  <2> QED BY <1>2, <2>2 DEF MemInv
<1>5. Bit(i) = mem[a]
  <2>1. Bit(i) = IF k \in result[Place(j)] THEN 1 ELSE 0
    BY DEF Bit, Place
  <2>2. OutBase + j * ByteBits + k = a
    <3> DEFINE P == j * ByteBits
    <3>1. P \in Nat /\ k \in Nat /\ i = P + k
      BY <1>1, <1>3
    <3> HIDE DEF P, j, k
    <3>2. OutBase + P + k = out_ofs + i
      BY <1>1, <3>1
    <3> QED BY <3>2 DEF P
  <2> HIDE DEF a, j, k
  <2>3. k \in Packed(j) <=> mem[a] # 0
    BY <1>3, <2>2 DEF Packed
  <2> QED BY <1>2, <1>3, <1>4, <2>1, <2>3
<1>6. CASE i < Len(outs)
  <2>1. i \in Dsts /\ i \in 0 .. Len(outs) - 1 /\ ~(i < 0) /\ (NumTmps > 0 => i # -NumTmps)
    BY <1>1, <1>4, <1>6 DEF Dsts
  <2>2. DstCell(i) = a /\ Eqn(i) = outs[i + 1]
    BY <1>2, <2>1, CellOf DEF Eqn
  <2>3. ~Spoiled(i)
    BY <1>6, <2>1, <2>2 DEF Spoiled, Overlaps
  <2>4. mem[a] = Parity(ValueIn(st, Eqn(i) \ {}))
    BY <1>2, <2>1, <2>2, <2>3 DEF MemInv
  <2>5. Eqn(i) \ {} = outs[i + 1]
    BY <2>2
  <2>6. Meaning(defs, outs[i + 1]) = ValueIn(st, outs[i + 1])
    BY <1>2, <2>1 DEF Program
  <2> QED BY <1>5, <1>6, <2>4, <2>5, <2>6 DEF RightAt
<1>7. CASE ~(i < Len(outs))
  <2> DEFINE W == sumlen * ByteBits
  <2>1. W \in Nat /\ i \in 0 .. W - 1 /\ stack_size = out_ofs + W
    BY <1>1
  <2> HIDE DEF W
  <2>2. a \in out_ofs + Len(outs) .. stack_size - 1
    BY <1>1, <1>4, <1>7, <2>1
  <2>3. mem[a] = 0
    BY <1>2, <2>2 DEF MemInv
  <2> QED BY <1>5, <1>7, <2>3 DEF RightAt
<1> QED BY <1>6, <1>7

-----------------------------------------------------------------------------
(* The compiler. *)

\* The checksum has room for the outputs.
LEMMA RoundedUp ==
  ASSUME NEW b \in Nat \ {0}, NEW n \in Nat
  PROVE  LET m == (n + b - 1) \div b
         IN  m \in Nat /\ n <= m * b /\ (n = 0 => m = 0)
<1> DEFINE m == (n + b - 1) \div b
           k == n + b - 1
<1>1. k \in Nat
  OBVIOUS
<1>2. m \in Nat /\ k % b \in 0 .. b - 1 /\ k = m * b + (k % b)
  <2> HIDE DEF k
  <2> QED BY <1>1 DEF m, k
<1>3. m * b \in Nat
  BY <1>2
<1>4. n <= m * b
  <2> HIDE DEF m
  <2> QED BY <1>2, <1>3
<1>5. ASSUME n = 0 PROVE m = 0
  <2>1. k = b - 1 /\ k < b
    BY <1>5
  <2>2. ASSUME m # 0 PROVE FALSE
    <3>1. PICK c \in Nat : m = c + 1
      <4>1. m - 1 \in Nat /\ m = (m - 1) + 1
        <5> HIDE DEF m
        <5> QED BY <1>2, <2>2
      <4> QED BY <4>1
    <3> HIDE DEF m, k
    <3>2. m * b = c * b + b
      BY <3>1
    <3>3. c * b \in Nat
      OBVIOUS
    <3>4. m * b >= b /\ k >= m * b
      BY <1>2, <1>3, <3>2, <3>3
    <3> QED BY <1>1, <1>3, <2>1, <3>4
  <2> QED BY <2>2
<1> QED BY <1>2, <1>4, <1>5

\* Until the handover the optimiser runs, and then the routine.
CompilerInv ==
  /\ step = "waiting" =>
       /\ AllInv /\ datalen = DataLen /\ sumlen = SumLen /\ byte = 0
       /\ DOMAIN result = 0 .. sumlen - 1
  /\ step # "waiting" => \E st : RoutineInv(st)

\* What the optimiser returns is a program.
LEMMA HandoverStarts == ASSUME CompilerInv, Handover PROVE CompilerInv'
<1>1. /\ step = "waiting" /\ step' = "prologue" /\ pc = "done" /\ defs' = td /\ outs' = out
      /\ target' \in Targets /\ reg' = [r \in 0 .. target'.slots - 1 |-> Junk]
      /\ datalen' = datalen /\ sumlen' = sumlen /\ byte' = byte /\ result' = result
  BY DEF Handover, CompilerInv
<1>2. /\ given \in Systems /\ Good(td, out, given) /\ datalen = DataLen /\ sumlen = SumLen
      /\ byte = 0 /\ DOMAIN result = 0 .. sumlen - 1
  BY <1>1 DEF CompilerInv, AllInv, ListInv, ResultInv, After
<1>3. PICK st : Graph(st, td, out, given) /\ Solid(st, td, out) /\ Acyclic(td)
                /\ Within(td, out, TermsOf(given))
  BY <1>2 DEF Good
<1>4. Len(given) \in Nat /\ DOMAIN given = 1 .. Len(given)
  BY <1>2, SystemsAssumption, LenProperties
<1>5. /\ NumTmps' = Size(td) /\ Size(td) \in Nat /\ DOMAIN td = 1 .. Size(td)
      /\ Len(outs') = Len(given) /\ DOMAIN out = 1 .. Len(given)
  <2>1. NumTmps' = Size(td)
    BY <1>1 DEF NumTmps, Size
  <2>2. Size(td) \in Nat /\ DOMAIN td = 1 .. Size(td) /\ DOMAIN out = DOMAIN given
    BY <1>3 DEF Graph
  <2>3. Len(out) = Len(given)
    BY <1>4, <2>2
  <2> QED BY <1>1, <1>4, <2>1, <2>2, <2>3
<1>6. datalen' \in Nat /\ tmp_ofs' = DataLen * ByteBits /\ tmp_ofs' \in Nat
  <2>1. tmp_ofs' = DataLen * ByteBits
    BY <1>1, <1>2 DEF tmp_ofs
  <2> QED BY <1>1, <1>2, <2>1, InputsAssumption, BytesAssumption
<1>7. /\ sumlen' \in Nat /\ Len(outs') <= sumlen' * ByteBits /\ (Len(outs') = 0 => sumlen' = 0)
  <2>1. ByteBits \in Nat \ {0}
    BY BytesAssumption
  <2> QED BY <1>1, <1>2, <1>4, <1>5, <2>1, RoundedUp DEF SumLen
<1>8. /\ target'.slots \in Nat /\ target'.first \in {0, 1} /\ target'.maxOfs \in Int
      /\ target'.far => target'.maxOfs >= tmp_ofs'
  BY <1>1, <1>6, TargetsAssumption
<1>9. ASSUME NEW x \in TermsOf(given) PROVE x = None \/ x \in 0 .. DataLen * ByteBits - 1
  <2>1. PICK i \in DOMAIN given : x \in given[i]
    BY <1>9 DEF TermsOf
  <2>2. given[i] \subseteq Nat \union {None}
    BY <1>2, <1>4, <2>1, SystemsAssumption, ElementOfSeq
  <2>3. x # None => x \in Nat /\ x < DataLen * ByteBits
    BY <1>2, <2>1, <2>2, InputsAssumption
  <2>4. DataLen * ByteBits \in Nat
    BY <1>6
  <2> DEFINE D == DataLen * ByteBits
  <2> HIDE DEF D
  <2>5. x # None => x \in 0 .. D - 1
    BY <2>3, <2>4 DEF D
  <2> QED BY <2>5 DEF D
<1>10. ASSUME NEW e, e \subseteq TermsUpTo(Size(td)), From(e, TermsOf(given))
       PROVE  e \subseteq Operands'
  <2>1. ASSUME NEW x \in e PROVE x = None \/ x \in -Size(td) .. DataLen * ByteBits - 1
    <3> DEFINE D == DataLen * ByteBits
    <3>1. D \in Nat /\ (x = None \/ (x \in Int /\ x >= -Size(td)))
      BY <1>6, <1>10, <2>1 DEF TermsUpTo
    <3>2. IsTmp(x) \/ x = None \/ x \in 0 .. D - 1
      BY <1>9, <1>10, <2>1 DEF From
    <3> HIDE DEF D
    <3>3. x = None \/ x \in -Size(td) .. D - 1
      BY <1>5, <3>1, <3>2 DEF IsTmp
    <3> QED BY <3>3 DEF D
  <2> QED BY <2>1, <1>5, <1>6 DEF Operands
<1>11. ASSUME NEW t \in 1 .. Size(td)
       PROVE  /\ td[t] \subseteq Operands' /\ ApartIn(st, td[t])
              /\ ValueIn(st, td[t]) = st[t]
  BY <1>3, <1>5, <1>10 DEF Graph, Stands, Within
<1>12. ASSUME NEW i \in 1 .. Len(given)
       PROVE  /\ out[i] \subseteq Operands' /\ ApartIn(st, out[i])
              /\ Meaning(td, out[i]) = ValueIn(st, out[i])
  <2>1. /\ out[i] \subseteq TermsUpTo(Size(td)) /\ ApartIn(st, out[i])
        /\ From(out[i], TermsOf(given))
    BY <1>3, <1>5 DEF Graph, Stands, Within
  <2>2. Meaning(td, out[i]) = ValueIn(st, out[i])
    BY <1>3, <2>1, MeaningIsValue
  <2> QED BY <2>1, <2>2, <1>10
<1>13. ASSUME NEW t \in 1 .. Size(td) PROVE Eqn(-t)' = td[t]
  <2>1. IsTmp(-t) /\ -(-t) = t
    <3>1. -t \in Int /\ -t < 0 /\ -(-t) = t
      BY <1>5
    <3> QED BY <3>1, NoneAssumption DEF IsTmp
  <2> QED BY <1>1, <2>1 DEF Eqn
<1>14. ASSUME NEW i \in 0 .. Len(given) - 1 PROVE Eqn(i)' = out[i + 1] /\ i + 1 \in 1 .. Len(given)
  <2>1. ~IsTmp(i)
    BY <1>4 DEF IsTmp
  <2> QED BY <1>1, <1>4, <2>1 DEF Eqn
<1>15. \A dst \in Dsts' : Eqn(dst)' \subseteq Operands' /\ ApartIn(st, Eqn(dst)')
  <2>1. ASSUME NEW dst \in Dsts'
        PROVE  Eqn(dst)' \subseteq Operands' /\ ApartIn(st, Eqn(dst)')
    <3>1. dst \in -Size(td) .. -1 \/ dst \in 0 .. Len(given) - 1
      BY <1>4, <1>5, <2>1 DEF Dsts
    <3>2. CASE dst \in -Size(td) .. -1
      <4>1. -dst \in 1 .. Size(td) /\ -(-dst) = dst
        BY <1>5, <3>2
      <4>2. Eqn(-(-dst))' = td[-dst]
        BY <4>1, <1>13
      <4> QED BY <4>1, <4>2, <1>11
    <3>3. CASE dst \in 0 .. Len(given) - 1
      BY <3>3, <1>12, <1>14
    <3> QED BY <3>1, <3>2, <3>3
  <2> QED BY <2>1
<1>16. Program(st)'
  <2>1. /\ NumTmps' \in Nat /\ datalen' \in Nat /\ tmp_ofs' \in Nat /\ sumlen' \in Nat
        /\ Len(outs') \in Nat
        /\ DOMAIN defs' = 1 .. NumTmps' /\ DOMAIN outs' = 1 .. Len(outs')
        /\ Len(outs') <= sumlen' * ByteBits /\ (Len(outs') = 0 => sumlen' = 0)
    BY <1>1, <1>4, <1>5, <1>6, <1>7
  <2>2. \A t \in 1 .. NumTmps' : ValueIn(st, Eqn(-t)') = st[t]
    BY <1>5, <1>11, <1>13
  <2>3. \A i \in 0 .. Len(outs') - 1 :
           Meaning(defs', outs'[i + 1]) = ValueIn(st, outs'[i + 1])
    BY <1>1, <1>5, <1>12, <1>14
  <2> QED BY <1>8, <1>15, <2>1, <2>2, <2>3 DEF Program
<1>17. RegInv'
  <2>1. DOMAIN reg' = 0 .. target'.slots - 1
    BY <1>1
  <2> QED BY <1>1, <2>1 DEF RegInv
<1>18. PackInv'
  <2>1. byte' = 0 /\ 0 .. byte' - 1 = {} /\ byte' \in 0 .. sumlen'
    BY <1>1, <1>2, <1>7
  <2> QED BY <1>1, <1>2, <2>1 DEF PackInv
<1>19. step' \notin InRound
  BY <1>1 DEF InRound
<1>20. RoutineInv(st)'
  BY <1>1, <1>16, <1>17, <1>18, <1>19 DEF RoutineInv
<1> QED BY <1>1, <1>20 DEF CompilerInv

\* Before the handover there is only the optimiser.
LEMMA CompilerStarts == CompilerInit => CompilerInv
<1> SUFFICES ASSUME CompilerInit PROVE CompilerInv
  OBVIOUS
<1>1. /\ Init /\ step = "waiting" /\ datalen = DataLen /\ sumlen = SumLen /\ byte = 0
      /\ result = [j \in 0 .. SumLen - 1 |-> {}]
  BY DEF CompilerInit
<1> QED BY <1>1, InitAll DEF CompilerInv

\* Each step of the compiler keeps its invariant: the optimiser's, the handover, the routine's.
LEMMA CompilerStep ==
  ASSUME CompilerInv, AnswerIsSound, [CompilerNext]_compilerVars PROVE CompilerInv'
<1>1. CASE Handover
  BY <1>1, HandoverStarts
<1>2. CASE [Next]_vars /\ UNCHANGED asmVars
  <2>1. /\ step' = step /\ datalen' = datalen /\ sumlen' = sumlen
        /\ byte' = byte /\ result' = result
    BY <1>2 DEF asmVars, call, machine
  <2>2. CASE step = "waiting"
    <3>1. AllInv /\ AllInv'
      BY <1>2, <2>2, AllStep DEF CompilerInv
    <3>2. given' = given
      BY <1>2 DEF Next, Work, Begins, Searches, Counts, Extracts, EndsRound, Leaves, Caught,
        Unpacks, SearchesAround, Cleans, CleansNoMore, Places, Sorts, Press, args, vars
    <3>3. SumLen' = SumLen
      BY <3>2 DEF SumLen
    <3> QED BY <2>1, <2>2, <3>1, <3>3 DEF CompilerInv
  <2>3. CASE step # "waiting"
    <3>1. PICK st : RoutineInv(st)
      BY <2>3 DEF CompilerInv
    <3>2. RoutineInv(st)'
      BY <1>2, <3>1, RoutineStep
    <3> QED BY <2>1, <2>3, <3>2 DEF CompilerInv
  <2> QED BY <2>2, <2>3
<1>3. CASE AsmNext
  <2>1. step # "waiting"
    BY <1>3 DEF AsmNext, Prologue, Schedule, LoadDst, LoadSrc, XorMem, XorRegs, StoreDst, Pack,
      Return
  <2>2. PICK st : RoutineInv(st)
    BY <2>1 DEF CompilerInv
  <2>3. RoutineInv(st)'
    BY <1>3, <2>2, RoutineStep
  <2>4. step' # "waiting"
    BY <2>3 DEF RoutineInv, InRound
  <2> QED BY <2>3, <2>4 DEF CompilerInv
<1> QED BY <1>1, <1>2, <1>3 DEF CompilerNext, compilerVars

\* The routine computes the equations of the caller's graph, for every system of
\* equations, every target and all data: in every output that the overlap of the
\* last signal with output 0 does not reach, and on a RISC machine if every round
\* used all the slots.
THEOREM RoutineIsCorrect == CompilerSpec /\ []AnswerIsSound => []RoutineComputes
<1>1. CompilerInv => RoutineComputes
  <2>1. ASSUME CompilerInv, step = "returned" PROVE RoutineComputes
    BY <2>1, RoutineIsAsClaimed DEF CompilerInv
  <2>2. step # "returned" => RoutineComputes
    BY DEF RoutineComputes
  <2> QED BY <2>1, <2>2
<1>2. CompilerInv /\ AnswerIsSound /\ [CompilerNext]_compilerVars => CompilerInv'
  BY CompilerStep
<1> QED BY CompilerStarts, <1>1, <1>2, PTL DEF CompilerSpec

-----------------------------------------------------------------------------
(* The matrix: an induction and the values of recursive functions first. *)

\* An induction from 0 up to hi.
LEMMA UpTo ==
  ASSUME NEW hi \in Nat, NEW P, 0 \in P, \A m \in 1 .. hi : m - 1 \in P => m \in P
  PROVE  \A m \in 0 .. hi : m \in P
<1> DEFINE Off == {m \in 0 .. hi : m \notin P}
<1>1. SUFFICES ASSUME Off # {} PROVE FALSE
  OBVIOUS
<1>2. PICK m \in Off : \A k \in Off : ~(k < m)
  <2>1. Off \subseteq Nat
    OBVIOUS
  <2> HIDE DEF Off
  <2> QED BY <1>1, <2>1, LeastNumber
<1>3. m \in 0 .. hi /\ m # 0
  OBVIOUS
<1>4. m \in 1 .. hi /\ m - 1 \in 0 .. hi /\ m - 1 < m
  BY <1>3
<1>5. m - 1 \in P
  BY <1>2, <1>4
<1> QED BY <1>4, <1>5

\* The values f[0] up to f[hi], each made from the one before it.
Iterates(f, start, G, hi) == f = [m \in 0 .. hi |-> IF m = 0 THEN start ELSE G[m][f[m - 1]]]

LEMMA IteratesExist ==
  ASSUME NEW hi \in Nat, NEW X, NEW start \in X, NEW G, \A m \in 1 .. hi : \A x \in X : G[m][x] \in X
  PROVE  \E f : Iterates(f, start, G, hi) /\ \A m \in 0 .. hi : f[m] \in X
<1> DEFINE Iterated(f, top) == Iterates(f, start, G, top) /\ \A m \in 0 .. top : f[m] \in X
           P == {top \in 0 .. hi : \E f : Iterated(f, top)}
<1>1. 0 \in P
  <2> DEFINE f == [m \in 0 .. 0 |-> start]
  <2>1. f = [m \in 0 .. 0 |-> IF m = 0 THEN start ELSE G[m][f[m - 1]]]
    OBVIOUS
  <2>2. \A m \in 0 .. 0 : f[m] \in X
    OBVIOUS
  <2> HIDE DEF f
  <2> QED BY <2>1, <2>2 DEF Iterates
<1>2. ASSUME NEW top \in 1 .. hi, top - 1 \in P PROVE top \in P
  <2>1. PICK old : Iterated(old, top - 1)
    BY <1>2
  <2> DEFINE f == [m \in 0 .. top |-> IF m = top THEN G[top][old[top - 1]] ELSE old[m]]
  <2>2. old[top - 1] \in X /\ G[top][old[top - 1]] \in X
    BY <1>2, <2>1
  <2>3. ASSUME NEW m \in 0 .. top
        PROVE  f[m] = (IF m = 0 THEN start ELSE G[m][f[m - 1]]) /\ f[m] \in X
    <3>1. CASE m = top
      <4>1. m # 0 /\ m - 1 \in 0 .. top /\ m - 1 # top
        BY <3>1
      <4>2. f[m - 1] = old[m - 1] /\ f[m] = G[top][old[top - 1]]
        BY <3>1, <4>1
      <4> QED BY <2>2, <3>1, <4>1, <4>2
    <3>2. CASE m # top
      <4>1. m \in 0 .. top - 1 /\ f[m] = old[m]
        BY <3>2
      <4>2. old[m] = (IF m = 0 THEN start ELSE G[m][old[m - 1]]) /\ old[m] \in X
        BY <2>1, <4>1 DEF Iterates
      <4>3. m # 0 => m - 1 \in 0 .. top /\ m - 1 # top
        BY <4>1
      <4>4. m # 0 => f[m - 1] = old[m - 1]
        BY <4>3
      <4> QED BY <4>1, <4>2, <4>4
    <3> QED BY <3>1, <3>2
  <2>4. f = [m \in 0 .. top |-> f[m]]
    OBVIOUS
  <2> HIDE DEF f
  <2>5. f = [m \in 0 .. top |-> IF m = 0 THEN start ELSE G[m][f[m - 1]]]
    BY <2>3, <2>4
  <2>6. Iterated(f, top)
    BY <2>3, <2>5 DEF Iterates
  <2> HIDE DEF Good
  <2> QED BY <2>6
<1>3. hi \in P
  <2> HIDE DEF P
  <2>1. \A m \in 0 .. hi : m \in P
    BY <1>1, <1>2, UpTo
  <2> QED BY <2>1
<1> QED BY <1>3

(* The shift register of a job q. *)

Words(q) == SUBSET (0 .. q.sum_bits - 1)

Step(q, w) ==
  IF q.reflected
  THEN XorOf({b - 1 : b \in w \ {0}},
             IF 0 \in w THEN {q.sum_bits - 1 - b : b \in q.polynomial} ELSE {})
  ELSE XorOf({b + 1 : b \in w} \intersect 0 .. q.sum_bits - 1,
             IF q.sum_bits - 1 \in w THEN q.polynomial ELSE {})

LEMMA StepIs == \A w : lfsr_step(w) = Step(job, w)
BY DEF lfsr_step, Step, ShiftedLeft, ShiftedRight, Reversed, Bits

LEMMA XorOfType == \A q, v, w : v \in Words(q) /\ w \in Words(q) => XorOf(v, w) \in Words(q)
BY DEF XorOf, Words

LEMMA XorOfIs == \A v, w, x : x \in XorOf(v, w) <=> ~(x \in v <=> x \in w)
BY DEF XorOf

LEMMA XorOfUndoes ==
  \A u, v, w : /\ XorOf(v, {}) = v /\ XorOf({}, v) = v /\ XorOf(v, v) = {}
               /\ XorOf(u, XorOf(v, w)) = XorOf(XorOf(u, v), w) /\ XorOf(v, w) = XorOf(w, v)
BY DEF XorOf

LEMMA JobType ==
  ASSUME NEW q \in Jobs
  PROVE  /\ Byte \in Nat \ {0} /\ q.sum_bits \in Nat /\ Byte <= q.sum_bits
         /\ q.polynomial \in Words(q) /\ q.init \in Words(q) /\ q.xor_out \in Words(q)
         /\ q.reflected \in BOOLEAN /\ q.data_len \in Nat
BY JobsAssumption DEF Words

LEMMA StepType ==
  ASSUME NEW q \in Jobs, NEW w \in Words(q)
  PROVE  Step(q, w) \in Words(q)
<1> DEFINE W == q.sum_bits
<1>1. W \in Nat /\ q.polynomial \subseteq 0 .. W - 1 /\ w \subseteq 0 .. W - 1
  BY JobType DEF Words
<1>2. {b - 1 : b \in w \ {0}} \subseteq 0 .. W - 1
  BY <1>1
<1>3. {W - 1 - b : b \in q.polynomial} \subseteq 0 .. W - 1
  BY <1>1
<1> QED BY <1>1, <1>2, <1>3 DEF Step, Words, XorOf

LEMMA StepOfXor ==
  ASSUME NEW q \in Jobs, NEW v \in Words(q), NEW w \in Words(q)
  PROVE  Step(q, XorOf(v, w)) = XorOf(Step(q, v), Step(q, w))
<1> DEFINE W == q.sum_bits
           Down(u) == {b - 1 : b \in u \ {0}}
           Up(u) == {b + 1 : b \in u} \intersect 0 .. W - 1
<1>1. W \in Nat /\ v \subseteq Int /\ w \subseteq Int /\ XorOf(v, w) \subseteq Int
  BY JobType DEF Words, XorOf
<1>2. \A u, x : u \subseteq Int => (x \in Down(u) <=> x \in Int /\ x + 1 \in u /\ x + 1 # 0)
  OBVIOUS
<1>3. \A u, x : u \subseteq Int => (x \in Up(u) <=> x \in 0 .. W - 1 /\ x - 1 \in u)
  BY <1>1
<1> HIDE DEF Up, Down
<1> DEFINE c == XorOf(v, w)
<1>4. c \subseteq Int /\ \A x : x \in c <=> ~(x \in v <=> x \in w)
  BY <1>1, XorOfIs
<1> HIDE DEF c
<1>5. Down(c) = XorOf(Down(v), Down(w))
  <2>1. \A x : x \in Down(c) <=> ~(x \in Down(v) <=> x \in Down(w))
    BY <1>1, <1>2, <1>4
  <2> QED BY <2>1 DEF XorOf
<1>6. Up(c) = XorOf(Up(v), Up(w))
  <2>1. \A x : x \in Up(c) <=> ~(x \in Up(v) <=> x \in Up(w))
    BY <1>1, <1>3, <1>4
  <2> QED BY <2>1 DEF XorOf
<1>7. \A p, x : (IF x \in c THEN p ELSE {})
                 = XorOf(IF x \in v THEN p ELSE {}, IF x \in w THEN p ELSE {})
  BY <1>4 DEF XorOf
<1>8. \A a, b, y, z : XorOf(XorOf(a, b), XorOf(y, z)) = XorOf(XorOf(a, y), XorOf(b, z))
  BY DEF XorOf
<1>9. \A u : Step(q, u) =
        IF q.reflected THEN XorOf(Down(u), IF 0 \in u THEN {W - 1 - b : b \in q.polynomial} ELSE {})
        ELSE XorOf(Up(u), IF W - 1 \in u THEN q.polynomial ELSE {})
  BY DEF Step, Up, Down
<1> HIDE DEF W
<1>10. CASE q.reflected
  <2> DEFINE p == {W - 1 - b : b \in q.polynomial}
             T(u) == IF 0 \in u THEN p ELSE {}
  <2>1. \A u : Step(q, u) = XorOf(Down(u), T(u))
    BY <1>9, <1>10
  <2>2. T(c) = XorOf(T(v), T(w))
    BY <1>7
  <2> HIDE DEF T
  <2>3. Step(q, c) = XorOf(Step(q, v), Step(q, w))
    BY <1>5, <1>8, <2>1, <2>2
  <2> QED BY <2>3 DEF c
<1>11. CASE ~q.reflected
  <2> DEFINE T(u) == IF W - 1 \in u THEN q.polynomial ELSE {}
  <2>1. \A u : Step(q, u) = XorOf(Up(u), T(u))
    BY <1>9, <1>11
  <2>2. T(c) = XorOf(T(v), T(w))
    BY <1>7
  <2> HIDE DEF T
  <2>3. Step(q, c) = XorOf(Step(q, v), Step(q, w))
    BY <1>6, <1>8, <2>1, <2>2
  <2> QED BY <2>3 DEF c
<1> QED BY <1>10, <1>11

LEMMA StepOfNothing == \A q : Step(q, {}) = {}
BY DEF Step, XorOf

\* With reflection the register is the mirror image of one that is shifted up.
LEMMA MirroredIs ==
  ASSUME job \in Jobs, NEW w \in Words(job)
  PROVE  Mirror(Divided(Mirror(w))) = Step(job, w)
<1> DEFINE W == job.sum_bits
<1>1. W \in Nat /\ job.polynomial \subseteq 0 .. W - 1 /\ w \subseteq 0 .. W - 1
  BY JobType DEF Words
<1>2. CASE ~job.reflected
  BY <1>2 DEF Mirror, Divided, Step, ShiftedLeft, Bits
<1>3. CASE job.reflected
  <2> DEFINE M(u) == {W - 1 - n : n \in u}
             v == {b - 1 : b \in w \ {0}}
             p == job.polynomial
  <2>1. \A u : Mirror(u) = M(u)
    BY <1>3 DEF Mirror
  <2>2. M(ShiftedLeft(M(w))) = v
    <3>1. \A x : x \in M(w) <=> x \in 0 .. W - 1 /\ W - 1 - x \in w
      BY <1>1
    <3>2. M(w) \subseteq Int
      BY <1>1
    <3> HIDE DEF M
    <3>3. \A x : x \in ShiftedLeft(M(w)) <=> x \in 0 .. W - 1 /\ x - 1 \in M(w)
      BY <1>1, <3>2 DEF ShiftedLeft, Bits
    <3>4. \A x : x \in ShiftedLeft(M(w)) <=> x \in 1 .. W - 1 /\ W - x \in w
      BY <1>1, <3>1, <3>3
    <3>5. \A x : x \in M(ShiftedLeft(M(w))) <=> x \in 0 .. W - 2 /\ x + 1 \in w
      <4> DEFINE u == ShiftedLeft(M(w))
      <4> HIDE DEF u
      <4>1. \A x : x \in u <=> x \in 1 .. W - 1 /\ W - x \in w
        BY <3>4 DEF u
      <4>2. \A x : x \in M(u) <=> x \in 0 .. W - 2 /\ x + 1 \in w
        BY <1>1, <4>1 DEF M
      <4> QED BY <4>2 DEF u
    <3>6. \A x : x \in v <=> x \in 0 .. W - 2 /\ x + 1 \in w
      BY <1>1
    <3> HIDE DEF v
    <3> QED BY <3>5, <3>6
  <2>3. W - 1 \in M(w) <=> 0 \in w
    BY <1>1
  <2>4. ASSUME NEW a, a \subseteq 0 .. W - 1, NEW b, b \subseteq 0 .. W - 1
        PROVE  M(XorOf(a, b)) = XorOf(M(a), M(b))
    <3>1. \A n, k \in 0 .. W - 1 : W - 1 - n = W - 1 - k => n = k
      BY <1>1
    <3> QED BY <2>4, <3>1 DEF XorOf
  <2>5. Divided(M(w)) = XorOf(ShiftedLeft(M(w)), IF 0 \in w THEN p ELSE {})
    BY <2>3 DEF Divided
  <2>6. ShiftedLeft(M(w)) \subseteq 0 .. W - 1 /\ (IF 0 \in w THEN p ELSE {}) \subseteq 0 .. W - 1
    BY <1>1 DEF ShiftedLeft, Bits
  <2>7. M(Divided(M(w))) = XorOf(v, M(IF 0 \in w THEN p ELSE {}))
    BY <2>2, <2>4, <2>5, <2>6
  <2>8. M(IF 0 \in w THEN p ELSE {}) = IF 0 \in w THEN M(p) ELSE {}
    OBVIOUS
  <2>9. Step(job, w) = XorOf(v, IF 0 \in w THEN M(p) ELSE {})
    BY <1>3 DEF Step
  <2> QED BY <2>1, <2>7, <2>8, <2>9
<1> QED BY <1>2, <1>3

(* A byte goes through the register. *)

Stepping(q, w, f) == f[0] = w /\ \A n \in 1 .. Byte : f[n] = Step(q, f[n - 1])

StepsOf(q, w) == (CHOOSE f : Stepping(q, w, f))[Byte]

LEMMA SteppingExists ==
  ASSUME NEW q \in Jobs, NEW w \in Words(q)
  PROVE  \E f : /\ Stepping(q, w, f)
                /\ f = [n \in 0 .. Byte |-> f[n]]
                /\ \A n \in 0 .. Byte : f[n] \in Words(q)
<1> DEFINE G == [n \in 1 .. Byte |-> [v \in Words(q) |-> Step(q, v)]]
<1>1. Byte \in Nat
  BY JobType
<1>2. \A n \in 1 .. Byte : \A v \in Words(q) : G[n][v] = Step(q, v) /\ G[n][v] \in Words(q)
  BY StepType
<1> HIDE DEF G
<1>3. PICK f : Iterates(f, w, G, Byte) /\ \A n \in 0 .. Byte : f[n] \in Words(q)
  BY <1>1, <1>2, IteratesExist
<1>4. f[0] = w /\ f = [n \in 0 .. Byte |-> f[n]]
  BY <1>1, <1>3 DEF Iterates
<1>5. ASSUME NEW n \in 1 .. Byte PROVE f[n] = Step(q, f[n - 1])
  <2>1. n \in 0 .. Byte /\ n # 0 /\ n - 1 \in 0 .. Byte
    BY <1>1
  <2>2. f[n] = G[n][f[n - 1]]
    BY <1>3, <2>1 DEF Iterates
  <2> QED BY <1>2, <1>3, <2>1, <2>2
<1> QED BY <1>3, <1>4, <1>5 DEF Stepping

LEMMA SteppingOnce ==
  ASSUME NEW q \in Jobs, NEW w, NEW f, NEW g, Stepping(q, w, f), Stepping(q, w, g)
  PROVE  \A n \in 0 .. Byte : f[n] = g[n]
<1> DEFINE P == {n \in 0 .. Byte : f[n] = g[n]}
<1>1. Byte \in Nat /\ 0 \in 0 .. Byte
  BY JobType
<1>2. 0 \in P
  BY <1>1 DEF Stepping
<1>3. ASSUME NEW n \in 1 .. Byte, n - 1 \in P PROVE n \in P
  <2>1. n \in 0 .. Byte
    OBVIOUS
  <2> QED BY <1>3, <2>1 DEF Stepping
<1> HIDE DEF P
<1>4. \A n \in 0 .. Byte : n \in P
  BY <1>1, <1>2, <1>3, UpTo
<1> QED BY <1>4 DEF P

LEMMA StepsOfIs ==
  ASSUME NEW q \in Jobs, NEW w, NEW f, Stepping(q, w, f)
  PROVE  StepsOf(q, w) = f[Byte]
<1> DEFINE c == CHOOSE g : Stepping(q, w, g)
<1>1. Stepping(q, w, c)
  OBVIOUS
<1>2. Byte \in 0 .. Byte /\ StepsOf(q, w) = c[Byte]
  BY JobType DEF StepsOf
<1> HIDE DEF c
<1> QED BY <1>1, <1>2, SteppingOnce

LEMMA StepsOfType ==
  ASSUME NEW q \in Jobs, NEW w \in Words(q)
  PROVE  StepsOf(q, w) \in Words(q)
<1>1. PICK f : Stepping(q, w, f) /\ \A n \in 0 .. Byte : f[n] \in Words(q)
  BY SteppingExists
<1>2. Byte \in 0 .. Byte
  BY JobType
<1> QED BY <1>1, <1>2, StepsOfIs

LEMMA StepsOfXor ==
  ASSUME NEW q \in Jobs, NEW v \in Words(q), NEW w \in Words(q)
  PROVE  StepsOf(q, XorOf(v, w)) = XorOf(StepsOf(q, v), StepsOf(q, w))
<1>1. PICK f : Stepping(q, v, f) /\ \A n \in 0 .. Byte : f[n] \in Words(q)
  BY SteppingExists
<1>2. PICK g : Stepping(q, w, g) /\ \A n \in 0 .. Byte : g[n] \in Words(q)
  BY SteppingExists
<1> DEFINE h == [n \in 0 .. Byte |-> XorOf(f[n], g[n])]
<1>3. Byte \in Nat /\ 0 \in 0 .. Byte /\ Byte \in 0 .. Byte
  BY JobType
<1>4. h[0] = XorOf(v, w) /\ h[Byte] = XorOf(f[Byte], g[Byte])
  BY <1>1, <1>2, <1>3 DEF Stepping
<1>5. ASSUME NEW n \in 1 .. Byte PROVE h[n] = Step(q, h[n - 1])
  <2>1. n \in 0 .. Byte /\ n - 1 \in 0 .. Byte
    BY <1>3
  <2>2. f[n] = Step(q, f[n - 1]) /\ g[n] = Step(q, g[n - 1])
    BY <1>1, <1>2 DEF Stepping
  <2>3. Step(q, XorOf(f[n - 1], g[n - 1])) = XorOf(Step(q, f[n - 1]), Step(q, g[n - 1]))
    BY <1>1, <1>2, <2>1, StepOfXor
  <2> QED BY <2>1, <2>2, <2>3
<1> HIDE DEF h
<1>6. Stepping(q, XorOf(v, w), h)
  BY <1>4, <1>5 DEF Stepping
<1> QED BY <1>1, <1>2, <1>4, <1>6, StepsOfIs

LEMMA StepsOfNothing == ASSUME NEW q \in Jobs PROVE StepsOf(q, {}) = {}
<1> DEFINE h == [n \in 0 .. Byte |-> {}]
<1>1. Byte \in Nat /\ 0 \in 0 .. Byte /\ Byte \in 0 .. Byte
      /\ \A n \in 1 .. Byte : n \in 0 .. Byte /\ n - 1 \in 0 .. Byte
  BY JobType
<1>2. Stepping(q, {}, h)
  BY <1>1, StepOfNothing DEF Stepping
<1>3. h[Byte] = {}
  BY <1>1
<1> QED BY <1>2, <1>3, StepsOfIs

\* One step more at the beginning is one step more at the end.
LEMMA StepsOfStep ==
  ASSUME NEW q \in Jobs, NEW w \in Words(q)
  PROVE  StepsOf(q, Step(q, w)) = Step(q, StepsOf(q, w))
<1>1. PICK f : Stepping(q, w, f)
  BY SteppingExists
<1> DEFINE h == [n \in 0 .. Byte |-> Step(q, f[n])]
<1>2. Byte \in Nat /\ 0 \in 0 .. Byte /\ Byte \in 0 .. Byte
      /\ \A n \in 1 .. Byte : n \in 0 .. Byte /\ n - 1 \in 0 .. Byte
  BY JobType
<1>3. h[0] = Step(q, w) /\ h[Byte] = Step(q, f[Byte])
  BY <1>1, <1>2 DEF Stepping
<1>4. \A n \in 1 .. Byte : h[n] = Step(q, h[n - 1])
  BY <1>1, <1>2 DEF Stepping
<1> HIDE DEF h
<1>5. Stepping(q, Step(q, w), h)
  BY <1>3, <1>4 DEF Stepping
<1> QED BY <1>1, <1>3, <1>5, StepsOfIs

\* Steps is defined with the recursion in CRCMatrix.
LEMMA StepsIs ==
  ASSUME job \in Jobs, NEW w \in Words(job)
  PROVE  Steps(w) = StepsOf(job, w)
<1> DEFINE D(f) == f = [n \in 0 .. Byte |-> IF n = 0 THEN w ELSE Mirror(Divided(Mirror(f[n - 1])))]
           c == CHOOSE f : D(f)
<1>1. PICK f : /\ Stepping(job, w, f) /\ f = [n \in 0 .. Byte |-> f[n]]
               /\ \A n \in 0 .. Byte : f[n] \in Words(job)
  BY SteppingExists
<1>2. Byte \in Nat /\ 0 \in 0 .. Byte /\ Byte \in 0 .. Byte
      /\ \A n \in 0 .. Byte : n # 0 => n \in 1 .. Byte /\ n - 1 \in 0 .. Byte
  BY JobType
<1>3. ASSUME NEW n \in 0 .. Byte
      PROVE  f[n] = IF n = 0 THEN w ELSE Mirror(Divided(Mirror(f[n - 1])))
  <2>1. CASE n = 0
    BY <1>1, <2>1 DEF Stepping
  <2>2. CASE n # 0
    <3>1. f[n] = Step(job, f[n - 1])
      BY <1>1, <1>2, <2>2 DEF Stepping
    <3>2. Mirror(Divided(Mirror(f[n - 1]))) = Step(job, f[n - 1])
      BY <1>1, <1>2, <2>2, MirroredIs
    <3> QED BY <2>2, <3>1, <3>2
  <2> QED BY <2>1, <2>2
<1>4. D(f)
  BY <1>1, <1>3
<1>5. Steps(w) = c[Byte]
  BY DEF Steps
<1>6. D(c)
  <2> HIDE DEF D
  <2> QED BY <1>4
<1> HIDE DEF c
<1> DEFINE P == {n \in 0 .. Byte : c[n] = f[n]}
<1>7. 0 \in P
  BY <1>2, <1>3, <1>6
<1>8. ASSUME NEW n \in 1 .. Byte, n - 1 \in P PROVE n \in P
  <2>1. n \in 0 .. Byte /\ n # 0
    BY <1>2
  <2>2. c[n] = Mirror(Divided(Mirror(c[n - 1])))
    BY <1>6, <2>1
  <2> QED BY <1>3, <1>8, <2>1, <2>2
<1> HIDE DEF P, D
<1>9. \A n \in 0 .. Byte : n \in P
  BY <1>2, <1>7, <1>8, UpTo
<1>10. c[Byte] = f[Byte]
  BY <1>2, <1>9 DEF P
<1> QED BY <1>1, <1>5, <1>10, StepsOfIs

(* A message goes through it, byte by byte. *)

LEMMA BytePlace ==
  ASSUME NEW B \in Nat \ {0}, NEW i \in Nat, NEW b \in 0 .. B - 1
  PROVE  (i * B + b) \div B = i /\ (i * B + b) % B = b /\ i * B + b \in Nat
<1> DEFINE n == i * B + b
<1>1. i * B \in Nat /\ n \in Nat
  OBVIOUS
<1> DEFINE e == n \div B
           r == n % B
<1>2. e \in Nat /\ r \in 0 .. B - 1 /\ n = e * B + r
  <2> HIDE DEF n
  <2> QED BY <1>1
<1>3. i * B + b = e * B + r
  BY <1>2
<1> HIDE DEF n, e, r
<1>4. ASSUME NEW x \in Nat, NEW y \in Nat, x < y, NEW u \in 0 .. B - 1, NEW v \in 0 .. B - 1,
             x * B + u = y * B + v
      PROVE  FALSE
  <2>1. PICK d \in Nat : y = x + 1 + d
    <3>1. y - x - 1 \in Nat /\ y = x + 1 + (y - x - 1)
      BY <1>4
    <3> QED BY <3>1
  <2>2. y * B = x * B + B + d * B
    BY <2>1
  <2>3. x * B \in Nat /\ d * B \in Nat
    OBVIOUS
  <2> QED BY <1>4, <2>2, <2>3
<1>5. e = i
  <2>1. ~(e < i)
    BY <1>2, <1>3, <1>4
  <2>2. ~(i < e)
    BY <1>2, <1>3, <1>4
  <2> QED BY <1>2, <2>1, <2>2
<1>6. r = b
  BY <1>1, <1>2, <1>3, <1>5
<1> QED BY <1>1, <1>5, <1>6 DEF n, e, r

LEMMA PlaceOfBit ==
  ASSUME NEW B \in Nat \ {0}, NEW n \in Nat
  PROVE  n \div B \in Nat /\ n % B \in 0 .. B - 1 /\ n = (n \div B) * B + (n % B)
OBVIOUS

\* Where the lowest bit of a byte enters the register, and the byte of weight i there.
Low(q) == IF q.reflected THEN 0 ELSE q.sum_bits - Byte

Entered(q, m, i) == {b + Low(q) : b \in {b \in 0 .. Byte - 1 : i * Byte + b \in m}}

LEMMA EnteringIs ==
  ASSUME job \in Jobs, NEW m, m \subseteq Nat, NEW i \in Nat
  PROVE  Entering(m, i) = Entered(job, m, i)
<1>1. Byte \in Nat \ {0} /\ job.sum_bits \in Nat
  BY JobType
<1> DEFINE F == {n - i * Byte : n \in {n \in m : n \div Byte = i}}
           G == {b \in 0 .. Byte - 1 : i * Byte + b \in m}
<1>2. ASSUME NEW n \in m, n \div Byte = i PROVE n - i * Byte \in G
  <2>1. n \in Nat
    BY <1>2
  <2>2. n % Byte \in 0 .. Byte - 1 /\ n = i * Byte + (n % Byte)
    BY <1>1, <1>2, <2>1, PlaceOfBit
  <2>3. i * Byte \in Nat
    BY <1>1
  <2>4. n - i * Byte = n % Byte
    BY <2>2, <2>3
  <2> QED BY <2>2, <2>4
<1>3. ASSUME NEW b \in G PROVE b \in F
  <2> DEFINE n == i * Byte + b
  <2>1. n \in m /\ n \div Byte = i
    BY <1>1, <1>3, BytePlace
  <2>2. b = n - i * Byte
    <3>1. i * Byte \in Nat /\ b \in Nat
      BY <1>1
    <3> QED BY <3>1
  <2> HIDE DEF n
  <2> QED BY <2>1, <2>2
<1>4. F = G
  BY <1>2, <1>3
<1>5. Entering(m, i) = IF job.reflected THEN F ELSE {b + job.sum_bits - Byte : b \in F}
  BY DEF Entering
<1>6. Entered(job, m, i) = {b + Low(job) : b \in G}
  BY DEF Entered
<1>7. G \subseteq Int
  BY <1>1
<1>8. \A b \in Int : b + 0 = b /\ b + job.sum_bits - Byte = b + (job.sum_bits - Byte)
  BY <1>1
<1> HIDE DEF F, G
<1>9. CASE job.reflected
  <2>1. Entered(job, m, i) = {b + 0 : b \in G}
    BY <1>6, <1>9 DEF Low
  <2>2. {b + 0 : b \in G} = G
    BY <1>7, <1>8
  <2> QED BY <1>4, <1>5, <1>9, <2>1, <2>2
<1>10. CASE ~job.reflected
  <2>1. Entered(job, m, i) = {b + (job.sum_bits - Byte) : b \in G}
    BY <1>6, <1>10 DEF Low
  <2>2. {b + job.sum_bits - Byte : b \in G} = {b + (job.sum_bits - Byte) : b \in G}
    BY <1>7, <1>8
  <2> QED BY <1>4, <1>5, <1>10, <2>1, <2>2
<1> QED BY <1>9, <1>10

LEMMA LowIs ==
  ASSUME NEW q \in Jobs
  PROVE  Low(q) \in Nat /\ Low(q) + Byte <= q.sum_bits
BY JobType DEF Low

LEMMA EnteredType ==
  ASSUME NEW q \in Jobs, NEW m, NEW i
  PROVE  Entered(q, m, i) \in Words(q)
BY JobType, LowIs DEF Entered, Words

LEMMA EnteredOfXor ==
  ASSUME NEW q \in Jobs, NEW m, NEW n, NEW i
  PROVE  Entered(q, XorOf(m, n), i) = XorOf(Entered(q, m, i), Entered(q, n, i))
<1> DEFINE In(u) == {b \in 0 .. Byte - 1 : i * Byte + b \in u}
           l == Low(q)
           At(u) == {b + l : b \in u}
<1>1. l \in Nat /\ Byte \in Nat
  BY LowIs, JobType
<1>2. In(XorOf(m, n)) = XorOf(In(m), In(n))
  BY DEF XorOf
<1>3. ASSUME NEW u, NEW v, u \subseteq Int, v \subseteq Int
      PROVE  At(XorOf(u, v)) = XorOf(At(u), At(v))
  <2>1. \A x, y \in Int : x + l = y + l => x = y
    BY <1>1
  <2> HIDE DEF l
  <2> QED BY <1>3, <2>1 DEF XorOf
<1>4. \A u : In(u) \subseteq Int
  BY <1>1
<1>5. \A u : Entered(q, u, i) = At(In(u))
  BY DEF Entered
<1> HIDE DEF In, At
<1> QED BY <1>2, <1>3, <1>4, <1>5

LEMMA EnteredOfNothing == \A q, i : Entered(q, {}, i) = {}
BY DEF Entered

\* The register before the message and after each of its bytes.
Passing(q, start, m, len, r) ==
  /\ r[0] = start
  /\ \A n \in 1 .. len : r[n] = StepsOf(q, XorOf(r[n - 1], Entered(q, m, len - n)))

\* By how much the register of a message differs from that of no message.
Deltas(q, m, len, d) == Passing(q, {}, m, len, d)

Delta(q, m, len) == (CHOOSE d : Deltas(q, m, len, d))[len]

LEMMA MessageExists ==
  ASSUME NEW q \in Jobs, NEW start \in Words(q), NEW m, NEW len \in Nat
  PROVE  \E r : /\ Passing(q, start, m, len, r)
                /\ r = [n \in 0 .. len |-> r[n]]
                /\ \A n \in 0 .. len : r[n] \in Words(q)
<1> DEFINE G == [n \in 1 .. len |->
                   [v \in Words(q) |-> StepsOf(q, XorOf(v, Entered(q, m, len - n)))]]
<1>1. ASSUME NEW n \in 1 .. len, NEW v \in Words(q)
      PROVE  G[n][v] = StepsOf(q, XorOf(v, Entered(q, m, len - n))) /\ G[n][v] \in Words(q)
  BY EnteredType, XorOfType, StepsOfType
<1> HIDE DEF G
<1>2. PICK r : Iterates(r, start, G, len) /\ \A n \in 0 .. len : r[n] \in Words(q)
  BY <1>1, IteratesExist
<1>3. r[0] = start /\ r = [n \in 0 .. len |-> r[n]]
  BY <1>2 DEF Iterates
<1>4. ASSUME NEW n \in 1 .. len
      PROVE  r[n] = StepsOf(q, XorOf(r[n - 1], Entered(q, m, len - n)))
  <2>1. n \in 0 .. len /\ n # 0 /\ n - 1 \in 0 .. len
    OBVIOUS
  <2>2. r[n] = G[n][r[n - 1]]
    BY <1>2, <2>1 DEF Iterates
  <2> QED BY <1>1, <1>2, <2>1, <2>2
<1> QED BY <1>2, <1>3, <1>4 DEF Passing

LEMMA PassingOnce ==
  ASSUME NEW q, NEW start, NEW m, NEW len \in Nat, NEW c, NEW d,
         Passing(q, start, m, len, c), Passing(q, start, m, len, d)
  PROVE  c[len] = d[len]
<1>1. len \in 0 .. len /\ 0 \in 0 .. len
  OBVIOUS
<1> DEFINE P == {n \in 0 .. len : c[n] = d[n]}
<1>2. 0 \in P
  BY <1>1 DEF Passing
<1>3. ASSUME NEW n \in 1 .. len, n - 1 \in P PROVE n \in P
  BY <1>3 DEF Passing
<1> HIDE DEF P
<1>4. \A n \in 0 .. len : n \in P
  BY <1>2, <1>3, UpTo
<1> QED BY <1>1, <1>4 DEF P

LEMMA DeltaIs ==
  ASSUME NEW q, NEW m, NEW len \in Nat, NEW d, Deltas(q, m, len, d)
  PROVE  Delta(q, m, len) = d[len]
<1> DEFINE c == CHOOSE e : Deltas(q, m, len, e)
<1>1. Deltas(q, m, len, c)
  OBVIOUS
<1>2. Delta(q, m, len) = c[len]
  BY DEF Delta
<1> HIDE DEF c
<1> QED BY <1>1, <1>2, PassingOnce DEF Deltas

LEMMA DeltasExist ==
  ASSUME NEW q \in Jobs, NEW m, NEW len \in Nat
  PROVE  \E d : Deltas(q, m, len, d) /\ \A n \in 0 .. len : d[n] \in Words(q)
<1>1. {} \in Words(q)
  BY DEF Words
<1> QED BY <1>1, MessageExists DEF Deltas

LEMMA DeltaType ==
  ASSUME NEW q \in Jobs, NEW m, NEW len \in Nat
  PROVE  Delta(q, m, len) \in Words(q)
<1>1. PICK d : Deltas(q, m, len, d) /\ \A n \in 0 .. len : d[n] \in Words(q)
  BY DeltasExist
<1>2. len \in 0 .. len
  OBVIOUS
<1> QED BY <1>1, <1>2, DeltaIs
LEMMA DeltaOfNothing == ASSUME NEW q \in Jobs, NEW len \in Nat PROVE Delta(q, {}, len) = {}
<1> DEFINE d == [n \in 0 .. len |-> {}]
<1>1. len \in 0 .. len /\ 0 \in 0 .. len
      /\ \A n \in 1 .. len : n \in 0 .. len /\ n - 1 \in 0 .. len
  OBVIOUS
<1>2. Deltas(q, {}, len, d)
  BY <1>1, StepsOfNothing, EnteredOfNothing, XorOfUndoes DEF Deltas, Passing
<1>3. d[len] = {}
  BY <1>1
<1> QED BY <1>2, <1>3, DeltaIs

LEMMA DeltaOfXor ==
  ASSUME NEW q \in Jobs, NEW m, NEW k, NEW len \in Nat
  PROVE  Delta(q, XorOf(m, k), len) = XorOf(Delta(q, m, len), Delta(q, k, len))
<1>1. PICK d : Deltas(q, m, len, d) /\ \A n \in 0 .. len : d[n] \in Words(q)
  BY DeltasExist
<1>2. PICK e : Deltas(q, k, len, e) /\ \A n \in 0 .. len : e[n] \in Words(q)
  BY DeltasExist
<1> DEFINE f == [n \in 0 .. len |-> XorOf(d[n], e[n])]
<1>3. len \in 0 .. len /\ 0 \in 0 .. len
      /\ \A n \in 1 .. len : n \in 0 .. len /\ n - 1 \in 0 .. len
  OBVIOUS
<1>4. f[0] = {} /\ f[len] = XorOf(d[len], e[len])
  BY <1>1, <1>2, <1>3, XorOfUndoes DEF Deltas, Passing
<1>5. ASSUME NEW n \in 1 .. len
      PROVE  f[n] = StepsOf(q, XorOf(f[n - 1], Entered(q, XorOf(m, k), len - n)))
  <2> DEFINE a == Entered(q, m, len - n)
             b == Entered(q, k, len - n)
  <2>1. a \in Words(q) /\ b \in Words(q) /\ Entered(q, XorOf(m, k), len - n) = XorOf(a, b)
    BY EnteredType, EnteredOfXor
  <2>2. d[n] = StepsOf(q, XorOf(d[n - 1], a)) /\ e[n] = StepsOf(q, XorOf(e[n - 1], b))
    BY <1>1, <1>2 DEF Deltas, Passing
  <2>3. f[n] = XorOf(d[n], e[n]) /\ f[n - 1] = XorOf(d[n - 1], e[n - 1])
        /\ d[n - 1] \in Words(q) /\ e[n - 1] \in Words(q)
    BY <1>1, <1>2, <1>3
  <2> HIDE DEF a, b, f
  <2>4. XorOf(d[n - 1], a) \in Words(q) /\ XorOf(e[n - 1], b) \in Words(q)
    BY <2>1, <2>3, XorOfType
  <2>5. f[n] = StepsOf(q, XorOf(XorOf(d[n - 1], a), XorOf(e[n - 1], b)))
    BY <2>2, <2>3, <2>4, StepsOfXor
  <2>6. XorOf(XorOf(d[n - 1], a), XorOf(e[n - 1], b)) = XorOf(XorOf(d[n - 1], e[n - 1]), XorOf(a, b))
    BY DEF XorOf
  <2> QED BY <2>1, <2>3, <2>5, <2>6
<1> HIDE DEF f
<1>6. Deltas(q, XorOf(m, k), len, f)
  BY <1>4, <1>5 DEF Deltas, Passing
<1> QED BY <1>1, <1>2, <1>4, <1>6, DeltaIs

\* crc is defined with the recursion in CRCMatrix.
LEMMA CrcIsRegister ==
  ASSUME job \in Jobs, NEW m, m \subseteq Nat, NEW len \in Nat
  PROVE  \E r : /\ Passing(job, XorOf(job.init, job.xor_out), m, len, r) /\ \A n \in 0 .. len : r[n] \in Words(job)
                /\ crc(m, len) = XorOf(job.xor_out, r[len])
<1> DEFINE start == XorOf(job.init, job.xor_out)
           D(f) == f = [n \in 0 .. len |-> IF n = 0 THEN XorOf(job.init, job.xor_out)
                                           ELSE Steps(XorOf(f[n - 1], Entering(m, len - n)))]
           c == CHOOSE f : D(f)
<1>1. start \in Words(job)
  BY JobType, XorOfType
<1>2. PICK r : /\ Passing(job, start, m, len, r)
               /\ r = [n \in 0 .. len |-> r[n]]
               /\ \A n \in 0 .. len : r[n] \in Words(job)
  <2> HIDE DEF start
  <2> QED BY <1>1, MessageExists
<1>3. /\ 0 \in 0 .. len /\ len \in 0 .. len
      /\ \A n \in 0 .. len : n # 0 => n \in 1 .. len /\ n - 1 \in 0 .. len /\ len - n \in Nat
  OBVIOUS
<1>4. ASSUME NEW n \in 0 .. len
      PROVE  r[n] = IF n = 0 THEN start ELSE Steps(XorOf(r[n - 1], Entering(m, len - n)))
  <2>1. CASE n = 0
    BY <1>2, <2>1 DEF Passing
  <2>2. CASE n # 0
    <3>1. n \in 1 .. len /\ len - n \in Nat /\ r[n - 1] \in Words(job)
      BY <1>2, <1>3, <2>2
    <3>2. Entering(m, len - n) = Entered(job, m, len - n)
      BY <3>1, EnteringIs
    <3>3. XorOf(r[n - 1], Entered(job, m, len - n)) \in Words(job)
      BY <3>1, EnteredType, XorOfType
    <3>4. Steps(XorOf(r[n - 1], Entering(m, len - n)))
            = StepsOf(job, XorOf(r[n - 1], Entered(job, m, len - n)))
      BY <3>2, <3>3, StepsIs
    <3>5. r[n] = StepsOf(job, XorOf(r[n - 1], Entered(job, m, len - n)))
      BY <1>2, <3>1 DEF Passing
    <3> QED BY <2>2, <3>4, <3>5
  <2> QED BY <2>1, <2>2
<1>5. D(r)
  BY <1>2, <1>4
<1>6. crc(m, len) = XorOf(job.xor_out, c[len])
  BY DEF crc
<1>7. D(c)
  <2> HIDE DEF D
  <2> QED BY <1>5
<1> HIDE DEF c
<1> DEFINE P == {n \in 0 .. len : c[n] = r[n]}
<1>8. 0 \in P
  BY <1>2, <1>3, <1>7 DEF Passing
<1>9. ASSUME NEW n \in 1 .. len, n - 1 \in P PROVE n \in P
  <2>1. n \in 0 .. len /\ n # 0
    BY <1>3
  <2>2. c[n] = Steps(XorOf(c[n - 1], Entering(m, len - n)))
    BY <1>7, <2>1
  <2> QED BY <1>4, <1>9, <2>1, <2>2
<1> HIDE DEF P, D
<1>10. \A n \in 0 .. len : n \in P
  BY <1>3, <1>8, <1>9, UpTo
<1>11. c[len] = r[len]
  BY <1>3, <1>10 DEF P
<1> QED BY <1>2, <1>6, <1>11 DEF Passing

\* What a message adds to the checksum of as many zeros.
LEMMA CrcIs ==
  ASSUME job \in Jobs, NEW m, m \subseteq Nat, NEW len \in Nat
  PROVE  crc(m, len) = XorOf(crc({}, len), Delta(job, m, len)) /\ crc(m, len) \in Words(job)
<1>1. PICK r : /\ Passing(job, XorOf(job.init, job.xor_out), m, len, r) /\ \A n \in 0 .. len : r[n] \in Words(job)
               /\ crc(m, len) = XorOf(job.xor_out, r[len])
  BY CrcIsRegister
<1>2. PICK z : /\ Passing(job, XorOf(job.init, job.xor_out), {}, len, z) /\ \A n \in 0 .. len : z[n] \in Words(job)
               /\ crc({}, len) = XorOf(job.xor_out, z[len])
  BY CrcIsRegister
<1> DEFINE d == [n \in 0 .. len |-> XorOf(r[n], z[n])]
<1>3. len \in 0 .. len /\ 0 \in 0 .. len
      /\ \A n \in 1 .. len : n \in 0 .. len /\ n - 1 \in 0 .. len
  OBVIOUS
<1>4. d[0] = {} /\ d[len] = XorOf(r[len], z[len])
  BY <1>1, <1>2, <1>3, XorOfUndoes DEF Passing
<1>5. ASSUME NEW n \in 1 .. len
      PROVE  d[n] = StepsOf(job, XorOf(d[n - 1], Entered(job, m, len - n)))
  <2> DEFINE a == Entered(job, m, len - n)
  <2>1. a \in Words(job) /\ Entered(job, {}, len - n) = {}
    BY EnteredType, EnteredOfNothing
  <2>2. r[n] = StepsOf(job, XorOf(r[n - 1], a)) /\ z[n] = StepsOf(job, z[n - 1])
    <3>1. r[n] = StepsOf(job, XorOf(r[n - 1], a))
      BY <1>1 DEF Passing
    <3>2. z[n] = StepsOf(job, XorOf(z[n - 1], Entered(job, {}, len - n)))
      BY <1>2 DEF Passing
    <3>3. XorOf(z[n - 1], {}) = z[n - 1]
      BY XorOfUndoes
    <3> HIDE DEF a
    <3> QED BY <2>1, <3>1, <3>2, <3>3
  <2>3. d[n] = XorOf(r[n], z[n]) /\ d[n - 1] = XorOf(r[n - 1], z[n - 1])
        /\ r[n - 1] \in Words(job) /\ z[n - 1] \in Words(job)
    BY <1>1, <1>2, <1>3
  <2> HIDE DEF a, d
  <2>4. XorOf(r[n - 1], a) \in Words(job)
    BY <2>1, <2>3, XorOfType
  <2>5. d[n] = StepsOf(job, XorOf(XorOf(r[n - 1], a), z[n - 1]))
    BY <2>2, <2>3, <2>4, StepsOfXor
  <2>6. XorOf(XorOf(r[n - 1], a), z[n - 1]) = XorOf(XorOf(r[n - 1], z[n - 1]), a)
    BY DEF XorOf
  <2> QED BY <2>3, <2>5, <2>6 DEF a
<1> HIDE DEF d
<1>6. Deltas(job, m, len, d)
  BY <1>4, <1>5 DEF Deltas, Passing
<1>7. Delta(job, m, len) = XorOf(r[len], z[len])
  BY <1>4, <1>6, DeltaIs
<1>8. XorOf(job.xor_out, r[len]) = XorOf(XorOf(job.xor_out, z[len]), XorOf(r[len], z[len]))
  BY DEF XorOf
<1>9. r[len] \in Words(job) /\ job.xor_out \in Words(job)
  BY <1>1, <1>3, JobType
<1> QED BY <1>1, <1>2, <1>7, <1>8, <1>9, XorOfType
(* Each column is one step from the one before it. *)

LEMMA StepOfBit ==
  ASSUME NEW q \in Jobs, NEW x \in 0 .. q.sum_bits - 1
  PROVE  /\ q.reflected /\ x # 0 => Step(q, {x}) = {x - 1}
         /\ ~q.reflected /\ x # q.sum_bits - 1 => Step(q, {x}) = {x + 1}
<1>1. q.sum_bits \in Nat
  BY JobType
<1>2. ASSUME q.reflected, x # 0 PROVE Step(q, {x}) = {x - 1}
  <2>1. {b - 1 : b \in {x} \ {0}} = {x - 1} /\ 0 \notin {x}
    BY <1>2
  <2>2. Step(q, {x}) = XorOf({b - 1 : b \in {x} \ {0}}, {})
    BY <1>2, <2>1 DEF Step
  <2> QED BY <2>1, <2>2, XorOfUndoes
<1>3. ASSUME ~q.reflected, x # q.sum_bits - 1 PROVE Step(q, {x}) = {x + 1}
  <2>1. {b + 1 : b \in {x}} \intersect 0 .. q.sum_bits - 1 = {x + 1} /\ q.sum_bits - 1 \notin {x}
    BY <1>1, <1>3
  <2>2. Step(q, {x}) = XorOf({b + 1 : b \in {x}} \intersect 0 .. q.sum_bits - 1, {})
    BY <1>3, <2>1 DEF Step
  <2> QED BY <2>1, <2>2, XorOfUndoes
<1> QED BY <1>2, <1>3

\* The bits of a byte where the first and the last of its columns enter.
FirstBit(q) == IF q.reflected THEN Byte - 1 ELSE q.sum_bits - Byte
LastBit(q)  == IF q.reflected THEN 0 ELSE q.sum_bits - 1

LEMMA StepsOfFirst ==
  ASSUME NEW q \in Jobs
  PROVE  StepsOf(q, {FirstBit(q)}) = Step(q, {LastBit(q)})
<1> DEFINE W == q.sum_bits
           bit(n) == IF q.reflected THEN Byte - 1 - n ELSE W - Byte + n
           h == [n \in 0 .. Byte |-> IF n = Byte THEN Step(q, {LastBit(q)}) ELSE {bit(n)}]
<1>1. Byte \in Nat \ {0} /\ W \in Nat /\ Byte <= W
  BY JobType
<1>2. 0 \in 0 .. Byte /\ Byte \in 0 .. Byte /\ 0 # Byte
  BY <1>1
<1>3. h[0] = {FirstBit(q)}
  <2>1. bit(0) = FirstBit(q)
    BY <1>1 DEF FirstBit
  <2> QED BY <1>2, <2>1
<1>4. bit(Byte - 1) = LastBit(q)
  BY <1>1 DEF LastBit
<1>5. ASSUME NEW n \in 1 .. Byte PROVE h[n] = Step(q, h[n - 1])
  <2>1. n \in 0 .. Byte /\ n - 1 \in 0 .. Byte /\ n - 1 # Byte
    BY <1>1
  <2>2. h[n - 1] = {bit(n - 1)}
    BY <2>1
  <2>3. CASE n = Byte
    <3>1. h[n] = Step(q, {LastBit(q)})
      BY <1>2, <2>3
    <3> HIDE DEF h, bit
    <3> QED BY <1>4, <2>2, <2>3, <3>1
  <2>4. CASE n # Byte
    <3>1. h[n] = {bit(n)}
      BY <2>1, <2>4
    <3> DEFINE x == bit(n - 1)
    <3>2. x \in 0 .. W - 1
      BY <1>1, <2>1, <2>4
    <3>3. q.reflected => x # 0 /\ bit(n) = x - 1
      BY <1>1, <2>1, <2>4
    <3>4. ~q.reflected => x # W - 1 /\ bit(n) = x + 1
      BY <1>1, <2>1, <2>4
    <3> HIDE DEF h, bit, x
    <3>5. Step(q, {x}) = {bit(n)}
      BY <3>2, <3>3, <3>4, StepOfBit
    <3> QED BY <2>2, <3>1, <3>5 DEF x
  <2> QED BY <2>3, <2>4
<1>6. h[Byte] = Step(q, {LastBit(q)})
  BY <1>2
<1> HIDE DEF h
<1>7. Stepping(q, {FirstBit(q)}, h)
  BY <1>3, <1>5 DEF Stepping
<1> QED BY <1>6, <1>7, StepsOfIs

LEMMA EnteredBit ==
  ASSUME NEW q \in Jobs, NEW i \in Nat, NEW b \in 0 .. Byte - 1, NEW j \in Nat
  PROVE  Entered(q, {i * Byte + b}, j) = IF j = i THEN {b + Low(q)} ELSE {}
<1>1. Byte \in Nat \ {0}
  BY JobType
<1>2. \A c \in 0 .. Byte - 1 : j * Byte + c = i * Byte + b => j = i /\ c = b
  <2> SUFFICES ASSUME NEW c \in 0 .. Byte - 1, j * Byte + c = i * Byte + b PROVE j = i /\ c = b
    OBVIOUS
  <2>1. (j * Byte + c) \div Byte = j /\ (j * Byte + c) % Byte = c
    BY <1>1, BytePlace
  <2>2. (i * Byte + b) \div Byte = i /\ (i * Byte + b) % Byte = b
    BY <1>1, BytePlace
  <2> QED BY <2>1, <2>2
<1>3. CASE j = i
  <2>1. {c \in 0 .. Byte - 1 : j * Byte + c \in {i * Byte + b}} = {b}
    BY <1>2, <1>3
  <2> QED BY <1>3, <2>1 DEF Entered
<1>4. CASE j # i
  <2>1. {c \in 0 .. Byte - 1 : j * Byte + c \in {i * Byte + b}} = {}
    BY <1>2, <1>4
  <2> QED BY <1>4, <2>1 DEF Entered
<1> QED BY <1>3, <1>4

LEMMA DeltaWithinByte ==
  ASSUME NEW q \in Jobs, NEW len \in Nat, NEW i \in Nat,
         NEW b \in 0 .. Byte - 1, NEW c \in 0 .. Byte - 1, {c + Low(q)} = Step(q, {b + Low(q)})
  PROVE  Delta(q, {i * Byte + c}, len) = Step(q, Delta(q, {i * Byte + b}, len))
<1> DEFINE n == i * Byte + b
           k == i * Byte + c
<1>1. PICK d : Deltas(q, {n}, len, d) /\ \A x \in 0 .. len : d[x] \in Words(q)
  BY DeltasExist
<1> DEFINE e == [x \in 0 .. len |-> Step(q, d[x])]
<1>2. len \in 0 .. len /\ 0 \in 0 .. len
      /\ \A x \in 1 .. len : x \in 0 .. len /\ x - 1 \in 0 .. len /\ len - x \in Nat
  OBVIOUS
<1>3. e[0] = {} /\ e[len] = Step(q, d[len])
  BY <1>1, <1>2, StepOfNothing DEF Deltas, Passing
<1>4. ASSUME NEW x \in 1 .. len
      PROVE  e[x] = StepsOf(q, XorOf(e[x - 1], Entered(q, {k}, len - x)))
  <2> DEFINE a == Entered(q, {n}, len - x)
  <2>1. Entered(q, {k}, len - x) = Step(q, a)
    <3>1. Entered(q, {k}, len - x) = IF len - x = i THEN {c + Low(q)} ELSE {}
      BY <1>2, EnteredBit
    <3>2. a = IF len - x = i THEN {b + Low(q)} ELSE {}
      BY <1>2, EnteredBit
    <3> HIDE DEF a, n, k
    <3> QED BY <3>1, <3>2, StepOfNothing
  <2>2. d[x] = StepsOf(q, XorOf(d[x - 1], a))
    BY <1>1 DEF Deltas, Passing
  <2>3. a \in Words(q) /\ d[x - 1] \in Words(q)
    BY <1>1, <1>2, EnteredType
  <2>4. e[x] = Step(q, d[x]) /\ e[x - 1] = Step(q, d[x - 1])
    BY <1>2
  <2> HIDE DEF a, e, k
  <2>5. XorOf(Step(q, d[x - 1]), Step(q, a)) = Step(q, XorOf(d[x - 1], a))
    BY <2>3, StepOfXor
  <2>6. StepsOf(q, Step(q, XorOf(d[x - 1], a))) = Step(q, StepsOf(q, XorOf(d[x - 1], a)))
    BY <2>3, XorOfType, StepsOfStep
  <2> QED BY <2>1, <2>2, <2>4, <2>5, <2>6
<1> HIDE DEF e, n, k
<1>5. Deltas(q, {k}, len, e)
  BY <1>3, <1>4 DEF Deltas, Passing
<1>6. Delta(q, {k}, len) = Step(q, Delta(q, {n}, len))
  BY <1>1, <1>3, <1>5, DeltaIs
<1> QED BY <1>6 DEF n, k

LEMMA DeltaOfNextByte ==
  ASSUME NEW q \in Jobs, NEW len \in Nat, NEW i \in Nat, i + 1 < len,
         NEW b \in 0 .. Byte - 1, NEW c \in 0 .. Byte - 1,
         b + Low(q) = LastBit(q), c + Low(q) = FirstBit(q)
  PROVE  Delta(q, {(i + 1) * Byte + c}, len) = Step(q, Delta(q, {i * Byte + b}, len))
<1> DEFINE n == i * Byte + b
           k == (i + 1) * Byte + c
           top == len - (i + 1)
<1>1. PICK d : Deltas(q, {n}, len, d) /\ \A x \in 0 .. len : d[x] \in Words(q)
  BY DeltasExist
<1>2. /\ len \in 0 .. len /\ 0 \in 0 .. len /\ top \in 1 .. len - 1 /\ i + 1 \in Nat /\ i # i + 1
      /\ \A x \in 1 .. len : x \in 0 .. len /\ x - 1 \in 0 .. len /\ len - x \in Nat
      /\ \A x \in 1 .. len : (len - x = i <=> x = top + 1) /\ (len - x = i + 1 <=> x = top)
  OBVIOUS
<1>3. ASSUME NEW x \in 1 .. len
      PROVE  Entered(q, {n}, len - x) = IF x = top + 1 THEN {LastBit(q)} ELSE {}
  <2> DEFINE j == len - x
  <2>1. j \in Nat /\ (j = i <=> x = top + 1)
    BY <1>2
  <2> HIDE DEF j, top
  <2>2. Entered(q, {n}, j) = IF j = i THEN {b + Low(q)} ELSE {}
    BY <2>1, EnteredBit
  <2> QED BY <2>1, <2>2 DEF j
<1>4. ASSUME NEW x \in 1 .. len
      PROVE  Entered(q, {k}, len - x) = IF x = top THEN {FirstBit(q)} ELSE {}
  <2>1. len - x \in Nat /\ (len - x = i + 1 <=> x = top)
    BY <1>2
  <2>2. Entered(q, {k}, len - x) = IF len - x = i + 1 THEN {c + Low(q)} ELSE {}
    BY <1>2, <2>1, EnteredBit
  <2> QED BY <2>1, <2>2
<1>5. \A x \in 1 .. len : d[x] = StepsOf(q, XorOf(d[x - 1], Entered(q, {n}, len - x)))
  BY <1>1 DEF Deltas, Passing
<1>6. d[0] = {}
  BY <1>1 DEF Deltas, Passing
<1> HIDE DEF n, k, top
<1>7. \A x \in 0 .. top : d[x] = {}
  <2> DEFINE P == {x \in 0 .. top : d[x] = {}}
  <2>1. top \in Nat /\ 0 \in P
    BY <1>2, <1>6
  <2>2. ASSUME NEW x \in 1 .. top, x - 1 \in P PROVE x \in P
    <3>1. x \in 1 .. len /\ x # top + 1 /\ x \in 0 .. top
      BY <1>2
    <3>2. d[x] = StepsOf(q, XorOf({}, {}))
      BY <1>3, <1>5, <2>2, <3>1
    <3> QED BY <3>1, <3>2, XorOfUndoes, StepsOfNothing
  <2> HIDE DEF P
  <2>3. \A x \in 0 .. top : x \in P
    BY <2>1, <2>2, UpTo
  <2> QED BY <2>3 DEF P
<1> DEFINE e == [x \in 0 .. len |-> IF x = top THEN Step(q, {LastBit(q)}) ELSE Step(q, d[x])]
<1>8. e[0] = {} /\ e[len] = Step(q, d[len])
  BY <1>2, <1>6, StepOfNothing
<1>9. ASSUME NEW x \in 1 .. len
      PROVE  e[x] = StepsOf(q, XorOf(e[x - 1], Entered(q, {k}, len - x)))
  <2>1. x \in 0 .. len /\ x - 1 \in 0 .. len /\ d[x - 1] \in Words(q)
    BY <1>1, <1>2
  <2>2. CASE x < top
    <3>1. x # top /\ x - 1 # top /\ x \in 0 .. top /\ x - 1 \in 0 .. top
      BY <1>2, <2>2
    <3>2. e[x] = {} /\ e[x - 1] = {}
      BY <1>7, <2>1, <3>1, StepOfNothing
    <3>3. Entered(q, {k}, len - x) = {}
      BY <1>4, <3>1
    <3> HIDE DEF e
    <3> QED BY <3>2, <3>3, XorOfUndoes, StepsOfNothing
  <2>3. CASE x = top
    <3>1. x - 1 # top /\ x - 1 \in 0 .. top
      BY <1>2, <2>3
    <3>2. e[x - 1] = {} /\ e[x] = Step(q, {LastBit(q)})
      BY <1>7, <2>1, <2>3, <3>1, StepOfNothing
    <3>3. Entered(q, {k}, len - x) = {FirstBit(q)}
      BY <1>4, <2>3
    <3> HIDE DEF e
    <3> QED BY <3>2, <3>3, XorOfUndoes, StepsOfFirst
  <2>4. CASE x = top + 1
    <3>1. x # top /\ x - 1 = top /\ top \in 0 .. top
      BY <1>2, <2>4
    <3>2. e[x - 1] = Step(q, {LastBit(q)}) /\ e[x] = Step(q, d[x])
      BY <2>1, <3>1
    <3>3. Entered(q, {k}, len - x) = {} /\ Entered(q, {n}, len - x) = {LastBit(q)}
      BY <1>3, <1>4, <2>4, <3>1
    <3>4. d[x] = StepsOf(q, {LastBit(q)})
      BY <1>5, <1>7, <3>1, <3>3, XorOfUndoes
    <3>5. {LastBit(q)} \in Words(q)
      BY <3>3, EnteredType
    <3>6. e[x] = StepsOf(q, Step(q, {LastBit(q)}))
      BY <3>2, <3>4, <3>5, StepsOfStep
    <3>7. XorOf(e[x - 1], Entered(q, {k}, len - x)) = Step(q, {LastBit(q)})
      <4> HIDE DEF e
      <4> QED BY <3>2, <3>3, XorOfUndoes
    <3> HIDE DEF e
    <3> QED BY <3>6, <3>7
  <2>5. CASE x > top + 1
    <3>1. x # top /\ x - 1 # top /\ x # top + 1
      BY <1>2, <2>5
    <3>2. e[x - 1] = Step(q, d[x - 1]) /\ e[x] = Step(q, d[x])
      BY <2>1, <3>1
    <3>3. Entered(q, {k}, len - x) = {} /\ Entered(q, {n}, len - x) = {}
      BY <1>3, <1>4, <3>1
    <3>4. d[x] = StepsOf(q, d[x - 1])
      BY <1>5, <3>3, XorOfUndoes
    <3>5. e[x] = StepsOf(q, Step(q, d[x - 1]))
      BY <2>1, <3>2, <3>4, StepsOfStep
    <3>6. XorOf(e[x - 1], Entered(q, {k}, len - x)) = Step(q, d[x - 1])
      <4> HIDE DEF e
      <4> QED BY <3>2, <3>3, XorOfUndoes
    <3> HIDE DEF e
    <3> QED BY <3>5, <3>6
  <2>6. x < top \/ x = top \/ x = top + 1 \/ x > top + 1
    BY <1>2
  <2> QED BY <2>2, <2>3, <2>4, <2>5, <2>6
<1> HIDE DEF e
<1>10. Deltas(q, {k}, len, e)
  BY <1>8, <1>9 DEF Deltas, Passing
<1>11. Delta(q, {k}, len) = Step(q, Delta(q, {n}, len))
  BY <1>1, <1>8, <1>10, DeltaIs
<1> QED BY <1>11 DEF n, k

(* The order of the columns: with reflection they go down in each byte. *)

Turned(q, b) == IF q.reflected THEN Byte - 1 - b ELSE b

ColumnAt(q, p) == (p \div Byte) * Byte + Turned(q, p % Byte)

LEMMA PlaceIs ==
  ASSUME NEW q \in Jobs, NEW i \in Nat, NEW b \in 0 .. Byte - 1
  PROVE  /\ ColumnAt(q, i * Byte + b) = i * Byte + Turned(q, b)
         /\ Turned(q, b) \in 0 .. Byte - 1 /\ Turned(q, Turned(q, b)) = b
<1>1. Byte \in Nat \ {0}
  BY JobType
<1>2. (i * Byte + b) \div Byte = i /\ (i * Byte + b) % Byte = b
  BY <1>1, BytePlace
<1>3. Turned(q, b) \in 0 .. Byte - 1 /\ Turned(q, Turned(q, b)) = b
  BY <1>1 DEF Turned
<1> QED BY <1>2, <1>3 DEF ColumnAt

LEMMA PlaceTwice ==
  ASSUME NEW q \in Jobs, NEW p \in Nat
  PROVE  /\ ColumnAt(q, p) \in Nat /\ ColumnAt(q, ColumnAt(q, p)) = p
         /\ \A len \in Nat : p < len * Byte => ColumnAt(q, p) < len * Byte
<1>1. Byte \in Nat \ {0}
  BY JobType
<1> DEFINE i == p \div Byte
           b == p % Byte
           c == Turned(q, b)
<1>2. i \in Nat /\ b \in 0 .. Byte - 1 /\ p = i * Byte + b
  BY <1>1, PlaceOfBit
<1> HIDE DEF i, b
<1>3. ColumnAt(q, p) = i * Byte + c /\ c \in 0 .. Byte - 1 /\ Turned(q, c) = b
  BY <1>2, PlaceIs
<1> HIDE DEF c
<1>4. ColumnAt(q, ColumnAt(q, p)) = p
  BY <1>2, <1>3, PlaceIs
<1>5. i * Byte \in Nat
  BY <1>1, <1>2
<1>6. ASSUME NEW len \in Nat, p < len * Byte PROVE ColumnAt(q, p) < len * Byte
  <2>1. p \in 0 .. len * Byte - 1
    <3>1. len * Byte \in Nat
      BY <1>1
    <3> QED BY <1>6, <3>1
  <2>2. i \in 0 .. len - 1
    BY <1>1, <2>1, BitOfByte DEF i
  <2>3. PICK d \in Nat : len = i + 1 + d
    <3>1. len - i - 1 \in Nat /\ len = i + 1 + (len - i - 1)
      BY <2>2
    <3> QED BY <3>1
  <2>4. len * Byte = i * Byte + Byte + d * Byte
    BY <1>1, <1>2, <2>3
  <2>5. d * Byte \in Nat
    BY <1>1
  <2> QED BY <1>1, <1>3, <1>5, <2>4, <2>5
<1>7. ColumnAt(q, p) \in Nat
  BY <1>1, <1>3, <1>5
<1> QED BY <1>4, <1>6, <1>7

\* The place after p: in the same byte, or the first of the next one.
LEMMA NextPlace ==
  ASSUME NEW q \in Jobs, NEW p \in Nat
  PROVE  \E i \in Nat, b \in 0 .. Byte - 1 :
           /\ p = i * Byte + b
           /\ b < Byte - 1 => b + 1 \in 0 .. Byte - 1 /\ p + 1 = i * Byte + (b + 1)
           /\ b = Byte - 1 => p + 1 = (i + 1) * Byte + 0
<1>1. Byte \in Nat \ {0}
  BY JobType
<1> DEFINE i == p \div Byte
           b == p % Byte
<1>2. i \in Nat /\ b \in 0 .. Byte - 1 /\ p = i * Byte + b
  BY <1>1, PlaceOfBit
<1> HIDE DEF i, b
<1>3. i * Byte \in Nat /\ (i + 1) * Byte = i * Byte + Byte
  BY <1>1, <1>2
<1>4. b < Byte - 1 => b + 1 \in 0 .. Byte - 1 /\ p + 1 = i * Byte + (b + 1)
  BY <1>1, <1>2, <1>3
<1>5. b = Byte - 1 => p + 1 = (i + 1) * Byte + 0
  BY <1>1, <1>2, <1>3
<1> QED BY <1>2, <1>4, <1>5

LEMMA ColumnAfterIs ==
  ASSUME job \in Jobs, NEW p \in Nat
  PROVE  ColumnAfter(ColumnAt(job, p)) = ColumnAt(job, p + 1)
<1>1. Byte \in Nat \ {0}
  BY JobType
<1>2. PICK i \in Nat, b \in 0 .. Byte - 1 :
           /\ p = i * Byte + b
           /\ b < Byte - 1 => b + 1 \in 0 .. Byte - 1 /\ p + 1 = i * Byte + (b + 1)
           /\ b = Byte - 1 => p + 1 = (i + 1) * Byte + 0
  BY NextPlace
<1> DEFINE n == ColumnAt(job, p)
           c == Turned(job, b)
           w == i * Byte
<1>3. n = w + c /\ c \in 0 .. Byte - 1
  BY <1>2, PlaceIs
<1>4. n % Byte = c
  BY <1>1, <1>3, BytePlace
<1>5. w \in Nat /\ (i + 1) * Byte = w + Byte
  BY <1>1
<1>6. CASE b < Byte - 1
  <2>1. ColumnAt(job, p + 1) = w + Turned(job, b + 1)
    BY <1>2, <1>6, PlaceIs
  <2> HIDE DEF n, w
  <2>2. CASE job.reflected
    <3>1. c = Byte - 1 - b /\ Turned(job, b + 1) = Byte - 1 - (b + 1)
      BY <2>2 DEF Turned
    <3>2. n % Byte > 0
      BY <1>1, <1>4, <1>6, <3>1
    <3>3. ColumnAfter(n) = n - 1
      BY <2>2, <3>2 DEF ColumnAfter
    <3> HIDE DEF c
    <3> QED BY <1>1, <1>3, <1>5, <2>1, <3>1, <3>3 DEF n
  <2>3. CASE ~job.reflected
    <3>1. c = b /\ Turned(job, b + 1) = b + 1
      BY <2>3 DEF Turned
    <3>2. ColumnAfter(n) = n + 1
      BY <2>3 DEF ColumnAfter
    <3> HIDE DEF c
    <3> QED BY <1>1, <1>3, <1>5, <2>1, <3>1, <3>2 DEF n
  <2> QED BY <2>2, <2>3
<1>7. CASE b = Byte - 1
  <2>1. ColumnAt(job, p + 1) = (i + 1) * Byte + Turned(job, 0)
    <3>1. 0 \in 0 .. Byte - 1
      BY <1>1
    <3> QED BY <1>2, <1>7, <3>1, PlaceIs
  <2> HIDE DEF n, w
  <2>2. CASE job.reflected
    <3>1. c = 0 /\ Turned(job, 0) = Byte - 1
      BY <1>1, <1>7, <2>2 DEF Turned
    <3>2. ~(n % Byte > 0)
      BY <1>4, <3>1
    <3>3. ColumnAfter(n) = n + 2 * Byte - 1
      BY <2>2, <3>2 DEF ColumnAfter
    <3> HIDE DEF c
    <3> QED BY <1>1, <1>3, <1>5, <2>1, <3>1, <3>3 DEF n
  <2>3. CASE ~job.reflected
    <3>1. c = b /\ Turned(job, 0) = 0
      BY <2>3 DEF Turned
    <3>2. ColumnAfter(n) = n + 1
      BY <2>3 DEF ColumnAfter
    <3> HIDE DEF c
    <3> QED BY <1>1, <1>3, <1>5, <1>7, <2>1, <3>1, <3>2 DEF n
  <2> QED BY <2>2, <2>3
<1>8. b < Byte - 1 \/ b = Byte - 1
  BY <1>1
<1> QED BY <1>6, <1>7, <1>8

\* One step of the register leads from the column of a bit to the next one.
LEMMA NextDelta ==
  ASSUME NEW q \in Jobs, NEW len \in Nat, NEW p \in Nat, p + 1 < len * Byte
  PROVE  Delta(q, {ColumnAt(q, p + 1)}, len) = Step(q, Delta(q, {ColumnAt(q, p)}, len))
<1>1. Byte \in Nat \ {0} /\ q.sum_bits \in Nat /\ Byte <= q.sum_bits
  BY JobType
<1>2. PICK i \in Nat, b \in 0 .. Byte - 1 :
           /\ p = i * Byte + b
           /\ b < Byte - 1 => b + 1 \in 0 .. Byte - 1 /\ p + 1 = i * Byte + (b + 1)
           /\ b = Byte - 1 => p + 1 = (i + 1) * Byte + 0
  BY NextPlace
<1> DEFINE x == Turned(q, b)
<1>3. ColumnAt(q, p) = i * Byte + x /\ x \in 0 .. Byte - 1
  BY <1>2, PlaceIs
<1>4. CASE b < Byte - 1
  <2> DEFINE y == Turned(q, b + 1)
  <2>1. ColumnAt(q, p + 1) = i * Byte + y /\ y \in 0 .. Byte - 1
    BY <1>2, <1>4, PlaceIs
  <2>2. {y + Low(q)} = Step(q, {x + Low(q)})
    <3>1. x + Low(q) \in 0 .. q.sum_bits - 1
      BY <1>1, <1>3, LowIs
    <3>2. CASE q.reflected
      <4>1. x = Byte - 1 - b /\ y = Byte - 1 - (b + 1) /\ Low(q) = 0
        BY <3>2 DEF Turned, Low
      <4>2. x + Low(q) # 0 /\ y + Low(q) = (x + Low(q)) - 1
        BY <1>1, <1>4, <4>1
      <4> DEFINE z == x + Low(q)
      <4>3. z \in 0 .. q.sum_bits - 1
        BY <3>1
      <4>5. z # 0
        BY <4>2
      <4>6. y + Low(q) = z - 1
        BY <4>2
      <4> HIDE DEF z, y
      <4>4. Step(q, {z}) = {z - 1}
        BY <3>2, <4>3, <4>5, StepOfBit
      <4> QED BY <4>4, <4>6 DEF z
    <3>3. CASE ~q.reflected
      <4>1. x = b /\ y = b + 1 /\ Low(q) = q.sum_bits - Byte
        BY <3>3 DEF Turned, Low
      <4>2. x + Low(q) # q.sum_bits - 1 /\ y + Low(q) = x + Low(q) + 1
        BY <1>1, <1>4, <4>1
      <4> HIDE DEF x, y
      <4> QED BY <3>1, <3>3, <4>2, StepOfBit
    <3> QED BY <3>2, <3>3
  <2> HIDE DEF x, y
  <2> QED BY <1>3, <2>1, <2>2, DeltaWithinByte
<1>5. CASE b = Byte - 1
  <2> DEFINE y == Turned(q, 0)
  <2>1. ColumnAt(q, p + 1) = (i + 1) * Byte + y /\ y \in 0 .. Byte - 1
    <3>1. 0 \in 0 .. Byte - 1
      BY <1>1
    <3> QED BY <1>2, <1>5, <3>1, PlaceIs
  <2>2. x + Low(q) = LastBit(q) /\ y + Low(q) = FirstBit(q)
    BY <1>1, <1>5 DEF Turned, Low, LastBit, FirstBit
  <2>3. i + 1 < len
    <3>1. p + 1 \in 0 .. len * Byte - 1
      <4>1. len * Byte \in Nat
        BY <1>1
      <4> QED BY <4>1
    <3>2. (p + 1) \div Byte \in 0 .. len - 1
      BY <1>1, <3>1, BitOfByte
    <3>3. i + 1 \in Nat /\ 0 \in 0 .. Byte - 1
      BY <1>1
    <3>4. ((i + 1) * Byte + 0) \div Byte = i + 1
      BY <1>1, <3>3, BytePlace
    <3> QED BY <1>2, <1>5, <3>2, <3>4
  <2> HIDE DEF x, y
  <2> QED BY <1>3, <2>1, <2>2, <2>3, DeltaOfNextByte
<1>6. b < Byte - 1 \/ b = Byte - 1
  BY <1>1
<1> QED BY <1>4, <1>5, <1>6

(* The checksum is the sum of the columns. *)

\* The bits of a message whose columns have this bit.
Contributing(q, m, len, bit) == {n \in m : bit \in Delta(q, {n}, len)}

LEMMA DeltaIsSum ==
  ASSUME NEW q \in Jobs, NEW len \in Nat, NEW hi \in Nat, NEW m, m \subseteq 0 .. hi - 1, NEW bit
  PROVE  bit \in Delta(q, m, len) <=> Cardinality(Contributing(q, m, len, bit)) % 2 = 1
<1> DEFINE Has(n) == bit \in Delta(q, {n}, len)
           A(x) == {n \in m : n < x}
           S(x) == {n \in A(x) : Has(n)}
           P == {x \in 0 .. hi : (bit \in Delta(q, A(x), len)) <=> (Cardinality(S(x)) % 2 = 1)}
<1>1. \A n \in m : n \in 0 .. hi - 1 /\ n < hi /\ ~(n < 0)
  OBVIOUS
<1>2. 0 \in P
  <2>1. A(0) = {}
    BY <1>1
  <2>4. S(0) = {}
    <3> HIDE DEF A, Has
    <3> QED BY <2>1
  <2>5. 0 \in 0 .. hi
    OBVIOUS
  <2>2. Cardinality({}) = 0 /\ ~(0 % 2 = 1)
    BY FS_EmptySet
  <2>3. bit \notin Delta(q, {}, len)
    BY DeltaOfNothing
  <2> HIDE DEF A, S
  <2> QED BY <2>1, <2>2, <2>3, <2>4, <2>5
<1>3. ASSUME NEW x \in 1 .. hi, x - 1 \in P PROVE x \in P
  <2> DEFINE n == x - 1
  <2>1. n \in Nat /\ n = x - 1 /\ x \in 0 .. hi
    OBVIOUS
  <2>2. (bit \in Delta(q, A(n), len)) <=> (Cardinality(S(n)) % 2 = 1)
    BY <1>3
  <2>3. IsFiniteSet(S(n)) /\ Cardinality(S(n)) \in Nat
    <3>1. IsFiniteSet(0 .. hi - 1)
      BY FS_Interval
    <3>2. S(n) \subseteq 0 .. hi - 1
      BY <1>1
    <3> HIDE DEF S
    <3> QED BY <3>1, <3>2, FS_Subset, FS_CardinalityType
  <2>4. \A y \in m : y < x <=> y < n \/ y = n
    BY <2>1
  <2>5. n \notin A(n) /\ n \notin S(n)
    OBVIOUS
  <2> HIDE DEF n
  <2>6. (bit \in Delta(q, A(x), len)) <=> (Cardinality(S(x)) % 2 = 1)
    <3>1. CASE n \notin m
      <4>1. A(x) = A(n)
        BY <2>4, <3>1
      <4>2. S(x) = S(n)
        BY <4>1
      <4> HIDE DEF A, S
      <4> QED BY <2>2, <4>1, <4>2
    <3>2. CASE n \in m
      <4>1. A(x) = A(n) \union {n}
        BY <2>4, <3>2
      <4>2. S(x) = S(n) \union (IF Has(n) THEN {n} ELSE {})
        BY <4>1
      <4> HIDE DEF A, S
      <4>3. A(x) = XorOf(A(n), {n})
        BY <2>5, <4>1 DEF XorOf
      <4>4. (bit \in Delta(q, A(x), len)) <=> ~((bit \in Delta(q, A(n), len)) <=> Has(n))
        BY <4>3, DeltaOfXor, XorOfIs
      <4> HIDE DEF Has
      <4>5. CASE Has(n)
        <5>1. Cardinality(S(x)) = Cardinality(S(n)) + 1
          BY <2>3, <2>5, <4>2, <4>5, FS_AddElement
        <5>2. \A c \in Nat : (c + 1) % 2 = 1 <=> ~(c % 2 = 1)
          OBVIOUS
        <5> QED BY <2>2, <2>3, <4>4, <4>5, <5>1, <5>2
      <4>6. CASE ~Has(n)
        <5>1. S(x) = S(n)
          BY <4>2, <4>6
        <5> QED BY <2>2, <4>4, <4>6, <5>1
      <4> QED BY <4>5, <4>6
    <3> QED BY <3>1, <3>2
  <2> QED BY <2>1, <2>6
<1>4. hi \in 0 .. hi /\ A(hi) = m
  <2>1. hi \in 0 .. hi
    OBVIOUS
  <2>2. A(hi) = m
    BY <1>1, Zenon
  <2> QED BY <2>1, <2>2
<1> DEFINE M == {n \in m : Has(n)}
<1>5. S(hi) = M
  BY <1>4
<1> HIDE DEF A, S, P
<1>6. hi \in P
  BY <1>2, <1>3, <1>4, UpTo
<1> HIDE DEF M
<1>7. (bit \in Delta(q, m, len)) <=> (Cardinality(M) % 2 = 1)
  BY <1>4, <1>5, <1>6 DEF P
<1> QED BY <1>7 DEF M, Contributing

LEMMA MirrorCount ==
  ASSUME NEW hi \in Nat, NEW N, N \subseteq 0 .. hi - 1
  PROVE  LET M == {hi - 1 - n : n \in N}
         IN  /\ IsFiniteSet(M) /\ M \subseteq Nat /\ Cardinality(M) = Cardinality(N)
             /\ \A n \in 0 .. hi - 1 : hi - 1 - n \in M <=> n \in N
<1> DEFINE M == {hi - 1 - n : n \in N}
           f == [n \in N |-> hi - 1 - n]
<1>1. IsFiniteSet(N)
  <2>1. IsFiniteSet(0 .. hi - 1)
    BY FS_Interval
  <2> QED BY <2>1, FS_Subset
<1>2. \A x, y \in 0 .. hi - 1 : hi - 1 - x = hi - 1 - y => x = y
  OBVIOUS
<1>3. f \in Bijection(N, M)
  BY <1>2 DEF Bijection, Injection, Surjection, IsInjective
<1>4. IsFiniteSet(M) /\ Cardinality(M) = Cardinality(N)
  <2> HIDE DEF M, f
  <2>1. ExistsBijection(N, M)
    BY <1>3 DEF ExistsBijection
  <2> QED BY <1>1, <2>1, FS_Bijection
<1>5. M \subseteq Nat
  OBVIOUS
<1>6. \A n \in 0 .. hi - 1 : hi - 1 - n \in M <=> n \in N
  BY <1>2
<1> QED BY <1>4, <1>5, <1>6

\* The checksum of zeros, for a job that the state does not name.
ZerosIs(q, r) == Passing(q, XorOf(q.init, q.xor_out), {}, q.data_len, r)

Zeros(q) == XorOf(q.xor_out, (CHOOSE r : ZerosIs(q, r))[q.data_len])

LEMMA KIs == job \in Jobs => K = Zeros(job) /\ K \in Words(job)
<1> SUFFICES ASSUME job \in Jobs PROVE K = Zeros(job) /\ K \in Words(job)
  OBVIOUS
<1>1. {} \subseteq Nat /\ job.data_len \in Nat
  BY JobType
<1> DEFINE len == job.data_len
<1> HIDE DEF len
<1>2. PICK r : /\ Passing(job, XorOf(job.init, job.xor_out), {}, len, r)
               /\ crc({}, len) = XorOf(job.xor_out, r[len])
  <2>1. len \in Nat
    BY <1>1 DEF len
  <2> QED BY <1>1, <2>1, CrcIsRegister
<1>3. ZerosIs(job, r)
  BY <1>2 DEF ZerosIs, len
<1> DEFINE c == CHOOSE z : ZerosIs(job, z)
<1>4. ZerosIs(job, c)
  BY <1>3
<1>5. Zeros(job) = XorOf(job.xor_out, c[len])
  BY DEF Zeros, len
<1> HIDE DEF c
<1>6. c[len] = r[len]
  BY <1>1, <1>3, <1>4, PassingOnce DEF ZerosIs, len
<1>7. K = crc({}, len)
  BY DEF K, len
<1>8. crc({}, len) \in Words(job)
  BY <1>1, CrcIs DEF len
<1> QED BY <1>2, <1>5, <1>6, <1>7, <1>8

\* The equations of a job.
JobEquation(q, bit) ==
  {q.data_len * Byte - 1 - n : n \in {n \in 0 .. q.data_len * Byte - 1 : bit \in Delta(q, {n}, q.data_len)}}
  \union (IF bit \in Zeros(q) THEN {One} ELSE {})

LEMMA EquationIsBit ==
  ASSUME job \in Jobs, NEW message, message \subseteq 0 .. data_bits - 1, NEW bit
  PROVE  EquationValue(JobEquation(job, bit), message) <=> bit \in crc(message, job.data_len)
<1> DEFINE len == job.data_len
           hi == data_bits
<1>1. len \in Nat /\ hi \in Nat /\ hi = len * Byte /\ message \subseteq 0 .. hi - 1 /\ message \subseteq Nat
  <2>1. len \in Nat /\ Byte \in Nat
    BY JobType
  <2>2. hi = len * Byte
    BY DEF data_bits
  <2> QED BY <2>1, <2>2
<1> DEFINE H == {n \in 0 .. hi - 1 : bit \in Delta(job, {n}, len)}
           N == {n \in message : bit \in Delta(job, {n}, len)}
           Q == {hi - 1 - n : n \in H}
           M == {hi - 1 - n : n \in N}
           one == IF bit \in Zeros(job) THEN {One} ELSE {}
           e == JobEquation(job, bit)
           T == {t \in e : t = One \/ hi - 1 - t \in message}
<1>2. e = Q \union one
  BY <1>1 DEF JobEquation
<1>3. EquationValue(e, message) <=> Cardinality(T) % 2 = 1
  BY DEF EquationValue
<1>4. N = H \intersect message /\ H \subseteq 0 .. hi - 1
  BY <1>1
<1> HIDE DEF H, e, one, len, hi
<1>5. Q \subseteq Nat /\ \A n \in 0 .. hi - 1 : hi - 1 - n \in Q <=> n \in H
  BY <1>1, <1>4, MirrorCount
<1>6. /\ IsFiniteSet(M) /\ M \subseteq Nat /\ Cardinality(M) = Cardinality(N)
      /\ \A n \in 0 .. hi - 1 : hi - 1 - n \in M <=> n \in N
  <2>1. N \subseteq 0 .. hi - 1
    BY <1>4
  <2> HIDE DEF N
  <2> QED BY <1>1, <2>1, MirrorCount
<1>7. T = M \union one
  <2>1. \A n \in H : hi - 1 - (hi - 1 - n) = n /\ hi - 1 - n # One
    BY <1>1, <1>4 DEF One
  <2>2. M = {t \in Q : hi - 1 - t \in message}
    <3>1. ASSUME NEW t \in M PROVE t \in Q /\ hi - 1 - t \in message
      BY <1>4, <2>1
    <3>2. ASSUME NEW t \in Q, hi - 1 - t \in message PROVE t \in M
      <4>1. PICK n \in H : t = hi - 1 - n
        OBVIOUS
      <4>2. n \in N
        BY <1>4, <2>1, <3>2, <4>1
      <4> QED BY <4>1, <4>2
    <3> HIDE DEF M, Q
    <3> QED BY <3>1, <3>2
  <2>3. \A t \in Q : t # One
    BY <2>1
  <2>4. one \subseteq {One}
    BY DEF one
  <2> HIDE DEF M, Q
  <2> QED BY <1>2, <2>2, <2>3, <2>4
<1>8. (Cardinality(N) % 2 = 1) <=> (bit \in Delta(job, message, len))
  <2>1. N = Contributing(job, message, len, bit)
    BY DEF Contributing
  <2> HIDE DEF M, T, Q, N
  <2>2. bit \in Delta(job, message, len) <=> Cardinality(Contributing(job, message, len, bit)) % 2 = 1
    BY <1>1, DeltaIsSum
  <2> QED BY <2>1, <2>2
<1>9. Cardinality(M) \in Nat
  BY <1>6, FS_CardinalityType
<1>10. crc(message, len) = XorOf(K, Delta(job, message, len)) /\ K = Zeros(job)
  <2>1. crc(message, len) = XorOf(crc({}, len), Delta(job, message, len))
    BY <1>1, CrcIs
  <2> QED BY <2>1, KIs DEF K, len
<1> HIDE DEF N, M, T, Q
<1>11. Cardinality(T) % 2 = 1 <=> ~(bit \in Zeros(job) <=> Cardinality(N) % 2 = 1)
  <2>1. CASE bit \in Zeros(job)
    <3>1. T = M \union {One}
      BY <1>7, <2>1 DEF one
    <3>2. One \notin M
      <4>1. -1 \notin Nat
        OBVIOUS
      <4> QED BY <1>6, <4>1 DEF One
    <3>3. Cardinality(T) = Cardinality(M) + 1
      BY <1>6, <3>1, <3>2, FS_AddElement
    <3>4. \A c \in Nat : (c + 1) % 2 = 1 <=> ~(c % 2 = 1)
      OBVIOUS
    <3> QED BY <1>6, <1>9, <2>1, <3>3, <3>4
  <2>2. CASE bit \notin Zeros(job)
    <3>1. T = M
      BY <1>7, <2>2 DEF one
    <3> QED BY <1>6, <2>2, <3>1
  <2> QED BY <2>1, <2>2
<1>12. EquationValue(e, message) <=> bit \in crc(message, len)
  BY <1>3, <1>8, <1>10, <1>11, XorOfIs
<1> QED BY <1>12 DEF e, len

(* The invariant: the columns up to some place are known and right. *)

ColumnCount(q) == IF q.data_len = 0 THEN Byte ELSE q.data_len * Byte

Known(q, cs, last, t) ==
  /\ DOMAIN cs = {ColumnAt(q, p) : p \in 0 .. t}
  /\ last = cs[ColumnAt(q, t)]
  /\ q.data_len # 0 => \A p \in 0 .. t : cs[ColumnAt(q, p)] = Delta(q, {ColumnAt(q, p)}, q.data_len)

MatrixInv ==
  /\ job \in Jobs
  /\ phase \in {"base", "columns", "done"}
  /\ phase = "columns" => \E t \in 0 .. ColumnCount(job) - 1 : Known(job, cols, current, t)
  /\ phase = "done" => rows = [bit \in Bits(job.sum_bits) |-> JobEquation(job, bit)]

LEMMA ColumnCountIs ==
  ASSUME job \in Jobs
  PROVE  /\ ColumnCount(job) \in Nat \ {0} /\ data_len_norm \in Nat /\ ColumnCount(job) = data_len_norm * Byte
         /\ job.data_len # 0 => data_len_norm = job.data_len
         /\ Base = ColumnAt(job, 0) /\ LastColumn = ColumnAt(job, ColumnCount(job) - 1)
         /\ data_bits = job.data_len * Byte /\ data_bits <= ColumnCount(job)
<1>1. Byte \in Nat \ {0} /\ job.data_len \in Nat
  BY JobType
<1> DEFINE norm == data_len_norm
           count == ColumnCount(job)
<1>2. norm \in Nat \ {0} /\ (job.data_len # 0 => norm = job.data_len) /\ (job.data_len = 0 => norm = 1)
  BY <1>1 DEF data_len_norm
<1> HIDE DEF norm
<1>3. count = norm * Byte
  <2>1. Byte = 1 * Byte
    BY <1>1
  <2> QED BY <1>2, <2>1 DEF ColumnCount
<1>4. PICK x \in Nat : norm = x + 1
  <2>1. norm - 1 \in Nat /\ norm = (norm - 1) + 1
    BY <1>2
  <2> QED BY <2>1
<1>5. x * Byte \in Nat /\ norm * Byte = x * Byte + Byte
  BY <1>1, <1>4
<1>6. count \in Nat \ {0}
  BY <1>1, <1>3, <1>5
<1>7. 0 \in 0 .. Byte - 1 /\ Byte - 1 \in 0 .. Byte - 1
  BY <1>1
<1>8. Base = ColumnAt(job, 0)
  <2>1. 0 * Byte + 0 = 0
    BY <1>1
  <2>2. ColumnAt(job, 0 * Byte + 0) = 0 * Byte + Turned(job, 0)
    BY <1>7, PlaceIs
  <2>3. ColumnAt(job, 0) = Turned(job, 0)
    BY <1>1, <2>1, <2>2 DEF Turned
  <2> QED BY <1>1, <2>3 DEF Base, Turned
<1>9. LastColumn = ColumnAt(job, count - 1)
  <2>1. count - 1 = x * Byte + (Byte - 1)
    BY <1>1, <1>3, <1>5
  <2>2. ColumnAt(job, x * Byte + (Byte - 1)) = x * Byte + Turned(job, Byte - 1)
    BY <1>7, PlaceIs
  <2>3. Turned(job, Byte - 1) = IF job.reflected THEN 0 ELSE Byte - 1
    BY <1>1 DEF Turned
  <2>4. (norm - 1) * Byte = x * Byte
    BY <1>4
  <2>5. LastColumn = IF job.reflected THEN (norm - 1) * Byte ELSE norm * Byte - 1
    BY DEF LastColumn, norm
  <2> HIDE DEF count
  <2> QED BY <1>1, <1>5, <2>1, <2>2, <2>3, <2>4, <2>5
<1>10. data_bits = job.data_len * Byte /\ data_bits <= count
  <2>1. data_bits = job.data_len * Byte
    BY DEF data_bits
  <2>2. CASE job.data_len = 0
    <3>1. data_bits = 0
      BY <1>1, <2>1, <2>2
    <3> QED BY <1>6, <2>1, <3>1
  <2>3. CASE job.data_len # 0
    <3>1. data_bits = count
      BY <1>2, <1>3, <2>1, <2>3
    <3> QED BY <1>6, <2>1, <3>1
  <2> QED BY <2>2, <2>3
<1> QED BY <1>2, <1>3, <1>6, <1>8, <1>9, <1>10 DEF norm

LEMMA PlacesDiffer ==
  ASSUME NEW q \in Jobs, NEW x \in Nat, NEW y \in Nat, ColumnAt(q, x) = ColumnAt(q, y)
  PROVE  x = y
BY PlaceTwice

LEMMA MatrixInvInit == MatrixInit => MatrixInv
BY DEF MatrixInit, MatrixInv

LEMMA BaseColumnIs ==
  ASSUME MatrixInv, BaseColumn
  PROVE  MatrixInv'
<1>1. job \in Jobs /\ job' = job /\ phase' = "columns" /\ 0 \in Nat
  BY DEF MatrixInv, BaseColumn
<1>2. ColumnCount(job) \in Nat \ {0} /\ data_len_norm \in Nat /\ Base = ColumnAt(job, 0)
      /\ (job.data_len # 0 => data_len_norm = job.data_len)
  BY <1>1, ColumnCountIs
<1>3. {Base} \subseteq Nat
  BY <1>1, <1>2, PlaceTwice
<1>4. DOMAIN cols' = {Base} /\ cols'[Base] = current' /\ current' = XorOf(crc({Base}, data_len_norm), K)
  BY DEF BaseColumn
<1>5. ASSUME job.data_len # 0 PROVE current' = Delta(job, {Base}, job.data_len)
  <2>1. crc({Base}, data_len_norm) = XorOf(crc({}, data_len_norm), Delta(job, {Base}, data_len_norm))
    BY <1>1, <1>2, <1>3, CrcIs
  <2>2. K = crc({}, data_len_norm)
    BY <1>2, <1>5 DEF K
  <2>3. \A v, w : XorOf(XorOf(v, w), v) = w
    BY DEF XorOf
  <2> QED BY <1>2, <1>4, <1>5, <2>1, <2>2, <2>3
<1>6. Known(job, cols', current', 0)
  <2>1. 0 .. 0 = {0}
    OBVIOUS
  <2> QED BY <1>2, <1>4, <1>5, <2>1 DEF Known
<1>7. 0 \in 0 .. ColumnCount(job) - 1
  BY <1>2
<1> QED BY <1>1, <1>6, <1>7 DEF MatrixInv

LEMMA NextColumnIs ==
  ASSUME MatrixInv, NextColumn
  PROVE  MatrixInv'
<1>1. job \in Jobs /\ phase = "columns" /\ job' = job /\ phase' = "columns" /\ LastColumn \notin DOMAIN cols
  BY DEF MatrixInv, NextColumn
<1> DEFINE count == ColumnCount(job)
<1>2. PICK t \in 0 .. count - 1 : Known(job, cols, current, t)
  BY <1>1 DEF MatrixInv
<1>3. count \in Nat \ {0} /\ data_len_norm \in Nat /\ count = data_len_norm * Byte
      /\ (job.data_len # 0 => data_len_norm = job.data_len) /\ LastColumn = ColumnAt(job, count - 1)
  BY <1>1, ColumnCountIs
<1> HIDE DEF count
<1>4. t \in Nat /\ t + 1 \in 0 .. count - 1 /\ t + 1 < count
  <2>1. t # count - 1
    BY <1>1, <1>2, <1>3 DEF Known
  <2> QED BY <1>3, <2>1
<1>5. current' = Step(job, current)
  BY <1>1, StepIs DEF NextColumn
<1>6. PICK n \in DOMAIN cols :
        /\ ColumnAfter(n) \notin DOMAIN cols
        /\ cols' = [m \in DOMAIN cols \union {ColumnAfter(n)} |-> IF m \in DOMAIN cols THEN cols[m] ELSE current']
  BY DEF NextColumn
<1>7. PICK p \in 0 .. t : n = ColumnAt(job, p)
  BY <1>2 DEF Known
<1>8. ColumnAfter(n) = ColumnAt(job, p + 1) /\ p \in Nat
  BY <1>1, <1>4, <1>7, ColumnAfterIs
<1>9. p = t
  <2>1. p + 1 \notin 0 .. t
    BY <1>2, <1>6, <1>8 DEF Known
  <2> QED BY <1>4, <2>1
<1> DEFINE new == ColumnAt(job, t + 1)
<1>10. /\ new \notin DOMAIN cols
       /\ cols' = [m \in DOMAIN cols \union {new} |-> IF m \in DOMAIN cols THEN cols[m] ELSE current']
  BY <1>6, <1>8, <1>9
<1>11. \A x \in 0 .. t + 1 : x \in 0 .. t \/ x = t + 1
  BY <1>4
<1>12. \A x \in 0 .. t : x \in 0 .. t + 1 /\ ColumnAt(job, x) \in DOMAIN cols
  BY <1>2, <1>4 DEF Known
<1>13. DOMAIN cols' = {ColumnAt(job, x) : x \in 0 .. t + 1}
  <2>1. DOMAIN cols' = DOMAIN cols \union {new}
    BY <1>10
  <2>2. DOMAIN cols = {ColumnAt(job, x) : x \in 0 .. t}
    BY <1>2 DEF Known
  <2>3. t + 1 \in 0 .. t + 1
    BY <1>4
  <2> QED BY <1>11, <1>12, <2>1, <2>2, <2>3
<1>14. cols'[new] = current' /\ \A x \in 0 .. t : cols'[ColumnAt(job, x)] = cols[ColumnAt(job, x)]
  BY <1>10, <1>12
<1>15. ASSUME job.data_len # 0 PROVE current' = Delta(job, {new}, job.data_len)
  <2>1. job.data_len \in Nat /\ t + 1 < job.data_len * Byte
    BY <1>1, <1>3, <1>4, <1>15, JobType
  <2>2. current = Delta(job, {ColumnAt(job, t)}, job.data_len)
    <3>1. t \in 0 .. t
      BY <1>4
    <3> QED BY <1>2, <1>15, <3>1 DEF Known
  <2> QED BY <1>1, <1>4, <1>5, <2>1, <2>2, NextDelta
<1>16. job.data_len # 0 =>
         \A x \in 0 .. t + 1 : cols'[ColumnAt(job, x)] = Delta(job, {ColumnAt(job, x)}, job.data_len)
  BY <1>2, <1>11, <1>14, <1>15 DEF Known
<1> HIDE DEF new
<1>17. Known(job, cols', current', t + 1)
  BY <1>13, <1>14, <1>16 DEF Known, new
<1> QED BY <1>1, <1>4, <1>17 DEF MatrixInv, count

LEMMA RowsAre ==
  ASSUME MatrixInv, Rows
  PROVE  MatrixInv'
<1>1. job \in Jobs /\ phase = "columns" /\ job' = job /\ phase' = "done" /\ LastColumn \in DOMAIN cols
  BY DEF MatrixInv, Rows
<1> DEFINE count == ColumnCount(job)
<1>2. PICK t \in 0 .. count - 1 : Known(job, cols, current, t)
  BY <1>1 DEF MatrixInv
<1>3. /\ count \in Nat \ {0} /\ data_len_norm \in Nat /\ count = data_len_norm * Byte
      /\ job.data_len # 0 => data_len_norm = job.data_len
      /\ LastColumn = ColumnAt(job, count - 1)
      /\ data_bits = job.data_len * Byte /\ data_bits <= count
  BY <1>1, ColumnCountIs
<1>4. Byte \in Nat \ {0} /\ job.data_len \in Nat
  BY <1>1, JobType
<1> HIDE DEF count
<1>5. t = count - 1
  <2>1. PICK p \in 0 .. t : LastColumn = ColumnAt(job, p)
    BY <1>1, <1>2 DEF Known
  <2>2. p \in Nat /\ count - 1 \in Nat
    BY <1>3
  <2>3. p = count - 1
    BY <1>1, <1>3, <2>1, <2>2, PlacesDiffer
  <2> QED BY <1>3, <2>1, <2>3
<1>6. ASSUME NEW n \in Bits(data_bits) PROVE cols[n] = Delta(job, {n}, job.data_len)
  <2>1. data_bits \in Nat /\ n \in Nat /\ n < data_bits
    <3>1. data_bits \in Nat
      BY <1>3, <1>4
    <3> QED BY <3>1, <1>6 DEF Bits
  <2>2. job.data_len # 0
    <3>1. 0 * Byte = 0
      BY <1>4
    <3> QED BY <1>3, <2>1, <3>1
  <2> DEFINE p == ColumnAt(job, n)
  <2>3. p \in Nat /\ ColumnAt(job, p) = n /\ p < count
    BY <1>1, <1>3, <1>4, <2>1, <2>2, PlaceTwice
  <2> HIDE DEF p
  <2>4. p \in 0 .. t
    BY <1>3, <1>5, <2>3
  <2> QED BY <1>2, <2>2, <2>3, <2>4 DEF Known
<1>7. K = Zeros(job)
  BY <1>1, KIs
<1>8. ASSUME NEW bit
      PROVE  JobEquation(job, bit) = {data_bits - 1 - n : n \in {n \in Bits(data_bits) : bit \in cols[n]}}
                                  \union (IF bit \in K THEN {One} ELSE {})
  <2>1. {n \in Bits(data_bits) : bit \in cols[n]}
          = {n \in 0 .. job.data_len * Byte - 1 : bit \in Delta(job, {n}, job.data_len)}
    BY <1>3, <1>6 DEF Bits
  <2> QED BY <1>3, <1>7, <2>1 DEF JobEquation
<1>9. rows' = [bit \in Bits(job.sum_bits) |->
                {data_bits - 1 - n : n \in {n \in Bits(data_bits) : bit \in cols[n]}}
                \union (IF bit \in K THEN {One} ELSE {})]
  BY DEF Rows
<1>10. rows' = [bit \in Bits(job.sum_bits) |-> JobEquation(job, bit)]
  BY <1>8, <1>9
<1> QED BY <1>1, <1>10 DEF MatrixInv, Bits

LEMMA MatrixInvHolds == MatrixSpec => []MatrixInv
<1>1. ASSUME MatrixInv, [MatrixNext]_matrix PROVE MatrixInv'
  <2>1. CASE BaseColumn
    BY <1>1, <2>1, BaseColumnIs
  <2>2. CASE NextColumn
    BY <1>1, <2>2, NextColumnIs
  <2>3. CASE Rows
    BY <1>1, <2>3, RowsAre
  <2>4. CASE UNCHANGED matrix
    BY <1>1, <2>4 DEF MatrixInv, matrix, Bits
  <2> QED BY <1>1, <2>1, <2>2, <2>3, <2>4 DEF MatrixNext
<1> QED BY <1>1, MatrixInvInit, PTL DEF MatrixSpec

\* Each column is one step of the shift register from the column before it, also from
\* one byte to the next, and crc differs from the crc of zeros by the sum of the columns
\* of the bits that are 1: so for each byte width and each CRC whose register holds a
\* byte, of any length of data, the equations of the matrix are those of the checksum.
THEOREM MatrixIsChecksumHolds == MatrixSpec => []MatrixIsChecksum
<1>1. MatrixInv => MatrixIsChecksum
  <2> SUFFICES ASSUME MatrixInv, phase = "done", NEW message \in SUBSET Bits(data_bits)
               PROVE  {bit \in DOMAIN rows : EquationValue(rows[bit], message)} = crc(message, job.data_len)
    BY DEF MatrixIsChecksum
  <2>1. job \in Jobs /\ rows = [bit \in Bits(job.sum_bits) |-> JobEquation(job, bit)]
    BY DEF MatrixInv
  <2>2. message \subseteq 0 .. data_bits - 1 /\ message \subseteq Nat
    <3>1. data_bits \in Nat
      BY <2>1, ColumnCountIs, JobType
    <3> QED BY <3>1 DEF Bits
  <2>3. crc(message, job.data_len) \subseteq Bits(job.sum_bits)
    BY <2>1, <2>2, CrcIs, JobType DEF Words, Bits
  <2>4. ASSUME NEW bit \in Bits(job.sum_bits)
        PROVE  EquationValue(rows[bit], message) <=> bit \in crc(message, job.data_len)
    BY <2>1, <2>2, EquationIsBit
  <2>5. DOMAIN rows = Bits(job.sum_bits)
    BY <2>1
  <2> QED BY <2>3, <2>4, <2>5
<1> QED BY <1>1, MatrixInvHolds, PTL
=============================================================================
