----------------------------- MODULE BeamSearch -----------------------------
(***************************************************************************)
(* The search for the next reduction: sets of equations that share at      *)
(* least two terms, found depth first with pruning, the best few for each  *)
(* number n of equations, and the choice between them with or without a    *)
(* lookahead.                                                              *)
(***************************************************************************)
EXTENDS Equations, SequencesExt

\* One reduction that was found: the positions, in order, what their equations
\* share, and the number by which it is ranked.
Found(idxs, inter, key) == [idxs |-> idxs, inter |-> inter, key |-> key]

SetOf(idxs) == {idxs[i] : i \in DOMAIN idxs}

KeyOf(idxs, inter, s, lut) ==
  IF lut = 0 THEN Terms(inter) ELSE LutDelta(SetOf(idxs), inter, s, lut)

\* The reduction c enters the best B of its level.  With a larger beam it is
\* put before the first one it beats, and before the last one otherwise.
Insert(level, c, B) ==
  IF B = 1 THEN <<c>>
  ELSE LET beaten == {i \in DOMAIN level : c.key > level[i].key}
           at     == IF beaten # {} THEN Min(beaten) ELSE Max({1, Len(level)})
           grown  == InsertAt(level, at, c)
       IN  SubSeq(grown, 1, Min({B, Len(grown)}))

Enters(level, c, B, lut) ==
  /\ lut # 0 => c.key >= 1
  /\ Len(level) < B \/ c.key > Last(level).key

\* Whether a branch may still lead into the best of some level.
Hopeful(idxs, inter, best, s, nmax, B, lut) ==
  LET n      == Len(idxs)
      k      == Terms(inter)
      most(j) == IF lut = 0 THEN k
                 ELSE KeyOf(idxs, inter, s, lut) + (j - n) * ((k + lut - 3) \div (lut - 1))
  IN  /\ k >= 2
      /\ \E j \in Max({2, n}) .. nmax :
           \/ best[j] = <<>>
           \/ most(j) > Last(best[j]).key
           \/ B # 1 /\ most(j) = Last(best[j]).key

RECURSIVE Scan(_, _, _, _, _, _, _, _)

\* Visit one branch: the equations idxs, which share inter.
Visit(idxs, inter, best, s, nmax, B, lut) ==
  LET n    == Len(idxs)
      c    == Found(idxs, inter, KeyOf(idxs, inter, s, lut))
      seen == IF n >= 2 /\ Enters(best[n], c, B, lut)
              THEN [best EXCEPT ![n] = Insert(@, c, B)]
              ELSE best
  IN  IF n = nmax THEN seen
      ELSE Scan(Last(idxs) + 1, idxs, inter, seen, s, nmax, B, lut)

\* The branches that add the equation i or a later one.
Scan(i, idxs, inter, best, s, nmax, B, lut) ==
  IF i > Len(s) THEN best
  ELSE LET more == Append(idxs, i)
           nxt  == IF idxs = <<>> THEN s[i] ELSE inter \intersect s[i]
       IN  Scan(i + 1, idxs, inter,
                IF Hopeful(more, nxt, best, s, nmax, B, lut)
                THEN Visit(more, nxt, best, s, nmax, B, lut)
                ELSE best,
                s, nmax, B, lut)

Dfs(s, nmax, B, lut) ==
  Scan(1, <<>>, {}, [n \in 2 .. nmax |-> <<>>], s, nmax, B, lut)

-----------------------------------------------------------------------------
\* What a search answers.
Answer(skipMin, score, best, cont) ==
  [skipMin |-> skipMin, score |-> score, best |-> best, cont |-> cont]

\* What is gained at once by a reduction of n equations.
Immediate(n, c, lut) == IF lut = 0 THEN (n - 1) * (Terms(c.inter) - 1) ELSE c.key

\* Ties between the numbers of equations; "random" may take any.
Preferred(ties, prefer) ==
  CASE prefer = "low"    -> {Min(ties)}
    [] prefer = "high"   -> {Max(ties)}
    [] prefer = "mid"    -> {SetToSortSeq(ties, <)[Cardinality(ties) \div 2 + 1]}
    [] prefer = "random" -> ties

RECURSIVE FindBest(_, _, _, _, _, _)

\* The score of a reduction that is followed by the best found after it.
Ahead(c, n, s, tmpCount, depth, nmax, skipMin, o) ==
  LET after  == AddTmpList(s, SetOf(c.idxs), c.inter, tmpCount)
      future == FindBest(after, tmpCount + 1, depth - 1, nmax, skipMin, o)
  IN  o.weight * (CHOOSE a \in future : TRUE).score + Immediate(n, c, o.lut)

\* The first reduction of a level with the highest score above 0.
BestOf(level, score) ==
  LET pay == {i \in DOMAIN level : score[i] > 0}
  IN  IF pay = {} THEN [score |-> 0, best |-> Found(<<>>, {}, 0)]
      ELSE LET i == CHOOSE i \in pay :
                      \A j \in pay : \/ score[i] > score[j]
                                     \/ score[i] = score[j] /\ i <= j
           IN  [score |-> score[i], best |-> level[i]]

\* The answers of _find_best_nwise: more than one only for prefer = "random".
FindBest(s, tmpCount, depth, nmaxIn, skipMin, o) ==
  LET skip   == Max({3, skipMin})
      nmax   == Max({2, Min({nmaxIn, Len(s), skip - 1})})
      level  == Dfs(s, nmax, o.beam, o.lut)
      picked == [n \in 2 .. nmax |->
                   IF depth > 0
                   THEN BestOf(level[n],
                          [i \in DOMAIN level[n] |->
                             Ahead(level[n][i], n, s, tmpCount, depth, nmax, skip, o)])
                   ELSE IF level[n] = <<>> THEN [score |-> 0, best |-> Found(<<>>, {}, 0)]
                   ELSE [score |-> Immediate(n, level[n][1], o.lut), best |-> level[n][1]]]
      poor   == {n \in 3 .. Min({nmax, skip - 1}) : picked[n].score < 1}
      skip2  == IF poor = {} THEN skip ELSE Min(poor)
      top    == Max({picked[n].score : n \in 2 .. nmax})
  IN  IF top < 1 THEN {Answer(skip2, 0, Found(<<>>, {}, 0), FALSE)}
      ELSE {Answer(skip2, top, picked[n].best, TRUE) :
              n \in Preferred({n \in 2 .. nmax : picked[n].score = top}, o.prefer)}
=============================================================================
