----------------------------- MODULE Optimizer -----------------------------
(***************************************************************************)
(* optimize_graph of gf2_cse.py: rounds that each move shared terms of     *)
(* some equations into a new temporary signal, while ^C may arrive between *)
(* any two steps; then the removal of aliases and a topological sort.      *)
(***************************************************************************)
EXTENDS Equations, SequencesExt

CONSTANTS
  Systems,    \* the lists of equations that may be given
  Options,    \* the arguments of the call, as records
  Search(_, _, _, _, _, _),   \* _find_best_nwise: the set of its answers
  MaxPresses  \* bound on the number of ^C

\* What is given are equations over inputs and the constant.
ASSUME SystemsAssumption ==
  \A eqs \in Systems :
    /\ eqs \in Seq(SUBSET (Nat \union {None}))
    /\ \A i \in DOMAIN eqs : IsFiniteSet(eqs[i])

(* An option record has the fields depth, nmax, beam, prefer, weight,      *)
(* exitFast, lut (0 for gates), goal and maxTmps (a set with the value, or *)
(* {} for None), lns (whether a window is given) and sort.                 *)

VARIABLES
  given, opt,               \* the arguments
  pc,                       \* what is executed next
  s, tmpCount, round,       \* locals of optimize_graph_nwise
  skipMin, answer, early,
  critical, pending,        \* sigint_critical, sigint_pending
  handler, presses,         \* who gets a ^C, and how many there were
  td, out,                  \* tmp_defs and outputs
  keys,                     \* the signals cleanup_aliases has not passed
  pos, indegree, queue      \* the position map of the sort and its state

sigint  == <<critical, pending, handler, presses>>
rounds  == <<s, tmpCount, round, skipMin, answer>>
graph   == <<td, out>>
sorting == <<pos, indegree, queue>>
args    == <<given, opt>>
vars    == <<args, pc, rounds, early, sigint, graph, keys, sorting>>

NoAnswer == [skipMin |-> 0, score |-> 0, cont |-> TRUE,
             best |-> [idxs |-> <<>>, inter |-> {}, key |-> 0]]

Nowhere == <<>>   \* the empty function

Init ==
  /\ given \in Systems /\ opt \in Options
  /\ pc = "head"
  /\ s = given /\ tmpCount = 0 /\ round = 1
  /\ skipMin = Max({2, opt.nmax}) + 1
  /\ answer = NoAnswer /\ early = FALSE
  /\ critical = FALSE /\ pending = FALSE
  /\ handler = "soon" /\ presses = 0
  /\ td = Nowhere /\ out = <<>>
  /\ keys = {} /\ pos = Nowhere /\ indegree = Nowhere /\ queue = <<>>

-----------------------------------------------------------------------------
(* The rounds. *)

Reduction == Count(given, opt.lut) - Count(s, opt.lut)

\* lookahead_weight ** 0 + ... + lookahead_weight ** depth, times exit_fast.
ExitFastThresh == opt.exitFast * MapThenSumSet(LAMBDA n : opt.weight ^ n, 0 .. opt.depth)

StopsEarly ==
  \/ \E m \in opt.maxTmps : round > m
  \/ \E g \in opt.goal : Reduction >= g
  \/ answer # NoAnswer /\ answer.score <= ExitFastThresh

\* The head of the loop.
Begins ==
  /\ pc = "head"
  /\ critical' = FALSE
  /\ IF StopsEarly THEN pc' = "left" /\ early' = TRUE
                   ELSE pc' = "search" /\ UNCHANGED early
  /\ UNCHANGED <<args, rounds, pending, handler, presses, graph, keys, sorting>>

Lookahead == Min({opt.depth} \union {m - round : m \in opt.maxTmps})

Searches ==
  /\ pc = "search"
  /\ answer' \in Search(s, tmpCount, Lookahead, Max({2, opt.nmax}), skipMin, opt)
  /\ skipMin' = answer'.skipMin
  /\ pc' = IF answer'.cont THEN "found" ELSE "left"
  /\ UNCHANGED <<args, s, tmpCount, round, early, sigint, graph, keys, sorting>>

Guarded == critical' = TRUE

\* sigint_critical = True; tmp_count += 1.
Counts ==
  /\ pc = "found"
  /\ Guarded
  /\ tmpCount' = tmpCount + 1
  /\ pc' = "extract"
  /\ UNCHANGED <<args, s, round, skipMin, answer, early, pending, handler, presses, graph,
                 keys, sorting>>

Extracts ==
  /\ pc = "extract"
  /\ LET best == answer.best
     IN  s' = AddTmpList(s, {best.idxs[i] : i \in DOMAIN best.idxs}, best.inter, tmpCount)
  /\ pc' = "added"
  /\ UNCHANGED <<args, tmpCount, round, skipMin, answer, early, sigint, graph, keys, sorting>>

\* The counts of the round; a ^C that waited is raised now.
EndsRound ==
  /\ pc = "added"
  /\ round' = round + 1
  /\ pc' = IF pending THEN "except" ELSE "head"
  /\ UNCHANGED <<args, s, tmpCount, skipMin, answer, early, sigint, graph, keys, sorting>>

\* sigint_critical = True, after a regular exit from the loop.
Leaves ==
  /\ pc = "left"
  /\ critical' = TRUE
  /\ pc' = "result"
  /\ UNCHANGED <<args, rounds, early, pending, handler, presses, graph, keys, sorting>>

\* except KeyboardInterrupt.
Caught ==
  /\ pc = "except"
  /\ early' = TRUE
  /\ pc' = "result"
  /\ UNCHANGED <<args, rounds, sigint, graph, keys, sorting>>

-----------------------------------------------------------------------------
(* The signal. *)

InTry == pc \in {"head", "search", "found", "extract", "added", "left"}

\* Mutant of SigintSoon: the first ^C does not wait for the end of the round.
SigintSoon_raise ==
  /\ handler = "soon"
  /\ handler' = "now"
  /\ pc' = IF InTry THEN "except" ELSE "raised"
  /\ UNCHANGED pending

\* The first ^C: stop after the round.
SigintSoon ==
  /\ handler = "soon"
  /\ pending' = TRUE /\ handler' = "now"
  /\ UNCHANGED pc

\* A later one: stop as soon as possible.
SigintNow ==
  /\ handler = "now"
  /\ IF critical THEN pending' = TRUE /\ UNCHANGED pc
     ELSE /\ pc' = IF InTry THEN "except" ELSE "raised"
          /\ UNCHANGED pending
  /\ UNCHANGED handler

\* A ^C while the optimiser has its handlers in place.
Press ==
  /\ presses < MaxPresses /\ pc \notin {"raised", "crashed"}
  /\ presses' = presses + 1
  /\ SigintSoon \/ SigintNow
  /\ UNCHANGED <<args, rounds, early, critical, graph, keys, sorting>>

-----------------------------------------------------------------------------
(* The result of the rounds, and what becomes of it. *)

Unpacked == [t \in 1 .. tmpCount |-> s[tmpCount - t + 1]]

\* The list becomes tmp_defs and outputs, and the old handler comes back.
Unpacks ==
  /\ pc = "result"
  /\ td' = Unpacked
  /\ out' = SubSeq(s, tmpCount + 1, Len(s))
  /\ keys' = 1 .. tmpCount
  /\ handler' = "orig"
  /\ pc' = IF ~early /\ opt.lns THEN "lns" ELSE "cleanup"
  /\ UNCHANGED <<args, rounds, early, critical, pending, presses, sorting>>

\* Large neighborhood search: a copy loses a few signals, and _brute_force on it
\* calls _find_all_reductions, where the name prune is not defined.
SearchesAround ==
  /\ pc = "lns"
  /\ pc' = "crashed"
  /\ UNCHANGED <<args, rounds, early, sigint, graph, keys, sorting>>

Passed(t) == IF Terms(td[t]) = 1 THEN keys \ {Cardinality(DOMAIN td)} ELSE keys \ {t}

\* cleanup_aliases takes a signal that it has not passed, in the order of a
\* set; an alias is replaced by what it stands for.
Cleans ==
  /\ pc = "cleanup"
  /\ \E t \in keys :
       /\ keys' = Passed(t)
       /\ IF Terms(td[t]) = 1
          THEN td' = DeletedDefs(td, t) /\ out' = DeletedOuts(td, out, t)
          ELSE UNCHANGED graph
  /\ UNCHANGED <<args, pc, rounds, early, sigint, sorting>>

CleansNoMore ==
  /\ pc = "cleanup" /\ keys = {}
  /\ IF opt.sort = "off" THEN pc' = "done" /\ UNCHANGED sorting
     ELSE /\ pc' = "sort"
          /\ pos' = Nowhere
          /\ indegree' = [t \in DOMAIN td |-> Cardinality(Deps(td, t))]
          /\ LET free == {t \in DOMAIN td : Deps(td, t) = {}}
             IN  \E q \in SetToSeqs(free) : queue' = q
  /\ UNCHANGED <<args, rounds, early, sigint, graph, keys>>

\* Kahn's algorithm takes the oldest signal of the queue, or the one of the
\* heap with the most users.
Pops(i) ==
  IF opt.sort = "fast" THEN i = 1
  ELSE \A j \in DOMAIN queue :
         LET n == Cardinality(Users(td, queue[i]))
             m == Cardinality(Users(td, queue[j]))
         IN  n > m \/ (n = m /\ queue[i] <= queue[j])

\* Mutant of Ready: a user is ready when one of its signals is placed.
Ready_any(u) == {t \in Users(td, u) : t \notin DOMAIN pos /\ t \notin {queue[i] : i \in DOMAIN queue}}
Ready(u) == {t \in Users(td, u) : indegree[t] = 1}

Places ==
  /\ pc = "sort" /\ queue # <<>>
  /\ \E i \in DOMAIN queue :
       LET u == queue[i]
       IN  /\ Pops(i)
           /\ pos' = [t \in DOMAIN pos \union {u} |->
                        IF t = u THEN Cardinality(DOMAIN pos) + 1 ELSE pos[t]]
           /\ indegree' = [t \in DOMAIN indegree |->
                             IF t \in Users(td, u) THEN indegree[t] - 1 ELSE indegree[t]]
           /\ \E new \in SetToSeqs(Ready(u)) : queue' = RemoveAt(queue, i) \o new
  /\ UNCHANGED <<args, pc, rounds, early, sigint, graph, keys>>

\* Mutant of Renumbers: the outputs are forgotten.
Renumbers_defs ==
  /\ td' = [p \in 1 .. Cardinality(DOMAIN td) |->
              Moved(td[CHOOSE t \in DOMAIN td : pos[t] = p], pos)]
  /\ UNCHANGED out

Renumbers ==
  /\ td' = [p \in 1 .. Cardinality(DOMAIN td) |->
              Moved(td[CHOOSE t \in DOMAIN td : pos[t] = p], pos)]
  /\ out' = [i \in DOMAIN out |-> Moved(out[i], pos)]

Sorts ==
  /\ pc = "sort" /\ queue = <<>>
  /\ IF DOMAIN pos # DOMAIN td
     THEN pc' = "cyclic" /\ UNCHANGED graph
     ELSE pc' = "done" /\ Renumbers
  /\ UNCHANGED <<args, rounds, early, sigint, keys, sorting>>

-----------------------------------------------------------------------------
Work ==
  \/ Begins \/ Searches \/ Counts \/ Extracts \/ EndsRound \/ Leaves \/ Caught
  \/ Unpacks \/ SearchesAround \/ Cleans \/ CleansNoMore \/ Places \/ Sorts

Next == Work \/ Press

Ended == {"done", "returned", "raised", "crashed", "cyclic"}

\* The program goes on as long as it can: WF_vars(Work), with what enables
\* Work written out.
Fairness == <>[](pc \notin Ended) => []<><<Work>>_vars

Spec == Init /\ [][Next]_vars /\ Fairness
-----------------------------------------------------------------------------
(* Properties. *)

HasGraph == pc \in {"lns", "cleanup", "sort", "done", "returned"}

\* Whatever was found, and whenever ^C stopped it, the outputs still stand for
\* the equations of the caller, from the moment optimize_graph_nwise returns
\* through each deletion and each renumbering, and nothing is added or lost.
SameEquations ==
  HasGraph =>
    /\ Len(out) = Len(given)
    /\ \A i \in DOMAIN out : Meaning(td, out[i]) = given[i]

\* An answer is terms that all the equations it names share.
AnswerIsSound ==
  pc = "extract" =>
    LET best == answer.best
    IN  /\ best.inter # {} /\ DOMAIN best.idxs # {}
        /\ \A i \in DOMAIN best.idxs :
             best.idxs[i] \in DOMAIN s /\ best.inter \subseteq s[best.idxs[i]]

\* A round moves shared terms and lowers the count by it, without a lookahead by
\* just the score that _lut_delta or the number of gates promised for it.
RoundPays ==
  [][pc = "extract" /\ pc' = "added" =>
       LET gain == Count(s, opt.lut) - Count(s', opt.lut)
       IN  AnswerIsSound /\ gain >= 1 /\ (Lookahead = 0 => gain = answer.score)]_vars

\* The graph is what its readers expect: no signal is an alias, and after a
\* sort each one uses only signals with lower numbers.  No cycle is reported.
ResultIsOrdered ==
  /\ pc # "cyclic"
  /\ pc = "done" =>
       \A t \in DOMAIN td :
         /\ Terms(td[t]) >= 2
         /\ opt.sort # "off" => Deps(td, t) \subseteq 1 .. t - 1

\* One or two ^C do not lose the work, whenever they come: what the handlers raise
\* gets through to the caller, who then has no result, only after a third one.
InterruptKeepsResult == pc = "raised" => presses >= 3

-----------------------------------------------------------------------------
(* The rewriting of a graph that the steps above amount to. *)

\* In the rounds tmp_count is ahead of the list for a moment.
listed  == Len(s) - Len(given)
nowDefs == IF HasGraph THEN td ELSE [t \in 1 .. listed |-> s[listed - t + 1]]
nowOuts == IF HasGraph THEN out ELSE SubSeq(s, listed + 1, Len(s))

Rewriting == INSTANCE GraphRewriting WITH
  defs <- nowDefs, outs <- nowOuts, stand <- [t \in DOMAIN nowDefs |-> Meaning(nowDefs, nowDefs[t])]

\* Whatever is searched, interrupted, deleted and sorted, the graph changes only by
\* extraction, inlining and renumbering.
Refines == Rewriting!Spec
=============================================================================
