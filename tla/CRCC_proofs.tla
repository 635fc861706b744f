----------------------------- MODULE CRCC_proofs -----------------------------
(***************************************************************************)
(* Four parts of the compiler.  In crcc.py: a cache that processes share  *)
(* without a lock, for any number of processes, jobs and flags, with       *)
(* removals, deaths and second writers at any step; and a batch, for any   *)
(* number of programs, jobs and outputs, which may fail at any job.  In    *)
(* gf2_cse.py: the graph of a job, however it is rewritten.  In            *)
(* crc_dsl.py: the calls of _preproc, for any program, macros and files.   *)
(***************************************************************************)
EXTENDS Cache, Batch, GraphRewriting, Preprocessor, Equations_proofs, SequenceTheorems

CacheJobs == UNION {{b[i] : i \in DOMAIN b} : b \in CacheBatches}

CacheGraphs == {NoGraph} \union [job : CacheJobs, by : Procs, len : Lengths]

Points ==
  {"start", "error", "failed", "dead", "end", "clear", "rmdir", "job", "delete", "read",
   "search", "makedirs", "open", "write", "use"}

ProcState ==
  [pc : Points, settings : SUBSET {"d", "r", "w", "c", "o", "u", "x"}, jobs : CacheBatches,
   at : Nat \ {0}, todo : SUBSET Keys, graph : CacheGraphs, node : Nat, written : Nat]

CacheType ==
  /\ proc \in [Procs -> ProcState]
  /\ nodes \in Seq(Seq(CacheGraphs \X Nat))
  /\ entry \in [Keys -> 0 .. Len(nodes)]

Writing(p) == proc[p].pc = "write"

\* A process that works on a job has one, and its graph is for a job of the same key.
HasJob ==
  \A p \in Procs :
    /\ proc[p].pc \in {"delete", "read", "search", "makedirs", "open", "write", "use"}
         => proc[p].at \in DOMAIN proc[p].jobs
    /\ proc[p].pc \in {"makedirs", "open", "write", "use"}
         => proc[p].graph # NoGraph /\ Key(proc[p].graph.job) = Key(JobOf(p))

\* A file that is written has no entry, or that of the key of its writer.
OwnFile ==
  \A p \in Procs : Writing(p) =>
    /\ proc[p].node \in 1 .. Len(nodes)
    /\ proc[p].written \in 0 .. proc[p].graph.len
    /\ \A k \in Keys : entry[k] = proc[p].node => k = Key(JobOf(p))

\* No file has two keys, and what is in it was made for its key.
OneKey ==
  /\ \A k, l \in Keys : entry[k] = entry[l] /\ entry[k] # NoNode => k = l
  /\ \A k \in Keys : entry[k] # NoNode =>
       \A i \in DOMAIN nodes[entry[k]] :
         nodes[entry[k]][i][1] = NoGraph \/ Key(nodes[entry[k]][i][1].job) = k

\* A file that is not spoiled has one writer, and what this one wrote, or is whole.
Begun(p) == [i \in 1 .. proc[p].written |-> <<proc[p].graph, i>>]

Unspoiled ==
  \A n \in (1 .. Len(nodes)) \ spoiled :
    /\ \A p, q \in Writers(n) : p = q
    /\ \A p \in Writers(n) : nodes[n] = Begun(p)
    /\ Writers(n) = {} => IsWhole(nodes[n])

CacheInv == CacheType /\ HasJob /\ OwnFile /\ OneKey /\ Unspoiled
-----------------------------------------------------------------------------
\* What a process needs when it has a job, after a step.
Ready(p) ==
  /\ proc[p].pc \in {"delete", "read", "search", "makedirs", "open", "write", "use"}
       => proc[p].at \in DOMAIN proc[p].jobs
  /\ proc[p].pc \in {"makedirs", "open", "write", "use"}
       => proc[p].graph # NoGraph /\ Key(proc[p].graph.job) = Key(JobOf(p))

\* A step of a process that is not writing and does not open a file keeps the
\* invariant when it leaves the process fit to go on; it may remove entries.
LEMMA QuietStep ==
  ASSUME CacheInv, NEW p \in Procs,
         proc' \in [Procs -> ProcState],
         \A q \in Procs \ {p} : proc'[q] = proc[q],
         ~Writing(p), ~Writing(p)', Ready(p)',
         UNCHANGED <<nodes, spoiled>>,
         entry' \in [Keys -> 0 .. Len(nodes)],
         \A k \in Keys : entry'[k] = entry[k] \/ entry'[k] = NoNode
  PROVE  CacheInv'
<1>1. CacheType'
  BY DEF CacheInv, CacheType
<1>2. HasJob'
  BY DEF CacheInv, HasJob, Ready, JobOf
<1>3. OwnFile'
  <2> SUFFICES ASSUME NEW q \in Procs, Writing(q)'
               PROVE  /\ proc'[q].node \in 1 .. Len(nodes')
                      /\ proc'[q].written \in 0 .. proc'[q].graph.len
                      /\ \A k \in Keys : entry'[k] = proc'[q].node => k = Key(JobOf(q)')
    BY DEF OwnFile
  <2>1. q # p /\ proc'[q] = proc[q] /\ Writing(q) /\ JobOf(q)' = JobOf(q)
    BY DEF Writing, JobOf
  <2> QED BY <2>1 DEF CacheInv, OwnFile, NoNode
<1>4. OneKey'
  BY DEF CacheInv, OneKey, NoNode
<1>5. \A n : Writers(n)' = Writers(n) /\ \A q \in Writers(n) : Begun(q)' = Begun(q)
  BY DEF Writers, Writing, Begun
<1>6. Unspoiled'
  BY <1>5 DEF CacheInv, Unspoiled
<1> QED BY <1>1, <1>2, <1>3, <1>4, <1>6 DEF CacheInv

-----------------------------------------------------------------------------
(* What a state of a process keeps of the one before. *)

\* A process that only goes on to another point keeps all but this.
LEMMA SetPc ==
  ASSUME NEW r \in ProcState, NEW pc \in Points
  PROVE  LET t == [r EXCEPT !.pc = pc]
         IN  /\ t \in ProcState /\ t.pc = pc /\ t.at = r.at /\ t.jobs = r.jobs
             /\ t.graph = r.graph /\ t.node = r.node /\ t.written = r.written
BY DEF ProcState

\* A write counts.
LEMMA SetWritten ==
  ASSUME NEW r \in ProcState, NEW i \in Nat
  PROVE  LET t == [r EXCEPT !.written = i]
         IN  /\ t \in ProcState /\ t.pc = r.pc /\ t.at = r.at /\ t.jobs = r.jobs
             /\ t.graph = r.graph /\ t.node = r.node /\ t.written = i
BY DEF ProcState

\* A step is of one process.
LEMMA Becoming ==
  ASSUME CacheType, NEW p \in Procs, NEW r \in ProcState, Becomes(p, r)
  PROVE  /\ proc' \in [Procs -> ProcState] /\ proc'[p] = r
         /\ \A q \in Procs \ {p} : proc'[q] = proc[q]
BY DEF Becomes, CacheType

\* A job that is on the list has a key.
LEMMA KeyOfJob ==
  ASSUME CacheInv, NEW p \in Procs, proc[p].at \in DOMAIN proc[p].jobs
  PROVE  JobOf(p) \in CacheJobs /\ Key(JobOf(p)) \in Keys
BY DEF CacheInv, CacheType, ProcState, JobOf, CacheJobs, Keys

-----------------------------------------------------------------------------
(* The steps that write nothing. *)

\* Going on, without a job to work on or with the one that it has.
LEMMA GoesStep ==
  ASSUME CacheInv, NEW p \in Procs, NEW pc \in Points, Goes(p, pc),
         ~Writing(p), pc # "write",
         UNCHANGED <<nodes, spoiled>>,
         entry' \in [Keys -> 0 .. Len(nodes)],
         \A k \in Keys : entry'[k] = entry[k] \/ entry'[k] = NoNode,
         pc \in {"delete", "read", "search", "makedirs", "open", "use"}
           => proc[p].at \in DOMAIN proc[p].jobs,
         pc \in {"makedirs", "open", "use"}
           => proc[p].graph # NoGraph /\ Key(proc[p].graph.job) = Key(JobOf(p))
  PROVE  CacheInv'
<1> DEFINE t == [proc[p] EXCEPT !.pc = pc]
<1>1. proc[p] \in ProcState
  BY DEF CacheInv, CacheType
<1>2. t \in ProcState /\ t.pc = pc /\ t.at = proc[p].at /\ t.jobs = proc[p].jobs /\ t.graph = proc[p].graph
  BY <1>1, SetPc
<1> HIDE DEF t
<1>3. Becomes(p, t)
  BY DEF Goes, t
<1>4. proc' \in [Procs -> ProcState] /\ proc'[p] = t /\ \A q \in Procs \ {p} : proc'[q] = proc[q]
  BY <1>2, <1>3, Becoming DEF CacheInv
<1>5. ~Writing(p)' /\ Ready(p)'
  BY <1>2, <1>4 DEF Writing, Ready, JobOf
<1> QED BY <1>4, <1>5, QuietStep

\* Removing an entry, on the way to some point of the program.
LEMMA RemoveStep ==
  ASSUME CacheInv, NEW p \in Procs, NEW k \in Keys, NEW pc \in {"clear", "search"},
         RemoveEntry(p, k, pc), ~Writing(p), UNCHANGED <<nodes, spoiled>>,
         pc = "search" => proc[p].at \in DOMAIN proc[p].jobs
  PROVE  CacheInv'
<1>1. CASE entry[k] = NoNode
  <2>1. Goes(p, "failed") /\ entry' = entry
    BY <1>1 DEF RemoveEntry
  <2>2. entry' \in [Keys -> 0 .. Len(nodes)]
    BY <2>1 DEF CacheInv, CacheType
  <2> QED BY <2>1, <2>2, GoesStep DEF Points
<1>2. CASE entry[k] # NoNode
  <2> DEFINE t == [proc[p] EXCEPT !.pc = pc, !.todo = @ \ {k}]
  <2>1. proc[p] \in ProcState
    BY DEF CacheInv, CacheType
  <2>2. t \in ProcState /\ t.pc = pc /\ t.at = proc[p].at /\ t.jobs = proc[p].jobs
    BY <2>1 DEF ProcState, Points
  <2> HIDE DEF t
  <2>3. Becomes(p, t) /\ entry' = [entry EXCEPT ![k] = NoNode]
    BY <1>2 DEF RemoveEntry, t
  <2>4. proc' \in [Procs -> ProcState] /\ proc'[p] = t /\ \A q \in Procs \ {p} : proc'[q] = proc[q]
    BY <2>2, <2>3, Becoming DEF CacheInv
  <2>5. ~Writing(p)' /\ Ready(p)'
    BY <2>2, <2>4 DEF Writing, Ready, JobOf
  <2>6. entry' \in [Keys -> 0 .. Len(nodes)]
        /\ \A l \in Keys : entry'[l] = entry[l] \/ entry'[l] = NoNode
    BY <2>3 DEF CacheInv, CacheType, NoNode
  <2> QED BY <2>4, <2>5, <2>6, QuietStep
<1> QED BY <1>1, <1>2

\* The flags, the cleaning and the look at an entry.
LEMMA BeforeStep ==
  ASSUME CacheInv, NEW p \in Procs,
         Start(p) \/ Clear(p) \/ RemoveDir(p) \/ LookUp(p) \/ Delete(p)
  PROVE  CacheInv'
<1>0. /\ proc[p] \in ProcState /\ entry \in [Keys -> 0 .. Len(nodes)]
      /\ proc[p].pc \in {"delete", "read", "search", "makedirs", "open", "write", "use"}
           => proc[p].at \in DOMAIN proc[p].jobs
  BY DEF CacheInv, CacheType, HasJob
<1>1. CASE Start(p)
  <2> DEFINE flags == Given(proc[p].settings)
             t == [proc[p] EXCEPT
                     !.pc = "clear",
                     !.todo = IF "c" \in flags THEN {k \in Keys : entry[k] # NoNode} ELSE {},
                     !.settings = flags \intersect (IF "c" \in flags THEN {"d", "w"} ELSE {"d", "r", "w"})]
  <2>1. proc[p].pc = "start" /\ UNCHANGED <<entry, nodes, dir, spoiled>>
    BY <1>1 DEF Start
  <2>2. CASE Goes(p, "error")
    BY <1>0, <2>1, <2>2, GoesStep DEF Points, Writing
  <2>3. CASE Becomes(p, t)
    <3>1. t \in ProcState /\ t.pc = "clear"
      BY <1>0 DEF ProcState, Points
    <3> HIDE DEF t
    <3>2. proc' \in [Procs -> ProcState] /\ proc'[p] = t /\ \A q \in Procs \ {p} : proc'[q] = proc[q]
      BY <2>3, <3>1, Becoming DEF CacheInv
    <3> QED BY <1>0, <2>1, <3>1, <3>2, QuietStep DEF Writing, Ready
  <2> QED BY <1>1, <2>2, <2>3 DEF Start
<1>2. CASE Clear(p)
  <2>1. proc[p].pc = "clear" /\ UNCHANGED <<nodes, dir, spoiled>> /\ proc[p].todo \subseteq Keys
    BY <1>0, <1>2 DEF Clear, ProcState
  <2>2. CASE proc[p].todo # {}
    <3>1. PICK k \in proc[p].todo : RemoveEntry(p, k, "clear")
      BY <1>2, <2>2 DEF Clear
    <3> QED BY <2>1, <3>1, RemoveStep DEF Writing
  <2>3. CASE proc[p].todo = {}
    BY <1>0, <1>2, <2>1, <2>3, GoesStep DEF Points, Clear, Writing
  <2> QED BY <2>2, <2>3
<1>3. CASE RemoveDir(p)
  BY <1>0, <1>3, GoesStep DEF Points, RemoveDir, Writing
<1>4. CASE LookUp(p)
  <2>1. proc[p].at \in Nat \ {0} /\ proc[p].jobs \in CacheBatches
    BY <1>0 DEF ProcState
  <2>2. proc[p].at > Len(proc[p].jobs) \/ proc[p].at \in DOMAIN proc[p].jobs
    BY <2>1, CacheBatchesAssumption
  <2>3. PICK pc \in {"end", "delete", "read", "search"} :
          Goes(p, pc) /\ (pc # "end" => ~(proc[p].at > Len(proc[p].jobs)))
    BY <1>4 DEF LookUp
  <2> QED BY <1>0, <1>4, <2>2, <2>3, GoesStep DEF Points, LookUp, Writing
<1>5. CASE Delete(p)
  <2>1. proc[p].pc = "delete" /\ RemoveEntry(p, Key(JobOf(p)), "search") /\ UNCHANGED <<nodes, dir, spoiled>>
    BY <1>5 DEF Delete
  <2> QED BY <1>0, <2>1, KeyOfJob, RemoveStep DEF Writing
<1> QED BY <1>1, <1>2, <1>3, <1>4, <1>5

\* A graph is taken only from a whole file of the key, or made for the job; after its
\* use the job is over.
LEMMA GraphStep ==
  ASSUME CacheInv, NEW p \in Procs,
         Read(p) \/ Optimize(p) \/ MakeDirs(p) \/ NoDir(p) \/ Use(p)
  PROVE  CacheInv'
<1>0. /\ proc[p] \in ProcState /\ entry \in [Keys -> 0 .. Len(nodes)]
      /\ proc[p].pc \in {"delete", "read", "search", "makedirs", "open", "write", "use"}
           => proc[p].at \in DOMAIN proc[p].jobs
      /\ proc[p].pc \in {"makedirs", "open", "write", "use"}
           => proc[p].graph # NoGraph /\ Key(proc[p].graph.job) = Key(JobOf(p))
  BY DEF CacheInv, CacheType, HasJob
<1>1. ASSUME proc[p].pc \in {"read", "search"}, UNCHANGED <<entry, nodes, dir, spoiled>>,
             NEW pc \in {"makedirs", "use"}, NEW g \in CacheGraphs,
             g # NoGraph, Key(g.job) = Key(JobOf(p)),
             Becomes(p, [proc[p] EXCEPT !.pc = pc, !.graph = g])
      PROVE  CacheInv'
  <2> DEFINE t == [proc[p] EXCEPT !.pc = pc, !.graph = g]
  <2>0. proc[p] \in ProcState /\ pc \in Points /\ g \in CacheGraphs
    BY <1>0, <1>1 DEF Points
  <2>1. t \in ProcState /\ t.pc = pc /\ t.at = proc[p].at /\ t.jobs = proc[p].jobs /\ t.graph = g
    BY <2>0 DEF ProcState
  <2>2. Becomes(p, t)
    BY <1>1
  <2> HIDE DEF t
  <2>3. proc' \in [Procs -> ProcState] /\ proc'[p] = t /\ \A q \in Procs \ {p} : proc'[q] = proc[q]
    BY <2>1, <2>2, Becoming DEF CacheInv
  <2>4. Ready(p)' /\ ~Writing(p) /\ ~Writing(p)'
    BY <1>0, <1>1, <2>1, <2>3 DEF Ready, Writing, JobOf
  <2> QED BY <1>0, <1>1, <2>3, <2>4, QuietStep
<1>2. CASE Read(p) /\ FileOf(p) # NoNode /\ IsWhole(nodes[FileOf(p)])
  <2> DEFINE key == Key(JobOf(p))
             content == nodes[entry[key]]
             g == content[1][1]
  <2>1. proc[p].pc = "read" /\ key \in Keys
    BY <1>0, <1>2, KeyOfJob DEF Read
  <2>2. content \in Seq(CacheGraphs \X Nat) /\ entry[key] # NoNode
    BY <1>2, <2>1 DEF CacheInv, CacheType, NoNode, FileOf
  <2>3. 1 \in DOMAIN content /\ g \in CacheGraphs /\ g # NoGraph
    BY <1>2, <2>2 DEF IsWhole, FileOf
  <2>4. Key(g.job) = key
    BY <2>1, <2>2, <2>3 DEF CacheInv, OneKey
  <2>5. Becomes(p, [proc[p] EXCEPT !.pc = "use", !.graph = g])
    BY <1>2 DEF Read, FileOf
  <2> HIDE DEF g, content
  <2> QED BY <1>1, <1>2, <2>1, <2>3, <2>4, <2>5 DEF Read
<1>3. CASE Read(p) /\ ~(FileOf(p) # NoNode /\ IsWhole(nodes[FileOf(p)]))
  BY <1>0, <1>3, GoesStep DEF Points, Read, Writing
<1>4. CASE Optimize(p)
  <2>1. proc[p].pc = "search" /\ JobOf(p) \in CacheJobs
    BY <1>0, <1>4, KeyOfJob DEF Optimize
  <2>2. PICK n \in Lengths :
          Becomes(p, [proc[p] EXCEPT !.pc = IF "w" \in proc[p].settings THEN "makedirs" ELSE "use",
                                     !.graph = [job |-> JobOf(p), by |-> p, len |-> n]])
    BY <1>4 DEF Optimize
  <2> DEFINE g == [job |-> JobOf(p), by |-> p, len |-> n]
             pc == IF "w" \in proc[p].settings THEN "makedirs" ELSE "use"
  <2>3. g \in CacheGraphs /\ g # NoGraph /\ g.job = JobOf(p)
    BY <2>1, LengthsAssumption DEF CacheGraphs, NoGraph
  <2>4. Becomes(p, [proc[p] EXCEPT !.pc = pc, !.graph = g]) /\ pc \in {"makedirs", "use"}
    BY <2>2
  <2> HIDE DEF g, pc
  <2> QED BY <1>1, <1>4, <2>1, <2>3, <2>4 DEF Optimize
<1>5. CASE MakeDirs(p)
  BY <1>0, <1>5, GoesStep DEF Points, MakeDirs, Writing
<1>6. CASE NoDir(p)
  BY <1>0, <1>6, GoesStep DEF Points, NoDir, Writing
<1>7. CASE Use(p)
  <2> DEFINE t == [proc[p] EXCEPT !.pc = "job", !.at = @ + 1, !.graph = NoGraph]
  <2>0. proc[p] \in ProcState /\ proc[p].at + 1 \in Nat \ {0} /\ NoGraph \in CacheGraphs
    BY <1>0 DEF ProcState, CacheGraphs
  <2>1. t \in ProcState /\ t.pc = "job"
    BY <2>0 DEF ProcState, Points
  <2>2. Becomes(p, t)
    BY <1>7 DEF Use
  <2> HIDE DEF t
  <2>3. proc' \in [Procs -> ProcState] /\ proc'[p] = t /\ \A q \in Procs \ {p} : proc'[q] = proc[q]
    BY <2>1, <2>2, Becoming DEF CacheInv
  <2> QED BY <1>0, <1>7, <2>1, <2>3, QuietStep DEF Use, Ready, Writing
<1> QED BY <1>2, <1>3, <1>4, <1>5, <1>6, <1>7

-----------------------------------------------------------------------------
(* The steps that write. *)

\* What is in the state of a writer, of which the others see its file.
LEMMA WriterState ==
  ASSUME CacheInv, NEW p \in Procs, Writing(p)
  PROVE  /\ proc[p] \in ProcState /\ proc[p].pc = "write"
         /\ proc[p].at \in DOMAIN proc[p].jobs
         /\ proc[p].graph \in CacheGraphs /\ proc[p].graph # NoGraph
         /\ proc[p].graph.len \in Nat \ {0}
         /\ Key(proc[p].graph.job) = Key(JobOf(p)) /\ Key(JobOf(p)) \in Keys
         /\ proc[p].node \in 1 .. Len(nodes)
         /\ proc[p].written \in 0 .. proc[p].graph.len
         /\ \A k \in Keys : entry[k] = proc[p].node => k = Key(JobOf(p))
<1>1. proc[p] \in ProcState /\ proc[p].pc = "write" /\ proc[p].at \in DOMAIN proc[p].jobs
      /\ proc[p].graph # NoGraph /\ Key(proc[p].graph.job) = Key(JobOf(p))
  BY DEF CacheInv, CacheType, HasJob, Writing
<1>2. Key(JobOf(p)) \in Keys
  BY <1>1, KeyOfJob
<1>3. proc[p].graph \in CacheGraphs
  BY <1>1 DEF ProcState
<1>4. proc[p].graph.len \in Nat \ {0}
  BY <1>1, <1>3, LengthsAssumption DEF CacheGraphs
<1> QED BY <1>1, <1>2, <1>3, <1>4 DEF CacheInv, OwnFile

\* Opening for "wb": a new file, or the one of the entry, which is emptied.
LEMMA OpenStep == ASSUME CacheInv, NEW p \in Procs, Open(p) PROVE CacheInv'
<1> DEFINE key == Key(JobOf(p))
           n == IF entry[key] = NoNode THEN Len(nodes) + 1 ELSE entry[key]
           t == [proc[p] EXCEPT !.pc = "write", !.node = n, !.written = 0]
<1>1. /\ proc[p] \in ProcState /\ proc[p].pc = "open" /\ proc[p].at \in DOMAIN proc[p].jobs
      /\ proc[p].graph # NoGraph /\ Key(proc[p].graph.job) = key
  BY DEF Open, CacheInv, CacheType, HasJob
<1>2. key \in Keys /\ entry \in [Keys -> 0 .. Len(nodes)] /\ Len(nodes) \in Nat
      /\ nodes \in Seq(Seq(CacheGraphs \X Nat))
  BY <1>1, KeyOfJob DEF CacheInv, CacheType
<1>3. proc[p].graph \in CacheGraphs /\ proc[p].graph.len \in Nat \ {0}
  BY <1>1, LengthsAssumption DEF ProcState, CacheGraphs
<1>4. /\ nodes' = IF entry[key] = NoNode THEN Append(nodes, <<>>) ELSE [nodes EXCEPT ![n] = <<>>]
      /\ entry' = [entry EXCEPT ![key] = n]
      /\ spoiled' = spoiled \union (IF Writers(n) # {} THEN {n} ELSE {})
      /\ Becomes(p, t)
  BY DEF Open, FileOf, Truncated
<1>5. n \in Nat \ {0} /\ n \in 1 .. Len(nodes) + 1
  BY <1>2 DEF NoNode
<1>6. /\ t \in ProcState /\ t.pc = "write" /\ t.at = proc[p].at /\ t.jobs = proc[p].jobs
      /\ t.graph = proc[p].graph /\ t.node = n /\ t.written = 0
  BY <1>1, <1>5 DEF ProcState, Points
<1> HIDE DEF t
<1>7. proc' \in [Procs -> ProcState] /\ proc'[p] = t /\ \A q \in Procs \ {p} : proc'[q] = proc[q]
  BY <1>4, <1>6, Becoming DEF CacheInv
<1>8. /\ nodes' \in Seq(Seq(CacheGraphs \X Nat))
      /\ Len(nodes') = IF entry[key] = NoNode THEN Len(nodes) + 1 ELSE Len(nodes)
      /\ nodes'[n] = <<>>
      /\ \A m \in 1 .. Len(nodes) : m # n => nodes'[m] = nodes[m]
  <2>1. CASE entry[key] = NoNode
    <3>1. n = Len(nodes) + 1 /\ nodes' = Append(nodes, <<>>)
      BY <1>4, <2>1
    <3>2. <<>> \in Seq(CacheGraphs \X Nat)
      OBVIOUS
    <3> HIDE DEF n
    <3> QED BY <1>2, <2>1, <3>1, <3>2
  <2>2. CASE entry[key] # NoNode
    <3>1. n \in 1 .. Len(nodes) /\ nodes' = [nodes EXCEPT ![n] = <<>>]
      BY <1>2, <1>4, <2>2 DEF NoNode
    <3>2. <<>> \in Seq(CacheGraphs \X Nat)
      OBVIOUS
    <3> HIDE DEF n
    <3> QED BY <1>2, <2>2, <3>1, <3>2
  <2> QED BY <2>1, <2>2
<1> HIDE DEF n
<1>9. n \in 1 .. Len(nodes') /\ Len(nodes) <= Len(nodes')
  BY <1>2, <1>8 DEF NoNode, n
<1>10. CacheType'
  <2>1. entry' \in [Keys -> 0 .. Len(nodes')]
    BY <1>2, <1>4, <1>9
  <2> QED BY <1>7, <1>8, <2>1 DEF CacheType
<1>11. HasJob'
  BY <1>1, <1>6, <1>7 DEF CacheInv, HasJob, JobOf
<1>12. JobOf(p)' = JobOf(p) /\ \A q \in Procs \ {p} : JobOf(q)' = JobOf(q)
  BY <1>6, <1>7 DEF JobOf
<1>13. OwnFile'
  <2> SUFFICES ASSUME NEW q \in Procs, Writing(q)'
               PROVE  /\ proc'[q].node \in 1 .. Len(nodes')
                      /\ proc'[q].written \in 0 .. proc'[q].graph.len
                      /\ \A k \in Keys : entry'[k] = proc'[q].node => k = Key(JobOf(q)')
    BY DEF OwnFile
  <2>1. CASE q = p
    <3>1. proc'[p].node = n /\ proc'[p].written = 0 /\ proc'[p].graph = proc[p].graph
      BY <1>6, <1>7
    <3>2. ASSUME NEW k \in Keys, entry'[k] = n PROVE k = key
      <4>1. CASE entry[key] = NoNode
        BY <1>2, <1>4, <3>2, <4>1 DEF n
      <4>2. CASE entry[key] # NoNode
        BY <1>2, <1>4, <3>2, <4>2 DEF n, CacheInv, OneKey
      <4> QED BY <4>1, <4>2
    <3> QED BY <1>3, <1>9, <1>12, <2>1, <3>1, <3>2
  <2>2. CASE q # p
    <3>1. proc'[q] = proc[q] /\ Writing(q) /\ JobOf(q)' = JobOf(q)
      BY <1>7, <1>12, <2>2 DEF Writing
    <3>2. /\ proc[q].node \in 1 .. Len(nodes) /\ proc[q].written \in 0 .. proc[q].graph.len
          /\ \A k \in Keys : entry[k] = proc[q].node => k = Key(JobOf(q))
      BY <3>1, WriterState
    <3>3. ASSUME NEW k \in Keys, entry'[k] = proc[q].node PROVE k = Key(JobOf(q))
      BY <1>2, <1>4, <3>2, <3>3 DEF n
    <3> QED BY <1>2, <1>9, <3>1, <3>2, <3>3
  <2> QED BY <2>1, <2>2
<1>14. OneKey'
  <2>1. ASSUME NEW k \in Keys, NEW l \in Keys, entry'[k] = entry'[l], entry'[k] # NoNode PROVE k = l
    <3>1. CASE entry[key] = NoNode
      BY <1>2, <1>4, <2>1, <3>1 DEF n, CacheInv, OneKey
    <3>2. CASE entry[key] # NoNode
      BY <1>2, <1>4, <2>1, <3>2 DEF n, CacheInv, OneKey
    <3> QED BY <3>1, <3>2
  <2>2. ASSUME NEW k \in Keys, entry'[k] # NoNode, NEW i \in DOMAIN nodes'[entry'[k]]
        PROVE  nodes'[entry'[k]][i][1] = NoGraph \/ Key(nodes'[entry'[k]][i][1].job) = k
    <3>1. entry'[k] # n
      BY <1>8, <2>2
    <3>2. entry'[k] = entry[k] /\ nodes'[entry[k]] = nodes[entry[k]]
      BY <1>2, <1>4, <1>8, <2>2, <3>1 DEF NoNode
    <3> QED BY <2>2, <3>2 DEF CacheInv, OneKey
  <2> QED BY <2>1, <2>2 DEF OneKey
<1>15. \A m : Writers(m)' = IF m = n THEN Writers(n) \union {p} ELSE Writers(m)
  <2>1. p \notin Writers(n) /\ \A m : p \notin Writers(m)
    BY <1>1 DEF Writers
  <2> QED BY <1>1, <1>6, <1>7 DEF Writers
<1>16. Unspoiled'
  <2> SUFFICES ASSUME NEW m \in (1 .. Len(nodes')) \ spoiled'
               PROVE  /\ \A q, r \in Writers(m)' : q = r
                      /\ \A q \in Writers(m)' : nodes'[m] = Begun(q)'
                      /\ Writers(m)' = {} => IsWhole(nodes'[m])
    BY DEF Unspoiled
  <2>1. CASE m = n
    <3>1. Writers(m)' = {p}
      BY <1>4, <1>15, <2>1
    <3>2. Begun(p)' = <<>>
      BY <1>6, <1>7 DEF Begun
    <3> QED BY <1>8, <2>1, <3>1, <3>2
  <2>2. CASE m # n
    <3>1. m \in (1 .. Len(nodes)) \ spoiled /\ Writers(m)' = Writers(m) /\ nodes'[m] = nodes[m]
      BY <1>2, <1>4, <1>8, <1>15, <2>2 DEF n
    <3>2. \A q \in Writers(m) : Begun(q)' = Begun(q)
      BY <1>1, <1>7 DEF Writers, Begun
    <3> QED BY <3>1, <3>2 DEF CacheInv, Unspoiled
  <2> QED BY <2>1, <2>2
<1> QED BY <1>10, <1>11, <1>13, <1>14, <1>16 DEF CacheInv

\* A step of a writer that leaves the entries alone.
LEMMA SameFiles ==
  ASSUME CacheInv, NEW p \in Procs, UNCHANGED entry, Len(nodes') = Len(nodes),
         nodes' \in Seq(Seq(CacheGraphs \X Nat)),
         proc' \in [Procs -> ProcState], \A q \in Procs \ {p} : proc'[q] = proc[q],
         Writing(p), JobOf(p)' = JobOf(p),
         proc'[p].at = proc[p].at, proc'[p].jobs = proc[p].jobs, proc'[p].graph = proc[p].graph,
         proc'[p].node = proc[p].node, proc'[p].written \in 0 .. proc[p].graph.len
  PROVE  CacheType' /\ HasJob' /\ OwnFile'
<1>1. CacheType'
  BY DEF CacheInv, CacheType
<1>2. HasJob'
  <2>1. proc[p].at \in DOMAIN proc[p].jobs /\ proc[p].graph # NoGraph
        /\ Key(proc[p].graph.job) = Key(JobOf(p))
    BY WriterState
  <2>2. \A q \in Procs \ {p} : JobOf(q)' = JobOf(q)
    BY DEF JobOf
  <2> QED BY <2>1, <2>2 DEF CacheInv, HasJob
<1>3. OwnFile'
  <2> SUFFICES ASSUME NEW q \in Procs, Writing(q)'
               PROVE  /\ proc'[q].node \in 1 .. Len(nodes')
                      /\ proc'[q].written \in 0 .. proc'[q].graph.len
                      /\ \A k \in Keys : entry'[k] = proc'[q].node => k = Key(JobOf(q)')
    BY DEF OwnFile
  <2>1. CASE q = p
    BY <2>1, WriterState
  <2>2. CASE q # p
    <3>1. proc'[q] = proc[q] /\ Writing(q) /\ JobOf(q)' = JobOf(q)
      BY <2>2 DEF Writing, JobOf
    <3> QED BY <3>1, WriterState
  <2> QED BY <2>1, <2>2
<1> QED BY <1>1, <1>2, <1>3

\* A write adds the next piece to what the only writer of a file has in it.
LEMMA WriteStep == ASSUME CacheInv, NEW p \in Procs, Write(p) PROVE CacheInv'
<1> DEFINE n == proc[p].node
           g == proc[p].graph
           i == proc[p].written + 1
           t == [proc[p] EXCEPT !.written = i]
<1>1. Writing(p)
  BY DEF Write, Writing
<1>2. /\ proc[p] \in ProcState /\ proc[p].pc = "write"
      /\ g \in CacheGraphs /\ g # NoGraph /\ g.len \in Nat \ {0}
      /\ Key(g.job) = Key(JobOf(p)) /\ n \in 1 .. Len(nodes) /\ proc[p].written \in 0 .. g.len
      /\ \A k \in Keys : entry[k] = n => k = Key(JobOf(p))
  BY <1>1, WriterState
<1>3. i \in 1 .. g.len
  BY <1>2 DEF Write
<1>4. nodes' = [nodes EXCEPT ![n] = Put(nodes[n], i, <<g, i>>)] /\ Becomes(p, t)
      /\ UNCHANGED <<entry, dir, spoiled>>
  BY DEF Write
<1>5. /\ t \in ProcState /\ t.pc = proc[p].pc /\ t.at = proc[p].at /\ t.jobs = proc[p].jobs
      /\ t.graph = g /\ t.node = n /\ t.written = i
  BY <1>2, <1>3, SetWritten
<1> HIDE DEF t
<1>6. proc' \in [Procs -> ProcState] /\ proc'[p] = t /\ \A q \in Procs \ {p} : proc'[q] = proc[q]
  BY <1>4, <1>5, Becoming DEF CacheInv
<1>7. nodes \in Seq(Seq(CacheGraphs \X Nat)) /\ nodes[n] \in Seq(CacheGraphs \X Nat)
  BY <1>2 DEF CacheInv, CacheType
<1>8. Put(nodes[n], i, <<g, i>>) \in Seq(CacheGraphs \X Nat)
  <2> DEFINE c == nodes[n]
             len == IF i > Len(c) THEN i ELSE Len(c)
  <2>1. c \in Seq(CacheGraphs \X Nat) /\ Len(c) \in Nat /\ len \in Nat /\ DOMAIN c = 1 .. Len(c)
    BY <1>3, <1>7
  <2>2. <<NoGraph, 0>> \in CacheGraphs \X Nat /\ <<g, i>> \in CacheGraphs \X Nat
    BY <1>2, <1>3 DEF CacheGraphs
  <2>3. \A j \in 1 .. Len(c) : c[j] \in CacheGraphs \X Nat
    BY <2>1
  <2> HIDE DEF c, len
  <2>4. [j \in 1 .. len |-> IF j = i THEN <<g, i>> ELSE IF j <= Len(c) THEN c[j] ELSE <<NoGraph, 0>>]
          \in [1 .. len -> CacheGraphs \X Nat]
    BY <2>1, <2>2, <2>3
  <2>5. Put(c, i, <<g, i>>) = [j \in 1 .. len |-> IF j = i THEN <<g, i>> ELSE IF j <= Len(c) THEN c[j] ELSE <<NoGraph, 0>>]
    BY DEF Put, len
  <2>6. Put(c, i, <<g, i>>) \in Seq(CacheGraphs \X Nat)
    BY <2>1, <2>4, <2>5
  <2> QED BY <2>6 DEF c
<1>9. /\ nodes' \in Seq(Seq(CacheGraphs \X Nat)) /\ Len(nodes') = Len(nodes)
      /\ nodes'[n] = Put(nodes[n], i, <<g, i>>)
      /\ \A m \in 1 .. Len(nodes) : m # n => nodes'[m] = nodes[m]
  BY <1>2, <1>4, <1>7, <1>8
<1>10. JobOf(p)' = JobOf(p)
  BY <1>5, <1>6 DEF JobOf
<1>11. CacheType' /\ HasJob' /\ OwnFile'
  <2>1. /\ proc'[p].at = proc[p].at /\ proc'[p].jobs = proc[p].jobs /\ proc'[p].graph = proc[p].graph
        /\ proc'[p].node = proc[p].node /\ proc'[p].written = i
    BY <1>5, <1>6
  <2>2. proc'[p].written \in 0 .. proc[p].graph.len
    BY <1>2, <1>3, <2>1
  <2> QED BY <1>1, <1>4, <1>6, <1>9, <1>10, <2>1, <2>2, SameFiles
<1>12. OneKey'
  <2>1. ASSUME NEW k \in Keys, entry'[k] # NoNode, NEW j \in DOMAIN nodes'[entry'[k]]
        PROVE  nodes'[entry'[k]][j][1] = NoGraph \/ Key(nodes'[entry'[k]][j][1].job) = k
    <3>0. entry'[k] = entry[k] /\ entry[k] \in 1 .. Len(nodes)
      BY <1>4, <2>1 DEF CacheInv, CacheType, NoNode
    <3>1. CASE entry[k] = n
      <4>1. k = Key(JobOf(p))
        BY <1>2, <3>1
      <4>2. \A l \in DOMAIN nodes[n] : nodes[n][l][1] = NoGraph \/ Key(nodes[n][l][1].job) = k
        BY <2>1, <3>0, <3>1 DEF CacheInv, OneKey
      <4>3. nodes'[n][j] = <<g, i>> \/ (j \in DOMAIN nodes[n] /\ nodes'[n][j] = nodes[n][j])
            \/ nodes'[n][j] = <<NoGraph, 0>>
        <5>1. j \in DOMAIN Put(nodes[n], i, <<g, i>>) /\ nodes'[n] = Put(nodes[n], i, <<g, i>>)
          BY <1>9, <2>1, <3>0, <3>1
        <5>2. DOMAIN nodes[n] = 1 .. Len(nodes[n]) /\ Len(nodes[n]) \in Nat
          BY <1>7
        <5> QED BY <1>3, <5>1, <5>2 DEF Put
      <4> QED BY <1>2, <3>0, <3>1, <4>1, <4>2, <4>3
    <3>2. CASE entry[k] # n
      BY <1>9, <2>1, <3>0, <3>2 DEF CacheInv, OneKey
    <3> QED BY <3>1, <3>2
  <2> QED BY <1>4, <2>1 DEF CacheInv, OneKey
<1>13. \A m : Writers(m)' = Writers(m)
  BY <1>2, <1>5, <1>6 DEF Writers
<1>14. Unspoiled'
  <2> SUFFICES ASSUME NEW m \in (1 .. Len(nodes)) \ spoiled
               PROVE  /\ \A q, r \in Writers(m) : q = r
                      /\ \A q \in Writers(m) : nodes'[m] = Begun(q)'
                      /\ Writers(m) = {} => IsWhole(nodes'[m])
    BY <1>4, <1>9, <1>13 DEF Unspoiled
  <2>0. /\ \A q, r \in Writers(m) : q = r
        /\ \A q \in Writers(m) : nodes[m] = Begun(q)
        /\ Writers(m) = {} => IsWhole(nodes[m])
    BY DEF CacheInv, Unspoiled
  <2>1. CASE m = n
    <3>1. Writers(m) = {p}
      BY <1>2, <2>0, <2>1 DEF Writers
    <3>2. nodes[n] = [j \in 1 .. i - 1 |-> <<g, j>>]
      <4>1. nodes[n] = [j \in 1 .. proc[p].written |-> <<proc[p].graph, j>>]
        BY <2>0, <2>1, <3>1 DEF Begun
      <4>2. proc[p].written = i - 1
        BY <1>2
      <4> QED BY <4>1, <4>2
    <3>3. Len(nodes[n]) = i - 1
      BY <1>3, <1>7, <3>2
    <3>4. Put(nodes[n], i, <<g, i>>) = [j \in 1 .. i |-> <<g, j>>]
      BY <1>3, <3>2, <3>3 DEF Put
    <3>5. Begun(p)' = [j \in 1 .. i |-> <<g, j>>]
      BY <1>5, <1>6 DEF Begun
    <3> QED BY <1>9, <2>0, <2>1, <3>1, <3>4, <3>5
  <2>2. CASE m # n
    <3>1. p \notin Writers(m)
      BY <2>2 DEF Writers
    <3>2. \A q \in Writers(m) : Begun(q)' = Begun(q)
      BY <1>6, <3>1 DEF Writers, Begun
    <3> QED BY <1>9, <2>0, <2>2, <3>2
  <2> QED BY <2>1, <2>2
<1> QED BY <1>11, <1>12, <1>14 DEF CacheInv

\* A writer that leaves its file: after its last piece, or dead.
LEMMA LeaveStep ==
  ASSUME CacheInv, NEW p \in Procs, Writing(p), NEW pc \in {"use", "dead"}, Goes(p, pc),
         UNCHANGED <<entry, nodes>>,
         \/ pc = "use" /\ proc[p].written = proc[p].graph.len /\ spoiled' = spoiled
         \/ pc = "dead" /\ spoiled' = spoiled \union {proc[p].node}
  PROVE  CacheInv'
<1> DEFINE n == proc[p].node
           g == proc[p].graph
           t == [proc[p] EXCEPT !.pc = pc]
<1>1. /\ proc[p] \in ProcState /\ proc[p].pc = "write"
      /\ g \in CacheGraphs /\ g # NoGraph /\ g.len \in Nat \ {0} /\ proc[p].written \in 0 .. g.len
  BY WriterState
<1>2. /\ t \in ProcState /\ t.pc = pc /\ t.at = proc[p].at /\ t.jobs = proc[p].jobs
      /\ t.graph = g /\ t.node = n /\ t.written = proc[p].written
  <2>1. pc \in Points
    BY DEF Points
  <2> QED BY <1>1, <2>1, SetPc
<1>3. Becomes(p, t)
  BY DEF Goes
<1> HIDE DEF t
<1>4. proc' \in [Procs -> ProcState] /\ proc'[p] = t /\ \A q \in Procs \ {p} : proc'[q] = proc[q]
  BY <1>2, <1>3, Becoming DEF CacheInv
<1>5. JobOf(p)' = JobOf(p)
  BY <1>2, <1>4 DEF JobOf
<1>6. nodes' = nodes /\ entry' = entry
  OBVIOUS
<1>7. CacheType' /\ HasJob' /\ OwnFile'
  <2>1. nodes' \in Seq(Seq(CacheGraphs \X Nat)) /\ Len(nodes') = Len(nodes)
    BY <1>6 DEF CacheInv, CacheType
  <2>2. /\ proc'[p].at = proc[p].at /\ proc'[p].jobs = proc[p].jobs /\ proc'[p].graph = proc[p].graph
        /\ proc'[p].node = proc[p].node /\ proc'[p].written \in 0 .. proc[p].graph.len
    BY <1>1, <1>2, <1>4
  <2> QED BY <1>4, <1>5, <1>6, <2>1, <2>2, SameFiles
<1>8. OneKey'
  BY <1>6 DEF CacheInv, OneKey
<1>9. \A m : Writers(m)' = Writers(m) \ {p}
  BY <1>2, <1>4 DEF Writers
<1>10. Unspoiled'
  <2> SUFFICES ASSUME NEW m \in (1 .. Len(nodes)) \ spoiled'
               PROVE  /\ \A q, r \in Writers(m)' : q = r
                      /\ \A q \in Writers(m)' : nodes[m] = Begun(q)'
                      /\ Writers(m)' = {} => IsWhole(nodes[m])
    BY <1>6 DEF Unspoiled
  <2>0. /\ \A q, r \in Writers(m) : q = r
        /\ \A q \in Writers(m) : nodes[m] = Begun(q)
        /\ Writers(m) = {} => IsWhole(nodes[m])
    BY DEF CacheInv, Unspoiled
  <2>1. \A q \in Writers(m)' : q \in Writers(m) /\ Begun(q)' = Begun(q)
    BY <1>4, <1>9 DEF Writers, Begun
  <2>2. CASE p \in Writers(m)
    <3>1. m = n /\ pc = "use" /\ proc[p].written = g.len
      BY <2>2 DEF Writers
    <3>2. nodes[m] = [j \in 1 .. g.len |-> <<g, j>>]
      BY <2>0, <2>2, <3>1 DEF Begun
    <3>3. nodes[m][1] = <<g, 1>> /\ nodes[m] # <<>>
      BY <1>1, <3>2
    <3>4. IsWhole(nodes[m])
      BY <1>1, <3>2, <3>3 DEF IsWhole, Pieces
    <3> QED BY <2>0, <2>1, <3>4
  <2>3. CASE p \notin Writers(m)
    BY <1>9, <2>0, <2>1, <2>3
  <2> QED BY <2>2, <2>3
<1> QED BY <1>7, <1>8, <1>10 DEF CacheInv

\* A death during the search costs nothing, one while writing the file.
LEMMA DiesStep == ASSUME CacheInv, NEW p \in Procs, Dies(p) PROVE CacheInv'
<1>1. CASE proc[p].pc = "search"
  <2>1. Goes(p, "dead") /\ UNCHANGED <<entry, nodes, spoiled>>
    BY <1>1 DEF Dies
  <2>2. entry' \in [Keys -> 0 .. Len(nodes)]
    BY <2>1 DEF CacheInv, CacheType
  <2> QED BY <1>1, <2>1, <2>2, GoesStep DEF Points, Writing
<1>2. CASE proc[p].pc = "write"
  BY <1>2, LeaveStep DEF Dies, Writing
<1> QED BY <1>1, <1>2 DEF Dies

-----------------------------------------------------------------------------
\* An empty cache.
LEMMA CacheStart == CacheInit => CacheInv
<1> SUFFICES ASSUME CacheInit PROVE CacheInv
  OBVIOUS
<1>1. PICK b \in [Procs -> CacheBatches], f \in [Procs -> Flags] :
        proc = [p \in Procs |->
          [pc |-> "start", settings |-> f[p], jobs |-> b[p], at |-> 1, todo |-> {},
           graph |-> NoGraph, node |-> NoNode, written |-> 0]]
  BY DEF CacheInit
<1>2. entry = [k \in Keys |-> NoNode] /\ nodes = <<>>
  BY DEF CacheInit
<1>3. \A p \in Procs : proc[p].pc = "start"
  BY <1>1
<1>4. CacheType
  <2>1. proc \in [Procs -> ProcState]
    <3> SUFFICES ASSUME NEW p \in Procs
                 PROVE  [pc |-> "start", settings |-> f[p], jobs |-> b[p], at |-> 1, todo |-> {},
                         graph |-> NoGraph, node |-> NoNode, written |-> 0] \in ProcState
      BY <1>1
    <3>1. f[p] \in SUBSET {"d", "r", "w", "c", "o", "u", "x"} /\ b[p] \in CacheBatches
      BY FlagsAssumption
    <3>2. "start" \in Points /\ NoGraph \in CacheGraphs /\ NoNode \in Nat
      BY DEF Points, CacheGraphs, NoNode
    <3> QED BY <3>1, <3>2 DEF ProcState
  <2> QED BY <1>2, <2>1 DEF CacheType, NoNode
<1> QED BY <1>2, <1>3, <1>4 DEF CacheInv, HasJob, OwnFile, OneKey, Unspoiled, Writing, NoNode

\* Every step of a process keeps the invariant.
LEMMA CacheStep == CacheInv /\ [CacheNext]_cacheVars => CacheInv'
<1> SUFFICES ASSUME CacheInv, [CacheNext]_cacheVars PROVE CacheInv'
  OBVIOUS
<1>1. ASSUME NEW p \in Procs, Close(p) PROVE CacheInv'
  BY <1>1, LeaveStep DEF Close, Writing
<1>2. CASE UNCHANGED cacheVars
  <2>1. proc' = proc /\ entry' = entry /\ nodes' = nodes /\ spoiled' = spoiled
    BY <1>2 DEF cacheVars
  <2>2. CacheType' /\ OneKey'
    BY <2>1 DEF CacheInv, CacheType, OneKey
  <2>3. HasJob' /\ OwnFile'
    BY <2>1 DEF CacheInv, HasJob, OwnFile, Writing, JobOf
  <2>4. Unspoiled'
    BY <2>1 DEF CacheInv, Unspoiled, Writers, Begun
  <2> QED BY <2>2, <2>3, <2>4 DEF CacheInv
<1> QED BY <1>1, <1>2, BeforeStep, GraphStep, OpenStep, WriteStep, DiesStep DEF CacheNext

\* However the processes meet, and wherever they die, an entry that nobody is writing is
\* a whole graph, unless two wrote it at a time or one died in the middle.
THEOREM EntriesStayWhole == CacheSpec => []EntriesAreWhole
<1>1. CacheInv => EntriesAreWhole
  <2> SUFFICES ASSUME CacheInv, NEW k \in Keys, entry[k] # NoNode, Writers(entry[k]) = {},
                      entry[k] \notin spoiled
               PROVE  IsWhole(nodes[entry[k]])
    BY DEF EntriesAreWhole
  <2>1. entry[k] \in (1 .. Len(nodes)) \ spoiled
    BY DEF CacheInv, CacheType, NoNode
  <2> QED BY <2>1 DEF CacheInv, Unspoiled
<1> QED BY CacheStart, CacheStep, <1>1, PTL DEF CacheSpec

\* A graph from the cache is one for the checksum of the job that uses it, whichever
\* process put it there, also if the file was spoiled.
THEOREM CachedGraphFits == CacheSpec => []GraphIsForTheJob
<1>1. CacheInv => GraphIsForTheJob
  <2> SUFFICES ASSUME CacheInv, NEW p \in Procs, proc[p].pc = "use"
               PROVE  proc[p].graph.job.crc = JobOf(p).crc /\ proc[p].graph.job.init = JobOf(p).init
    BY DEF GraphIsForTheJob
  <2>1. Key(proc[p].graph.job) = Key(JobOf(p))
    BY DEF CacheInv, HasJob
  <2> QED BY <2>1 DEF Key
<1> QED BY CacheStart, CacheStep, <1>1, PTL DEF CacheSpec

-----------------------------------------------------------------------------
(* What a batch loses and reports. *)

JobParams ==
  {p \in UNION {[D -> UNION {Types[k] : k \in Known}] : D \in SUBSET Known} :
     Local \subseteq DOMAIN p /\ Typed(p)}

OutFiles ==
  {RealPath[o] : o \in DOMAIN RealPath} \union {AutoPath[n] : n \in DOMAIN AutoPath} \union {"stdout"}

BatchType ==
  /\ batch \in Batches
  /\ ran \in Seq(JobParams) /\ job_num = Len(ran)
  /\ bpc \notin {"read", "error"} => params \in JobParams
  /\ \A i \in DOMAIN curves : DOMAIN curves[i] \subseteq Known /\ Typed(curves[i])
  /\ disk \in [OutFiles -> Seq(Nat)]

\* Jobs that print into one file without closing it in between.
SameFile(i, j) == i <= j /\ \A k \in i + 1 .. j : ~First(k)

\* The jobs whose file is closed.
Group   == {j \in DOMAIN ran : SameFile(j, Len(ran))}
Sharing == bpc \in {"run", "print", "failed"} \/ (bpc = "loop" /\ outfile # "")
Settled == IF Sharing THEN DOMAIN ran \ Group ELSE DOMAIN ran

FilesOf(S) == {Target(j) : j \in S} \ {"stdout"}

Warned(j) == LastOfFile(j) /\ \E i \in 1 .. j : Overwrites(i) /\ SameFile(i, j)
WarningsOf(S) == {<<j, Target(j)>> : j \in {j \in S : Warned(j)}}

Home(p) == IF p["file"] = "-" THEN "" ELSE Path(p)

\* The open file is that of the last job.
OutputOf ==
  /\ bpc \in {"read", "error"} => job_num = 0 /\ curves = <<>>
  /\ bpc \in {"read", "loop"} => filename = outfile /\
       IF job_num = 0 THEN outfile = "" /\ prev_output = ""
       ELSE prev_output = Job["file"] /\ outfile = IF Job["file"] = "auto" THEN "" ELSE Home(Job)
  /\ bpc \in {"run", "print"} => job_num # 0 /\ (new_file <=> First(job_num))
  /\ bpc = "run" => outfile = IF new_file THEN "" ELSE Home(Job)
  /\ bpc = "print" => outfile = Home(Job)

NamesAre    == filenames = FilesOf(Settled)
WarningsAre == bad_filenames = WarningsOf(Settled)

Finished(j) == j < job_num \/ bpc \in {"loop", "end"}

\* A text that is not there was in a file that a later job emptied.
Lost(j) ==
  \E k \in j + 1 .. job_num :
    Overwrites(k) /\ Target(k) = Target(j) /\ (k \in Settled \/ outfile = Target(k))

Kept == ~batch.nop => \A j \in DOMAIN ran : Finished(j) => Has(Target(j), j) \/ Lost(j)

BatchInv == BatchType /\ OutputOf /\ NamesAre /\ WarningsAre /\ Kept

-----------------------------------------------------------------------------
(* Parameters and paths. *)

LEMMA PathType ==
  ASSUME NEW p \in JobParams
  PROVE  /\ p["file"] # ""
         /\ Home(p) # "stdout"
         /\ p["file"] # "-" => Path(p) \in OutFiles /\ Path(p) # "stdout" /\ Path(p) # ""
         /\ p["file"] = "-" <=> Home(p) = ""
<1>1. p["file"] \in Types["file"] /\ p["data-len"] \in Types["data-len"]
  BY DEF JobParams, Typed, Local, Known
<1>2. p["data-len"] \in DOMAIN AutoPath
  BY <1>1, OutputsAssumption
<1>3. p["file"] \in {"-", "auto"} \union DOMAIN RealPath
  BY <1>1, OutputsAssumption
<1>4. p["file"] # "-" => Path(p) \in OutFiles /\ Path(p) # "stdout" /\ Path(p) # ""
  BY <1>2, <1>3, OutputsAssumption DEF Path, OutFiles
<1> QED BY <1>3, <1>4, OutputsAssumption DEF Home

LEMMA OverType ==
  ASSUME NEW a, DOMAIN a \subseteq Known, Typed(a),
         NEW b, DOMAIN b \subseteq Known, Local \subseteq DOMAIN b, Typed(b)
  PROVE  Over(a, b) \in JobParams
<1> DEFINE D == DOMAIN a \union DOMAIN b
           V == UNION {Types[k] : k \in Known}
           o == Over(a, b)
<1>2. o = [k \in D |-> o[k]] /\ DOMAIN o = D
  BY DEF Over
<1>3. \A k \in D : o[k] \in Types[k] /\ k \in Known
  BY DEF Over, Typed
<1>4. \A k \in D : o[k] \in V
  BY <1>3
<1>5. D \in SUBSET Known
  OBVIOUS
<1>6. o \in [D -> V]
  BY <1>2, <1>4
<1>7. Typed(o)
  BY <1>2, <1>3 DEF Typed
<1> HIDE DEF D, V, o
<1>8. o \in UNION {[E -> V] : E \in SUBSET Known}
  BY <1>5, <1>6
<1>9. Local \subseteq DOMAIN o
  BY <1>2 DEF D
<1> QED BY <1>7, <1>8, <1>9 DEF JobParams, o, V

LEMMA ParametersType ==
  ASSUME BatchType, bpc = "loop", NEW i \in DOMAIN curves
  PROVE  Parameters(curves[i]) \in JobParams
<1> DEFINE o == Over(curves[i], params)
           V == UNION {Types[k] : k \in Known}
           e == [o EXCEPT !["file"] = "-"]
<1>1. o \in JobParams
  <2>1. params \in JobParams
    BY DEF BatchType
  <2>2. DOMAIN params \subseteq Known /\ Local \subseteq DOMAIN params /\ Typed(params)
    BY <2>1 DEF JobParams
  <2> QED BY <2>2, OverType DEF BatchType
<1>2. PICK D \in SUBSET Known : o \in [D -> V]
  BY <1>1 DEF JobParams
<1>3. "-" \in Types["file"] /\ "-" \in V
  BY OutputsAssumption DEF Known, Local
<1> HIDE DEF o, V
<1>4. e \in [D -> V]
  BY <1>2, <1>3
<1>5. Local \subseteq DOMAIN e /\ Typed(e)
  BY <1>1, <1>2, <1>3 DEF JobParams, Typed
<1>6. e \in UNION {[E -> V] : E \in SUBSET Known}
  BY <1>4
<1>7. e \in JobParams
  BY <1>5, <1>6 DEF JobParams, V
<1> QED BY <1>1, <1>7 DEF Parameters, o

-----------------------------------------------------------------------------
(* Jobs that share a file. *)

LEMMA JobsAre ==
  ASSUME ran \in Seq(JobParams)
  PROVE  Len(ran) \in Nat /\ DOMAIN ran = 1 .. Len(ran) /\ \A j \in 1 .. Len(ran) : ran[j] \in JobParams
OBVIOUS

LEMMA TargetIs ==
  ASSUME ran \in Seq(JobParams), NEW j \in DOMAIN ran
  PROVE  /\ Target(j) \in OutFiles
         /\ Target(j) = "stdout" <=> ran[j]["file"] = "-"
         /\ Target(j) # "stdout" => Target(j) = Home(ran[j])
         /\ Target(j) # ""
BY JobsAre, PathType DEF Target, Home, OutFiles

LEMMA SameTarget ==
  ASSUME ran \in Seq(JobParams), NEW i \in DOMAIN ran, NEW j \in DOMAIN ran, SameFile(i, j)
  PROVE  Target(i) = Target(j)
<1> DEFINE Off == {m \in i .. j : Target(m) # Target(i)}
<1>1. i \in Nat /\ j \in Nat /\ i <= j /\ 1 <= i /\ j <= Len(ran) /\ Len(ran) \in Nat
  BY JobsAre DEF SameFile
<1>2. SUFFICES ASSUME Off # {} PROVE FALSE
  BY <1>1
<1>3. Off \subseteq Nat
  BY <1>1
<1>4. PICK m \in Off : \A k \in Off : ~(k < m)
  BY <1>2, <1>3, LeastNumber
<1>5. m # i /\ m \in i + 1 .. j /\ m - 1 \in i .. j /\ m - 1 < m
  BY <1>1, <1>4
<1>6. Target(m - 1) = Target(i)
  BY <1>4, <1>5
<1>7. ~First(m)
  BY <1>5 DEF SameFile
<1>8. ran[m]["file"] = ran[m - 1]["file"] /\ ran[m]["file"] # "auto"
  BY <1>7 DEF First
<1>9. Target(m) = Target(m - 1)
  BY <1>8 DEF Target, Path
<1> QED BY <1>4, <1>6, <1>9

LEMMA FirstOf ==
  ASSUME ran \in Seq(JobParams), NEW j \in DOMAIN ran
  PROVE  \E i \in 1 .. j : First(i) /\ SameFile(i, j)
<1> DEFINE S == {d \in 0 .. j - 1 : First(j - d)}
<1>1. j \in Nat /\ 1 <= j
  BY JobsAre
<1>2. j - 1 \in S
  BY <1>1 DEF First
<1>3. PICK d \in S : \A e \in S : ~(e < d)
  <2>1. S \subseteq Nat
    BY <1>1
  <2> HIDE DEF S
  <2> QED BY <1>2, <2>1, LeastNumber
<1>4. j - d \in 1 .. j
  BY <1>1
<1>5. ASSUME NEW k \in j - d + 1 .. j PROVE ~First(k)
  <2>1. j - k \in 0 .. j - 1 /\ j - k < d /\ j - (j - k) = k
    BY <1>1
  <2> QED BY <1>3, <2>1
<1> QED BY <1>1, <1>3, <1>4, <1>5 DEF SameFile

LEMMA LastOf ==
  ASSUME ran \in Seq(JobParams), NEW j \in DOMAIN ran
  PROVE  \E l \in DOMAIN ran : SameFile(j, l) /\ LastOfFile(l)
<1> DEFINE S == {l \in j .. Len(ran) : LastOfFile(l)}
<1>1. j \in Nat /\ 1 <= j /\ Len(ran) \in Nat /\ j <= Len(ran) /\ DOMAIN ran = 1 .. Len(ran)
  BY JobsAre
<1>2. Len(ran) \in S
  BY <1>1 DEF LastOfFile
<1>3. PICK l \in S : \A m \in S : ~(m < l)
  <2>1. S \subseteq Nat
    BY <1>1
  <2> HIDE DEF S
  <2> QED BY <1>2, <2>1, LeastNumber
<1>4. ASSUME NEW k \in j + 1 .. l PROVE ~First(k)
  <2>1. k - 1 \in j .. Len(ran) /\ k - 1 < l /\ k - 1 + 1 = k
    BY <1>1
  <2>2. ~LastOfFile(k - 1)
    BY <1>3, <2>1
  <2> QED BY <2>1, <2>2 DEF LastOfFile
<1> QED BY <1>1, <1>3, <1>4 DEF SameFile

LEMMA GroupIs ==
  ASSUME ran \in Seq(JobParams), Len(ran) # 0
  PROVE  /\ Group \subseteq DOMAIN ran /\ Len(ran) \in Group
         /\ \A j \in Group : Target(j) = Target(Len(ran))
         /\ \A j \in Group : LastOfFile(j) => j = Len(ran)
<1>1. Len(ran) \in DOMAIN ran /\ SameFile(Len(ran), Len(ran))
  BY JobsAre DEF SameFile
<1>2. ASSUME NEW j \in Group PROVE Target(j) = Target(Len(ran))
  BY <1>1, SameTarget DEF Group
<1>3. ASSUME NEW j \in Group, LastOfFile(j) PROVE j = Len(ran)
  <2>1. SUFFICES ASSUME j # Len(ran) PROVE FALSE
    OBVIOUS
  <2>2. j + 1 \in j + 1 .. Len(ran) /\ First(j + 1)
    BY <1>3, <2>1, JobsAre DEF LastOfFile, Group, SameFile
  <2> QED BY <2>2 DEF Group, SameFile
<1> QED BY <1>1, <1>2, <1>3 DEF Group

\* The last file was closed before if its first job emptied it.
LEMMA WasClosed ==
  ASSUME ran \in Seq(JobParams), Len(ran) # 0, Target(Len(ran)) # "stdout"
  PROVE  Target(Len(ran)) \in FilesOf(DOMAIN ran \ Group) <=> Warned(Len(ran))
<1> DEFINE n == Len(ran)
<1>1. n \in Nat /\ DOMAIN ran = 1 .. n /\ n \in 1 .. n
  BY JobsAre
<1>2. ASSUME Target(n) \in FilesOf(DOMAIN ran \ Group) PROVE Warned(n)
  <2>1. PICK j \in DOMAIN ran \ Group : Target(j) = Target(n)
    BY <1>2 DEF FilesOf
  <2>2. PICK i \in 1 .. n : First(i) /\ SameFile(i, n)
    BY <1>1, FirstOf
  <2>3. j \in 1 .. i - 1
    BY <1>1, <2>1, <2>2 DEF Group, SameFile
  <2>4. Target(i) = Target(n)
    BY <1>1, <2>2, SameTarget
  <2>5. Overwrites(i)
    BY <2>1, <2>2, <2>3, <2>4 DEF Overwrites
  <2> QED BY <2>2, <2>5 DEF Warned, LastOfFile
<1>3. ASSUME Warned(n) PROVE Target(n) \in FilesOf(DOMAIN ran \ Group)
  <2>1. PICK i \in 1 .. n : Overwrites(i) /\ SameFile(i, n)
    BY <1>3 DEF Warned
  <2>2. PICK j \in 1 .. i - 1 : Target(j) = Target(i)
    BY <2>1 DEF Overwrites
  <2>3. Target(i) = Target(n)
    BY <1>1, <2>1, SameTarget
  <2>4. i \in j + 1 .. n /\ First(i) /\ j \in 1 .. n
    BY <1>1, <2>1, <2>2 DEF Overwrites
  <2>5. j \notin Group
    BY <2>4 DEF Group, SameFile
  <2> QED BY <1>1, <2>2, <2>3, <2>4, <2>5 DEF FilesOf
<1> QED BY <1>2, <1>3

LEMMA Closing ==
  ASSUME ran \in Seq(JobParams), Len(ran) # 0, Target(Len(ran)) # "stdout",
         filenames = FilesOf(DOMAIN ran \ Group), bad_filenames = WarningsOf(DOMAIN ran \ Group),
         Classify(Target(Len(ran)), Len(ran))
  PROVE  filenames' = FilesOf(DOMAIN ran) /\ bad_filenames' = WarningsOf(DOMAIN ran)
<1> DEFINE n == Len(ran)
           f == Target(n)
<1>1. n \in Group /\ Group \subseteq DOMAIN ran /\ (\A j \in Group : Target(j) = f)
      /\ \A j \in Group : LastOfFile(j) => j = n
  BY GroupIs
<1>2. n \in DOMAIN ran /\ f # ""
  BY <1>1, TargetIs
<1>3. filenames' = FilesOf(DOMAIN ran)
  BY <1>1, <1>2 DEF Classify, FilesOf
<1>4. bad_filenames' = WarningsOf(DOMAIN ran \ Group) \union (IF Warned(n) THEN {<<n, f>>} ELSE {})
  BY <1>2, WasClosed DEF Classify
<1>5. \A j \in Group : Warned(j) => j = n
  BY <1>1 DEF Warned
<1>6. WarningsOf(DOMAIN ran) = WarningsOf(DOMAIN ran \ Group) \union WarningsOf(Group)
  BY <1>1 DEF WarningsOf
<1>7. WarningsOf(Group) = IF Warned(n) THEN {<<n, f>>} ELSE {}
  BY <1>1, <1>5 DEF WarningsOf
<1> QED BY <1>3, <1>4, <1>6, <1>7

\* Jobs that print into stdout leave no name and no warning.
LEMMA ClosingNothing ==
  ASSUME ran \in Seq(JobParams), Len(ran) # 0, Target(Len(ran)) = "stdout"
  PROVE  /\ FilesOf(DOMAIN ran) = FilesOf(DOMAIN ran \ Group)
         /\ WarningsOf(DOMAIN ran) = WarningsOf(DOMAIN ran \ Group)
<1>1. Group \subseteq DOMAIN ran /\ \A j \in Group : Target(j) = "stdout"
  BY GroupIs
<1>2. ASSUME NEW j \in Group PROVE ~Warned(j)
  <2>1. SUFFICES ASSUME NEW i \in 1 .. j, Overwrites(i), SameFile(i, j) PROVE FALSE
    BY DEF Warned
  <2>2. i \in DOMAIN ran /\ j \in DOMAIN ran
    BY <1>1, JobsAre
  <2>3. Target(i) = "stdout"
    BY <1>1, <2>1, <2>2, SameTarget
  <2> QED BY <2>1, <2>3 DEF Overwrites
<1> QED BY <1>1, <1>2 DEF FilesOf, WarningsOf

-----------------------------------------------------------------------------
(* The steps. *)

LEMMA SameJobs ==
  ASSUME ran' = ran
  PROVE  /\ Group' = Group
         /\ \A j : Target(j)' = Target(j) /\ (Overwrites(j)' <=> Overwrites(j)) /\ (Warned(j)' <=> Warned(j))
         /\ \A S : FilesOf(S)' = FilesOf(S) /\ WarningsOf(S)' = WarningsOf(S)
<1>1. Group' = Group
  BY DEF Group, SameFile, First
<1>2. \A j : Target(j)' = Target(j)
  BY DEF Target, Path
<1>3. \A j : Overwrites(j)' <=> Overwrites(j)
  BY <1>2 DEF Overwrites, First
<1>4. \A j : Warned(j)' <=> Warned(j)
  BY <1>3 DEF Warned, LastOfFile, First, SameFile
<1>5. \A S : FilesOf(S)' = FilesOf(S)
  BY <1>2 DEF FilesOf
<1>6. \A S : WarningsOf(S)' = WarningsOf(S)
  BY <1>2, <1>4 DEF WarningsOf
<1> QED BY <1>1, <1>2, <1>3, <1>4, <1>5, <1>6

LEMMA BatchQuiet ==
  ASSUME BatchInv, UNCHANGED <<batch, ran, job_num, filenames, bad_filenames, disk, outfile>>,
         Sharing' = Sharing, \A j : Finished(j)' => Finished(j)
  PROVE  NamesAre' /\ WarningsAre' /\ Kept'
<1>1. /\ batch' = batch /\ ran' = ran /\ job_num' = job_num /\ filenames' = filenames
      /\ bad_filenames' = bad_filenames /\ disk' = disk /\ outfile' = outfile
  OBVIOUS
<1>2. Group' = Group /\ \A j : Target(j)' = Target(j) /\ (Overwrites(j)' <=> Overwrites(j)) /\ (Warned(j)' <=> Warned(j))
  BY <1>1, SameJobs
<1>3. Settled' = Settled
  BY <1>1, <1>2 DEF Settled
<1>4. NamesAre'
  BY <1>1, <1>2, <1>3 DEF BatchInv, NamesAre, FilesOf
<1>5. WarningsAre'
  BY <1>1, <1>2, <1>3 DEF BatchInv, WarningsAre, WarningsOf
<1>6. Kept'
  <2>1. \A j : Lost(j) => Lost(j)'
    BY <1>1, <1>2, <1>3 DEF Lost
  <2>2. \A j : Has(Target(j), j) => Has(Target(j), j)'
    BY <1>1, <1>2 DEF Has
  <2> QED BY <1>1, <2>1, <2>2 DEF BatchInv, Kept
<1> QED BY <1>4, <1>5, <1>6

LEMMA EmptyIs == ASSUME NEW S PROVE DOMAIN <<>> = {} /\ Len(<<>>) = 0 /\ <<>> \in Seq(S)
OBVIOUS

LEMMA NoJobs ==
  ASSUME ran = <<>>
  PROVE  /\ DOMAIN ran = {} /\ Len(ran) = 0
         /\ FilesOf(DOMAIN ran) = {} /\ WarningsOf(DOMAIN ran) = {}
         /\ FilesOf({}) = {} /\ WarningsOf({}) = {}
BY DEF FilesOf, WarningsOf

LEMMA BatchStart == BatchInit => BatchInv
<1> SUFFICES ASSUME BatchInit PROVE BatchInv
  OBVIOUS
<1>1. ran = <<>> /\ job_num = 0 /\ bpc = "read" /\ curves = <<>> /\ batch \in Batches
      /\ filenames = {} /\ bad_filenames = {} /\ outfile = "" /\ filename = "" /\ prev_output = ""
  BY DEF BatchInit
<1>2. DOMAIN ran = {} /\ Len(ran) = 0 /\ DOMAIN curves = {} /\ ran \in Seq(JobParams)
  BY <1>1, EmptyIs, Zenon
<1>3. disk \in [OutFiles -> Seq(Nat)]
  <2>1. disk = [f \in OutFiles |-> <<>>]
    BY DEF BatchInit, OutFiles
  <2>2. <<>> \in Seq(Nat)
    OBVIOUS
  <2> QED BY <2>1, <2>2
<1>4. BatchType
  BY <1>1, <1>2, <1>3 DEF BatchType
<1>5. OutputOf
  BY <1>1 DEF OutputOf
<1>6. Settled = {}
  BY <1>2 DEF Settled
<1>7. NamesAre /\ WarningsAre
  BY <1>1, <1>6, NoJobs DEF NamesAre, WarningsAre
<1>8. Kept
  BY <1>2 DEF Kept
<1> QED BY <1>4, <1>5, <1>7, <1>8 DEF BatchInv

LEMMA ReadStep == ASSUME BatchInv, ReadProgram PROVE BatchInv'
<1>1. /\ batch' = batch /\ ran' = ran /\ job_num' = job_num /\ filenames' = filenames
      /\ bad_filenames' = bad_filenames /\ disk' = disk /\ outfile' = outfile /\ filename' = filename
      /\ prev_output' = prev_output /\ curves' = curves /\ params' = params
      /\ bpc = "read" /\ bpc' \in {"read", "error"}
  BY DEF ReadProgram, files, Error
<1>2. BatchType' /\ OutputOf'
  BY <1>1 DEF BatchInv, BatchType, OutputOf, Home, Path, Job, First
<1>3. NamesAre' /\ WarningsAre' /\ Kept'
  <2>1. Sharing' = Sharing /\ \A j : Finished(j)' => Finished(j)
    BY <1>1 DEF Sharing, Finished
  <2> QED BY <1>1, <2>1, BatchQuiet
<1> QED BY <1>2, <1>3 DEF BatchInv

LEMMA ValidateStep == ASSUME BatchInv, Validate PROVE BatchInv'
<1>1. /\ batch' = batch /\ ran' = ran /\ job_num' = job_num /\ filenames' = filenames
      /\ bad_filenames' = bad_filenames /\ disk' = disk /\ outfile' = outfile /\ filename' = filename
      /\ prev_output' = prev_output /\ params' = Over(batch.cli, Defaults)
      /\ bpc = "read" /\ bpc' \in {"loop", "error"} /\ job_num = 0
  BY DEF Validate, files, Error, BatchInv, OutputOf
<1>2. params' \in JobParams
  <2>1. DOMAIN batch.cli \subseteq Known /\ Typed(batch.cli)
    BY OutputsAssumption DEF BatchInv, BatchType, Known
  <2>2. DOMAIN Defaults \subseteq Known /\ Local \subseteq DOMAIN Defaults /\ Typed(Defaults)
    BY OutputsAssumption DEF Known
  <2> HIDE DEF Known, Local, Typed
  <2> QED BY <1>1, <2>1, <2>2, OverType
<1>3. /\ \A i \in DOMAIN curves' : DOMAIN curves'[i] \subseteq Known /\ Typed(curves'[i])
      /\ bpc' = "error" => curves' = curves
  <2>1. CASE curves' = <<[file |-> params'["file"]]>> /\ bpc' = "loop"
    <3>1. params'["file"] \in Types["file"]
      BY <1>2 DEF JobParams, Typed, Local, Known
    <3>2. DOMAIN curves' = {1} /\ curves'[1] = [file |-> params'["file"]]
      BY <2>1
    <3>3. DOMAIN curves'[1] = {"file"} /\ curves'[1]["file"] = params'["file"]
      BY <3>2
    <3> QED BY <2>1, <3>1, <3>2, <3>3 DEF Typed, Known, Local
  <2>2. CASE (\A i \in DOMAIN Curves : Valid(Curves[i])) /\ curves' = Curves /\ bpc' = "loop"
    BY <2>2 DEF Valid
  <2>3. CASE Error
    BY <2>3 DEF Error, BatchInv, BatchType
  <2> QED BY <2>1, <2>2, <2>3 DEF Validate
<1>4. BatchType' /\ OutputOf'
  BY <1>1, <1>2, <1>3 DEF BatchInv, BatchType, OutputOf
<1>5. NamesAre' /\ WarningsAre' /\ Kept'
  <2>1. Sharing' = Sharing
    BY <1>1 DEF Sharing, BatchInv, OutputOf
  <2>2. DOMAIN ran = {}
    BY <1>1, JobsAre DEF BatchInv, BatchType
  <2>3. Group = {} /\ Group' = {}
    BY <1>1, <2>2 DEF Group
  <2>4. Settled = {} /\ Settled' = {}
    BY <1>1, <2>2, <2>3 DEF Settled
  <2>5. filenames = {} /\ bad_filenames = {}
    BY <2>4 DEF BatchInv, NamesAre, WarningsAre, FilesOf, WarningsOf
  <2>6. NamesAre' /\ WarningsAre'
    BY <1>1, <2>4, <2>5 DEF NamesAre, WarningsAre, FilesOf, WarningsOf
  <2>7. Kept'
    BY <1>1, <2>2 DEF Kept
  <2> QED BY <2>6, <2>7
<1> QED BY <1>4, <1>5 DEF BatchInv

\* A further job changes nothing of those before, but whether the last of them is the
\* last of its file.
LEMMA Grows ==
  ASSUME ran \in Seq(JobParams), NEW p \in JobParams, ran' = Append(ran, p)
  PROVE  /\ ran' \in Seq(JobParams) /\ Len(ran') = Len(ran) + 1
         /\ DOMAIN ran = 1 .. Len(ran) /\ DOMAIN ran' = 1 .. Len(ran) + 1
         /\ ran'[Len(ran) + 1] = p
         /\ \A j \in DOMAIN ran : ran'[j] = ran[j]
OBVIOUS

LEMMA OldJobs ==
  ASSUME ran \in Seq(JobParams), NEW p \in JobParams, ran' = Append(ran, p), NEW n, n = Len(ran)
  PROVE  /\ \A j \in DOMAIN ran : Target(j)' = Target(j) /\ (Overwrites(j)' <=> Overwrites(j))
         /\ \A i, j \in DOMAIN ran : SameFile(i, j)' <=> SameFile(i, j)
         /\ \A j \in DOMAIN ran : j # n \/ First(n + 1)' => (Warned(j)' <=> Warned(j))
<1>1. /\ Len(ran') = n + 1 /\ DOMAIN ran = 1 .. n /\ DOMAIN ran' = 1 .. n + 1 /\ n \in Nat
      /\ \A j \in DOMAIN ran : ran'[j] = ran[j]
  BY Grows, JobsAre
<1>2. \A j \in DOMAIN ran : Target(j)' = Target(j)
  BY <1>1 DEF Target, Path
<1>3. \A j \in DOMAIN ran : First(j)' <=> First(j)
  <2>1. SUFFICES ASSUME NEW j \in DOMAIN ran PROVE First(j)' <=> First(j)
    OBVIOUS
  <2>2. j # 1 => j - 1 \in DOMAIN ran
    BY <1>1
  <2> QED BY <1>1, <2>2 DEF First
<1>4. \A i, j \in DOMAIN ran : SameFile(i, j)' <=> SameFile(i, j)
  <2>1. SUFFICES ASSUME NEW i \in DOMAIN ran, NEW j \in DOMAIN ran PROVE SameFile(i, j)' <=> SameFile(i, j)
    OBVIOUS
  <2>2. \A k \in i + 1 .. j : k \in DOMAIN ran
    BY <1>1
  <2>3. \A k \in i + 1 .. j : First(k)' <=> First(k)
    BY <1>3, <2>2
  <2> QED BY <2>3 DEF SameFile
<1>5. \A j \in DOMAIN ran : Overwrites(j)' <=> Overwrites(j)
  <2>1. SUFFICES ASSUME NEW j \in DOMAIN ran PROVE Overwrites(j)' <=> Overwrites(j)
    OBVIOUS
  <2>2. \A k \in 1 .. j - 1 : k \in DOMAIN ran
    BY <1>1
  <2>3. \A k \in 1 .. j - 1 : Target(k)' = Target(k)
    BY <1>2, <2>2
  <2>4. Target(j)' = Target(j) /\ (First(j)' <=> First(j))
    BY <1>2, <1>3
  <2> QED BY <2>3, <2>4 DEF Overwrites
<1>6. \A j \in DOMAIN ran : j # n \/ First(n + 1)' => (Warned(j)' <=> Warned(j))
  <2>1. SUFFICES ASSUME NEW j \in DOMAIN ran, j # n \/ First(n + 1)' PROVE Warned(j)' <=> Warned(j)
    OBVIOUS
  <2>2. LastOfFile(j)' <=> LastOfFile(j)
    <3>1. CASE j # n
      <4>1. j + 1 \in DOMAIN ran /\ j # n + 1
        BY <1>1, <3>1
      <4>2. First(j + 1)' <=> First(j + 1)
        BY <1>3, <4>1
      <4> QED BY <1>1, <3>1, <4>1, <4>2 DEF LastOfFile
    <3>2. CASE j = n
      BY <2>1, <3>2 DEF LastOfFile
    <3> QED BY <3>1, <3>2
  <2>3. \A i \in 1 .. j : i \in DOMAIN ran
    BY <1>1
  <2>4. \A i \in 1 .. j : (Overwrites(i)' <=> Overwrites(i)) /\ (SameFile(i, j)' <=> SameFile(i, j))
    BY <1>4, <1>5, <2>3
  <2> QED BY <2>2, <2>4 DEF Warned
<1> QED BY <1>2, <1>4, <1>5, <1>6

\* A job that starts has a file of its own, or shares that of the job before.
LEMMA GroupGrows ==
  ASSUME ran \in Seq(JobParams), NEW p \in JobParams, ran' = Append(ran, p), NEW n, n = Len(ran)
  PROVE  (DOMAIN ran \ Group)' = IF First(n + 1)' THEN DOMAIN ran ELSE DOMAIN ran \ Group
<1>1. /\ Len(ran') = n + 1 /\ DOMAIN ran = 1 .. n /\ DOMAIN ran' = 1 .. n + 1 /\ n \in Nat
  BY Grows, JobsAre
<1>2. n + 1 \in Group'
  BY <1>1 DEF Group, SameFile
<1>3. CASE First(n + 1)'
  <2>1. ASSUME NEW j \in DOMAIN ran PROVE j \notin Group'
    <3>1. n + 1 \in j + 1 .. n + 1
      BY <1>1
    <3> QED BY <1>1, <1>3, <3>1 DEF Group, SameFile
  <2> QED BY <1>1, <1>2, <1>3, <2>1
<1>4. CASE ~First(n + 1)'
  <2>1. ASSUME NEW j \in DOMAIN ran PROVE j \in Group' <=> j \in Group
    <3>1. n \in DOMAIN ran /\ j <= n
      BY <1>1
    <3>2. SameFile(j, n)' <=> SameFile(j, n)
      BY <3>1, OldJobs
    <3>3. j + 1 .. n + 1 = (j + 1 .. n) \union {n + 1}
      BY <1>1
    <3>4. SameFile(j, n + 1)' <=> SameFile(j, n)'
      BY <1>1, <1>4, <3>1, <3>3 DEF SameFile
    <3> QED BY <1>1, <3>2, <3>4 DEF Group
  <2> QED BY <1>1, <1>2, <1>4, <2>1
<1> QED BY <1>3, <1>4

\* What is closed before a job starts.
LEMMA StartCloses ==
  ASSUME BatchInv, StartJob, NEW n, n = Len(ran)
  PROVE  LET p == Parameters(curves[n + 1])
             S == IF First(n + 1)' THEN DOMAIN ran ELSE DOMAIN ran \ Group
         IN  /\ p \in JobParams /\ ran' = Append(ran, p)
             /\ filenames' = FilesOf(S) /\ bad_filenames' = WarningsOf(S)
             /\ new_file' <=> First(n + 1)'
             /\ outfile' = IF new_file' THEN "" ELSE Home(p)
             /\ new_file' \/ outfile' = outfile
             /\ ~new_file' /\ outfile = "" => n # 0 /\ Target(n) = "stdout"
<1> DEFINE p == Parameters(curves[n + 1])
<1>0. BatchType /\ OutputOf
  BY DEF BatchInv
<1>1. /\ bpc = "loop" /\ job_num = n /\ job_num + 1 \in DOMAIN curves /\ ran \in Seq(JobParams) /\ n \in Nat
      /\ ran' = Append(ran, p) /\ (new_file' <=> ~Continues(p["file"]))
      /\ outfile = filename
  <2>1. bpc = "loop" /\ job_num + 1 \in DOMAIN curves
    BY DEF StartJob
  <2>2. job_num = n /\ ran \in Seq(JobParams)
    BY <1>0 DEF BatchType
  <2>3. n \in Nat
    BY <2>2, JobsAre
  <2>4. ran' = Append(ran, p) /\ (new_file' <=> ~Continues(p["file"]))
    BY <2>2 DEF StartJob
  <2>5. outfile = filename
    BY <1>0, <2>1 DEF OutputOf
  <2> QED BY <2>1, <2>2, <2>3, <2>4, <2>5
<1>2. p \in JobParams
  BY <1>0, <1>1, ParametersType
<1> HIDE DEF p
<1>3. /\ Len(ran') = n + 1 /\ DOMAIN ran = 1 .. n /\ ran'[n + 1] = p
      /\ \A j \in DOMAIN ran : ran'[j] = ran[j]
  BY <1>1, <1>2, Grows
<1>4. p["file"] # ""
  BY <1>2, PathType
<1>5. n # 0 => /\ prev_output = ran[n]["file"] /\ n \in DOMAIN ran /\ n + 1 # 1
               /\ outfile = IF ran[n]["file"] = "auto" THEN "" ELSE Home(ran[n])
               /\ ran'[n] = ran[n] /\ n + 1 - 1 = n
  <2>1. SUFFICES ASSUME n # 0
        PROVE  /\ prev_output = ran[n]["file"] /\ n \in DOMAIN ran /\ n + 1 # 1
               /\ outfile = IF ran[n]["file"] = "auto" THEN "" ELSE Home(ran[n])
               /\ ran'[n] = ran[n] /\ n + 1 - 1 = n
    OBVIOUS
  <2>2. n \in Nat /\ DOMAIN ran = 1 .. n
    BY <1>1, <1>3
  <2>3. n \in DOMAIN ran /\ n + 1 # 1 /\ n + 1 - 1 = n
    BY <2>1, <2>2
  <2>4. ran'[n] = ran[n]
    BY <1>3, <2>3
  <2>5. bpc = "loop" /\ job_num = n
    BY <1>1
  <2>6. prev_output = ran[n]["file"] /\ outfile = IF ran[n]["file"] = "auto" THEN "" ELSE Home(ran[n])
    BY <1>0, <2>1, <2>5 DEF OutputOf, Job
  <2> QED BY <2>3, <2>4, <2>6
<1>6. n = 0 => prev_output = "" /\ outfile = "" /\ Settled = {} /\ DOMAIN ran = {}
  <2>1. SUFFICES ASSUME n = 0 PROVE prev_output = "" /\ outfile = "" /\ DOMAIN ran = {}
    BY DEF Settled
  <2>2. DOMAIN ran = {}
    BY <1>3, <2>1
  <2>3. bpc = "loop" /\ job_num = 0
    BY <1>1, <2>1
  <2>4. prev_output = "" /\ outfile = ""
    BY <1>0, <2>3 DEF OutputOf
  <2> QED BY <2>2, <2>4
<1>7. new_file' <=> First(n + 1)'
  <2>1. new_file' <=> ~Continues(p["file"])
    BY <1>1
  <2>2. CASE n = 0
    <3>1. prev_output = ""
      BY <1>6, <2>2
    <3>2. First(n + 1)'
      BY <2>2 DEF First
    <3> QED BY <1>4, <2>1, <3>1, <3>2 DEF Continues
  <2>3. CASE n # 0
    <3>1. prev_output = ran[n]["file"] /\ n + 1 # 1 /\ ran'[n + 1 - 1] = ran[n]
      BY <1>5, <2>3
    <3>2. ran'[n + 1] = p
      BY <1>3
    <3>3. First(n + 1)' <=> p["file"] # ran[n]["file"] \/ p["file"] = "auto"
      BY <3>1, <3>2 DEF First
    <3> QED BY <2>1, <3>1, <3>3 DEF Continues
  <2> QED BY <2>2, <2>3
<1>8. Sharing <=> outfile # ""
  BY <1>1 DEF Sharing
<1>9. n # 0 /\ outfile # "" => Target(n) = outfile /\ Target(n) # "stdout"
  <2>1. SUFFICES ASSUME n # 0, outfile # "" PROVE Target(n) = outfile /\ Target(n) # "stdout"
    OBVIOUS
  <2>2. outfile = Home(ran[n]) /\ ran[n]["file"] # "-"
    BY <1>5, <2>1 DEF Home
  <2> QED BY <1>1, <1>5, <2>1, <2>2, TargetIs
<1>10. ~new_file' => n # 0 /\ ran[n]["file"] = p["file"] /\ p["file"] # "auto" /\ outfile = Home(p)
  <2>1. SUFFICES ASSUME ~new_file' PROVE n # 0 /\ ran[n]["file"] = p["file"] /\ p["file"] # "auto" /\ outfile = Home(p)
    OBVIOUS
  <2>2. n # 0
    BY <1>7, <2>1 DEF First
  <2>3. ran[n]["file"] = p["file"] /\ p["file"] # "auto"
    BY <1>1, <1>5, <2>1, <2>2 DEF Continues
  <2> QED BY <1>5, <2>2, <2>3 DEF Home, Path
<1>11. ~new_file' /\ outfile = "" => Target(n) = "stdout"
  BY <1>1, <1>2, <1>5, <1>10, PathType, TargetIs
<1>12. CASE new_file' /\ outfile # ""
  <2>1. Classify(filename, job_num) /\ outfile' = ""
    BY <1>1, <1>12 DEF StartJob
  <2>2. n # 0
    BY <1>6, <1>12
  <2>3. filenames = FilesOf(DOMAIN ran \ Group) /\ bad_filenames = WarningsOf(DOMAIN ran \ Group)
    BY <1>8, <1>12 DEF BatchInv, NamesAre, WarningsAre, Settled
  <2>4. Classify(Target(n), n)
    BY <1>1, <1>9, <1>12, <2>1, <2>2
  <2>5. filenames' = FilesOf(DOMAIN ran) /\ bad_filenames' = WarningsOf(DOMAIN ran)
    BY <1>1, <1>9, <1>12, <2>2, <2>3, <2>4, Closing
  <2> QED BY <1>1, <1>2, <1>7, <1>8, <1>9, <1>11, <1>12, <2>1, <2>2, <2>5 DEF p
<1>13. CASE ~(new_file' /\ outfile # "")
  <2>1. UNCHANGED files
    BY <1>13 DEF StartJob
  <2>2. outfile' = outfile /\ filenames' = filenames /\ bad_filenames' = bad_filenames
    BY <2>1 DEF files
  <2>3. filenames = FilesOf(Settled) /\ bad_filenames = WarningsOf(Settled)
    BY DEF BatchInv, NamesAre, WarningsAre
  <2>4. CASE new_file'
    <3>1. Settled = DOMAIN ran
      BY <1>8, <1>13, <2>4 DEF Settled
    <3> QED BY <1>1, <1>2, <1>6, <1>7, <1>8, <1>9, <1>11, <1>13, <2>2, <2>3, <2>4, <3>1 DEF p
  <2>5. CASE ~new_file' /\ outfile # ""
    <3>1. Settled = DOMAIN ran \ Group
      BY <1>8, <2>5 DEF Settled
    <3> QED BY <1>1, <1>2, <1>6, <1>7, <1>8, <1>9, <1>10, <1>11, <2>2, <2>3, <2>5, <3>1 DEF p
  <2>6. CASE ~new_file' /\ outfile = ""
    <3>1. Settled = DOMAIN ran
      BY <1>8, <2>6 DEF Settled
    <3>2. FilesOf(DOMAIN ran) = FilesOf(DOMAIN ran \ Group) /\ WarningsOf(DOMAIN ran) = WarningsOf(DOMAIN ran \ Group)
      BY <1>1, <1>10, <1>11, <2>6, ClosingNothing
    <3> QED BY <1>1, <1>2, <1>7, <1>8, <1>10, <1>11, <2>2, <2>3, <2>6, <3>1, <3>2 DEF p
  <2> QED BY <2>4, <2>5, <2>6
<1> QED BY <1>12, <1>13

LEMMA StartStep == ASSUME BatchInv, StartJob PROVE BatchInv'
<1> PICK n : n = Len(ran)
  OBVIOUS
<1> DEFINE p == Parameters(curves[n + 1])
           S == IF First(n + 1)' THEN DOMAIN ran ELSE DOMAIN ran \ Group
<1>1. /\ p \in JobParams /\ ran' = Append(ran, p)
      /\ filenames' = FilesOf(S) /\ bad_filenames' = WarningsOf(S)
      /\ new_file' <=> First(n + 1)'
      /\ outfile' = IF new_file' THEN "" ELSE Home(p)
      /\ new_file' \/ outfile' = outfile
      /\ ~new_file' /\ outfile = "" => n # 0 /\ Target(n) = "stdout"
  BY StartCloses
<1> HIDE DEF p
<1>2. /\ batch' = batch /\ curves' = curves /\ params' = params /\ disk' = disk
      /\ bpc = "loop" /\ bpc' = "run" /\ job_num' = job_num + 1
  BY DEF StartJob, input
<1>3. ran \in Seq(JobParams) /\ job_num = n /\ n \in Nat /\ BatchType /\ Kept
  BY JobsAre DEF BatchInv, BatchType
<1>4. /\ ran' \in Seq(JobParams) /\ Len(ran') = n + 1 /\ DOMAIN ran = 1 .. n /\ DOMAIN ran' = 1 .. n + 1
      /\ ran'[n + 1] = p
  BY <1>1, <1>3, Grows
<1>5. /\ \A j \in DOMAIN ran : Target(j)' = Target(j) /\ (Overwrites(j)' <=> Overwrites(j))
      /\ \A j \in DOMAIN ran : j # n \/ First(n + 1)' => (Warned(j)' <=> Warned(j))
  BY <1>1, <1>3, OldJobs
<1>6. Settled' = S
  <2>1. Sharing'
    BY <1>2 DEF Sharing
  <2>2. (DOMAIN ran \ Group)' = S
    BY <1>1, <1>3, GroupGrows
  <2> QED BY <2>1, <2>2 DEF Settled
<1>7. S \subseteq DOMAIN ran /\ \A j \in S : j # n \/ First(n + 1)'
  <2>1. n # 0 => n \in Group
    BY <1>3, GroupIs
  <2>2. n = 0 => n \notin DOMAIN ran
    BY <1>4
  <2> QED BY <2>1, <2>2
<1> HIDE DEF S
<1>8. NamesAre'
  <2>1. \A j \in S : Target(j)' = Target(j)
    BY <1>5, <1>7
  <2> QED BY <1>1, <1>6, <2>1 DEF NamesAre, FilesOf
<1>9. WarningsAre'
  <2>1. \A j \in S : Target(j)' = Target(j) /\ (Warned(j)' <=> Warned(j))
    BY <1>5, <1>7
  <2> QED BY <1>1, <1>6, <2>1 DEF WarningsAre, WarningsOf
<1>10. Kept'
  <2>1. SUFFICES ASSUME ~batch.nop, NEW j \in DOMAIN ran', Finished(j)' PROVE Has(Target(j), j)' \/ Lost(j)'
    BY <1>2 DEF Kept
  <2>2. j \in DOMAIN ran /\ Finished(j)
    BY <1>2, <1>3, <1>4, <2>1 DEF Finished
  <2>3. CASE Has(Target(j), j)
    BY <1>2, <1>5, <2>2, <2>3 DEF Has
  <2>4. CASE Lost(j)
    <3>1. PICK k \in j + 1 .. n :
            Overwrites(k) /\ Target(k) = Target(j) /\ (k \in Settled \/ outfile = Target(k))
      BY <1>3, <2>4 DEF Lost
    <3>2. k \in DOMAIN ran /\ k \in j + 1 .. job_num'
      BY <1>2, <1>3, <1>4, <2>2
    <3>3. Overwrites(k)' /\ Target(k)' = Target(j)'
      BY <1>5, <2>2, <3>1, <3>2
    <3>4. k \in Settled' \/ outfile' = Target(k)'
      <4>1. CASE new_file'
        BY <1>1, <1>6, <3>2, <4>1 DEF S
      <4>2. CASE ~new_file' /\ outfile = Target(k)
        BY <1>1, <1>5, <3>2, <4>2
      <4>3. CASE ~new_file' /\ k \notin Group
        BY <1>6, <3>2, <4>3 DEF S
      <4>4. CASE ~new_file' /\ k \in Group /\ k \in Settled
        <5>1. outfile = ""
          BY <1>2, <4>4 DEF Settled, Sharing
        <5>2. n # 0 /\ Target(n) = "stdout"
          BY <1>1, <4>4, <5>1
        <5>3. Target(k) = "stdout"
          BY <1>3, <4>4, <5>2, GroupIs
        <5> QED BY <3>1, <5>3 DEF Overwrites
      <4> QED BY <3>1, <4>1, <4>2, <4>3, <4>4
    <3> QED BY <3>2, <3>3, <3>4 DEF Lost
  <2> QED BY <1>3, <2>1, <2>2, <2>3, <2>4 DEF Kept
<1>11. BatchType'
  BY <1>2, <1>3, <1>4 DEF BatchType
<1>12. OutputOf'
  <2>1. job_num' = n + 1 /\ n + 1 # 0
    BY <1>2, <1>3
  <2>2. new_file' <=> First(job_num)'
    BY <1>1, <2>1
  <2>3. Job' = p
    BY <1>4, <2>1 DEF Job
  <2>4. outfile' = IF new_file' THEN "" ELSE Home(Job)'
    BY <1>1, <2>3 DEF Home, Path
  <2> QED BY <1>2, <2>1, <2>2, <2>4 DEF OutputOf
<1> QED BY <1>8, <1>9, <1>10, <1>11, <1>12 DEF BatchInv

LEMMA FailsStep == ASSUME BatchInv, Fails PROVE BatchInv'
<1>1. /\ batch' = batch /\ ran' = ran /\ job_num' = job_num /\ filenames' = filenames
      /\ bad_filenames' = bad_filenames /\ disk' = disk /\ outfile' = outfile
      /\ curves' = curves /\ params' = params /\ bpc \in {"run", "print"} /\ bpc' = "failed"
  BY DEF Fails, files, input
<1>2. BatchType' /\ OutputOf'
  BY <1>1 DEF BatchInv, BatchType, OutputOf
<1>3. NamesAre' /\ WarningsAre' /\ Kept'
  <2>1. Sharing' = Sharing /\ \A j : Finished(j)' => Finished(j)
    BY <1>1 DEF Sharing, Finished
  <2> QED BY <1>1, <2>1, BatchQuiet
<1> QED BY <1>2, <1>3 DEF BatchInv

\* The job that is running, and its file.
LEMMA JobIs ==
  ASSUME BatchInv, bpc \in {"run", "print"}
  PROVE  /\ job_num = Len(ran) /\ job_num # 0 /\ job_num \in DOMAIN ran /\ ran \in Seq(JobParams)
         /\ Job = ran[job_num] /\ Job \in JobParams /\ disk \in [OutFiles -> Seq(Nat)]
         /\ Job["file"] # "-" => Target(job_num) = Path(Job) /\ Target(job_num) # "stdout"
         /\ Job["file"] = "-" => Target(job_num) = "stdout"
         /\ Settled = DOMAIN ran \ Group
         /\ \A j \in DOMAIN ran : j < job_num \/ j = job_num
<1>1. job_num = Len(ran) /\ ran \in Seq(JobParams) /\ job_num # 0 /\ disk \in [OutFiles -> Seq(Nat)]
  BY DEF BatchInv, BatchType, OutputOf
<1>2. job_num \in DOMAIN ran /\ ran[job_num] \in JobParams /\ \A j \in DOMAIN ran : j < job_num \/ j = job_num
  BY <1>1, JobsAre
<1>3. Job = ran[job_num]
  BY DEF Job
<1>4. Settled = DOMAIN ran \ Group
  BY DEF Settled, Sharing
<1> QED BY <1>1, <1>2, <1>3, <1>4, TargetIs DEF Home, Target

LEMMA OpenOutputStep == ASSUME BatchInv, OpenOutput PROVE BatchInv'
<1> PICK n : n = job_num
  OBVIOUS
<1>1. /\ batch' = batch /\ ran' = ran /\ job_num' = job_num /\ filenames' = filenames
      /\ bad_filenames' = bad_filenames /\ curves' = curves /\ params' = params /\ new_file' = new_file
      /\ bpc = "run" /\ bpc' \in {"failed", "print"}
  BY DEF OpenOutput, input
<1>2. /\ n = Len(ran) /\ n # 0 /\ n \in DOMAIN ran /\ ran \in Seq(JobParams)
      /\ Job = ran[n] /\ Job \in JobParams /\ disk \in [OutFiles -> Seq(Nat)]
      /\ (Job["file"] # "-" => Target(n) = Path(Job) /\ Target(n) # "stdout")
      /\ Settled = DOMAIN ran \ Group
      /\ \A j \in DOMAIN ran : j < n \/ j = n
  BY <1>1, JobIs
<1>3. (new_file <=> First(n)) /\ outfile = IF new_file THEN "" ELSE Home(Job)
  BY <1>1 DEF BatchInv, OutputOf
<1>4. Job' = Job /\ Sharing' = Sharing /\ (\A j : Finished(j)' <=> Finished(j)) /\ (First(n)' <=> First(n))
  BY <1>1 DEF Job, Sharing, Finished, First
<1>5. CASE UNCHANGED <<outfile, disk>> /\ (bpc' = "print" => outfile = Home(Job))
  <2>1. outfile' = outfile /\ disk' = disk
    BY <1>5
  <2>2. BatchType' /\ OutputOf'
    BY <1>1, <1>2, <1>3, <1>4, <1>5, <2>1 DEF BatchInv, BatchType, OutputOf, Home, Path
  <2>3. NamesAre' /\ WarningsAre' /\ Kept'
    BY <1>1, <1>4, <2>1, BatchQuiet
  <2> QED BY <2>2, <2>3 DEF BatchInv
<1>6. CASE bpc' = "print" /\ Opens /\ outfile' = Path(Job) /\ disk' = [disk EXCEPT ![Path(Job)] = <<>>]
  <2>1. Job["file"] # "-" /\ (Job["file"] = "auto" \/ outfile = "")
    BY <1>6 DEF Opens
  <2>2. Path(Job) \in OutFiles /\ Path(Job) # "" /\ Target(n) = Path(Job) /\ Target(n) # "stdout"
    BY <1>2, <2>1, PathType
  <2>3. First(n) /\ outfile = ""
    <3>1. CASE Job["file"] = "auto"
      BY <1>2, <1>3, <3>1 DEF First
    <3>2. CASE outfile = ""
      BY <1>2, <1>3, <2>2, <2>1, <3>2 DEF Home
    <3> QED BY <2>1, <3>1, <3>2
  <2>4. disk' \in [OutFiles -> Seq(Nat)]
    <3>1. <<>> \in Seq(Nat)
      BY EmptyIs
    <3> QED BY <1>2, <1>6, <3>1
  <2>5. BatchType'
    BY <1>1, <2>4 DEF BatchInv, BatchType
  <2>6. OutputOf'
    <3>1. outfile' = Home(Job)'
      BY <1>4, <1>6, <2>1 DEF Home, Path
    <3>2. job_num' # 0 /\ (new_file' <=> First(job_num)')
      BY <1>1, <1>2, <1>3, <1>4
    <3> QED BY <1>1, <1>6, <3>1, <3>2 DEF OutputOf
  <2>7. Group' = Group /\ \A j : Target(j)' = Target(j) /\ (Overwrites(j)' <=> Overwrites(j)) /\ (Warned(j)' <=> Warned(j))
    BY <1>1, SameJobs
  <2>8. Settled' = Settled
    BY <1>1, <1>4, <2>7 DEF Settled
  <2>9. NamesAre' /\ WarningsAre'
    BY <1>1, <2>7, <2>8 DEF BatchInv, NamesAre, WarningsAre, FilesOf, WarningsOf
  <2>10. Kept'
    <3>1. SUFFICES ASSUME ~batch.nop, NEW j \in DOMAIN ran, j < n PROVE Has(Target(j), j)' \/ Lost(j)'
      BY <1>1, <1>2 DEF Kept, Finished
    <3>2. Has(Target(j), j) \/ Lost(j)
      BY <1>2, <3>1 DEF BatchInv, Kept, Finished
    <3>3. j \in Nat /\ n \in Nat /\ n \in j + 1 .. job_num' /\ 1 <= j
      BY <1>1, <1>2, <3>1, JobsAre
    <3>4. CASE Target(j) = Target(n)
      <4>1. j \in 1 .. n - 1
        BY <3>1, <3>3
      <4>2. Overwrites(n)
        BY <2>2, <2>3, <3>4, <4>1 DEF Overwrites
      <4> QED BY <1>6, <2>2, <2>7, <3>3, <3>4, <4>2 DEF Lost
    <3>5. CASE Target(j) # Target(n) /\ Has(Target(j), j)
      <4>1. Target(j) \in OutFiles
        BY <1>2, TargetIs
      <4>2. disk'[Target(j)] = disk[Target(j)]
        BY <1>2, <1>6, <2>2, <3>5, <4>1
      <4>3. Target(j)' = Target(j)
        BY <2>7
      <4> QED BY <3>5, <4>2, <4>3 DEF Has
    <3>6. CASE Lost(j)
      <4>1. PICK k \in j + 1 .. n :
              Overwrites(k) /\ Target(k) = Target(j) /\ (k \in Settled \/ outfile = Target(k))
        BY <3>6 DEF Lost
      <4>2. k \in DOMAIN ran
        BY <1>2, <3>3, <4>1, JobsAre
      <4>3. k \in Settled
        BY <1>2, <2>3, <4>1, <4>2, TargetIs
      <4> QED BY <1>1, <2>7, <2>8, <4>1, <4>3 DEF Lost
    <3> QED BY <3>2, <3>4, <3>5, <3>6
  <2> QED BY <2>5, <2>6, <2>9, <2>10 DEF BatchInv
<1>7. ASSUME bpc' = "print", ~Opens, outfile' = (IF Job["file"] = "-" THEN "" ELSE outfile), UNCHANGED disk
      PROVE  UNCHANGED <<outfile, disk>> /\ (bpc' = "print" => outfile = Home(Job))
  <2>1. CASE Job["file"] = "-"
    BY <1>3, <1>7, <2>1 DEF Home
  <2>2. CASE Job["file"] # "-"
    BY <1>3, <1>7, <2>2 DEF Opens
  <2> QED BY <2>1, <2>2
<1> QED BY <1>5, <1>6, <1>7 DEF OpenOutput

\* What the last job of a file leaves.
LEMMA ConcatOfSeqs ==
  ASSUME NEW a \in Seq(Nat), NEW b \in Seq(Nat)
  PROVE  /\ a \o b \in Seq(Nat)
         /\ \A i \in DOMAIN a : i \in DOMAIN (a \o b) /\ (a \o b)[i] = a[i]
         /\ \A i \in DOMAIN b : Len(a) + i \in DOMAIN (a \o b) /\ (a \o b)[Len(a) + i] = b[i]
OBVIOUS

LEMMA EndTexts ==
  ASSUME BatchInv, EndJob
  PROVE  /\ disk' \in [OutFiles -> Seq(Nat)]
         /\ \A j \in DOMAIN ran : Has(Target(j), j) => Has(Target(j), j)'
         /\ ~batch.nop => \A j \in DOMAIN ran : j = job_num => Has(Target(j), j)'
<1> PICK n : n = job_num
  OBVIOUS
<1> DEFINE f == IF outfile = "" THEN "stdout" ELSE outfile
           text == IF batch.nop THEN <<>> ELSE (IF new_file THEN <<>> ELSE <<0>>) \o <<n>>
<1>1. /\ bpc = "print" /\ ran' = ran /\ disk' = [disk EXCEPT ![f] = @ \o text]
  BY DEF EndJob, input
<1>2. /\ n \in DOMAIN ran /\ ran \in Seq(JobParams) /\ n \in Nat
      /\ Job = ran[n] /\ Job \in JobParams /\ disk \in [OutFiles -> Seq(Nat)]
      /\ (Job["file"] # "-" => Target(n) = Path(Job) /\ Target(n) # "stdout")
      /\ (Job["file"] = "-" => Target(n) = "stdout")
  BY <1>1, JobIs, JobsAre
<1>3. outfile = Home(Job)
  BY <1>1 DEF BatchInv, OutputOf
<1>4. f = Target(n) /\ f \in OutFiles
  BY <1>2, <1>3, PathType, TargetIs DEF Home
<1>5. text \in Seq(Nat)
  <2>1. <<>> \in Seq(Nat) /\ <<0>> \in Seq(Nat) /\ <<n>> \in Seq(Nat)
    BY <1>2
  <2> QED BY <2>1
<1>6. ~batch.nop => \E i \in DOMAIN text : text[i] = n
  <2>1. SUFFICES ASSUME ~batch.nop PROVE \E i \in DOMAIN text : text[i] = n
    OBVIOUS
  <2>2. CASE new_file
    <3>1. text = <<n>>
      BY <2>1, <2>2
    <3> QED BY <3>1
  <2>3. CASE ~new_file
    <3>1. text = <<0>> \o <<n>>
      BY <2>1, <2>3
    <3>2. <<0>> \in Seq(Nat) /\ <<n>> \in Seq(Nat) /\ Len(<<0>>) = 1 /\ 1 \in DOMAIN <<n>> /\ <<n>>[1] = n
      BY <1>2
    <3>3. 2 \in DOMAIN (<<0>> \o <<n>>) /\ (<<0>> \o <<n>>)[2] = n
      BY <1>2
    <3> HIDE DEF text
    <3> QED BY <3>1, <3>3
  <2> QED BY <2>2, <2>3
<1> HIDE DEF f, text
<1>7. disk[f] \in Seq(Nat) /\ disk'[f] = disk[f] \o text
  BY <1>1, <1>2, <1>4
<1>8. disk' \in [OutFiles -> Seq(Nat)]
  BY <1>1, <1>2, <1>5, <1>7, ConcatOfSeqs
<1>9. \A j : Target(j)' = Target(j)
  BY <1>1, SameJobs
<1>10. ASSUME NEW j \in DOMAIN ran, Has(Target(j), j) PROVE Has(Target(j), j)'
  <2>1. PICK i \in DOMAIN disk[Target(j)] : disk[Target(j)][i] = j
    BY <1>10 DEF Has
  <2>2. Target(j) \in OutFiles
    BY <1>2, TargetIs
  <2>3. i \in DOMAIN disk'[Target(j)] /\ disk'[Target(j)][i] = j
    <3>1. CASE Target(j) = f
      <4>1. i \in DOMAIN disk[f] /\ disk[f][i] = j
        BY <2>1, <3>1
      <4>2. i \in DOMAIN (disk[f] \o text) /\ (disk[f] \o text)[i] = j
        BY <1>5, <1>7, <4>1, ConcatOfSeqs
      <4> QED BY <1>7, <3>1, <4>2
    <3>2. CASE Target(j) # f
      BY <1>1, <1>2, <2>1, <2>2, <3>2
    <3> QED BY <3>1, <3>2
  <2> QED BY <1>9, <2>3 DEF Has
<1>11. ~batch.nop => Has(Target(n), n)'
  <2>1. SUFFICES ASSUME ~batch.nop PROVE \E k \in DOMAIN disk'[f] : disk'[f][k] = n
    BY <1>4, <1>9 DEF Has
  <2>2. PICK i \in DOMAIN text : text[i] = n
    BY <1>6, <2>1
  <2>3. Len(disk[f]) + i \in DOMAIN disk'[f] /\ disk'[f][Len(disk[f]) + i] = n
    BY <1>5, <1>7, <2>2, ConcatOfSeqs
  <2> QED BY <2>3
<1> QED BY <1>8, <1>10, <1>11

LEMMA EndStep == ASSUME BatchInv, EndJob PROVE BatchInv'
<1> PICK n : n = job_num
  OBVIOUS
<1>1. /\ batch' = batch /\ ran' = ran /\ job_num' = job_num /\ curves' = curves /\ params' = params
      /\ bpc = "print" /\ bpc' = "loop" /\ prev_output' = Job["file"]
  BY DEF EndJob, input
<1>2. /\ n = Len(ran) /\ n # 0 /\ n \in DOMAIN ran /\ ran \in Seq(JobParams)
      /\ Job = ran[n] /\ Job \in JobParams
      /\ (Job["file"] # "-" => Target(n) = Path(Job) /\ Target(n) # "stdout")
      /\ (Job["file"] = "-" => Target(n) = "stdout")
      /\ Settled = DOMAIN ran \ Group
      /\ \A j \in DOMAIN ran : j < n \/ j = n
  BY <1>1, JobIs
<1>3. outfile = Home(Job) /\ filenames = FilesOf(DOMAIN ran \ Group) /\ bad_filenames = WarningsOf(DOMAIN ran \ Group)
  BY <1>1, <1>2 DEF BatchInv, OutputOf, NamesAre, WarningsAre
<1>4. /\ disk' \in [OutFiles -> Seq(Nat)]
      /\ \A j \in DOMAIN ran : Has(Target(j), j) => Has(Target(j), j)'
      /\ ~batch.nop => \A j \in DOMAIN ran : j = n => Has(Target(j), j)'
  BY EndTexts
<1>5. Group' = Group /\ \A j : Target(j)' = Target(j) /\ (Overwrites(j)' <=> Overwrites(j)) /\ (Warned(j)' <=> Warned(j))
  BY <1>1, SameJobs
<1>6. /\ filenames' = FilesOf(Settled') /\ bad_filenames' = WarningsOf(Settled')
      /\ outfile' = (IF Job["file"] = "auto" THEN "" ELSE outfile) /\ filename' = outfile'
      /\ Settled' = DOMAIN ran \/ (Settled' = Settled /\ outfile' = outfile)
  <2>1. CASE Job["file"] = "auto"
    <3>1. Classify(outfile, n) /\ outfile' = "" /\ filename' = ""
      BY <2>1 DEF EndJob
    <3>2. outfile = Target(n) /\ Target(n) # "stdout"
      BY <1>2, <1>3, <2>1 DEF Home
    <3>3. filenames' = FilesOf(DOMAIN ran) /\ bad_filenames' = WarningsOf(DOMAIN ran)
      BY <1>2, <1>3, <3>1, <3>2, Closing
    <3>4. Settled' = DOMAIN ran
      BY <1>1, <3>1 DEF Settled, Sharing
    <3>5. filenames' = FilesOf(Settled') /\ bad_filenames' = WarningsOf(Settled')
      BY <3>3, <3>4
    <3>6. outfile' = (IF Job["file"] = "auto" THEN "" ELSE outfile) /\ filename' = outfile'
      BY <2>1, <3>1
    <3> QED BY <3>4, <3>5, <3>6
  <2>2. CASE Job["file"] # "auto"
    <3>1. filename' = outfile /\ outfile' = outfile /\ filenames' = filenames /\ bad_filenames' = bad_filenames
      BY <2>2 DEF EndJob
    <3>2. CASE outfile = ""
      <4>1. Target(n) = "stdout"
        BY <1>2, <1>3, <3>2, PathType
      <4>2. FilesOf(DOMAIN ran) = filenames /\ WarningsOf(DOMAIN ran) = bad_filenames
        BY <1>2, <1>3, <4>1, ClosingNothing
      <4>3. Settled' = DOMAIN ran
        BY <1>1, <3>1, <3>2 DEF Settled, Sharing
      <4> QED BY <2>2, <3>1, <4>2, <4>3
    <3>3. CASE outfile # ""
      <4>1. Settled' = Settled
        BY <1>1, <1>2, <1>5, <3>1, <3>3 DEF Settled, Sharing
      <4> QED BY <1>2, <1>3, <2>2, <3>1, <4>1
    <3> QED BY <3>2, <3>3
  <2> QED BY <2>1, <2>2
<1>7. NamesAre' /\ WarningsAre'
  BY <1>5, <1>6 DEF NamesAre, WarningsAre, FilesOf, WarningsOf
<1>8. BatchType'
  BY <1>1, <1>4 DEF BatchInv, BatchType
<1>9. OutputOf'
  <2>1. Job' = Job /\ job_num' # 0
    BY <1>1, <1>2 DEF Job
  <2>2. prev_output' = Job'["file"] /\ filename' = outfile'
    BY <1>1, <1>6, <2>1
  <2>3. outfile' = IF Job'["file"] = "auto" THEN "" ELSE Home(Job)'
    BY <1>3, <1>6, <2>1 DEF Home, Path
  <2> QED BY <1>1, <2>1, <2>2, <2>3 DEF OutputOf
<1>10. Kept'
  <2>1. SUFFICES ASSUME ~batch.nop, NEW j \in DOMAIN ran PROVE Has(Target(j), j)' \/ Lost(j)'
    BY <1>1 DEF Kept
  <2>2. CASE j = n
    BY <1>4, <2>1, <2>2
  <2>3. CASE j < n
    <3>1. Has(Target(j), j) \/ Lost(j)
      BY <2>1, <2>3 DEF BatchInv, Kept, Finished
    <3>2. CASE Lost(j)
      <4>1. PICK k \in j + 1 .. n :
              Overwrites(k) /\ Target(k) = Target(j) /\ (k \in Settled \/ outfile = Target(k))
        BY <3>2 DEF Lost
      <4>2. k \in DOMAIN ran
        BY <1>2, <4>1, JobsAre
      <4>3. k \in Settled' \/ outfile' = Target(k)
        BY <1>6, <4>1, <4>2
      <4> QED BY <1>1, <1>5, <4>1, <4>3 DEF Lost
    <3> QED BY <1>4, <3>1, <3>2
  <2> QED BY <1>2, <2>2, <2>3
<1> QED BY <1>7, <1>8, <1>9, <1>10 DEF BatchInv

LEMMA FinishStep == ASSUME BatchInv, Finish PROVE BatchInv'
<1> PICK n : n = job_num
  OBVIOUS
<1>1. /\ batch' = batch /\ ran' = ran /\ job_num' = job_num /\ curves' = curves /\ params' = params
      /\ disk' = disk /\ outfile' = outfile /\ bpc = "loop" /\ bpc' = "end" /\ Classify(filename, n)
  BY DEF Finish, input
<1>2. n = Len(ran) /\ ran \in Seq(JobParams) /\ BatchType /\ OutputOf /\ Kept
  BY DEF BatchInv, BatchType
<1>3. Group' = Group /\ \A j : Target(j)' = Target(j) /\ (Overwrites(j)' <=> Overwrites(j)) /\ (Warned(j)' <=> Warned(j))
  BY <1>1, SameJobs
<1>4. Settled' = DOMAIN ran
  BY <1>1 DEF Settled, Sharing
<1>5. filename = outfile
  BY <1>1, <1>2 DEF OutputOf
<1>6. filenames' = FilesOf(DOMAIN ran) /\ bad_filenames' = WarningsOf(DOMAIN ran)
  <2>1. CASE outfile = ""
    <3>1. Settled = DOMAIN ran
      BY <1>1, <2>1 DEF Settled, Sharing
    <3>2. filenames' = filenames /\ bad_filenames' = bad_filenames
      BY <1>1, <1>5, <2>1 DEF Classify
    <3> QED BY <3>1, <3>2 DEF BatchInv, NamesAre, WarningsAre
  <2>2. CASE outfile # ""
    <3>1. n # 0
      BY <1>1, <1>2, <2>2 DEF OutputOf
    <3>2. n \in DOMAIN ran /\ outfile = Home(ran[n]) /\ ran[n]["file"] # "-"
      <4>1. n \in DOMAIN ran /\ Job = ran[n]
        BY <1>2, <3>1, JobsAre DEF Job
      <4>2. outfile = IF Job["file"] = "auto" THEN "" ELSE Home(Job)
        BY <1>1, <1>2, <3>1 DEF OutputOf
      <4> QED BY <2>2, <4>1, <4>2 DEF Home
    <3>3. Target(n) = outfile /\ Target(n) # "stdout"
      BY <1>2, <3>2, TargetIs
    <3>4. Settled = DOMAIN ran \ Group
      BY <1>1, <2>2 DEF Settled, Sharing
    <3>5. filenames = FilesOf(DOMAIN ran \ Group) /\ bad_filenames = WarningsOf(DOMAIN ran \ Group)
      BY <3>4 DEF BatchInv, NamesAre, WarningsAre
    <3> QED BY <1>1, <1>2, <1>5, <3>1, <3>3, <3>5, Closing
  <2> QED BY <2>1, <2>2
<1>7. NamesAre' /\ WarningsAre'
  BY <1>3, <1>4, <1>6 DEF NamesAre, WarningsAre, FilesOf, WarningsOf
<1>8. BatchType' /\ OutputOf'
  BY <1>1, <1>2 DEF BatchType, OutputOf
<1>9. Kept'
  <2>1. SUFFICES ASSUME ~batch.nop, NEW j \in DOMAIN ran PROVE Has(Target(j), j)' \/ Lost(j)'
    BY <1>1 DEF Kept
  <2>2. Has(Target(j), j) \/ Lost(j)
    BY <1>1, <1>2, <2>1 DEF Kept, Finished
  <2>3. CASE Has(Target(j), j)
    BY <1>1, <1>3, <2>3 DEF Has
  <2>4. CASE Lost(j)
    <3>1. j + 1 .. n \cap DOMAIN ran = j + 1 .. n \cap DOMAIN ran
      OBVIOUS
    <3>2. \A k \in Settled : k \in Settled'
      BY <1>4 DEF Settled
    <3> QED BY <1>1, <1>3, <2>4, <3>2 DEF Lost
  <2> QED BY <2>2, <2>3, <2>4
<1> QED BY <1>7, <1>8, <1>9 DEF BatchInv

LEMMA BatchStep == BatchInv /\ [BatchNext]_batchVars => BatchInv'
<1> SUFFICES ASSUME BatchInv, [BatchNext]_batchVars PROVE BatchInv'
  OBVIOUS
<1>1. CASE UNCHANGED batchVars
  <2>1. /\ batch' = batch /\ ran' = ran /\ job_num' = job_num /\ filenames' = filenames
        /\ bad_filenames' = bad_filenames /\ disk' = disk /\ outfile' = outfile /\ filename' = filename
        /\ prev_output' = prev_output /\ curves' = curves /\ params' = params /\ new_file' = new_file
        /\ bpc' = bpc
    BY <1>1 DEF batchVars, input, files
  <2>2. BatchType' /\ OutputOf'
    BY <2>1 DEF BatchInv, BatchType, OutputOf, Home, Path, Job, First
  <2>3. Sharing' = Sharing /\ \A j : Finished(j)' => Finished(j)
    BY <2>1 DEF Sharing, Finished
  <2> QED BY <2>1, <2>2, <2>3, BatchQuiet DEF BatchInv
<1> QED BY <1>1, ReadStep, ValidateStep, StartStep, OpenOutputStep, FailsStep, EndStep, FinishStep DEF BatchNext

LEMMA BatchCorrect == BatchSpec => []BatchInv
BY BatchStart, BatchStep, PTL DEF BatchSpec

-----------------------------------------------------------------------------

LEMMA WarningsOfFailures == BatchInv => FailureIsContained
<1> SUFFICES ASSUME BatchInv, bpc = "failed", ~batch.nop, NEW j \in 1 .. job_num - 1
    PROVE  Has(Target(j), j) \/ Target(j) = outfile \/ \E k \in 1 .. job_num : <<k, Target(j)>> \in bad_filenames
  BY DEF FailureIsContained
<1>1. ran \in Seq(JobParams) /\ job_num = Len(ran) /\ j \in DOMAIN ran /\ j < job_num /\ DOMAIN ran = 1 .. job_num
  BY JobsAre DEF BatchInv, BatchType
<1>2. Has(Target(j), j) \/ Lost(j)
  BY <1>1 DEF BatchInv, Kept, Finished
<1>3. CASE Lost(j)
  <2>1. PICK k \in j + 1 .. job_num :
          Overwrites(k) /\ Target(k) = Target(j) /\ (k \in Settled \/ outfile = Target(k))
    BY <1>3 DEF Lost
  <2>2. SUFFICES ASSUME k \in Settled PROVE \E l \in 1 .. job_num : <<l, Target(j)>> \in bad_filenames
    BY <2>1
  <2>3. k \in DOMAIN ran /\ k \notin Group /\ Settled = DOMAIN ran \ Group
    BY <2>2 DEF Settled, Sharing
  <2>4. PICK l \in DOMAIN ran : SameFile(k, l) /\ LastOfFile(l)
    BY <1>1, <2>3, LastOf
  <2>5. l \notin Group
    BY <1>1, <2>3, <2>4 DEF Group, SameFile
  <2>6. Target(l) = Target(j)
    BY <1>1, <2>1, <2>3, <2>4, SameTarget
  <2>7. k \in 1 .. l
    BY <1>1, <2>3, <2>4 DEF SameFile
  <2>8. Warned(l)
    BY <2>1, <2>4, <2>7 DEF Warned
  <2>9. <<l, Target(l)>> \in WarningsOf(Settled)
    BY <2>3, <2>5, <2>8 DEF WarningsOf
  <2> QED BY <1>1, <2>6, <2>9 DEF BatchInv, WarningsAre
<1> QED BY <1>2, <1>3

LEMMA WarningsAtTheEnd == BatchInv => LossesAreReported
<1> SUFFICES ASSUME BatchInv, bpc = "end" PROVE LossesAreReported
  BY DEF LossesAreReported
<1>1. ran \in Seq(JobParams) /\ job_num = Len(ran) /\ DOMAIN ran = 1 .. job_num /\ Settled = DOMAIN ran
  BY JobsAre DEF BatchInv, BatchType, Settled, Sharing
<1>2. \A j \in DOMAIN ran : Warned(j) <=>
        LastOfFile(j) /\ \E i \in 1 .. j : Overwrites(i) /\ \A k \in i + 1 .. j : ~First(k)
  BY <1>1 DEF Warned, SameFile
<1>3. bad_filenames =
        {<<j, Target(j)>> : j \in {j \in DOMAIN ran : LastOfFile(j) /\
           \E i \in 1 .. j : Overwrites(i) /\ \A k \in i + 1 .. j : ~First(k)}}
  BY <1>1, <1>2 DEF BatchInv, WarningsAre, WarningsOf
<1>4. ASSUME ~batch.nop, NEW j \in DOMAIN ran
      PROVE  Has(Target(j), j) \/ \E k \in j + 1 .. Len(ran) : Overwrites(k) /\ Target(k) = Target(j)
  BY <1>1, <1>4 DEF BatchInv, Kept, Finished, Lost
<1> QED BY <1>3, <1>4 DEF LossesAreReported

\* When a job fails, a text that is lost without a warning was in the file that was
\* open, in a batch of any length with any outputs (the loop over the curves,
\* close_and_classify).
THEOREM FailuresAreContained == BatchSpec => []FailureIsContained
BY BatchCorrect, WarningsOfFailures, PTL

\* At the end of a batch the warnings are exact, and each other text is in its file
\* (close_and_classify, bad_filenames).
THEOREM WarningsAreExact == BatchSpec => []LossesAreReported
BY BatchCorrect, WarningsAtTheEnd, PTL
-----------------------------------------------------------------------------
(* The list of all curves.  Both definitions by recursion are unfolded here. *)

Chained(seqs, n, f) == f = [i \in 1 .. n |-> IF i = 1 THEN seqs[i] ELSE f[i - 1] \o seqs[i]]

LEMMA ChainedExists == ASSUME NEW seqs, NEW n \in Nat PROVE \E f : Chained(seqs, n, f)
<1> DEFINE S == {m \in Nat : ~ \E f : Chained(seqs, m, f)}
<1>1. SUFFICES ASSUME S # {} PROVE FALSE
  OBVIOUS
<1>2. PICK m \in S : \A k \in S : ~(k < m)
  BY <1>1, LeastNumber
<1>3. CASE m = 0
  <2> DEFINE f == [i \in 1 .. 0 |-> seqs[i]]
  <2>1. f = [i \in 1 .. 0 |-> IF i = 1 THEN seqs[i] ELSE f[i - 1] \o seqs[i]]
    OBVIOUS
  <2> QED BY <1>3, <2>1 DEF Chained
<1>4. CASE m # 0
  <2>1. m \in Nat \ {0} /\ m - 1 \in Nat /\ m - 1 \notin S
    BY <1>2, <1>4
  <2>2. PICK old : Chained(seqs, m - 1, old)
    BY <2>1
  <2> DEFINE f == [i \in 1 .. m |-> IF i = m THEN IF m = 1 THEN seqs[m] ELSE old[m - 1] \o seqs[m] ELSE old[i]]
  <2>3. ASSUME NEW i \in 1 .. m
        PROVE  f[i] = IF i = 1 THEN seqs[i] ELSE f[i - 1] \o seqs[i]
    <3>1. i # 1 => i - 1 \in 1 .. m - 1 /\ f[i - 1] = old[i - 1]
      BY <2>1
    <3>2. CASE i = m
      BY <3>1, <3>2
    <3>3. CASE i # m
      <4>1. i \in 1 .. m - 1 /\ f[i] = old[i]
        BY <3>3, <2>1
      <4>2. old[i] = IF i = 1 THEN seqs[i] ELSE old[i - 1] \o seqs[i]
        BY <4>1, <2>2 DEF Chained
      <4> QED BY <3>1, <4>1, <4>2
    <3> QED BY <3>2, <3>3
  <2>4. f = [i \in 1 .. m |-> IF i = 1 THEN seqs[i] ELSE f[i - 1] \o seqs[i]]
    <3>1. f = [i \in 1 .. m |-> f[i]]
      OBVIOUS
    <3> HIDE DEF f
    <3> QED BY <3>1, <2>3
  <2> QED BY <2>1, <2>4 DEF Chained
<1> QED BY <1>3, <1>4

LEMMA FlattenIs ==
  ASSUME NEW seqs, Len(seqs) \in Nat \ {0}
  PROVE  \E f : Chained(seqs, Len(seqs), f) /\ FlattenSeq(seqs) = f[Len(seqs)]
<1> DEFINE f == CHOOSE f : Chained(seqs, Len(seqs), f)
<1>1. Chained(seqs, Len(seqs), f)
  <2>1. \E g : Chained(seqs, Len(seqs), g)
    BY ChainedExists
  <2> QED BY <2>1, Zenon
<1>2. FlattenSeq(seqs) = f[Len(seqs)]
  BY DEF FlattenSeq, Chained
<1> HIDE DEF f
<1> QED BY <1>1, <1>2

\* The sums of the lengths up to each of n lists.
Summed(lengths, n, c) == c = [i \in 0 .. n |-> IF i = 0 THEN 0 ELSE c[i - 1] + lengths[i]]

LEMMA SummedExists == ASSUME NEW lengths, NEW n \in Nat PROVE \E c : Summed(lengths, n, c)
<1> DEFINE S == {m \in Nat : ~ \E c : Summed(lengths, m, c)}
<1>1. SUFFICES ASSUME S # {} PROVE FALSE
  OBVIOUS
<1>2. PICK m \in S : \A k \in S : ~(k < m)
  BY <1>1, LeastNumber
<1>3. CASE m = 0
  <2> DEFINE c == [i \in 0 .. 0 |-> 0]
  <2>1. c = [i \in 0 .. 0 |-> IF i = 0 THEN 0 ELSE c[i - 1] + lengths[i]]
    OBVIOUS
  <2> QED BY <1>3, <2>1 DEF Summed
<1>4. CASE m # 0
  <2>1. m \in Nat \ {0} /\ m - 1 \in Nat /\ m - 1 \notin S
    BY <1>2, <1>4
  <2>2. PICK old : Summed(lengths, m - 1, old)
    BY <2>1
  <2> DEFINE c == [i \in 0 .. m |-> IF i = m THEN old[m - 1] + lengths[m] ELSE old[i]]
  <2>3. ASSUME NEW i \in 0 .. m
        PROVE  c[i] = IF i = 0 THEN 0 ELSE c[i - 1] + lengths[i]
    <3>1. i # 0 => i - 1 \in 0 .. m - 1 /\ c[i - 1] = old[i - 1]
      BY <2>1
    <3>2. CASE i = m
      BY <2>1, <3>1, <3>2
    <3>3. CASE i # m
      <4>1. i \in 0 .. m - 1 /\ c[i] = old[i]
        BY <3>3, <2>1
      <4>2. old[i] = IF i = 0 THEN 0 ELSE old[i - 1] + lengths[i]
        BY <4>1, <2>2 DEF Summed
      <4> QED BY <3>1, <4>1, <4>2
    <3> QED BY <3>2, <3>3
  <2>4. c = [i \in 0 .. m |-> IF i = 0 THEN 0 ELSE c[i - 1] + lengths[i]]
    <3>1. c = [i \in 0 .. m |-> c[i]]
      OBVIOUS
    <3> HIDE DEF c
    <3> QED BY <3>1, <2>3
  <2> QED BY <2>1, <2>4 DEF Summed
<1> QED BY <1>3, <1>4

CurveCounts == [i \in DOMAIN batch.programs |-> Len(batch.programs[i].curves)]

LEMMA CurvesOfIs ==
  ASSUME Len(batch.programs) \in Nat, DOMAIN batch.programs = 1 .. Len(batch.programs)
  PROVE  Summed(CurveCounts, Len(batch.programs), CurvesOf)
<1> DEFINE n == Len(batch.programs)
           F(c) == c = [i \in 0 .. n |-> IF i = 0 THEN 0 ELSE c[i - 1] + Len(batch.programs[i].curves)]
<1>1. \A i \in 1 .. n : CurveCounts[i] = Len(batch.programs[i].curves)
  BY DEF CurveCounts
<1>2. \A i \in 0 .. n : i = 0 \/ i \in 1 .. n
  OBVIOUS
<1>3. ASSUME NEW c PROVE Summed(CurveCounts, n, c) <=> F(c)
  <2>1. [i \in 0 .. n |-> IF i = 0 THEN 0 ELSE c[i - 1] + CurveCounts[i]]
          = [i \in 0 .. n |-> IF i = 0 THEN 0 ELSE c[i - 1] + Len(batch.programs[i].curves)]
    BY <1>1, <1>2
  <2> QED BY <2>1 DEF Summed
<1>4. \E c : F(c)
  <2>1. \E c : Summed(CurveCounts, n, c)
    BY SummedExists
  <2> QED BY <1>3, <2>1
<1>5. CurvesOf = CHOOSE c : F(c)
  BY DEF CurvesOf
<1>6. F(CurvesOf)
  BY <1>4, <1>5, Zenon
<1> QED BY <1>3, <1>6

LEMMA ConcatenationIs ==
  ASSUME NEW S, NEW a \in Seq(S), NEW b \in Seq(S)
  PROVE  /\ a \o b \in Seq(S) /\ Len(a \o b) = Len(a) + Len(b) /\ Len(a) \in Nat /\ Len(b) \in Nat
         /\ \A i \in 1 .. Len(a) : (a \o b)[i] = a[i]
         /\ \A i \in 1 .. Len(b) : (a \o b)[Len(a) + i] = b[i]
<1>1. a \o b \in Seq(S) /\ Len(a \o b) = Len(a) + Len(b) /\ Len(a) \in Nat /\ Len(b) \in Nat
  OBVIOUS
<1>2. \A i \in 1 .. Len(a) : (a \o b)[i] = a[i]
  OBVIOUS
<1>3. \A i \in 1 .. Len(b) : (a \o b)[Len(a) + i] = b[i]
  OBVIOUS
<1> QED BY <1>1, <1>2, <1>3

Lists(seqs, n, S) == \A i \in 1 .. n : seqs[i] \in Seq(S)
Sums(seqs, n, c) == c[0] = 0 /\ \A i \in 1 .. n : c[i] = c[i - 1] + Len(seqs[i])

\* Each element of the concatenation is one of the lists, after all lists before.
Listed(seqs, S, f, c, l) ==
  /\ f[l] \in Seq(S) /\ Len(f[l]) = c[l]
  /\ \A p \in 1 .. l, k \in Nat : k \in 1 .. Len(seqs[p]) =>
       c[p - 1] \in Nat /\ k + c[p - 1] \in 1 .. c[l] /\ f[l][k + c[p - 1]] = seqs[p][k]
  /\ \A i \in 1 .. c[l] : \E p \in 1 .. l, k \in Nat : k \in 1 .. Len(seqs[p]) /\ i = k + c[p - 1]

LEMMA FlattenedLists ==
  ASSUME NEW n \in Nat, NEW seqs, NEW S, Lists(seqs, n, S), NEW f, Chained(seqs, n, f),
         NEW c, Sums(seqs, n, c), NEW m \in 1 .. n
  PROVE  Listed(seqs, S, f, c, m)
<1> DEFINE Off == {l \in 1 .. n : ~Listed(seqs, S, f, c, l)}
<1>1. SUFFICES ASSUME Off # {} PROVE FALSE
  OBVIOUS
<1>2. Off \subseteq Nat
  OBVIOUS
<1>3. PICK l \in Off : \A k \in Off : ~(k < l)
  <2> HIDE DEF Off
  <2> QED BY <1>1, <1>2, LeastNumber
<1>4. l \in 1 .. n /\ ~Listed(seqs, S, f, c, l) /\ seqs[l] \in Seq(S)
      /\ c[0] = 0 /\ c[l] = c[l - 1] + Len(seqs[l])
  BY <1>3 DEF Lists, Sums
<1>5. f[l] = IF l = 1 THEN seqs[l] ELSE f[l - 1] \o seqs[l]
  BY <1>4 DEF Chained
<1>6. CASE l = 1
  <2>1. f[l] = seqs[1] /\ c[1] = 0 + Len(seqs[1]) /\ c[l] = Len(f[l])
    BY <1>4, <1>5, <1>6
  <2>2. \A p \in 1 .. l : p = 1 /\ c[p - 1] = 0
    BY <1>4, <1>6
  <2>3. Listed(seqs, S, f, c, l)
    BY <1>4, <1>6, <2>1, <2>2 DEF Listed
  <2> QED BY <1>4, <2>3
<1>7. CASE l # 1
  <2>1. l - 1 \in 1 .. n /\ l - 1 < l
    BY <1>4, <1>7
  <2>2. Listed(seqs, S, f, c, l - 1)
    BY <1>3, <2>1
  <2>3. f[l - 1] \in Seq(S) /\ Len(f[l - 1]) = c[l - 1] /\ c[l - 1] \in Nat
    BY <2>2 DEF Listed
  <2> DEFINE a == f[l - 1]
             b == seqs[l]
  <2>4. a \in Seq(S) /\ b \in Seq(S) /\ Len(a) = c[l - 1] /\ f[l] = a \o b
    BY <1>4, <1>5, <1>7, <2>3
  <2>5. c[l] = c[l - 1] + Len(b)
    BY <1>4
  <2>6. \A p \in 1 .. l - 1, k \in Nat : k \in 1 .. Len(seqs[p]) =>
          c[p - 1] \in Nat /\ k + c[p - 1] \in 1 .. Len(a) /\ a[k + c[p - 1]] = seqs[p][k]
    BY <2>2, <2>3 DEF Listed
  <2>7. \A i \in 1 .. Len(a) : \E p \in 1 .. l - 1, k \in Nat : k \in 1 .. Len(seqs[p]) /\ i = k + c[p - 1]
    BY <2>2, <2>3 DEF Listed
  <2> HIDE DEF a, b
  <2>12. /\ a \o b \in Seq(S) /\ Len(a \o b) = Len(a) + Len(b) /\ Len(a) \in Nat /\ Len(b) \in Nat
         /\ \A i \in 1 .. Len(a) : (a \o b)[i] = a[i]
         /\ \A i \in 1 .. Len(b) : (a \o b)[Len(a) + i] = b[i]
    <3>1. a \in Seq(S) /\ b \in Seq(S)
      BY <2>4
    <3> QED BY <3>1, ConcatenationIs
  <2>8. f[l] \in Seq(S) /\ Len(f[l]) = Len(a) + Len(b) /\ Len(a) \in Nat /\ Len(b) \in Nat
        /\ (\A i \in 1 .. Len(a) : f[l][i] = a[i])
        /\ \A i \in 1 .. Len(b) : f[l][Len(a) + i] = b[i]
    BY <2>4, <2>12
  <2>9. ASSUME NEW p \in 1 .. l, NEW k \in Nat, k \in 1 .. Len(seqs[p])
        PROVE  c[p - 1] \in Nat /\ k + c[p - 1] \in 1 .. c[l] /\ f[l][k + c[p - 1]] = seqs[p][k]
    <3>1. CASE p = l
      <4>1. c[p - 1] = Len(a) /\ k \in 1 .. Len(b) /\ k + Len(a) = Len(a) + k
        BY <2>4, <2>8, <2>9, <3>1 DEF b
      <4>2. f[l][Len(a) + k] = b[k] /\ b[k] = seqs[p][k]
        BY <2>8, <3>1, <4>1 DEF b
      <4>3. k + Len(a) \in 1 .. c[l]
        BY <2>4, <2>5, <2>8, <4>1
      <4> QED BY <2>8, <4>1, <4>2, <4>3
    <3>2. CASE p # l
      <4>1. p \in 1 .. l - 1
        BY <1>4, <3>2
      <4>2. c[p - 1] \in Nat /\ k + c[p - 1] \in 1 .. Len(a) /\ a[k + c[p - 1]] = seqs[p][k]
        BY <2>6, <2>9, <4>1
      <4> QED BY <2>4, <2>5, <2>8, <4>2
    <3> QED BY <3>1, <3>2
  <2>10. ASSUME NEW i \in 1 .. c[l]
         PROVE  \E p \in 1 .. l, k \in Nat : k \in 1 .. Len(seqs[p]) /\ i = k + c[p - 1]
    <3>1. CASE i \in 1 .. Len(a)
      <4>1. PICK p \in 1 .. l - 1, k \in Nat : k \in 1 .. Len(seqs[p]) /\ i = k + c[p - 1]
        BY <2>7, <3>1
      <4>2. p \in 1 .. l
        BY <1>4, <4>1
      <4> QED BY <4>1, <4>2
    <3>2. CASE i \notin 1 .. Len(a)
      <4>1. i - Len(a) \in 1 .. Len(b) /\ i - Len(a) \in Nat /\ i = (i - Len(a)) + c[l - 1]
        BY <2>4, <2>5, <2>8, <3>2
      <4>2. l \in 1 .. l
        BY <1>4
      <4> QED BY <4>1, <4>2 DEF b
    <3> QED BY <3>1, <3>2
  <2>11. Listed(seqs, S, f, c, l)
    BY <2>4, <2>5, <2>8, <2>9, <2>10 DEF Listed
  <2> QED BY <1>4, <2>11
<1> QED BY <1>6, <1>7
-----------------------------------------------------------------------------
(* The parameters of a job. *)

Sequence(q) == Len(q) \in Nat /\ DOMAIN q = 1 .. Len(q)

LEMMA ProgramsAre ==
  ASSUME batch \in Batches
  PROVE  /\ Sequence(batch.programs)
         /\ \A i \in DOMAIN batch.programs : Sequence(batch.programs[i].curves)
<1>1. batch.programs \in Seq(ToSet(batch.programs))
  BY ProgramsAssumption
<1>2. ASSUME NEW i \in DOMAIN batch.programs PROVE Sequence(batch.programs[i].curves)
  <2>1. batch.programs[i].curves \in Seq(ToSet(batch.programs[i].curves))
    BY ProgramsAssumption
  <2> QED BY <2>1 DEF Sequence
<1> QED BY <1>1, <1>2 DEF Sequence

CurveOf(p, k) == Attributes(batch.programs[p].curves[k], batch.programs[p])

\* The list of all curves has each of a program after those of the programs before.
LEMMA CurvesAre ==
  ASSUME batch \in Batches, batch.programs # <<>>
  PROVE  /\ Sequence(Curves)
         /\ \A p \in DOMAIN batch.programs : \A k \in DOMAIN batch.programs[p].curves :
              CurvesOf[p - 1] \in Nat /\ Curves[k + CurvesOf[p - 1]] = CurveOf(p, k)
         /\ \A i \in DOMAIN Curves : \E p \in DOMAIN batch.programs, k \in 1 .. Len(Curves) :
              k \in DOMAIN batch.programs[p].curves /\ i = k + CurvesOf[p - 1]
<1> DEFINE n == Len(batch.programs)
           seqs == [p \in DOMAIN batch.programs |->
                     [k \in DOMAIN batch.programs[p].curves |->
                        Attributes(batch.programs[p].curves[k], batch.programs[p])]]
           S == UNION {{CurveOf(p, k) : k \in DOMAIN batch.programs[p].curves} : p \in DOMAIN batch.programs}
           c == CurvesOf
<1>1. n \in Nat /\ DOMAIN batch.programs = 1 .. n
      /\ \A p \in 1 .. n : Sequence(batch.programs[p].curves)
  BY ProgramsAre DEF Sequence
<1>2. n # 0
  <2>1. batch.programs \in Seq(ToSet(batch.programs))
    BY ProgramsAssumption
  <2> QED BY <2>1
<1>3. ASSUME NEW p \in 1 .. n
      PROVE  /\ seqs[p] \in Seq(S) /\ Len(seqs[p]) = Len(batch.programs[p].curves)
             /\ DOMAIN batch.programs[p].curves = 1 .. Len(seqs[p])
             /\ \A k \in 1 .. Len(seqs[p]) : seqs[p][k] = CurveOf(p, k)
  <2> DEFINE D == batch.programs[p].curves
  <2>1. Len(D) \in Nat /\ DOMAIN D = 1 .. Len(D)
    BY <1>1 DEF Sequence
  <2>2. seqs[p] = [k \in 1 .. Len(D) |-> CurveOf(p, k)]
    BY <1>1, <2>1 DEF CurveOf
  <2>3. \A k \in 1 .. Len(D) : CurveOf(p, k) \in S
    BY <1>1, <2>1
  <2> HIDE DEF S, D, seqs
  <2>4. seqs[p] \in [1 .. Len(D) -> S]
    BY <2>2, <2>3
  <2>5. seqs[p] \in Seq(S) /\ Len(seqs[p]) = Len(D)
    BY <2>1, <2>4
  <2> QED BY <2>1, <2>2, <2>5 DEF D
<1>4. seqs = [p \in 1 .. n |-> seqs[p]] /\ DOMAIN seqs = 1 .. n
  BY <1>1
<1>5. Curves = FlattenSeq(seqs)
  BY DEF Curves
<1>6. Summed(CurveCounts, n, c)
  BY <1>1, CurvesOfIs
<1>7. \A p \in 1 .. n : CurveCounts[p] = Len(seqs[p])
  BY <1>1, <1>3 DEF CurveCounts
<1> HIDE DEF seqs, S, c, n
<1>8. Len(seqs) = n
  BY <1>1, <1>4
<1>9. PICK f : Chained(seqs, n, f) /\ Curves = f[n]
  BY <1>1, <1>2, <1>5, <1>8, FlattenIs
<1>10. Sums(seqs, n, c)
  BY <1>1, <1>6, <1>7 DEF Summed, Sums
<1>11. Listed(seqs, S, f, c, n) /\ Curves = f[n]
  <2>1. n \in Nat /\ n \in 1 .. n /\ Lists(seqs, n, S)
    BY <1>1, <1>2, <1>3 DEF Lists
  <2> QED BY <1>9, <1>10, <2>1, FlattenedLists
<1>12. Sequence(Curves) /\ DOMAIN Curves = 1 .. c[n] /\ c[n] \in Nat
  BY <1>11 DEF Sequence, Listed
<1>13. ASSUME NEW p \in DOMAIN batch.programs, NEW k \in DOMAIN batch.programs[p].curves
       PROVE  c[p - 1] \in Nat /\ Curves[k + c[p - 1]] = CurveOf(p, k)
  <2>1. p \in 1 .. n /\ k \in 1 .. Len(seqs[p]) /\ k \in Nat
    BY <1>1, <1>3
  <2> QED BY <1>3, <1>11, <2>1 DEF Listed
<1>14. ASSUME NEW i \in DOMAIN Curves
       PROVE  \E p \in DOMAIN batch.programs, k \in 1 .. Len(Curves) :
                k \in DOMAIN batch.programs[p].curves /\ i = k + c[p - 1]
  <2>1. PICK p \in 1 .. n, k \in Nat : k \in 1 .. Len(seqs[p]) /\ i = k + c[p - 1]
    BY <1>11, <1>12 DEF Listed
  <2>2. c[p - 1] \in Nat /\ k + c[p - 1] \in 1 .. Len(Curves)
    BY <1>11, <2>1 DEF Listed
  <2>3. k \in 1 .. Len(Curves)
    BY <1>12, <2>1, <2>2
  <2> QED BY <1>1, <1>3, <2>1, <2>3
<1> QED BY <1>12, <1>13, <1>14 DEF c

\* What was read is kept while the jobs run, and a job has the parameters of its curve.
ParamInv ==
  /\ bpc \in {"read", "error"} => ran = <<>>
  /\ bpc \notin {"read", "error"} /\ batch.programs # <<>> => curves = Curves
  /\ bpc \notin {"read", "error"} => params = Over(batch.cli, Defaults)
  /\ \A i \in DOMAIN ran : i \in DOMAIN curves /\ ran[i] = Parameters(curves[i])

LEMMA ParamStart == BatchInit => ParamInv
<1>1. BatchInit => ran = <<>> /\ bpc = "read" /\ DOMAIN ran = {}
  BY EmptyIs DEF BatchInit
<1> QED BY <1>1 DEF ParamInv

LEMMA ParamStep == BatchInv /\ ParamInv /\ [BatchNext]_batchVars => ParamInv'
<1> SUFFICES ASSUME BatchInv, ParamInv, [BatchNext]_batchVars PROVE ParamInv'
  OBVIOUS
<1>1. ASSUME UNCHANGED <<batch, curves, params, ran>>,
             bpc' \in {"read", "error"} => bpc \in {"read", "error"},
             bpc' \notin {"read", "error"} => bpc \notin {"read", "error"}
      PROVE  ParamInv'
  BY <1>1 DEF ParamInv, Curves, Attributes, Parameters
<1>2. CASE Validate
  <2>1. bpc = "read" /\ ran = <<>> /\ ran' = ran /\ batch' = batch /\ params' = Over(batch.cli, Defaults)
    BY <1>2 DEF Validate, ParamInv
  <2>2. DOMAIN ran' = {}
    BY <2>1, EmptyIs
  <2>3. Curves' = Curves
    BY <2>1 DEF Curves, Attributes
  <2>4. CASE bpc' = "loop" /\ (batch.programs # <<>> => curves' = Curves)
    BY <2>1, <2>2, <2>3, <2>4 DEF ParamInv
  <2>5. CASE Error
    BY <2>1, <2>2, <2>5 DEF ParamInv, Error
  <2> QED BY <1>2, <2>4, <2>5 DEF Validate
<1>3. CASE StartJob
  <2>1. /\ ran \in Seq(JobParams) /\ job_num = Len(ran) /\ DOMAIN ran = 1 .. Len(ran) /\ Len(ran) \in Nat
    BY JobsAre DEF BatchInv, BatchType
  <2>2. job_num + 1 \in DOMAIN curves /\ bpc = "loop" /\ bpc' = "run"
        /\ UNCHANGED <<batch, curves, params>>
    BY <1>3 DEF StartJob, input
  <2>3. PICK p \in JobParams : p = Parameters(curves[job_num + 1])
    BY <2>2, ParametersType DEF BatchInv
  <2>4. ran' = Append(ran, p)
    BY <1>3, <2>3 DEF StartJob
  <2>5. /\ DOMAIN ran' = 1 .. Len(ran) + 1 /\ ran'[Len(ran) + 1] = p
        /\ \A i \in 1 .. Len(ran) : ran'[i] = ran[i]
    BY <2>1, <2>4
  <2>6. \A i : Parameters(curves[i])' = Parameters(curves[i])
    BY <2>2 DEF Parameters
  <2>7. \A i \in DOMAIN ran' : i \in DOMAIN curves' /\ ran'[i] = Parameters(curves[i])'
    BY <2>1, <2>2, <2>3, <2>5, <2>6 DEF ParamInv
  <2>8. Curves' = Curves
    BY <2>2 DEF Curves, Attributes
  <2> QED BY <2>2, <2>7, <2>8 DEF ParamInv
<1>4. CASE ReadProgram
  BY <1>1, <1>4 DEF ReadProgram, Error
<1>5. CASE OpenOutput \/ Fails
  BY <1>1, <1>5 DEF OpenOutput, Fails, input
<1>6. CASE EndJob \/ Finish
  BY <1>1, <1>6 DEF EndJob, Finish, input
<1>7. CASE UNCHANGED batchVars
  BY <1>1, <1>7 DEF batchVars, input
<1> QED BY <1>2, <1>3, <1>4, <1>5, <1>6, <1>7 DEF BatchNext

LEMMA ParametersOf ==
  ASSUME NEW curve, NEW cli, NEW top, NEW k \in DOMAIN Defaults
  PROVE  Over(Over(curve, Over(cli, top)), Over(cli, Defaults))[k]
           = IF k \in DOMAIN curve THEN curve[k]
             ELSE IF k \in DOMAIN cli THEN cli[k]
             ELSE IF k \in DOMAIN top THEN top[k]
             ELSE Defaults[k]
BY DEF Over

\* Attributes of a curve, flags, attributes of a program and defaults, in this order,
\* for each job of a batch of any length (parse_input and the loop over the curves).
THEOREM JobsHaveTheirParameters == BatchSpec => []ParametersAreTheCurves
<1>1. BatchInv /\ ParamInv => ParametersAreTheCurves
  <2> SUFFICES ASSUME BatchInv, ParamInv, batch.programs # <<>>,
                      NEW i \in DOMAIN ran, NEW k \in Local,
                      NEW o, o = Origin(i)
               PROVE  ran[i][k] = IF k = "file" /\ batch.nop THEN "-"
                                  ELSE IF k \in DOMAIN batch.programs[o[1]].curves[o[2]]
                                       THEN batch.programs[o[1]].curves[o[2]][k]
                                  ELSE IF k \in DOMAIN batch.cli THEN batch.cli[k]
                                  ELSE IF k \in DOMAIN batch.programs[o[1]].top
                                       THEN batch.programs[o[1]].top[k]
                                  ELSE Defaults[k]
    BY DEF ParametersAreTheCurves
  <2>1. batch \in Batches /\ DOMAIN ran # {}
    BY DEF BatchInv, BatchType
  <2>2. bpc \notin {"read", "error"}
    BY <2>1, EmptyIs DEF ParamInv
  <2>3. /\ curves = Curves /\ params = Over(batch.cli, Defaults)
        /\ i \in DOMAIN curves /\ ran[i] = Parameters(curves[i])
    BY <2>2 DEF ParamInv
  <2>4. \E q \in (DOMAIN batch.programs) \X (1 .. Len(curves)) :
          q[2] \in DOMAIN batch.programs[q[1]].curves /\ i = q[2] + CurvesOf[q[1] - 1]
    <3>1. PICK p \in DOMAIN batch.programs, m \in 1 .. Len(Curves) :
            m \in DOMAIN batch.programs[p].curves /\ i = m + CurvesOf[p - 1]
      BY <2>1, <2>3, CurvesAre
    <3>2. <<p, m>> \in (DOMAIN batch.programs) \X (1 .. Len(curves))
      BY <2>3
    <3> QED BY <3>1, <3>2
  <2>5. /\ o \in (DOMAIN batch.programs) \X (1 .. Len(curves))
        /\ o[2] \in DOMAIN batch.programs[o[1]].curves /\ i = o[2] + CurvesOf[o[1] - 1]
    BY <2>4 DEF Origin
  <2>6. curves[i] = CurveOf(o[1], o[2])
    BY <2>1, <2>3, <2>5, CurvesAre
  <2> DEFINE program == batch.programs[o[1]]
             curve   == program.curves[o[2]]
             asked   == Over(Over(curve, Over(batch.cli, program.top)), Over(batch.cli, Defaults))
  <2>7. ran[i] = IF batch.nop THEN [asked EXCEPT !["file"] = "-"] ELSE asked
    BY <2>3, <2>6 DEF Parameters, CurveOf, Attributes
  <2>8. k \in DOMAIN Defaults /\ "file" \in DOMAIN Defaults
    BY OutputsAssumption DEF Local
  <2>9. "file" \in DOMAIN asked
    BY <2>8 DEF Over
  <2>10. asked[k] = IF k \in DOMAIN curve THEN curve[k]
                    ELSE IF k \in DOMAIN batch.cli THEN batch.cli[k]
                    ELSE IF k \in DOMAIN program.top THEN program.top[k]
                    ELSE Defaults[k]
    BY <2>8, ParametersOf
  <2> HIDE DEF asked
  <2>11. ran[i][k] = IF k = "file" /\ batch.nop THEN "-" ELSE asked[k]
    BY <2>7, <2>9
  <2> QED BY <2>10, <2>11
<1> QED BY BatchCorrect, ParamStart, ParamStep, <1>1, PTL DEF BatchSpec
-----------------------------------------------------------------------------
(* The rewriting of a graph: no step changes what an output stands for, for  *)
(* every system of equations and every sequence of steps.                  *)

GraphInv == Graph(stand, defs, outs, given)

\* The equations of the caller have no signals and satisfy the invariant.
LEMMA InitGraph == Init => GraphInv
<1> SUFFICES ASSUME Init PROVE GraphInv
  OBVIOUS
<1>1. DOMAIN defs = 1 .. 0 /\ Size(defs) = 0
  BY CountOfInterval DEF Init, Size
<1>2. ASSUME NEW i \in DOMAIN outs
      PROVE  outs[i] \subseteq TermsUpTo(0) /\ Stands(stand, outs[i], given[i])
  <2>1. \A x \in outs[i] : ~IsTmp(x) /\ x \in TermsUpTo(0)
    BY <1>2 DEF Init, IsTmp, TermsUpTo
  <2> QED BY <1>2, <2>1 DEF Init, Stands, ApartIn, ValueIn, ValIn
<1> QED BY <1>1, <1>2 DEF Init, GraphInv, Graph

\* _add_tmp_list keeps the invariant.
LEMMA ExtractStep == ASSUME GraphInv, Extract, UNCHANGED given PROVE GraphInv'
<1>1. Extraction(defs, outs, defs', outs')
  BY DEF Extract, Extraction, Takes, Moves, Size, GraphInv, Graph
<1>2. Graph(Extended(stand, defs, defs'), defs', outs', given)
  BY <1>1, ExtractionKeeps DEF GraphInv
<1>3. \A e : Value(e) = ValueIn(stand, e)
  BY DEF Value, ValueIn, Val, ValIn
<1>4. stand' = Extended(stand, defs, defs')
  BY <1>3 DEF Extract, Extended, Size
<1> QED BY <1>2, <1>4 DEF GraphInv

\* _delete_tmp, applied to every equation, keeps it.
LEMMA InlineStep ==
  ASSUME GraphInv, NEW t \in DOMAIN defs, Inline(t), UNCHANGED given
  PROVE  GraphInv'
<1>1. Graph(Shortened(stand, defs, t), DeletedDefs(defs, t), DeletedOuts(defs, outs, t), given)
  BY DeletionKeeps DEF GraphInv, Inline
<1> QED BY <1>1 DEF GraphInv, Inline, Shortened, Size

\* A permutation moves every signal to one place.
LEMMA RenumberStep ==
  ASSUME GraphInv, NEW p \in Orders, Renumber(p), UNCHANGED given
  PROVE  GraphInv'
<1> DEFINE pos == [t \in DOMAIN defs |-> CHOOSE k \in DOMAIN defs : p[k] = t]
           n   == Size(defs)
<1>1. n \in Nat /\ DOMAIN defs = 1 .. n /\ p \in [1 .. n -> 1 .. n]
  BY DEF GraphInv, Graph, Orders
<1>2. \A t \in 1 .. n : pos[t] \in 1 .. n /\ p[pos[t]] = t
  BY <1>1 DEF Orders
<1>3. p \in Surjection(1 .. n, 1 .. n) /\ IsFiniteSet(1 .. n)
  <2>1. IsFiniteSet(1 .. n)
    BY <1>1, FS_Interval
  <2> HIDE DEF pos, n
  <2> QED BY <1>1, <1>2, <2>1 DEF Surjection
<1>4. p \in Injection(1 .. n, 1 .. n)
  BY <1>3, FS_SurjSameCardinalityImpliesInj
<1>5. \A t \in 1 .. n : pos[p[t]] = t
  BY <1>1, <1>2, <1>4 DEF Injection, IsInjective
<1>6. Numbering(p, pos, n)
  BY <1>1, <1>2, <1>5 DEF Numbering
<1>7. /\ defs' = RenumberedDefs(defs, p, pos) /\ outs' = RenumberedOuts(outs, pos)
      /\ stand' = Permuted(stand, defs, p)
  BY DEF Renumber, RenumberedDefs, RenumberedOuts, Permuted
<1> HIDE DEF pos
<1>8. Graph(Permuted(stand, defs, p), RenumberedDefs(defs, p, pos), RenumberedOuts(outs, pos), given)
  BY <1>6, RenumberingKeeps DEF GraphInv
<1> QED BY <1>7, <1>8 DEF GraphInv

\* Every step of the rewriting, or a stutter, keeps the invariant.
LEMMA RewritingStep == GraphInv /\ [Next]_graph => GraphInv'
<1> SUFFICES ASSUME GraphInv, [Next]_graph PROVE GraphInv'
  OBVIOUS
<1>1. CASE Extract /\ UNCHANGED given
  BY <1>1, ExtractStep
<1>2. ASSUME NEW t \in DOMAIN defs, Inline(t), UNCHANGED given PROVE GraphInv'
  BY <1>2, InlineStep
<1>3. ASSUME NEW p \in Orders, Renumber(p), UNCHANGED given PROVE GraphInv'
  BY <1>3, RenumberStep
<1>4. CASE UNCHANGED graph
  BY <1>4 DEF graph, GraphInv
<1> QED BY <1>1, <1>2, <1>3, <1>4 DEF Next

-----------------------------------------------------------------------------
\* However the signals are extracted, deleted and renumbered, in whatever order
\* and number, each output stands for the equation of the caller, and the union
\* of sets in _delete_tmp never meets a term twice, where it would differ from
\* the XOR that is meant.
THEOREM ValuesAreKept == Spec => []ValuesKept
<1>1. GraphInv => ValuesKept
  <2> SUFFICES ASSUME GraphInv PROVE ValuesKept
    OBVIOUS
  <2>1. ASSUME NEW e, NEW v, Stands(stand, e, v) PROVE Apart(e) /\ Value(e) = v
    BY <2>1 DEF Stands, ApartIn, ValueIn, ValIn, Apart, Value, Val
  <2> QED BY <2>1 DEF GraphInv, Graph, ValuesKept
<1> QED BY InitGraph, RewritingStep, <1>1, PTL DEF Spec

-----------------------------------------------------------------------------
(* Where the exits of the preprocessor go. *)

Fields == {"kind", "prog", "at", "tag", "var", "old", "rest", "count"}

\* A call of _preproc; the old value of a loop variable is one or none.
IsFrame(f) ==
  /\ f = [x \in Fields |-> f[x]]
  /\ f.kind = "foreach" => f.old = Absent \/ \E t \in f.old : f.old = {t}

\* preproc made the first call, and the others are inside it.
IsStack(fs) ==
  /\ Len(fs) \in Nat /\ fs = [k \in 1 .. Len(fs) |-> fs[k]]
  /\ \A k \in 1 .. Len(fs) : IsFrame(fs[k]) /\ (fs[k].kind = "main" <=> k = 1)

\* An exception on its way is in a frame that was there when it was raised, and no
\* frame that it has left was its target.
OnItsWay(e) ==
  /\ e.kind \in {"break", "continue", "exitmacro", "exit"}
  /\ Len(e.from) \in Nat /\ Len(frames) <= Len(e.from)
  /\ DOMAIN e.from = 1 .. Len(e.from)
  /\ \A k \in 1 .. Len(frames) : frames[k] = e.from[k]
  /\ \A k \in TargetOf(e) : k <= Len(frames)

ExitInv ==
  /\ outcome \in {"idle", "running", "finished", "failed"}
  /\ IsStack(frames)
  /\ outcome = "running" => Len(frames) >= 1
  /\ outcome = "idle" => frames = <<>> /\ raised = <<>>
  /\ raised = <<>> \/ (raised = <<raised[1]>> /\ OnItsWay(raised[1]))

\* A stack with another call on it.
LEMMA PushedIsStack ==
  ASSUME NEW fs, IsStack(fs), NEW f, IsFrame(f), Len(fs) >= 1, f.kind # "main"
  PROVE  IsStack(Append(fs, f)) /\ Len(Append(fs, f)) = Len(fs) + 1
<1>1. fs \in Seq({fs[k] : k \in 1 .. Len(fs)} \union {f})
  BY IsASeq DEF IsStack
<1>2. Len(Append(fs, f)) = Len(fs) + 1
  BY <1>1
<1>3. \A k \in 1 .. Len(fs) : Append(fs, f)[k] = fs[k]
  BY <1>1
<1>4. Append(fs, f)[Len(fs) + 1] = f
  BY <1>1
<1>5. Append(fs, f) \in Seq({fs[k] : k \in 1 .. Len(fs)} \union {f})
  BY <1>1
<1>6. Append(fs, f) = [k \in 1 .. Len(Append(fs, f)) |-> Append(fs, f)[k]]
  BY <1>5, LenProperties
<1> QED BY <1>2, <1>3, <1>4, <1>6 DEF IsStack

\* A stack whose top has been left.
LEMMA PoppedIsStack ==
  ASSUME NEW fs, IsStack(fs), Len(fs) >= 1
  PROVE  /\ IsStack(Front(fs)) /\ Len(Front(fs)) = Len(fs) - 1
         /\ \A k \in 1 .. Len(fs) - 1 : Front(fs)[k] = fs[k]
<1>1. fs \in Seq({fs[k] : k \in 1 .. Len(fs)}) /\ Len(fs) \in Nat
  BY IsASeq DEF IsStack
<1>2. Front(fs) = [k \in 1 .. Len(fs) - 1 |-> fs[k]]
  BY <1>1, SubSeqProperties DEF Front
<1>3. Front(fs) \in Seq({fs[k] : k \in 1 .. Len(fs)}) /\ Len(Front(fs)) = Len(fs) - 1
  BY <1>1, <1>2, IsASeq
<1> QED BY <1>1, <1>2, <1>3 DEF IsStack

\* A stack whose top has gone on.
LEMMA MovedIsStack ==
  ASSUME NEW fs, IsStack(fs), Len(fs) >= 1, NEW f, IsFrame(f), f.kind = fs[Len(fs)].kind
  PROVE  /\ IsStack([fs EXCEPT ![Len(fs)] = f])
         /\ Len([fs EXCEPT ![Len(fs)] = f]) = Len(fs)
         /\ \A k \in 1 .. Len(fs) - 1 : [fs EXCEPT ![Len(fs)] = f][k] = fs[k]
<1> DEFINE gs == [fs EXCEPT ![Len(fs)] = f]
<1>1. Len(fs) \in Nat /\ gs = [k \in 1 .. Len(fs) |-> IF k = Len(fs) THEN f ELSE fs[k]]
  BY DEF IsStack
<1>2. fs \in Seq({fs[k] : k \in 1 .. Len(fs)} \union {f})
  BY IsASeq DEF IsStack
<1>3. Len(gs) = Len(fs)
  BY <1>2, ExceptSeq
<1> HIDE DEF gs
<1> SUFFICES IsStack(gs) /\ Len(gs) = Len(fs) /\ \A k \in 1 .. Len(fs) - 1 : gs[k] = fs[k]
  BY DEF gs
<1> QED BY <1>1, <1>3 DEF IsStack

\* A frame that goes on is the same call.
LEMMA GoesOn ==
  ASSUME NEW f, IsFrame(f), NEW i, NEW n, NEW l,
         NEW g \in {[f EXCEPT !.at = i], [f EXCEPT !.at = i, !.count = n],
                    [f EXCEPT !.at = i, !.rest = l]}
  PROVE  IsFrame(g) /\ g.kind = f.kind
<1>1. f = [x \in Fields |-> f[x]]
  BY DEF IsFrame
<1>2. g = [x \in Fields |-> g[x]] /\ g.kind = f.kind /\ g.old = f.old
  BY <1>1 DEF Fields
<1> QED BY <1>2 DEF IsFrame

LEMMA AtIsStack ==
  ASSUME IsStack(frames), Len(frames) >= 1, NEW to
  PROVE  IsStack(At(to)) /\ Len(At(to)) = Len(frames)
<1> DEFINE f == [frames[Len(frames)] EXCEPT !.at = to]
<1>1. IsFrame(f) /\ f.kind = frames[Len(frames)].kind
  <2>1. Len(frames) \in 1 .. Len(frames) /\ IsFrame(frames[Len(frames)])
    BY DEF IsStack
  <2> QED BY <2>1, GoesOn
<1>2. At(to) = [frames EXCEPT ![Len(frames)] = f]
  BY DEF At
<1> HIDE DEF f
<1>3. /\ IsStack([frames EXCEPT ![Len(frames)] = f])
      /\ Len([frames EXCEPT ![Len(frames)] = f]) = Len(frames)
  BY <1>1, MovedIsStack
<1> QED BY <1>2, <1>3

LEMMA NewFrame ==
  ASSUME NEW kind, NEW prog, NEW tag
  PROVE  IsFrame(Frame(kind, prog, tag)) /\ Frame(kind, prog, tag).kind = kind
BY DEF Frame, IsFrame, Fields

\* The lines that are no exit.
Ordinary ==
  \/ LineFails \/ Output \/ If \/ Loop \/ Foreach \/ Defmacro \/ Undefmacro \/ Macro \/ Include
  \/ Pop \/ Set \/ Unset \/ Setcap \/ Log

LEMMA CallIsStack ==
  ASSUME IsStack(frames), Len(frames) >= 1, NEW f, IsFrame(f), f.kind # "main", NEW to, Call(f, to)
  PROVE  IsStack(frames') /\ Len(frames') = Len(frames) + 1
BY AtIsStack, PushedIsStack DEF Call

\* They leave no frame.
LEMMA OrdinarySteps ==
  ASSUME ExitInv, Ordinary
  PROVE  /\ outcome = "running" /\ raised = <<>> /\ raised' = <<>>
         /\ outcome' \in {"running", "failed"}
         /\ IsStack(frames') /\ Len(frames') >= Len(frames) /\ Len(frames) >= 1
<1>1. outcome = "running" /\ raised = <<>>
  BY DEF Ordinary, LineFails, Output, If, Loop, Foreach, Defmacro, Undefmacro, Macro, Include,
         Pop, Set, Unset, Setcap, Log, Reads, AtLine
<1>2. raised' = raised /\ outcome' \in {outcome, "failed"}
  BY DEF Ordinary, LineFails, Output, If, Loop, Foreach, Defmacro, Undefmacro, Macro, Include,
         Pop, Set, Unset, Setcap, Log
<1>3. IsStack(frames) /\ Len(frames) >= 1 /\ Len(frames) \in Nat
  BY <1>1 DEF ExitInv, IsStack
<1> SUFFICES IsStack(frames') /\ Len(frames') >= Len(frames)
  BY <1>1, <1>2, <1>3
<1>4. CASE LineFails
  BY <1>3, <1>4 DEF LineFails
<1>5. CASE \E to : frames' = At(to)
  BY <1>3, <1>5, AtIsStack
<1>6. CASE \E f, to : IsFrame(f) /\ f.kind # "main" /\ Call(f, to)
  BY <1>3, <1>6, CallIsStack
<1>7. CASE Output \/ Undefmacro \/ Pop \/ Set \/ Unset \/ Setcap \/ Log
  BY <1>5, <1>7 DEF Output, Undefmacro, Pop, Set, Unset, Setcap, Log, GoOn
<1>8. CASE Defmacro
  BY <1>5, <1>8 DEF Defmacro
<1>9. CASE If \/ Loop \/ Macro \/ Include
  <2>1. \E kind \in {"if", "loop", "macro", "include"} : \E prog, tag, to :
          Call(Frame(kind, prog, tag), to)
    BY <1>9 DEF If, Loop, Macro, Include
  <2> QED BY <1>6, <2>1, NewFrame
<1>10. CASE Foreach
  <2>1. \E f, to : IsFrame(f) /\ f.kind = "foreach" /\ Call(f, to)
    <3> DEFINE var == "$" \o Line.name
               old == IF var \in DOMAIN vars THEN {vars[var]} ELSE Absent
               f == [Frame("foreach", Body, Line.tag) EXCEPT
                       !.var = var, !.old = old, !.rest = Tail(Split(A))]
    <3>1. Call(f, EndOf(Line, Top.prog, Top.at) + 1)
      BY <1>10 DEF Foreach
    <3>2. old = Absent \/ \E t \in old : old = {t}
      OBVIOUS
    <3> HIDE DEF old
    <3>3. IsFrame(f) /\ f.kind = "foreach"
      <4> DEFINE g == Frame("foreach", Body, Line.tag)
      <4>1. IsFrame(g) /\ g.kind = "foreach"
        BY NewFrame
      <4> HIDE DEF g, var
      <4>2. f \in {[g EXCEPT !.var = var, !.old = old, !.rest = Tail(Split(A))]}
        BY DEF g
      <4>3. PICK rest : rest = Tail(Split(A))
        OBVIOUS
      <4>4. g = [x \in Fields |-> g[x]]
        BY <4>1 DEF IsFrame
      <4> HIDE DEF f
      <4>5. f.kind = "foreach" /\ f.old = old /\ f = [x \in Fields |-> f[x]]
        BY <4>1, <4>2, <4>3, <4>4 DEF Fields
      <4> QED BY <3>2, <4>5 DEF IsFrame
    <3> QED BY <3>1, <3>3
  <2> QED BY <1>6, <2>1
<1> QED BY <1>4, <1>7, <1>8, <1>9, <1>10 DEF Ordinary

\* The variable of the top frame, a %foreach, is what it was before the loop.
Restored ==
  \/ Top.old = Absent /\ Top.var \notin DOMAIN vars'
  \/ Top.var \in DOMAIN vars' /\ Top.old = {vars'[Top.var]}

\* What may become of the top frame: the call fails, the frame is left, or it
\* goes on.
Stops   == outcome' = "failed" /\ UNCHANGED <<frames, raised>>
Leaves  == Leave /\ outcome' = outcome /\ (Top.kind = "foreach" => Restored)
GoesOnce ==
  /\ IsStack(frames') /\ Len(frames') = Len(frames) /\ raised' = <<>> /\ outcome' = outcome
  /\ \A k \in 1 .. Len(frames) - 1 : frames'[k] = frames[k]

LEMMA EndForeachStep ==
  ASSUME IsStack(frames), Len(frames) >= 1, Top.kind = "foreach", EndForeach
  PROVE  Stops \/ Leaves
<1>1. Top.old = Absent \/ \E t \in Top.old : Top.old = {t}
  <2>1. Len(frames) \in 1 .. Len(frames) /\ Top = frames[Len(frames)]
    BY DEF Top, Last, IsStack
  <2>2. IsFrame(Top)
    BY <2>1 DEF IsStack
  <2> QED BY <2>2 DEF IsFrame
<1>2. CASE Top.old = Absent /\ Top.var \notin DOMAIN vars
  BY <1>2 DEF EndForeach, Abort, Stops
<1>3. CASE Top.old = Absent /\ Top.var \in DOMAIN vars
  BY <1>3 DEF EndForeach, Leaves, Restored
<1>4. CASE Top.old # Absent
  <2>1. PICK t : Top.old = {t}
    BY <1>1, <1>4
  <2>2. /\ Leave /\ outcome' = outcome
        /\ vars' = With(vars, Top.var, CHOOSE u \in Top.old : TRUE)
    BY <1>4 DEF EndForeach
  <2>3. (CHOOSE u \in Top.old : TRUE) = t
    BY <2>1
  <2>4. Top.var \in DOMAIN vars' /\ vars'[Top.var] = t
    BY <2>2, <2>3 DEF With
  <2> QED BY <2>1, <2>2, <2>4 DEF Leaves, Restored
<1> QED BY <1>2, <1>3, <1>4

LEMMA NextRoundStep ==
  ASSUME IsStack(frames), Len(frames) >= 1, Top.kind \in {"loop", "foreach"}, NextRound
  PROVE  Stops \/ Leaves \/ GoesOnce
<1> DEFINE n == Len(frames)
<1>1. n \in 1 .. n /\ Top = frames[n] /\ IsFrame(Top)
  BY DEF Top, Last, IsStack
<1>2. ASSUME NEW f, IsFrame(f), f.kind = Top.kind, frames' = [frames EXCEPT ![n] = f],
             raised' = <<>>, outcome' = outcome
      PROVE  GoesOnce
  BY <1>1, <1>2, MovedIsStack DEF GoesOnce
<1>3. CASE Top.kind = "loop"
  <2>1. CASE Exhausted(Top.count + 1) \/ TooDeep(Len(frames) - 1)
    BY <1>3, <2>1 DEF NextRound, Abort, Stops
  <2>2. CASE ~(Exhausted(Top.count + 1) \/ TooDeep(Len(frames) - 1))
    <3>1. /\ frames' = Again([Top EXCEPT !.at = 1, !.count = IF @ < Inf THEN @ + 1 ELSE @ - 1])
          /\ raised' = <<>> /\ outcome' = outcome
      BY <1>3, <2>2 DEF NextRound
    <3>2. PICK c : c = IF Top.count < Inf THEN Top.count + 1 ELSE Top.count - 1
      OBVIOUS
    <3> DEFINE f == [Top EXCEPT !.at = 1, !.count = c]
    <3>3. frames' = [frames EXCEPT ![n] = f]
      BY <3>1, <3>2 DEF Again
    <3>4. IsFrame(f) /\ f.kind = Top.kind
      <4>1. Top = [x \in Fields |-> Top[x]]
        BY <1>1 DEF IsFrame
      <4>2. f = [x \in Fields |-> f[x]] /\ f.kind = Top.kind /\ f.old = Top.old
        BY <4>1 DEF Fields
      <4> HIDE DEF f
      <4> QED BY <1>1, <4>2 DEF IsFrame
    <3> HIDE DEF f
    <3> QED BY <1>2, <3>1, <3>3, <3>4
  <2> QED BY <2>1, <2>2
<1>4. CASE Top.kind = "foreach"
  <2>1. CASE Top.rest = <<>>
    BY <1>4, <2>1, EndForeachStep DEF NextRound
  <2>2. CASE Top.rest # <<>> /\ TooDeep(Len(frames) - 1)
    BY <1>4, <2>2 DEF NextRound, Abort, Stops
  <2>3. CASE Top.rest # <<>> /\ ~TooDeep(Len(frames) - 1)
    <3>1. /\ frames' = Again([Top EXCEPT !.at = 1, !.rest = Tail(@)])
          /\ raised' = <<>> /\ outcome' = outcome
      BY <1>4, <2>3 DEF NextRound
    <3>2. PICK l : l = Tail(Top.rest)
      OBVIOUS
    <3> DEFINE f == [Top EXCEPT !.at = 1, !.rest = l]
    <3>3. frames' = [frames EXCEPT ![n] = f]
      BY <3>1, <3>2 DEF Again
    <3>4. IsFrame(f) /\ f.kind = Top.kind
      <4>1. Top = [x \in Fields |-> Top[x]]
        BY <1>1 DEF IsFrame
      <4>2. f = [x \in Fields |-> f[x]] /\ f.kind = Top.kind /\ f.old = Top.old
        BY <4>1 DEF Fields
      <4> HIDE DEF f
      <4> QED BY <1>1, <4>2 DEF IsFrame
    <3> HIDE DEF f
    <3> QED BY <1>2, <3>1, <3>3, <3>4
  <2> QED BY <2>1, <2>2, <2>3
<1> QED BY <1>3, <1>4

LEMMA ReturnsStep ==
  ASSUME ExitInv, Returns
  PROVE  /\ outcome = "running" /\ raised = <<>>
         /\ \/ outcome' = "finished" /\ UNCHANGED <<frames, raised>>
            \/ Stops
            \/ Top.kind # "main" /\ (Leaves \/ GoesOnce)
<1>1. outcome = "running" /\ raised = <<>> /\ IsStack(frames) /\ Len(frames) >= 1
  BY DEF Returns, ExitInv
<1>2. CASE Top.kind = "main"
  BY <1>1, <1>2 DEF Returns
<1>3. CASE Top.kind \in {"loop", "foreach"}
  BY <1>1, <1>3, NextRoundStep DEF Returns
<1>4. CASE Top.kind \notin {"main", "loop", "foreach"}
  BY <1>1, <1>4 DEF Returns, Leaves
<1> QED BY <1>2, <1>3, <1>4

LEMMA HandlesStep ==
  ASSUME ExitInv, Handles
  PROVE  /\ outcome = "running" /\ raised # <<>> /\ Top.kind # "main" /\ Catches
         /\ Stops \/ Leaves \/ (GoesOnce /\ raised[1].kind = "continue")
<1>1. /\ outcome = "running" /\ raised # <<>> /\ Top.kind # "main" /\ Catches
      /\ IsStack(frames) /\ Len(frames) >= 1
  BY DEF Handles, ExitInv
<1>2. CASE raised[1].kind = "continue"
  <2>1. Top.kind \in {"loop", "foreach"} /\ NextRound
    BY <1>1, <1>2 DEF Handles, Catches
  <2> QED BY <1>1, <1>2, <2>1, NextRoundStep
<1>3. CASE raised[1].kind # "continue" /\ Top.kind = "foreach"
  BY <1>1, <1>3, EndForeachStep DEF Handles
<1>4. CASE raised[1].kind # "continue" /\ Top.kind # "foreach"
  BY <1>1, <1>4 DEF Handles, Leaves
<1> QED BY <1>1, <1>2, <1>3, <1>4

LEMMA RaiseStep ==
  ASSUME ExitInv, Raise
  PROVE  /\ outcome = "running" /\ raised = <<>> /\ frames' = frames /\ outcome' = outcome
         /\ raised' = <<raised'[1]>> /\ OnItsWay(raised[1])'
<1> DEFINE e == [kind |-> Line.op, tag |-> Line.tag, from |-> frames]
<1>1. /\ outcome = "running" /\ raised = <<>> /\ frames' = frames /\ outcome' = outcome
      /\ raised' = <<e>> /\ Line.op \in {"break", "continue", "exitmacro", "exit"}
  BY DEF Raise, Reads, AtLine
<1>2. /\ raised'[1] = e /\ e.kind = Line.op /\ e.from = frames
  BY <1>1
<1>3. IsStack(frames)
  BY DEF ExitInv
<1>4. Len(frames) \in Nat /\ DOMAIN frames = 1 .. Len(frames)
  BY <1>3 DEF IsStack
<1>5. \A k \in TargetOf(e) : k \in DOMAIN frames
  <2> HIDE DEF e
  <2> QED BY <1>1, <1>2 DEF TargetOf
<1> HIDE DEF e
<1>6. OnItsWay(e)
  BY <1>1, <1>2, <1>4, <1>5 DEF OnItsWay
<1>7. OnItsWay(raised[1])'
  BY <1>1, <1>2, <1>6 DEF OnItsWay, TargetOf
<1> QED BY <1>1, <1>2, <1>7

\* The frame that catches an exception is its target.
LEMMA CatchesIsTarget ==
  ASSUME ExitInv, outcome = "running", raised # <<>>
  PROVE  Catches <=> Len(frames) \in TargetOf(raised[1])
<1> DEFINE e == raised[1]
<1>1. OnItsWay(e) /\ IsStack(frames) /\ Len(frames) >= 1 /\ Len(frames) \in Nat
  BY DEF ExitInv, IsStack
<1>2. Top = frames[Len(frames)]
  BY DEF Top, Last
<1>3. Len(frames) \in DOMAIN e.from /\ e.from[Len(frames)] = Top
  BY <1>1, <1>2 DEF OnItsWay
<1>4. e.kind \in {"break", "continue", "exitmacro", "exit"}
  BY <1>1 DEF OnItsWay
<1> HIDE DEF e
<1> SUFFICES Catches <=> Len(frames) \in TargetOf(e)
  BY DEF e
<1>5. Catches <=> \/ Top.kind \in {"loop", "foreach"} /\ e.kind \in {"break", "continue"} /\ e.tag = Top.tag
                  \/ Top.kind = "macro" /\ e.kind = "exitmacro"
                  \/ Top.kind = "include" /\ e.kind = "exit"
  BY DEF Catches, IsExitLoop, e
<1>6. CASE e.kind \in {"break", "continue"}
  BY <1>3, <1>5, <1>6 DEF TargetOf
<1>7. CASE e.kind = "exitmacro"
  BY <1>3, <1>5, <1>7 DEF TargetOf
<1>8. CASE e.kind = "exit"
  BY <1>3, <1>5, <1>8 DEF TargetOf
<1> QED BY <1>4, <1>6, <1>7, <1>8

LEMMA PassesStep ==
  ASSUME ExitInv, Passes
  PROVE  /\ outcome = "running" /\ outcome' = outcome /\ raised # <<>> /\ raised' = raised
         /\ IsStack(frames') /\ Len(frames') >= 1
         /\ OnItsWay(raised[1])'
<1>1. /\ outcome = "running" /\ outcome' = outcome /\ raised # <<>> /\ raised' = raised
      /\ Top.kind # "main" /\ ~Catches /\ frames' = Front(frames)
  BY DEF Passes
<1>2. IsStack(frames) /\ Len(frames) >= 1 /\ Len(frames) \in Nat /\ OnItsWay(raised[1])
  BY <1>1 DEF ExitInv, IsStack
<1>3. Len(frames) # 1
  BY <1>1, <1>2 DEF IsStack, Top, Last
<1>4. /\ IsStack(frames') /\ Len(frames') = Len(frames) - 1
      /\ \A k \in 1 .. Len(frames) - 1 : frames'[k] = frames[k]
  BY <1>1, <1>2, PoppedIsStack
<1>5. Len(frames) \notin TargetOf(raised[1])
  BY <1>1, CatchesIsTarget
<1> DEFINE e == raised[1]
<1>6. /\ e.kind \in {"break", "continue", "exitmacro", "exit"}
      /\ Len(e.from) \in Nat /\ Len(frames) <= Len(e.from) /\ DOMAIN e.from = 1 .. Len(e.from)
      /\ \A k \in 1 .. Len(frames) : frames[k] = e.from[k]
      /\ \A k \in TargetOf(e) : k <= Len(frames)
  BY <1>2 DEF OnItsWay
<1>7. \A k \in TargetOf(e) : k \in DOMAIN e.from
  BY <1>6 DEF TargetOf
<1>8. raised'[1] = e
  BY <1>1
<1> HIDE DEF e
<1>9. \A k \in TargetOf(e) : k <= Len(frames) - 1
  BY <1>2, <1>5, <1>6, <1>7 DEF e
<1>10. OnItsWay(raised[1])'
  BY <1>2, <1>4, <1>6, <1>8, <1>9 DEF OnItsWay, TargetOf
<1> QED BY <1>1, <1>2, <1>3, <1>4, <1>10

LEMMA PreprocStep ==
  ASSUME ExitInv, Preproc
  PROVE  /\ outcome = "idle" /\ frames = <<>> /\ outcome' = "running" /\ raised' = <<>>
         /\ IsStack(frames') /\ Len(frames') >= 1
<1>1. /\ outcome = "idle" /\ outcome' = "running" /\ raised' = raised
      /\ frames' = <<Frame("main", prgm, "")>>
  BY DEF Preproc
<1>2. frames = <<>> /\ raised = <<>>
  BY <1>1 DEF ExitInv
<1>3. PICK f : f = Frame("main", prgm, "")
  OBVIOUS
<1>4. IsFrame(f) /\ f.kind = "main"
  BY <1>3, NewFrame
<1>5. Len(<<f>>) = 1 /\ <<f>>[1] = f /\ <<f>> = [k \in 1 .. 1 |-> <<f>>[k]]
  OBVIOUS
<1>6. IsStack(<<f>>) /\ Len(<<f>>) >= 1
  BY <1>4, <1>5 DEF IsStack
<1> QED BY <1>1, <1>2, <1>3, <1>6

LEMMA ExitInvInit == PreprocInit => ExitInv
<1> SUFFICES ASSUME PreprocInit PROVE ExitInv
  OBVIOUS
<1>1. frames = <<>> /\ raised = <<>> /\ outcome = "idle"
  BY DEF PreprocInit
<1>2. Len(<<>>) = 0 /\ <<>> = [k \in 1 .. 0 |-> <<>>[k]]
  OBVIOUS
<1> QED BY <1>1, <1>2 DEF ExitInv, IsStack

\* The frame under the one that has been left is still there.
LEMMA LeavesStep ==
  ASSUME ExitInv, outcome = "running", Top.kind # "main", Leaves
  PROVE  /\ outcome' = "running" /\ raised' = <<>> /\ IsStack(frames') /\ Len(frames') >= 1
         /\ Len(frames') = Len(frames) - 1
         /\ \A k \in 1 .. Len(frames) - 1 : frames'[k] = frames[k]
<1>1. IsStack(frames) /\ Len(frames) >= 1 /\ Len(frames) \in Nat
  BY DEF ExitInv, IsStack
<1>2. frames' = Front(frames) /\ raised' = <<>> /\ outcome' = outcome
  BY DEF Leaves, Leave
<1>3. Len(frames) # 1
  BY <1>1 DEF IsStack, Top, Last
<1>4. /\ IsStack(frames') /\ Len(frames') = Len(frames) - 1
      /\ \A k \in 1 .. Len(frames) - 1 : frames'[k] = frames[k]
  BY <1>1, <1>2, PoppedIsStack
<1> QED BY <1>1, <1>2, <1>3, <1>4

LEMMA ExitInvStep == ExitInv /\ [PreprocNext]_state => ExitInv'
<1> SUFFICES ASSUME ExitInv, [PreprocNext]_state PROVE ExitInv'
  OBVIOUS
<1> USE DEF ExitInv
<1>0. ASSUME outcome' \in {"running", "failed", "finished"}, IsStack(frames'),
             Len(frames') >= 1, raised' = <<>>
      PROVE  ExitInv'
  BY <1>0
<1>s. ASSUME outcome # "idle", outcome' \in {"failed", "finished"}, frames' = frames, raised' = raised
      PROVE  ExitInv'
  <2>1. IsStack(frames')
    BY <1>s
  <2>2. raised' = <<>> \/ (raised' = <<raised'[1]>> /\ OnItsWay(raised[1])')
    BY <1>s DEF OnItsWay, TargetOf
  <2> QED BY <1>s, <2>1, <2>2
<1>1. CASE Ordinary
  <2>1. IsStack(frames') /\ Len(frames') >= Len(frames) /\ Len(frames) >= 1
    BY <1>1, OrdinarySteps
  <2>2. Len(frames') >= 1
    BY <2>1 DEF IsStack
  <2> HIDE DEF ExitInv
  <2>3. ExitInv
    OBVIOUS
  <2> QED BY <1>0, <1>1, <2>1, <2>2, OrdinarySteps
<1>g. ASSUME outcome = "running", GoesOnce
      PROVE  ExitInv'
  BY <1>0, <1>g DEF GoesOnce
<1>2. CASE Raise
  <2>1. /\ outcome = "running" /\ frames' = frames /\ outcome' = outcome
        /\ raised' = <<raised'[1]>> /\ OnItsWay(raised[1])'
    BY <1>2, RaiseStep
  <2>2. IsStack(frames') /\ Len(frames') >= 1
    BY <2>1
  <2> QED BY <2>1, <2>2
<1>3. CASE Returns
  <2>1. CASE outcome' = "finished" /\ UNCHANGED <<frames, raised>>
    BY <1>3, <1>s, <2>1, ReturnsStep
  <2>2. CASE Stops
    BY <1>3, <1>s, <2>2, ReturnsStep DEF Stops
  <2>3. CASE Top.kind # "main" /\ Leaves
    BY <1>0, <1>3, <2>3, ReturnsStep, LeavesStep
  <2>4. CASE GoesOnce
    BY <1>3, <1>g, <2>4, ReturnsStep
  <2> QED BY <1>3, <2>1, <2>2, <2>3, <2>4, ReturnsStep
<1>4. CASE Handles
  <2>1. CASE Stops
    BY <1>4, <1>s, <2>1, HandlesStep DEF Stops
  <2>2. CASE Leaves
    BY <1>0, <1>4, <2>2, HandlesStep, LeavesStep
  <2>3. CASE GoesOnce
    BY <1>4, <1>g, <2>3, HandlesStep
  <2> QED BY <1>4, <2>1, <2>2, <2>3, HandlesStep
<1>5. CASE Passes
  <2>1. raised' = <<raised'[1]>>
    BY <1>5, PassesStep
  <2> QED BY <1>5, <2>1, PassesStep
<1>6. CASE Uncaught
  BY <1>6, <1>s DEF Uncaught
<1>7. CASE Preproc
  BY <1>0, <1>7, PreprocStep
<1>8. CASE Finally
  <2>1. Len(<<>>) = 0 /\ <<>> = [k \in 1 .. 0 |-> <<>>[k]]
    OBVIOUS
  <2>2. outcome' = "idle" /\ frames' = <<>> /\ raised' = <<>>
    BY <1>8 DEF Finally
  <2> QED BY <2>1, <2>2 DEF IsStack
<1>9. CASE UNCHANGED state
  <2>1. frames' = frames /\ raised' = raised /\ outcome' = outcome
    BY <1>9 DEF state
  <2>2. OnItsWay(raised[1]) => OnItsWay(raised[1])'
    BY <2>1 DEF OnItsWay, TargetOf
  <2> QED BY <2>1, <2>2
<1> HIDE DEF ExitInv
<1> QED BY <1>1, <1>2, <1>3, <1>4, <1>5, <1>6, <1>7, <1>8, <1>9 DEF PreprocNext, Ordinary

LEMMA ExitInvHolds == PreprocSpec => []ExitInv
BY ExitInvInit, ExitInvStep, PTL DEF PreprocSpec

LEMMA MaxIs ==
  ASSUME NEW S, NEW m \in S, m \in Int, \A k \in S : m >= k /\ k \in Int
  PROVE  Max(S) = m
<1>1. \A a, b \in Int : a >= b /\ b >= a => a = b
  OBVIOUS
<1> QED BY <1>1 DEF Max

\* Every step under the invariant takes an exit to its block.
LEMMA ExitStep ==
  ASSUME ExitInv, PreprocNext, raised # <<>>
  PROVE  LET e == raised[1]
             k == Max(TargetOf(e))
         IN  /\ raised' = <<>> /\ outcome' = "running" =>
                  /\ TargetOf(e) # {}
                  /\ Len(frames') \in {k - 1, k}
                  /\ Len(frames') = k => e.kind = "continue"
                  /\ SubSeq(frames', 1, k - 1) = SubSeq(e.from, 1, k - 1)
             /\ outcome' = "finished" => e.kind = "exit" /\ TargetOf(e) = {}
             /\ outcome' = "failed" =>
                  \/ TargetOf(e) = {} /\ e.kind # "exit"
                  \/ Len(frames) = k
<1> DEFINE e == raised[1]
           n == Len(frames)
<1>1. /\ e.kind \in {"break", "continue", "exitmacro", "exit"}
      /\ Len(e.from) \in Nat /\ n <= Len(e.from) /\ DOMAIN e.from = 1 .. Len(e.from)
      /\ \A k \in 1 .. n : frames[k] = e.from[k]
      /\ \A k \in TargetOf(e) : k <= n
  BY DEF ExitInv, OnItsWay
<1>2. n \in Nat /\ IsStack(frames) /\ \A k \in TargetOf(e) : k \in DOMAIN e.from
  BY <1>1 DEF ExitInv, IsStack, TargetOf
<1>3. Handles \/ Passes \/ Uncaught \/ Finally
  <2>1. ~Ordinary
    BY OrdinarySteps
  <2>2. ~Raise /\ ~Returns /\ ~Preproc
    BY RaiseStep, ReturnsStep DEF Preproc, ExitInv
  <2> QED BY <2>1, <2>2 DEF PreprocNext, Ordinary
<1>4. CASE Handles
  <2>1. /\ outcome = "running" /\ Top.kind # "main" /\ Catches
        /\ Stops \/ Leaves \/ (GoesOnce /\ e.kind = "continue")
    BY <1>4, HandlesStep
  <2>2. n \in TargetOf(e)
    BY <2>1, CatchesIsTarget
  <2>3. Max(TargetOf(e)) = n
    <3> HIDE DEF e, n
    <3>1. \A k \in TargetOf(e) : n >= k /\ k \in Int
      BY <1>1, <1>2
    <3>2. PICK S : S = TargetOf(e)
      OBVIOUS
    <3>3. n \in S /\ n \in Int /\ \A k \in S : n >= k /\ k \in Int
      BY <1>2, <2>2, <3>1, <3>2 DEF e, n
    <3>4. Max(S) = n
      BY <3>3, MaxIs
    <3> QED BY <3>2, <3>4
  <2>4. CASE Stops
    BY <2>3, <2>4 DEF Stops
  <2>5. CASE Leaves \/ (GoesOnce /\ e.kind = "continue")
    <3>1. /\ outcome' = "running" /\ IsStack(frames') /\ n >= 1
          /\ Len(frames') = n - 1 \/ (Len(frames') = n /\ e.kind = "continue")
          /\ \A k \in 1 .. n - 1 : frames'[k] = frames[k]
      BY <1>2, <2>1, <2>5, LeavesStep DEF GoesOnce, ExitInv
    <3>2. SubSeq(frames', 1, n - 1) = SubSeq(e.from, 1, n - 1)
      <4>1. SubSeq(frames', 1, n - 1) = [i \in 1 .. n - 1 |-> frames'[i]]
        BY <1>2, <3>1
      <4>2. SubSeq(e.from, 1, n - 1) = [i \in 1 .. n - 1 |-> e.from[i]]
        BY <1>2, <3>1
      <4>3. \A i \in 1 .. n - 1 : frames'[i] = e.from[i]
        BY <1>1, <1>2, <3>1
      <4> QED BY <4>1, <4>2, <4>3
    <3> QED BY <2>2, <2>3, <3>1, <3>2
  <2> QED BY <2>1, <2>4, <2>5
<1>5. CASE Passes
  BY <1>5, PassesStep
<1>6. CASE Uncaught
  <2>1. /\ outcome = "running" /\ Top.kind = "main" /\ raised' = raised
        /\ outcome' = IF e.kind = "exit" THEN "finished" ELSE "failed"
    BY <1>6 DEF Uncaught
  <2>2. n = 1 /\ e.from[1].kind = "main"
    BY <1>1, <1>2, <2>1 DEF ExitInv, IsStack, Top, Last
  <2>3. TargetOf(e) = {}
    <3> SUFFICES ASSUME NEW k \in TargetOf(e) PROVE FALSE
      OBVIOUS
    <3>1. k = 1
      BY <1>1, <1>2, <2>2
    <3>2. e.from[k].kind # "main"
      <4> HIDE DEF e
      <4>1. CASE e.kind \in {"break", "continue"}
        BY <4>1 DEF TargetOf
      <4>2. CASE e.kind = "exitmacro"
        BY <4>2 DEF TargetOf
      <4>3. CASE e.kind = "exit"
        BY <4>3 DEF TargetOf
      <4> QED BY <1>1, <4>1, <4>2, <4>3
    <3> QED BY <2>2, <3>1, <3>2
  <2> QED BY <2>1, <2>3
<1>7. CASE Finally
  BY <1>7 DEF Finally
<1> QED BY <1>3, <1>4, <1>5, <1>6, <1>7

\* An exit reaches the innermost block it is meant for: Handles of %break,
\* %continue, %exitmacro and %exit in _preproc, for any program, macros and files,
\* a %break that is meant for an %if apart.
THEOREM ExitsReachTheirBlockHolds == PreprocSpec => ExitsReachTheirBlock
<1>1. ExitInv /\ [PreprocNext]_state =>
        [raised # <<>> /\ ~MeantForIf(raised[1]) =>
           LET e == raised[1]
               k == Max(TargetOf(e))
           IN  /\ raised' = <<>> /\ outcome' = "running" =>
                    /\ TargetOf(e) # {}
                    /\ Len(frames') \in {k - 1, k}
                    /\ Len(frames') = k => e.kind = "continue"
                    /\ SubSeq(frames', 1, k - 1) = SubSeq(e.from, 1, k - 1)
               /\ outcome' = "finished" => e.kind = "exit" /\ TargetOf(e) = {}
               /\ outcome' = "failed" =>
                    \/ TargetOf(e) = {} /\ e.kind # "exit"
                    \/ Len(frames) = k]_state
  BY ExitStep
<1> QED BY <1>1, ExitInvHolds, PTL DEF PreprocSpec, ExitsReachTheirBlock

LEMMA RestoresStep ==
  ASSUME ExitInv, PreprocNext, NEW k \in DOMAIN frames, frames[k].kind = "foreach",
         k \notin DOMAIN frames', outcome' = "running", raised' = <<>>, k = Len(frames)
  PROVE  \/ frames[k].old = Absent /\ frames[k].var \notin DOMAIN vars'
         \/ frames[k].var \in DOMAIN vars' /\ frames[k].old = {vars'[frames[k].var]}
<1>1. IsStack(frames) /\ Len(frames) \in Nat /\ DOMAIN frames = 1 .. Len(frames)
  BY DEF ExitInv, IsStack
<1>2. Top = frames[k] /\ k \in Nat /\ k >= 1
  BY <1>1 DEF Top, Last
<1>3. frames' # frames
  OBVIOUS
<1>4. ASSUME IsStack(frames'), Len(frames') >= Len(frames) PROVE FALSE
  <2>1. DOMAIN frames' = 1 .. Len(frames') /\ Len(frames') \in Nat
    BY <1>4 DEF IsStack
  <2> QED BY <1>2, <1>4, <2>1
<1>5. ~Ordinary
  BY <1>4, OrdinarySteps
<1>6. ~Raise /\ ~Passes /\ ~Uncaught /\ ~Finally
  BY <1>3, PassesStep DEF Raise, Uncaught, Finally
<1>7. ~Preproc
  BY <1>2, PreprocStep
<1>8. ~GoesOnce
  BY <1>4 DEF GoesOnce
<1>9. Leaves
  BY <1>3, <1>5, <1>6, <1>7, <1>8, ReturnsStep, HandlesStep DEF PreprocNext, Ordinary, Stops
<1> QED BY <1>2, <1>9 DEF Leaves, Restored

\* The variable of a %foreach has its old value again when the loop is left from
\* its end: EndForeach and NextRound of _preproc, for any program.
THEOREM ForeachRestoresHolds == PreprocSpec => ForeachRestores
<1>1. ExitInv /\ [PreprocNext]_state =>
        [\A k \in DOMAIN frames :
           /\ frames[k].kind = "foreach" /\ k \notin DOMAIN frames'
           /\ outcome' = "running" /\ raised' = <<>> /\ k = Len(frames)
           => \/ frames[k].old = Absent /\ frames[k].var \notin DOMAIN vars'
              \/ frames[k].var \in DOMAIN vars' /\ frames[k].old = {vars'[frames[k].var]}]_state
  BY RestoresStep
<1> QED BY <1>1, ExitInvHolds, PTL DEF PreprocSpec, ForeachRestores

=============================================================================
