------------------------------- MODULE Cache -------------------------------
(***************************************************************************)
(* The cache of optimised graphs of crcc.py, a directory with a file per   *)
(* key, and the processes that share it.  Nothing is locked: each step of  *)
(* a process is a call to the operating system, the writes of a graph are  *)
(* several, and a process may die between any two of them.                 *)
(***************************************************************************)
EXTENDS Integers, Sequences, FiniteSets

CONSTANTS
  Procs,         \* the processes
  Flags,         \* the sets of flags of --cache that are given
  CacheBatches,  \* sequences of jobs: records [crc, init, sort]; <<>> only to clear
  Lengths        \* how many writes a graph may take

\* A graph of no bytes is not written: it begins with a checksum.
ASSUME LengthsAssumption == Lengths \subseteq Nat \ {0}

ASSUME FlagsAssumption == Flags \subseteq SUBSET {"d", "r", "w", "c", "o", "u", "x"}

ASSUME CacheBatchesAssumption ==
  \A b \in CacheBatches : Len(b) \in Nat /\ DOMAIN b = 1 .. Len(b)

VARIABLES
  proc,        \* per process: pc, settings, jobs, at (the job), todo, graph, node, written
  entry,       \* the file of each key, 0 if there is none
  nodes,       \* the contents of all files there have been: what each write left
  dir,         \* whether the directory exists
  spoiled      \* files that two processes wrote at a time, or that one left half written

cacheVars == <<proc, entry, nodes, dir, spoiled>>

\* Mutant of Key: the initial value is not in it.
Key_init(job) == job.crc

\* What is hashed has all that the equations depend on, and not the sorting.
Key(job) == <<job.crc, job.init>>

Keys == UNION {{Key(b[i]) : i \in DOMAIN b} : b \in CacheBatches}

\* u stands for r and w, x for c.
Given(flags) ==
  (IF "u" \in flags THEN {"r", "w"} ELSE {}) \union (IF "x" \in flags THEN {"c"} ELSE {})
  \union (flags \ {"u", "x"})

NoGraph == [job |-> [crc |-> "none", init |-> 0, sort |-> "none"], by |-> 0, len |-> 0]
NoNode == 0

CacheInit ==
  /\ \E b \in [Procs -> CacheBatches], f \in [Procs -> Flags] :
       /\ \A p \in Procs : b[p] = <<>> => Given(f[p]) = {"c"}
       /\ proc = [p \in Procs |->
            [pc |-> "start", settings |-> f[p], jobs |-> b[p], at |-> 1, todo |-> {},
             graph |-> NoGraph, node |-> NoNode, written |-> 0]]
  /\ entry = [k \in Keys |-> NoNode]
  /\ nodes = <<>> /\ dir \in BOOLEAN /\ spoiled = {}

JobOf(p) == proc[p].jobs[proc[p].at]
FileOf(p) == entry[Key(JobOf(p))]

Writers(n) == {p \in Procs : proc[p].pc = "write" /\ proc[p].node = n}

Becomes(p, state) == proc' = [proc EXCEPT ![p] = state]

Goes(p, pc) == Becomes(p, [proc[p] EXCEPT !.pc = pc])

-----------------------------------------------------------------------------
(* The flags. *)

\* No flag is given twice; with that, more than four are too many already.
Accepted(flags) ==
  /\ "u" \in flags => flags \intersect {"r", "w"} = {}
  /\ ~({"x", "c"} \subseteq flags)
  /\ "d" \in Given(flags) => Given(flags) = {"d"}
  /\ "o" \in Given(flags) => Given(flags) \intersect {"r", "w"} = {}

\* Clearing starts from a list of the directory, and turns reading off.
Start(p) ==
  /\ proc[p].pc = "start"
  /\ LET flags == Given(proc[p].settings)
     IN  IF ~Accepted(proc[p].settings) THEN Goes(p, "error")
         ELSE Becomes(p, [proc[p] EXCEPT
                !.pc = "clear",
                !.todo = IF "c" \in flags THEN {k \in Keys : entry[k] # NoNode} ELSE {},
                !.settings = flags \intersect (IF "c" \in flags THEN {"d", "w"} ELSE {"d", "r", "w"})])
  /\ UNCHANGED <<entry, nodes, dir, spoiled>>

\* os.remove raises an exception for a file that is not there.
RemoveEntry(p, k, pc) ==
  IF entry[k] = NoNode THEN Goes(p, "failed") /\ UNCHANGED entry
  ELSE /\ entry' = [entry EXCEPT ![k] = NoNode]
       /\ Becomes(p, [proc[p] EXCEPT !.pc = pc, !.todo = @ \ {k}])

Clear(p) ==
  /\ proc[p].pc = "clear"
  /\ IF proc[p].todo # {} THEN \E k \in proc[p].todo : RemoveEntry(p, k, "clear")
     ELSE Goes(p, IF proc[p].jobs = <<>> /\ dir THEN "rmdir" ELSE "job") /\ UNCHANGED entry
  /\ UNCHANGED <<nodes, dir, spoiled>>

\* Without a job the directory goes too.  os.rmdir raises an exception unless it is empty.
RemoveDir(p) ==
  /\ proc[p].pc = "rmdir"
  /\ IF dir /\ \A k \in Keys : entry[k] = NoNode THEN dir' = FALSE /\ Goes(p, "end")
     ELSE Goes(p, "failed") /\ UNCHANGED dir
  /\ UNCHANGED <<entry, nodes, spoiled>>

-----------------------------------------------------------------------------
(* A job. *)

\* Is there an entry to remove, or one to read?
LookUp(p) ==
  /\ proc[p].pc = "job"
  /\ Goes(p, IF proc[p].at > Len(proc[p].jobs) THEN "end"
             ELSE IF "d" \in proc[p].settings /\ FileOf(p) # NoNode THEN "delete"
             ELSE IF "r" \in proc[p].settings /\ FileOf(p) # NoNode THEN "read"
             ELSE "search")
  /\ UNCHANGED <<entry, nodes, dir, spoiled>>

Delete(p) ==
  /\ proc[p].pc = "delete"
  /\ RemoveEntry(p, Key(JobOf(p)), "search")
  /\ UNCHANGED <<nodes, dir, spoiled>>

\* The pieces of a graph.
Pieces(graph) == [i \in 1 .. graph.len |-> <<graph, i>>]

\* The checksums accept the pieces of one graph and nothing else.
IsWhole(content) ==
  content # <<>> /\ content[1][1] # NoGraph /\ content = Pieces(content[1][1])

\* cache_read.
Read(p) ==
  /\ proc[p].pc = "read"
  /\ IF FileOf(p) # NoNode /\ IsWhole(nodes[FileOf(p)])
     THEN Becomes(p, [proc[p] EXCEPT !.pc = "use", !.graph = nodes[FileOf(p)][1][1]])
     ELSE Goes(p, "failed")
  /\ UNCHANGED <<entry, nodes, dir, spoiled>>

\* The search gives one of many graphs for the equations of the job.  It is written
\* also when it was interrupted.
Optimize(p) ==
  /\ proc[p].pc = "search"
  /\ \E n \in Lengths :
       Becomes(p, [proc[p] EXCEPT !.pc = IF "w" \in proc[p].settings THEN "makedirs" ELSE "use",
                                  !.graph = [job |-> JobOf(p), by |-> p, len |-> n]])
  /\ UNCHANGED <<entry, nodes, dir, spoiled>>

MakeDirs(p) ==
  /\ proc[p].pc = "makedirs"
  /\ dir' = TRUE
  /\ Goes(p, "open")
  /\ UNCHANGED <<entry, nodes, spoiled>>

\* Mutant of Truncated: an entry that exists is written over and not emptied.
Truncated_over(content) == content

Truncated(content) == <<>>

\* Mode "wb": a file that exists is emptied, whoever is writing it.
Open(p) ==
  /\ proc[p].pc = "open" /\ dir
  /\ LET n == IF FileOf(p) = NoNode THEN Len(nodes) + 1 ELSE FileOf(p)
     IN  /\ nodes' = IF FileOf(p) = NoNode THEN Append(nodes, <<>>)
                     ELSE [nodes EXCEPT ![n] = Truncated(@)]
         /\ entry' = [entry EXCEPT ![Key(JobOf(p))] = n]
         /\ spoiled' = spoiled \union (IF Writers(n) # {} THEN {n} ELSE {})
         /\ Becomes(p, [proc[p] EXCEPT !.pc = "write", !.node = n, !.written = 0])
  /\ UNCHANGED dir

NoDir(p) ==
  /\ proc[p].pc = "open" /\ ~dir
  /\ Goes(p, "failed")
  /\ UNCHANGED <<entry, nodes, dir, spoiled>>

\* The piece at position i; what a file that was emptied lacks before it reads as 0.
Put(content, i, piece) ==
  [j \in 1 .. (IF i > Len(content) THEN i ELSE Len(content)) |->
     IF j = i THEN piece ELSE IF j <= Len(content) THEN content[j] ELSE <<NoGraph, 0>>]

\* Python writes when its buffer is full and on closing.
Write(p) ==
  /\ proc[p].pc = "write" /\ proc[p].written < proc[p].graph.len
  /\ LET i == proc[p].written + 1
     IN  /\ nodes' = [nodes EXCEPT ![proc[p].node] = Put(@, i, <<proc[p].graph, i>>)]
         /\ Becomes(p, [proc[p] EXCEPT !.written = i])
  /\ UNCHANGED <<entry, dir, spoiled>>

Close(p) ==
  /\ proc[p].pc = "write" /\ proc[p].written = proc[p].graph.len
  /\ Goes(p, "use")
  /\ UNCHANGED <<entry, nodes, dir, spoiled>>

\* The rest of the job, with the graph.
Use(p) ==
  /\ proc[p].pc = "use"
  /\ Becomes(p, [proc[p] EXCEPT !.pc = "job", !.at = @ + 1, !.graph = NoGraph])
  /\ UNCHANGED <<entry, nodes, dir, spoiled>>

\* The process is killed, or an exception that is not of the cache ends it.
Dies(p) ==
  /\ proc[p].pc \in {"search", "write"}
  /\ Goes(p, "dead")
  /\ spoiled' = spoiled \union (IF proc[p].pc = "write" THEN {proc[p].node} ELSE {})
  /\ UNCHANGED <<entry, nodes, dir>>

CacheNext ==
  \E p \in Procs :
    \/ Start(p) \/ Clear(p) \/ RemoveDir(p) \/ LookUp(p) \/ Delete(p) \/ Read(p) \/ Optimize(p)
    \/ MakeDirs(p) \/ Open(p) \/ NoDir(p) \/ Write(p) \/ Close(p) \/ Use(p) \/ Dies(p)

CacheSpec == CacheInit /\ [][CacheNext]_cacheVars

-----------------------------------------------------------------------------
(* Properties. *)

\* A graph that a job uses computes the checksum of this job, also when another process
\* put it into the cache, for another way of sorting, while others clear and write it.
GraphIsForTheJob ==
  \A p \in Procs : proc[p].pc = "use" =>
    /\ proc[p].graph.job.crc = JobOf(p).crc
    /\ proc[p].graph.job.init = JobOf(p).init

\* An entry that nobody is writing is whole, unless two processes wrote it at a time or
\* one died in the middle: a batch that is alone never reads what it cannot use.
EntriesAreWhole ==
  \A k \in Keys :
    LET n == entry[k]
    IN  n # NoNode /\ Writers(n) = {} /\ n \notin spoiled => IsWhole(nodes[n])
=============================================================================
