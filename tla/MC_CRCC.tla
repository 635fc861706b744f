------------------------------ MODULE MC_CRCC ------------------------------
(***************************************************************************)
(* crcc.py and what it calls.  A behaviour is of one of four parts:        *)
(*   compiler  the optimiser and the assembler, on three to five equations *)
(*             over a constant and four inputs, chosen so that pairs and   *)
(*             triples of them overlap, with each way of searching, and    *)
(*             routines for machines of both kinds, with bytes of two      *)
(*             bits; without a Junk register a routine is an affine map,   *)
(*             so the zero data and the unit vectors tell wrong routines   *)
(*             from right ones                                             *)
(*   batch     up to four jobs with outputs that collide                   *)
(*   cache     two processes that share a cache                            *)
(*   matrix    checksums of one and two bytes of two bits                  *)
(***************************************************************************)
EXTENDS Compiler, BeamSearch, Batch, Cache, CRCMatrix, TLC

CONSTANT Parts

VARIABLE part

compiler == <<vars, asmVars>>

\* A compiler that is not called is one whose call has ended.
NoCompiler ==
  /\ given = <<>> /\ opt = <<>> /\ pc = "crashed"
  /\ s = <<>> /\ tmpCount = 0 /\ round = 1 /\ skipMin = 3 /\ answer = NoAnswer
  /\ early = FALSE /\ critical = FALSE /\ pending = FALSE /\ handler = "orig" /\ presses = 0
  /\ td = Nowhere /\ out = <<>> /\ keys = {} /\ pos = Nowhere /\ indegree = Nowhere /\ queue = <<>>
  /\ defs = Nowhere /\ outs = <<>> /\ datalen = 0 /\ sumlen = 0 /\ target = <<>> /\ data = <<>>
  /\ step = "waiting" /\ left = Nowhere /\ outLeft = <<>> /\ plan = <<>> /\ mem = Nowhere
  /\ reg = Nowhere /\ byte = 0 /\ result = Nowhere /\ allFull = TRUE

NoBatch ==
  /\ batch = [programs |-> <<>>] /\ reading = 0 /\ files_seen = {} /\ curves = <<>>
  /\ job_num = 0 /\ params = <<>> /\ ran = <<>>
  /\ outfile = "" /\ filename = "" /\ new_file = TRUE /\ prev_output = ""
  /\ filenames = {} /\ bad_filenames = {} /\ disk = <<>> /\ bpc = ""

\* The processes have come to their end, and left nothing.
NoCache ==
  /\ proc = [p \in Procs |->
       [pc |-> "end", settings |-> {}, jobs |-> <<>>, at |-> 1, todo |-> {},
        graph |-> NoGraph, node |-> NoNode, written |-> 0]]
  /\ entry = [k \in Keys |-> NoNode] /\ nodes = <<>> /\ dir = FALSE /\ spoiled = {}

NoMatrix == job = <<>> /\ cols = <<>> /\ current = {} /\ rows = <<>> /\ phase = ""

MCInit ==
  /\ part \in Parts
  /\ \/ part = "compiler" /\ CompilerInit /\ NoBatch /\ NoCache /\ NoMatrix
     \/ part = "batch" /\ BatchInit /\ NoCompiler /\ NoCache /\ NoMatrix
     \/ part = "cache" /\ CacheInit /\ NoCompiler /\ NoBatch /\ NoMatrix
     \/ part = "matrix" /\ MatrixInit /\ NoCompiler /\ NoBatch /\ NoCache

MCNext ==
  /\ \/ part = "compiler" /\ CompilerNext /\ UNCHANGED <<batchVars, cacheVars, matrix>>
     \/ part = "batch" /\ BatchNext /\ UNCHANGED <<compiler, cacheVars, matrix>>
     \/ part = "cache" /\ CacheNext /\ UNCHANGED <<compiler, batchVars, matrix>>
     \/ part = "matrix" /\ MatrixNext /\ UNCHANGED <<compiler, batchVars, cacheVars>>
  /\ UNCHANGED part

MCSpec ==
  /\ MCInit /\ [][MCNext]_<<part, compiler, batchVars, cacheVars, matrix>>
  /\ part = "compiler" => CompilerFairness

-----------------------------------------------------------------------------
(* Values for the compiler. *)

MCSystems ==
  LET S == {{0, 1, 2, 3}, {None, 0, 1, 2}, {0, 2, 3}}
  IN  {<<a, b, c>> : a, b, c \in S}
      \union {<<{None, 1, 2}, {None, 0, 1, 2}, {0, 1, 2, 3}>>, <<{0, 3}, {None}, {}>>,
              <<{None, 0, 1, 2, 3}, {None, 1, 2, 3}, {2, 3}, {None, 0, 1}>>,
              <<{None, 0, 1, 2, 3}, {None, 0, 1, 2, 3}, {0, 1, 2}, {0, 1}, {None, 3}>>}

Plain == [depth |-> 0, nmax |-> 2, beam |-> 1, prefer |-> "low", weight |-> 1, exitFast |-> 0,
          lut |-> 0, goal |-> {}, maxTmps |-> {}, lns |-> FALSE, sort |-> "slow"]

\* The assembly formats ask for the slow sort; the others belong to the formats
\* of the same optimiser that print equations.
MCOptions ==
  {Plain,
   [Plain EXCEPT !.nmax = 3, !.sort = "fast"],
   [Plain EXCEPT !.nmax = 4, !.prefer = "high"],
   [Plain EXCEPT !.nmax = 3, !.prefer = "mid", !.lut = 3],
   [Plain EXCEPT !.nmax = 3, !.prefer = "random", !.lut = 4, !.lns = TRUE],
   [Plain EXCEPT !.nmax = 3, !.depth = 1, !.beam = 2, !.exitFast = 1],
   [Plain EXCEPT !.nmax = 3, !.depth = 1, !.beam = 3, !.lut = 3, !.weight = 2],
   [Plain EXCEPT !.maxTmps = {1}, !.depth = 1],
   [Plain EXCEPT !.goal = {2}]}

Cisc == [risc |-> FALSE, slots |-> 4, far |-> FALSE, maxOfs |-> 4, first |-> 1, big |-> FALSE]

MCTargets ==
  {Cisc, [Cisc EXCEPT !.first = 0],
   [Cisc EXCEPT !.slots = 2, !.far = TRUE, !.big = TRUE],
   [Cisc EXCEPT !.slots = 1, !.far = TRUE],
   [Cisc EXCEPT !.slots = 3, !.far = TRUE, !.maxOfs = 5],
   [Cisc EXCEPT !.risc = TRUE, !.slots = 3],
   [Cisc EXCEPT !.risc = TRUE, !.slots = 7, !.far = TRUE],
   [Cisc EXCEPT !.risc = TRUE, !.first = 0]}

RiscTargets == {[Cisc EXCEPT !.risc = TRUE]}

MCDatas == {<<{}, {}>>, <<{1}, {}>>, <<{0}, {}>>, <<{}, {1}>>, <<{}, {0}>>}

-----------------------------------------------------------------------------
(* Values for the others.  Bad is a value of no type. *)

CONSTANT Bad

MCTypes ==
  [k \in {"name", "polynomial", "init", "in-port", "out-port"} |->
     {"32", "0x107", "1", "d", "top", "data", "cli", "crc"}]
  @@ "file" :> {"-", "auto", "a", "./a", "b"} @@ "data-len" :> {"4", "8"}

Named == "name" :> "32"
Into(o) == Named @@ "file" :> o
CurveKinds == {Named} \union {Into(o) : o \in {"-", "auto", "a", "./a", "b"}} \union {Into("auto") @@ "data-len" :> "8"}

Program(path, top, cs) == [path |-> path, toml |-> TRUE, top |-> top, curves |-> cs]

Nothing == <<>>

Curve == {Named, Nothing, "polynomial" :> "0x107", Named @@ "init" :> "1", Into("a") @@ "in-port" :> "d", Named @@ "data-len" :> Bad, "tag" :> "0"}
Tops == {Nothing, "file" :> "b" @@ "in-port" :> "top", Named, "data-len" :> "8" @@ "out-port" :> "data"}

MCBatches ==
  [programs: {<<Program("", Nothing, cs)>> : cs \in UNION {[1 .. n -> CurveKinds] : n \in 1 .. 4}},
   cli: {Nothing, "file" :> "auto", "file" :> "a"}, nop: {FALSE}]
  \union
  [programs: {<<Program(p1, t1, <<c1>>), Program(p2, t2, <<c2, Into("a")>>)>> :
               p1 \in {"", "a"}, p2 \in {"", "./a", "b"}, t1, t2 \in Tops, c1, c2 \in Curve},
   cli: {Nothing, "file" :> "b" @@ "in-port" :> "cli"}, nop: BOOLEAN]
  \union
  [programs: {<<>>, <<[Program("", Nothing, <<Named>>) EXCEPT !.toml = FALSE]>>, <<Program("", Named, <<>>)>>},
   cli: {Nothing, "file" :> "a"}, nop: BOOLEAN]

MCRealPath == "a" :> "A" @@ "./a" :> "A" @@ "b" :> "B"
MCAutoPath == "4" :> "A" @@ "8" :> "C"
MCDefaults == "in-port" :> "data" @@ "out-port" :> "crc" @@ "data-len" :> "4" @@ "file" :> "-"

Crc(c, i, o) == [crc |-> c, init |-> i, sort |-> o]

MCCacheBatches == {<<>>, <<Crc("32", 0, "fast")>>, <<Crc("32", 0, "slow"), Crc("32", 1, "fast")>>}
MCFlags == {{"u"}, {"w"}, {"r", "w", "x"}, {"d"}, {"o", "r"}, {"u", "r"}, {"c"}}

MCJobs ==
  [sum_bits: {2}, polynomial: SUBSET (0 .. 1), init: SUBSET (0 .. 1), xor_out: {{}, {0}, 0 .. 1},
   reflected: BOOLEAN, data_len: 0 .. 3]
  \union
  [sum_bits: {4}, polynomial: SUBSET (0 .. 3), init: {{}, {1, 2, 3}}, xor_out: {{}, 0 .. 3},
   reflected: BOOLEAN, data_len: 0 .. 3]
=============================================================================
