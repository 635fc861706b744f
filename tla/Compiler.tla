------------------------------ MODULE Compiler ------------------------------
(***************************************************************************)
(* The assembly formats of run_job in crcc.py: the equations of a job go   *)
(* through optimize_graph, and its result through gen_ir; the routine is   *)
(* then called.                                                            *)
(***************************************************************************)
EXTENDS Optimizer, Assembler

CONSTANTS
  Targets,    \* the architectures
  DataLen,    \* bytes of data of a job, in ByteBits bits each
  Datas       \* the data that a routine is called with

\* gen_ir refuses a max_ofs that does not reach over the inputs.
ASSUME TargetsAssumption ==
  \A t \in Targets :
    /\ t.slots \in Nat /\ t.first \in {0, 1} /\ t.maxOfs \in Int
    /\ t.far => t.maxOfs >= DataLen * ByteBits

\* The inputs are the bits of the data.
ASSUME InputsAssumption ==
  /\ DataLen \in Nat
  /\ \A eqs \in Systems : \A i \in DOMAIN eqs : \A x \in eqs[i] \ {None} : x < DataLen * ByteBits

SumLen == (Len(given) + ByteBits - 1) \div ByteBits

CompilerInit ==
  /\ Init
  /\ step = "waiting"
  /\ defs = Nowhere /\ outs = <<>> /\ datalen = DataLen /\ sumlen = SumLen
  /\ target = CHOOSE t \in Targets : TRUE
  /\ data = CHOOSE d \in Datas : TRUE
  /\ left = Nowhere /\ outLeft = <<>> /\ plan = <<>>
  /\ mem = Nowhere
  /\ reg = Nowhere
  /\ byte = 0 /\ result = [j \in 0 .. SumLen - 1 |-> {}]
  /\ allFull = TRUE

\* optimize_graph returns, and its locals are gone; the registers hold anything
\* when the routine is called.
Handover ==
  /\ pc = "done" /\ step = "waiting"
  /\ step' = "prologue"
  /\ defs' = td /\ outs' = out
  /\ s' = <<>> /\ tmpCount' = 0 /\ round' = 1 /\ skipMin' = 3 /\ answer' = NoAnswer
  /\ early' = FALSE /\ critical' = FALSE /\ pending' = FALSE /\ presses' = 0
  /\ UNCHANGED graph
  /\ pos' = Nowhere /\ indegree' = Nowhere /\ queue' = <<>>
  /\ opt' = CHOOSE o \in Options : TRUE
  /\ pc' = "returned"
  /\ target' \in Targets /\ data' \in Datas
  /\ reg' = [r \in 0 .. target'.slots - 1 |-> Junk]
  /\ UNCHANGED <<given, keys, handler, datalen, sumlen, work, mem, byte, result, allFull>>

CompilerNext ==
  \/ Next /\ UNCHANGED asmVars
  \/ Handover
  \/ AsmNext /\ UNCHANGED vars

compilerVars == <<vars, asmVars>>

CompilerFairness ==
  /\ <>[](pc \notin Ended) => []<><<Work>>_vars
  /\ <>[](pc \in {"done", "returned"} /\ step \notin {"returned", "stuck"})
       => []<><<Handover \/ AsmNext>>_compilerVars

CompilerSpec == CompilerInit /\ [][CompilerNext]_compilerVars /\ CompilerFairness

-----------------------------------------------------------------------------
\* Every call of the compiler ends, with a routine that returns, unless ^C got
\* through or the neighborhood search failed.  With two slots or more the
\* planning of rounds never ends with something left over.
CompilerFinishes ==
  <>(pc \in {"raised", "crashed"} \/ step = "returned" \/ (step = "stuck" /\ Slots < 2))
=============================================================================
