----------------------------- MODULE Assembler -----------------------------
(***************************************************************************)
(* asm_gen.py: the equations become a routine that keeps every input, tmp  *)
(* signal and output in a byte of the stack.  The routine is modelled by   *)
(* what it does to the machine: the prologue, which spreads the bits of    *)
(* the data over the inputs, one round after the other of loads and XORs   *)
(* as schedule_rounds plans them, and the epilogue, which packs the        *)
(* outputs into bytes.  A far access (an offset over max_ofs) moves the    *)
(* stack pointer by an immediate in a register and back; what this leaves  *)
(* in the register is Junk here.                                           *)
(***************************************************************************)
EXTENDS Equations, SequencesExt

CONSTANTS
  ByteBits,    \* 8 in the code
  Junk         \* a byte that is not a bit

ASSUME BytesAssumption == ByteBits \in Nat \ {0} /\ Junk \notin {0, 1}

VARIABLES
  defs, outs,          \* tmp_defs and outputs
  datalen, sumlen,     \* in bytes
  target,              \* what the architecture and its grammar say
  data,                \* the bits the routine is called with
  step,                \* where the routine is
  left, outLeft,       \* td and out: what schedule_rounds has not planned
  plan,                \* the round that was planned
  mem, reg,            \* the frame and the byte registers
  byte,                \* how many bytes the epilogue has stored
  result,              \* the bytes at the crc pointer, as sets of bits
  allFull              \* every round so far had as many steps as there are slots

machine  == <<mem, reg, byte, result>>
work     == <<left, outLeft, plan>>
call     == <<defs, outs, datalen, sumlen, target, data>>
asmVars  == <<call, step, work, machine, allFull>>

(* A target has the fields risc, slots (reg_slots), maxOfs, far (FALSE if  *)
(* max_ofs is infinite), first (0 if @tmp[t] is the cell tmp_ofs + t, as    *)
(* in the grammars of crcc.py, 1 if it is the one before) and big (the     *)
(* byte order).                                                            *)

NumTmps == Cardinality(DOMAIN defs)

\* The offsets that crcc.py passes.
in_ofs  == 0
tmp_ofs == datalen * ByteBits
out_ofs == tmp_ofs + NumTmps

stack_size == (sumlen + datalen) * ByteBits + NumTmps

\* get_offset: signals are negative, and None counts as 0.
Offset(id, out) ==
  IF id = None THEN 0
  ELSE IF IsTmp(id) THEN tmp_ofs + id
  ELSE id + (IF out THEN out_ofs ELSE in_ofs)

Far(id, out) == target.far /\ Offset(id, out) > target.maxOfs

\* The byte that an operand of the routine names: by its offset when it is far,
\* by the macros @in, @tmp and @out of the grammar otherwise.
Cell(id, out) ==
  IF Far(id, out) \/ ~IsTmp(id) THEN Offset(id, out) ELSE tmp_ofs - id - target.first

\* reg_slots of schedule_rounds: a RISC machine needs a second register for
\* each element.
Slots == IF target.risc THEN target.slots \div 2 ELSE target.slots

imm_reg == target.slots - 1

-----------------------------------------------------------------------------
(* The prologue. *)

\* The crc pointer is pushed, stack_size zeros are pushed, and the bits of the
\* data become the inputs, the highest bit of each byte first.
Prologue ==
  /\ step = "prologue"
  /\ mem' = [a \in 0 .. stack_size - 1 |->
               IF a < tmp_ofs
               THEN LET b == a \div ByteBits
                        k == ByteBits - 1 - (a % ByteBits)
                    IN  IF k \in data[b + 1] THEN 1 ELSE 0
               ELSE 0]
  /\ left' = defs /\ outLeft' = outs
  /\ step' = "plan"
  /\ UNCHANGED <<call, plan, reg, byte, result, allFull>>

-----------------------------------------------------------------------------
(* schedule_rounds. *)

\* The signals 1 .. MaxFinished are complete.
MaxFinished == IF DOMAIN left = {} THEN NumTmps ELSE Min(DOMAIN left) - 1

\* Mutant of Usable: a signal may be read in the round that completes others.
Usable_early(e) == {x \in e \ {None} : IsTmp(x) => -x <= MaxFinished + 1}

\* What may be XORed now, apart from the constant.
Usable(e) == {x \in e \ {None} : IsTmp(x) => -x <= MaxFinished}

\* The first of the sorted list, which ends with the constant.
Next1(e) == IF Usable(e) = {} THEN None ELSE Min(Usable(e))

\* Mutant of Room: the register for the immediate is counted twice.
Room_twice(acc, dst, src) ==
  Len(acc.plan) + 1 + (IF Far(dst, TRUE) \/ Far(src, FALSE) THEN 1 ELSE 0) < Slots

\* Whether there is a slot left for an element, and a register for its
\* immediate if it is the first one to need it.
Room(acc, dst, src) ==
  LET imm == Far(dst, TRUE) \/ Far(src, FALSE)
  IN  /\ Len(acc.plan) + (IF acc.imm THEN 1 ELSE 0) < Slots
      /\ ~(imm /\ ~acc.imm /\ Len(acc.plan) + 1 = Slots)

\* One equation, for the cell dst, is offered a place in the round.
Offer(acc, dst, e) ==
  LET src == Next1(e)
  IN  IF (Usable(e) # {} \/ None \in e) /\ Room(acc, dst, src)
      THEN [plan |-> Append(acc.plan, [dst |-> dst, src |-> src]),
            imm  |-> acc.imm \/ Far(dst, TRUE) \/ Far(src, FALSE)]
      ELSE acc

\* What is left of the equation of the cell dst; a signal that is not in td any more
\* has nothing left.
Left(dst) ==
  IF IsTmp(dst) THEN IF -dst \in DOMAIN left THEN left[-dst] ELSE {} ELSE outLeft[dst + 1]

\* The signals come first, in the order of their numbers, then the outputs.
Dst(j) == IF j <= NumTmps THEN -j ELSE j - NumTmps - 1

Planned ==
  LET n == NumTmps + Len(outs)
      after[j \in 0 .. n] ==
        IF j = 0 THEN [plan |-> <<>>, imm |-> FALSE]
        ELSE Offer(after[j - 1], Dst(j), Left(Dst(j)))
  IN  after[n].plan

\* What the round takes from the equation of the cell dst.
Taken(round, dst) == {round[k].src : k \in {j \in DOMAIN round : round[j].dst = dst}}

\* A round is planned, and its elements are crossed off.
Schedule ==
  /\ step = "plan"
  /\ LET round == Planned
         rest  == [t \in DOMAIN left |-> left[t] \ Taken(round, -t)]
     IN  IF round = <<>>
         THEN /\ step' = IF DOMAIN left = {} /\ \A i \in DOMAIN outLeft : outLeft[i] = {}
                         THEN "epilogue" ELSE "stuck"
              /\ UNCHANGED <<work, allFull>>
         ELSE /\ plan' = round
              /\ left' = [t \in {u \in DOMAIN left : rest[u] # {}} |-> rest[t]]
              /\ outLeft' = [i \in DOMAIN outLeft |-> outLeft[i] \ Taken(round, i - 1)]
              /\ allFull' = (allFull /\ Len(round) = Slots)
              /\ step' = IF target.risc THEN "load_dst" ELSE "load_src"
  /\ UNCHANGED <<call, machine>>

-----------------------------------------------------------------------------
(* The rounds, stage by stage. *)

Xor(a, b) == IF Junk \in {a, b} THEN Junk ELSE (a + b) % 2

\* The elements go through the immediate register when this field of theirs is far.
FarAt(field) == {k \in DOMAIN plan : plan[k][field] # None /\ Far(plan[k][field], field = "dst")}

\* The registers after each element of the round, in order, has loaded its field,
\* dst or src, into its register; the registers are numbered from shift on.  The
\* immediate register has the immediate of the last element that needed one,
\* unless an element is loaded into it afterwards.
Loaded(field, shift) ==
  [r \in DOMAIN reg |->
     LET k == r + 1 - shift
         junk == r = imm_reg /\ \E j \in FarAt(field) : k \in DOMAIN plan => j > k
     IN  IF junk THEN Junk
         ELSE IF k \notin DOMAIN plan THEN reg[r]
         ELSE IF plan[k][field] = None THEN 1
         ELSE mem[Cell(plan[k][field], field = "dst")]]

\* RISC, stage 1: the cells that are to change.
LoadDst ==
  /\ step = "load_dst"
  /\ reg' = Loaded("dst", 0)
  /\ step' = "load_src"
  /\ UNCHANGED <<call, work, mem, byte, result, allFull>>

\* The dependencies; on a RISC machine the register index goes on.
LoadSrc ==
  /\ step = "load_src"
  /\ reg' = Loaded("src", IF target.risc THEN Len(plan) ELSE 0)
  /\ step' = IF target.risc THEN "xor_regs" ELSE "xor_mem"
  /\ UNCHANGED <<call, work, mem, byte, result, allFull>>

\* The register of element k when it is its turn to be stored or XORed into memory:
\* the immediates of the elements up to this one have been loaded.
RegOf(k) ==
  IF k - 1 = imm_reg /\ (\E j \in FarAt("dst") : j <= k) THEN Junk ELSE reg[k - 1]

\* The registers after a stage that writes memory.
Spent == [r \in DOMAIN reg |-> IF r = imm_reg /\ FarAt("dst") # {} THEN Junk ELSE reg[r]]

\* The elements of the round that write to the cell a.
Storing(a) == {k \in DOMAIN plan : Cell(plan[k].dst, TRUE) = a}

\* CISC, stage 2: memory ^= register.
XorMem ==
  /\ step = "xor_mem"
  /\ mem' = [a \in DOMAIN mem |->
               IF mem[a] = Junk \/ \E k \in Storing(a) : RegOf(k) = Junk THEN Junk
               ELSE (mem[a] + Cardinality({k \in Storing(a) : RegOf(k) = 1})) % 2]
  /\ reg' = Spent
  /\ step' = "plan"
  /\ UNCHANGED <<call, work, byte, result, allFull>>

\* RISC, stage 3: the register that is XORed into register r.
Partner(r) == r + Slots

\* No register that is changed is the partner of another one.
XorRegs ==
  /\ step = "xor_regs"
  /\ reg' = [r \in DOMAIN reg |->
               IF r + 1 \in DOMAIN plan THEN Xor(reg[r], reg[Partner(r)]) ELSE reg[r]]
  /\ step' = "store"
  /\ UNCHANGED <<call, work, mem, byte, result, allFull>>

\* RISC, stage 4: the last one to write to a cell stays.
StoreDst ==
  /\ step = "store"
  /\ mem' = [a \in DOMAIN mem |-> IF Storing(a) = {} THEN mem[a] ELSE RegOf(Max(Storing(a)))]
  /\ reg' = Spent
  /\ step' = "plan"
  /\ UNCHANGED <<call, work, byte, result, allFull>>

-----------------------------------------------------------------------------
(* The epilogue. *)

\* The outputs are the last cells of the frame: the stack pointer is moved to
\* the saved pointer and back by the size of the checksum.
OutBase == stack_size - ByteBits * sumlen

Place(j) == IF target.big THEN sumlen - 1 - j ELSE j

\* A byte is put together from its lowest bit up, and stored.
Pack ==
  /\ step = "epilogue" /\ byte < sumlen
  /\ result' = [result EXCEPT ![Place(byte)] =
                  {k \in 0 .. ByteBits - 1 : mem[OutBase + byte * ByteBits + k] # 0}]
  /\ byte' = byte + 1
  /\ UNCHANGED <<call, step, work, mem, reg, allFull>>

Return ==
  /\ step = "epilogue" /\ byte = sumlen
  /\ step' = "returned"
  /\ UNCHANGED <<call, work, machine, allFull>>

AsmNext ==
  \/ Prologue \/ Schedule \/ LoadDst \/ LoadSrc \/ XorMem \/ XorRegs \/ StoreDst
  \/ Pack \/ Return

-----------------------------------------------------------------------------
(* Properties. *)

\* The inputs that are 1: input number n is the bit of the data that comes
\* n-th, counted from the highest bit of the first byte.
Ones == {n \in 0 .. tmp_ofs - 1 :
           (ByteBits - 1 - (n % ByteBits)) \in data[n \div ByteBits + 1]}

\* The value of an equation of inputs for the data.
Parity(m) == (Cardinality(m \intersect Ones) + (IF None \in m THEN 1 ELSE 0)) % 2

\* Bit i of the result that lies at the crc pointer.
Bit(i) ==
  LET j == i \div ByteBits
  IN  IF (i % ByteBits) \in result[IF target.big THEN sumlen - 1 - j ELSE j] THEN 1 ELSE 0

RightAt(i) == Bit(i) = IF i < Len(outs) THEN Parity(Meaning(defs, outs[i + 1])) ELSE 0

\* The cell of the last signal is that of the first output when the grammar
\* counts tmp cells from tmp_ofs + 1.
Overlaps == target.first = 0 /\ NumTmps > 0

\* The routine computes the equations: with a CISC machine in every output that
\* does not share its cell with the last signal, as output 0 does, or read it, and
\* with a RISC machine also only if no round left a slot unused.
RoutineComputes ==
  step = "returned" =>
    \A i \in 0 .. sumlen * ByteBits - 1 :
      \/ RightAt(i)
      \/ target.risc /\ ~allFull
      \/ Overlaps /\ (i = 0 \/ (i < Len(outs) /\ -NumTmps \in outs[i + 1]))

\* The same without the exceptions.
RoutineIsRight == step = "returned" => \A i \in 0 .. sumlen * ByteBits - 1 : RightAt(i)
=============================================================================
