----------------------------- MODULE CRCMatrix -----------------------------
(***************************************************************************)
(* The matrix of a job of crcc.py: how each bit of the checksum depends on *)
(* the bits of the data.  One column is a call of crc, the others follow   *)
(* from it by steps of the shift register.  A word is the set of its bits. *)
(***************************************************************************)
EXTENDS Integers, FiniteSets

CONSTANTS
  Byte,      \* bits in a byte, 8 in the code
  Jobs       \* records of sum_bits, polynomial, init, xor_out, reflected and data_len

\* The register holds whole bytes, and at least one (the length of a sum is in bytes).
ASSUME JobsAssumption ==
  /\ Byte \in Nat \ {0}
  /\ \A j \in Jobs :
       /\ j.sum_bits \in Nat /\ Byte <= j.sum_bits
       /\ j.polynomial \subseteq 0 .. j.sum_bits - 1
       /\ j.init \subseteq 0 .. j.sum_bits - 1 /\ j.xor_out \subseteq 0 .. j.sum_bits - 1
       /\ j.reflected \in BOOLEAN /\ j.data_len \in Nat

VARIABLES
  job,
  cols, current,   \* the columns that are known, and the last one
  rows,            \* for each bit of the checksum, the data bits it depends on
  phase

matrix == <<job, cols, current, rows, phase>>

Bits(n) == 0 .. n - 1

XorOf(x, y) == (x \ y) \union (y \ x)

\* Mutant of Reversed: the polynomial is used as it is.
Reversed_not(word) == word

Reversed(word) == {job.sum_bits - 1 - b : b \in word}
ShiftedLeft(word) == {b + 1 : b \in word} \intersect Bits(job.sum_bits)
ShiftedRight(word) == {b - 1 : b \in word \ {0}}

lfsr_step(s) ==
  IF job.reflected
  THEN XorOf(ShiftedRight(s), IF 0 \in s THEN Reversed(job.polynomial) ELSE {})
  ELSE XorOf(ShiftedLeft(s), IF job.sum_bits - 1 \in s THEN job.polynomial ELSE {})

-----------------------------------------------------------------------------
(* crc is a function that crcmod made: with reflection its register is the *)
(* mirror image of the one that divides by the polynomial.  It starts from *)
(* init xor xor_out, and takes the bytes of a message from the first one   *)
(* on.  Here a message is a word too: its first byte has the highest bits. *)

\* The byte of weight i of the message, where it enters the register.
Entering(message, i) ==
  LET byte == {n - i * Byte : n \in {n \in message : n \div Byte = i}}
  IN  IF job.reflected THEN byte ELSE {b + job.sum_bits - Byte : b \in byte}

Divided(s) == XorOf(ShiftedLeft(s), IF job.sum_bits - 1 \in s THEN job.polynomial ELSE {})

Mirror(s) == IF job.reflected THEN {job.sum_bits - 1 - n : n \in s} ELSE s

\* A byte goes through the register bit by bit; t[n] is the register after n of them.
Steps(s) ==
  LET t[n \in 0 .. Byte] == IF n = 0 THEN s ELSE Mirror(Divided(Mirror(t[n - 1])))
  IN  t[Byte]

crc(message, bytes) ==
  LET s[n \in 0 .. bytes] ==
        IF n = 0 THEN XorOf(job.init, job.xor_out)
        ELSE Steps(XorOf(s[n - 1], Entering(message, bytes - n)))
  IN  XorOf(job.xor_out, s[bytes])

K == crc({}, job.data_len)

-----------------------------------------------------------------------------
data_bits == job.data_len * Byte
data_len_norm == IF job.data_len = 0 THEN 1 ELSE job.data_len

MatrixInit ==
  /\ job \in Jobs
  /\ cols = <<>> /\ current = {} /\ rows = <<>>
  /\ phase = "base"

\* The column that crc gives.
Base == IF job.reflected THEN Byte - 1 ELSE 0

BaseColumn ==
  /\ phase = "base"
  /\ current' = XorOf(crc({Base}, data_len_norm), K)
  /\ cols' = [n \in {Base} |-> current']
  /\ phase' = "columns"
  /\ UNCHANGED <<job, rows>>

\* The column after the column n: with reflection they go down in each byte.
ColumnAfter(n) ==
  IF ~job.reflected THEN n + 1
  ELSE IF n % Byte > 0 THEN n - 1 ELSE n + 2 * Byte - 1

LastColumn == IF job.reflected THEN (data_len_norm - 1) * Byte ELSE data_len_norm * Byte - 1

\* The columns before that after n are known, and n is the last of them.
NextColumn ==
  /\ phase = "columns"
  /\ LastColumn \notin DOMAIN cols
  /\ current' = lfsr_step(current)
  /\ \E n \in DOMAIN cols :
       /\ ColumnAfter(n) \notin DOMAIN cols
       /\ cols' = [m \in DOMAIN cols \union {ColumnAfter(n)} |-> IF m \in DOMAIN cols THEN cols[m] ELSE current']
  /\ UNCHANGED <<job, rows, phase>>

\* Stands for None, the constant 1.
One == -1

Rows ==
  /\ phase = "columns"
  /\ LastColumn \in DOMAIN cols
  /\ rows' = [bit \in Bits(job.sum_bits) |->
                {data_bits - 1 - n : n \in {n \in Bits(data_bits) : bit \in cols[n]}}
                \union (IF bit \in K THEN {One} ELSE {})]
  /\ phase' = "done"
  /\ UNCHANGED <<job, cols, current>>

MatrixNext == BaseColumn \/ NextColumn \/ Rows

MatrixSpec == MatrixInit /\ [][MatrixNext]_matrix

-----------------------------------------------------------------------------
(* Properties. *)

\* The value of an equation: the parity of its terms that are 1.
EquationValue(eqn, message) ==
  Cardinality({t \in eqn : t = One \/ data_bits - 1 - t \in message}) % 2 = 1

\* The matrix computes the checksum: for each message the equation of a bit has the
\* value of this bit of crc.
MatrixIsChecksum ==
  phase = "done" =>
    \A message \in SUBSET Bits(data_bits) :
      {bit \in DOMAIN rows : EquationValue(rows[bit], message)} = crc(message, job.data_len)
=============================================================================
