----------------------------- MODULE ConcatList -----------------------------
(***************************************************************************)
(* The prototypes of implicit concatenation in a linked list: a range of   *)
(* nodes becomes one node with the concatenation of their values.  The     *)
(* first two versions merge neighbours, pass after pass; the second one    *)
(* also merges the node that an odd range leaves; the third one bisects.   *)
(***************************************************************************)
EXTENDS Arithmetic

CONSTANTS
  Values,     \* the values of nodes
  MaxNodes    \* bound on the nodes of a list

VARIABLES
  version, original,      \* which prototype, and the values before it
  start, range,           \* the range: its first node and its length
  value, next, count,     \* the list: the fields of its nodes by index, 0 being no node
  length,                 \* nodes that are left of the range
  current, prev, merges,  \* of the pass
  pc

vars == <<version, original, start, range, value, next, count, length, current, prev, merges, pc>>

\* append, once for each value.
Init ==
  /\ version \in 1 .. 3
  /\ original \in UNION {[1 .. n -> Values] : n \in 1 .. MaxNodes}
  /\ start \in DOMAIN original
  /\ range \in 1 .. Len(original) - start + 1
  /\ value = original /\ count = Len(original)
  /\ next = [i \in 0 .. count |-> IF i = count THEN 0 ELSE i + 1]
  /\ length = range /\ current = 0 /\ prev = 0 /\ merges = 0
  /\ pc = "begin"

\* concat_implicit_v1 and v2 count the nodes first.
Begin ==
  /\ pc = "begin" /\ version \in {1, 2}
  /\ count' = count - (length - 1)
  /\ pc' = "pass"
  /\ UNCHANGED <<version, original, start, range, value, next, length, current, prev, merges>>

Unmerged == length > 1

Pass ==
  /\ pc = "pass"
  /\ IF Unmerged
     THEN pc' = "merge" /\ current' = start /\ prev' = 0 /\ merges' = 0
     ELSE pc' = "done" /\ UNCHANGED <<current, prev, merges>>
  /\ UNCHANGED <<version, original, start, range, value, next, count, length>>

Merge ==
  /\ pc = "merge" /\ merges < length \div 2
  /\ value' = [value EXCEPT ![current] = concat(@, value[next[current]])]
  /\ next' = [next EXCEPT ![current] = next[@]]
  /\ prev' = current
  /\ current' = next'[current]
  /\ merges' = merges + 1
  /\ UNCHANGED <<version, original, start, range, count, length, pc>>

\* Mutant of Leftover: the parity of what is left.
Leftover_after(left) == version = 2 /\ left % 2 = 1 /\ prev # 0 /\ current # 0

\* An odd range, of which left nodes are left, has one more for the last pair.
Leftover(left) == version = 2 /\ (left + merges) % 2 = 1 /\ prev # 0 /\ current # 0

EndPass ==
  /\ pc = "merge" /\ merges = length \div 2
  /\ LET left == length - merges
     IN  IF Leftover(left)
         THEN /\ value' = [value EXCEPT ![prev] = concat(@, value[current])]
              /\ next' = [next EXCEPT ![prev] = next[current]]
              /\ length' = left - 1
         ELSE length' = left /\ UNCHANGED <<value, next>>
  /\ pc' = "pass"
  /\ UNCHANGED <<version, original, start, range, count, current, prev, merges>>

\* _concat_bisect: the values, the result being at the first node.
RECURSIVE _concat_bisect(_, _, _)
_concat_bisect(val, first, n) ==
  IF n = 1 THEN val
  ELSE LET mid == n \div 2
           v   == _concat_bisect(_concat_bisect(val, first, mid), first + mid, n - mid)
       IN  [v EXCEPT ![first] = concat(@, v[first + mid])]

\* concat_implicit_v3.
Bisect ==
  /\ pc = "begin" /\ version = 3
  /\ value' = _concat_bisect(value, start, length)
  /\ count' = count - (length - 1)
  /\ next' = [next EXCEPT ![start] = next[start + length - 1]]
  /\ length' = 1
  /\ pc' = "done"
  /\ UNCHANGED <<version, original, start, range, current, prev, merges>>

Next == Begin \/ Pass \/ Merge \/ EndPass \/ Bisect

Spec == Init /\ [][Next]_vars

-----------------------------------------------------------------------------
(* Properties. *)

\* The nodes from n on.
RECURSIVE Chain(_)
Chain(n) == IF n = 0 THEN <<>> ELSE <<n>> \o Chain(next[n])

Operands == SubSeq(original, start, start + range - 1)

\* Concatenation is associative unless an inner operand is 0 or negative.
Associative == \A i \in 2 .. range : Operands[i] > 0

\* At the end the range is one node, at its place and with the nodes around it as they
\* were; its value is that of the lexer's loop from the left, unless an operand is 0 or
\* negative, and the list counts its nodes.
RangeIsOne ==
  pc = "done" =>
    LET chain == Chain(next[0])
    IN  /\ chain = [i \in 1 .. start |-> i]
                   \o [i \in 1 .. Len(original) - start - range + 1 |-> start + range - 1 + i]
        /\ count = Len(chain)
        /\ \A n \in Range(chain) \ {start} : value[n] = original[n]
        /\ Associative => value[start] = concat_implicit(Operands)
=============================================================================
