--------------------------- MODULE BlockPipeline ---------------------------
(***************************************************************************)
(* EncryptBlock and DecryptBlock with fast = false: a chain of rounds, in  *)
(* each of which the S-boxes are read from RAM and hold their output in a  *)
(* register, everything else being combinational.  The inputs are not      *)
(* latched, and the round keys go to all rounds at once, so after a change *)
(* of the key or the block the registers hold a mixture of old and new     *)
(* results for a while.                                                    *)
(***************************************************************************)
EXTENDS Integers

CONSTANTS
  Rounds,      \* 14 in the code
  Keys, Blocks,
  Whiten(_, _),    \* the first AddRoundKey: key, block -> block
  Sub(_),          \* what the registers of a round hold for its input:
                   \*   SubBytes, or InvSubBytes of InvShiftRows
  Mix(_, _, _)     \* the rest of a round: key, number of the round, registers

ASSUME PipelineAssumption ==
  /\ Rounds \in Nat \ {0}
  /\ \A k \in Keys, b \in Blocks :
       /\ Whiten(k, b) \in Blocks
       /\ Sub(b) \in Blocks
       /\ \A i \in 1 .. Rounds : Mix(k, i, b) \in Blocks

VARIABLES
  in_key, in_block,  \* the inputs, registers of the controller
  reg,               \* the S-box registers of each round
  age                \* clock edges since an input changed, counted up to Rounds

pipeline == <<in_key, in_block, reg, age>>

\* Mutants of net: a round is fed by itself; a round gets the next round's key.
net_loop(i) == IF i = 1 THEN Whiten(in_key, in_block) ELSE Mix(in_key, i - 1, reg[i])
net_key(i)  == IF i = 1 THEN Whiten(in_key, in_block) ELSE Mix(in_key, i, reg[i - 1])

\* The input of round i.
net(i) == IF i = 1 THEN Whiten(in_key, in_block) ELSE Mix(in_key, i - 1, reg[i - 1])

output == Mix(in_key, Rounds, reg[Rounds])

\* The registers hold anything at power-up.
PipelineInit ==
  /\ in_key \in Keys /\ in_block \in Blocks
  /\ reg \in [1 .. Rounds -> Blocks]
  /\ age = 0

\* A clock edge; the controller may change the inputs at the same edge.
Tick ==
  /\ reg' = [i \in 1 .. Rounds |-> Sub(net(i))]
  /\ in_key' \in Keys /\ in_block' \in Blocks
  /\ age' = IF in_key' # in_key \/ in_block' # in_block THEN 0
            ELSE IF age < Rounds THEN age + 1 ELSE age

PipelineSpec == PipelineInit /\ [][Tick]_pipeline

-----------------------------------------------------------------------------
(* The cipher without a pipeline: the rounds one after the other. *)

\* v[i] is the block that leaves round i when k and b go in.
IsRunOf(k, b, v) ==
  /\ v[0] = Whiten(k, b)
  /\ \A i \in 1 .. Rounds : v[i] = Mix(k, i, Sub(v[i - 1]))

RunsOf(k, b) == {v \in [0 .. Rounds -> Blocks] : IsRunOf(k, b, v)}

PipelineTypeOK ==
  /\ in_key \in Keys /\ in_block \in Blocks
  /\ reg \in [1 .. Rounds -> Blocks]
  /\ age \in 0 .. Rounds

\* The wave of results for the present inputs has gone one round further with
\* every clock edge, and nothing behind its front is stale.
WaveFront == \A v \in RunsOf(in_key, in_block) : \A i \in 1 .. age : reg[i] = Sub(v[i - 1])

\* Rounds clock edges after the inputs last changed the output is the cipher
\* of the inputs ("encryption and decryption takes 14 cycles", the note above
\* enc0 in the controllers), whatever the registers held before.
OutputSettles == age = Rounds => \A v \in RunsOf(in_key, in_block) : output = v[Rounds]
=============================================================================
