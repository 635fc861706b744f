---------------------------- MODULE MC_Datapath ----------------------------
(***************************************************************************)
(* The path of a block.  A behaviour is of one of these parts:             *)
(*   controller  the counter mode controller, with the settled cipher      *)
(*   pipeline    three rounds on blocks of four values, the last of which  *)
(*               is different                                              *)
(*   tables      the functions of AES.vhd for all bytes                    *)
(*   hash        ghash_iter with 128 bits, the constant E1 of the code,    *)
(*               and the blocks of test case 2 of the GCM specification by *)
(*               McGrew and Viega                                          *)
(***************************************************************************)
EXTENDS CTRSession, SmallCipher, BlockPipeline, AES, GHashLoop

MCWhiten(k, b) == (b + k) % 4
MCSub(b)       == (3 * b + 1) % 4
MCMix(k, i, b) == ((IF i = Rounds THEN b ELSE 3 - b) + k * i) % 4

VARIABLE part

\* The bits of eight numbers of 16 bits.
Words(halves) ==
  {j \in 0 .. 127 : LET h == halves[j \div 16 + 1] IN (h \div 2 ^ (15 - (j % 16))) % 2 = 1}

TestH   == Words(<<26345, 19412, 61322, 11323, 34892, 64089, 51764, 11054>>)
TestC   == Words(<<904, 56014, 24758, 41874, 62248, 49849, 29106, 65144>>)
TestLen == Words(<<0, 0, 0, 0, 0, 0, 0, 128>>)
TestX1  == Words(<<24110, 51014, 37232, 25224, 11397, 45160, 21331, 57015>>)
TestT   == Words(<<62348, 47898, 54930, 9180, 49989, 31461, 46768, 63621>>)

MCTaps    == {0, 1, 2, 7}
MCFactors == {TestC, TestLen}
MCHs      == {TestH}

NoPipeline == in_key = 0 /\ in_block = 0 /\ reg = <<>> /\ age = 0
NoTables   == arg = NoByte
NoGHash    ==
  in_X = {} /\ in_H = {} /\ rounds = 0 /\ loop = [Z |-> {}, V |-> {}] /\ folds = 0

NoController == Init /\ used = {}

units == <<pipeline, arg, ghash>>
everything == <<part, svars, units>>

MCInit ==
  \/ part = "controller" /\ SessionInit /\ NoPipeline /\ NoTables /\ NoGHash
  \/ part = "pipeline" /\ PipelineInit /\ NoController /\ NoTables /\ NoGHash
  \/ part = "tables" /\ TablesInit /\ NoController /\ NoPipeline /\ NoGHash
  \/ part = "hash" /\ LoopInit /\ NoController /\ NoPipeline /\ NoTables

Controls == part = "controller" /\ SessionNext /\ UNCHANGED <<part, units>>

Computes ==
  /\ \/ part = "pipeline" /\ Tick /\ UNCHANGED <<arg, ghash>>
     \/ part = "tables" /\ TablesNext /\ UNCHANGED <<pipeline, ghash>>
     \/ part = "hash" /\ LoopNext /\ UNCHANGED <<pipeline, arg>>
  /\ UNCHANGED <<part, svars>>

\* All bytes have been looked at, all blocks folded.
Ended == (arg = 255 \/ (rounds = Width /\ folds = MaxFolds)) /\ UNCHANGED everything

\* The controller transmits without waiting for anything but its clock.
MCSpec ==
  /\ MCInit /\ [][Controls \/ Computes \/ Ended]_everything
  /\ WF_everything(Transmit /\ Controls)

-----------------------------------------------------------------------------
\* The cipher is that of the standard, and the hash goes through the values
\* that are published for the test case: the code has the right constants and
\* takes the bits of a block in the right order.
UnitsAreStandard ==
  /\ CipherIsStandard
  /\ rounds = Width /\ in_X = TestC => loop.Z = TestX1
  /\ rounds = Width /\ in_X = Plus(TestX1, TestLen) => loop.Z = TestT
=============================================================================
