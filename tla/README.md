# Verification of fpga-aes

TLA+ modules for `fpga-aes`: an AES-256 core for an FPGA (`src/hardware`) that a
host talks to over a serial line, and the programs around it (`src/software`,
`src/tools`). Paths below are relative to the repository, with its root at `src/`.

Contents: [inventory](#inventory) - [modules](#modules) - [runs](#runs) -
[findings](#findings) - [proofs](#proofs) - [abstractions](#abstractions) -
[plan](#plan).

## Inventory

### Hardware (`src/hardware/src`)

One controller, of four, is synthesised as the top entity. It owns the registers;
the cipher entities hang on them combinationally, apart from S-box registers.

| part | state | operations | interacts with |
|---|---|---|---|
| UART framing: process `ff0` of each `UARTController*.vhd` | `state`, `clk_cycle`, `bit_num`, `frame_data`, `local_TX` | a branch per clock edge: wait for a start bit, burn a cycle, sample 8 bits, send start, data and stop bits | the host, over `RX` and `TX`, without a common clock |
| command interpreter: the same process, where a byte is complete | `mode`, `copy_to`, `data_ofs`, `key`, `iblk` | K, B, D, E, R and hex digits; the next nibble of a reply | the framing, by `state` and `frame_data`; the cipher, by `key` and `iblk` |
| ECB | - | D, E | reads `EncryptBlock` or `DecryptBlock`, by `mode` |
| CBC | `IV` | I, D, E; `IV` moves at the end of a reply | the same |
| CTR | `IV` | I, D, E; `IV` is counted up at the end of a reply | `EncryptBlock` on `IV` |
| GCM | `IV`, `T`, `copy_from`, `in_auth_tag`, `AAD_block`, `C_size`, `AAD_size` | I, A, T, F, D, E; `T` is folded in three branches | `EncryptBlock` three times: on `IV`, on zero and on J0; `ghash_iter` |
| cipher: `AES.vhd`, `KeyExpansion.vhd`, `encrypt/`, `decrypt/` | the S-box output registers | 14 rounds each way | reads the registers of the controller, which it does not latch |
| helpers: `AESIO.vhd` | - | hex, nibbles, `incr_iv`, `ghash_iter` | all controllers |

What is hard in it:

- two reads of one signal at different times: the output block is read anew for
  every nibble of a reply, over some 160,000 clock cycles, and at the edge of the
  request it is read *while* `mode` is assigned;
- registers that several branches share: `T` of GCM is folded after additional
  data, after each block and at the end, each time from a different source;
- the serial line: the two ends have their own clocks, and the controller listens
  again from the middle of the last data bit;
- the pipeline: its inputs change in the middle of a computation;
- tables and bit orders typed in by hand.

What makes each part correct: every character arrives once (framing); a reply is
a full block made of digits of one output (interpreter); the block is the mode's
function of the registers, and the chaining register moves on once per answer
(ECB, CBC, CTR); tag and verdict are those of the standard (GCM); the output is
AES-256 of the inputs when they have been still for 14 clock edges (cipher).

### Programs (`src/tools`)

`crcc.py` is a compiler for checksums: it works out how each bit of a checksum
depends on the bits of the data, has these equations shortened, and prints them as
assembly, C, or equations. The other files are what it calls, or experiments for
its input language.

| part | state | operations | interacts with |
|---|---|---|---|
| CRC compiler, `crcc.py`: matrix | columns of a matrix over GF(2) | one call of the checksum function, then a shift register step for each further column | `crcmod`; gives equations to the optimiser |
| CRC compiler: batch | parsed programs, the curve list, one global `args`, the open file, the names of the files used so far | read programs, merge parameters, run jobs one after the other, open, share and close outputs, warn | the file system |
| CRC compiler: cache | a directory with one file for each key | flags, clear, delete, read, write, remove the directory | other processes with the same directory |
| GF(2) optimiser, `gf2_cse.py` | a list of equations over inputs and temporary signals, two signal flags | search for shared terms, extract, stop by `^C`, remove aliases, sort | called by `run_job`, by the cache path or directly |
| assembly generator, `asm_gen.py` | what is left of each equation, a round being planned | plan rounds, emit their stages, prologue and epilogue | takes the optimiser's result; its IR becomes text by a grammar in `crcc.py` |
| DSL preprocessor, `crc_dsl.py` | variables, macros and two caps, global to the module; the call stack | some thirty directives; blocks are left by Python exceptions | `crcc.py` calls `preproc` for its input, more than once in one process |
| expression prototypes, `prototypes/` | a token list; a linked list | lex with simplification, two parsers, three concatenations | - |
| hash tests, benchmarks, `crc-perftest-helper.py` | - | statistics, timing | - |
| DSL in C, `include/*.h` with `HashMap`, `main.c`, `calc.c` | arena of a hash map, stacks | a port of the prototypes, unfinished | - |
| raw Ethernet, `software/raw-eth.c` | a packet being composed | keys and packets in one loop | - |

What is hard in it, and what makes each part correct:

- *Optimiser.* Hours of search that `^C` may end between any two statements, in
  three different ways; equations that are rewritten thousands of times and
  renumbered twice. It is correct if the outputs stand for the equations of the
  caller, if each round pays as the search promised, if an order exists in which
  the signals can be computed, and if the first two `^C` lose nothing.
- *Assembler.* Registers are shared by a round, by its immediates and by a second
  operand on RISC machines; a value may be read only when it was finished in an
  earlier round. It is correct if the routine computes the equations.
- *Batch.* The parameters come from four places through one shared object; files
  are emptied before there is anything to put into them. It is correct if each job
  has its own parameters and no text disappears without a warning.
- *Cache.* Nothing is locked. It is correct if a job gets a graph of its own
  equations, and what it gets is whole.
- *Preprocessor.* Five kinds of blocks, four kinds of exits, nested in every way,
  and state that outlives a call. It is correct if an exit reaches its block, if
  what a block changed is put back, if every call ends, and if calls are alike.
- *Prototypes.* The same language written down twice. They are correct if they
  agree.

`PROJECT.json` lists the hazards of all parts, at their lines.

## Modules

Hardware:

| module | models | notes |
|---|---|---|
| `AESIO` | nibbles, blocks, hex characters, `incr_iv` | sizes, characters and the xor of nibbles are constants |
| `UARTController` | the command interpreter shared by the four controllers | one step is one character, received or sent |
| `BlockCipher` | the cipher that ECB and CBC have, in both directions | constants `Enc`, `Dec` |
| `ECB`, `CBC`, `CTR`, `GCM` | the four controllers | extend `UARTController`; the branches of `ff0` that differ; `ECB` has its host with it |
| `BlockDevice` | abstract: what a controller promises | whole registers, whole blocks; one reply per request |
| `CBCSession`, `CTRSession`, `GCMSession` | a controller and a host, with history variables | what went into a message, and what the host was sent |
| `UARTFrame` | the framing, one step per clock edge, and a host at the other end | the branches of `ff0` below the level of characters |
| `CharLink` | abstract: what the interpreter expects of the line | characters arrive once, unchanged, one at a time |
| `AES` | tables, layers, key schedule, `EncryptBlock`, `DecryptBlock`; FIPS-197 as reference | values only; bytes are numbers, and xor is that of their bits |
| `BlockPipeline` | the registers of the rounds | any number of rounds, any round functions |
| `GHash`, `GHashLoop` | the loop of `ghash_iter`, and its steps | a block is the set of its bits |
| `SmallCipher` | a keyed permutation of small blocks | in the place of AES, for TLC |

Programs:

| module | models | notes |
|---|---|---|
| `Equations` | equations, their costs, `_add_tmp_list`, `_delete_tmp`, `_lut_delta` | no state; shared by the next five |
| `BeamSearch` | `_find_best_nwise` with its depth first searches, beam and lookahead | no state; recursive, so only TLC uses it |
| `Optimizer` | `optimize_graph`: rounds, `^C`, aliases, both sorts | the search is a constant operator `Search` |
| `GraphRewriting` | abstract: extract, inline, renumber, in any order | what `Optimizer` is shown to implement |
| `Assembler` | `gen_ir`: rounds as planned, and their effect on registers and memory | one step is one stage of a round |
| `Compiler` | the assembly formats of `run_job` | `Optimizer` and `Assembler` with the hand-over between them |
| `CRCMatrix` | the matrix of a job | one step is one column |
| `Batch` | programs, parameters, jobs and their outputs | |
| `Cache` | processes that share a cache directory | one step is one call of the operating system |
| `Preprocessor` | `preproc` and `_preproc` | a frame for each call of `_preproc` |
| `Arithmetic` | the operators of expressions | recursive, as integers have no width |
| `Expressions` | the lexer, both parsers | one step is one lexeme, one group or one parser |
| `ConcatList` | the three versions of `concat_implicit` in a list | one step is one merge of neighbours |

`*_proofs` hold the theorems ([proofs](#proofs)), `MC_*` the instances for TLC:
values of constants, and the components that one run combines.

**How the layers meet.** `UARTFrame` shows that the line behaves as `CharLink`.
`UARTController` and its extensions start where that ends: a whole character is
received (the edge that samples data bit 7, where the code does its work on the
byte) or sent (the edge that drives the stop bit, where the code takes the next
nibble). `BlockPipeline` shows that `Rounds` clock edges after an input changed
the output is the cipher of the inputs; a character takes 5000 clock cycles, so
the controllers use `Enc` and `Dec` as functions. `CTR` implements `BlockDevice`.
`GHash` gives `GCM` its multiplication. In the programs `CRCMatrix` ends where
`Optimizer` starts, with one set of terms for each bit; `Compiler` passes the
result of `Optimizer` to `Assembler`; `Batch` calls all of that a job, and `Cache`
calls it a graph.

**Correspondence of `CTR` (the others are alike).** The variables are the signals
of the architecture with their names. `CmdKey`, `CmdIV`, `CmdBlock`, `CmdCrypt`,
`CmdReset` are the arms of the `case` on the byte while `copy_to = TO_NOWHERE`;
`EnterKeyDigit`, `EnterIV`, `EnterBlockDigit` the arms for the other values of
`copy_to`; `SendNext` and `SendLast` the two arms at the stop bit. `TX` is the
text sent since the last request, which in the code is only on the wire. All
signal assignments of a branch take effect together, as in VHDL: a guard or a
right-hand side that reads a signal assigned in the same branch reads the old
value. That is how `StartReply` comes to read `oblk` of the old mode.

**GCM.** `copy_from`, `T` and the sizes follow the branches; `Finalize` is the
UART cycle in `FINALIZING`. An `F` after a decryption leaves `copy_from` at
`FROM_OBLK`, so `IV` and `T` move again when the verdict has been sent; the model
does the same.

**Optimizer.** `pc` is the statement that is executed next, and a step is what
lies between two points at which `^C` makes a difference: `Counts` is
`sigint_critical = True` with the increment of `tmp_count`, `Extracts` the change of
the list, `EndsRound` the bookkeeping with the test of `sigint_pending`. `handler`
is the function installed with `signal.signal`: `soon` before the first `^C`, `now`
after it, `orig` outside the rounds, where a `^C` passes on to the caller and is not
followed further. What the exception does is `InTry`: within the `try` it is caught,
in the handler's own section it gets through. In Python sets are iterated in any
order, so `Cleans`, `CleansNoMore` and `Places` choose. `td` and `out` are
`tmp_defs` and `outputs`. The large neighborhood search ends in a `NameError`
(`prune` is not defined where `_find_all_reductions` uses it, `gf2_cse.py:374-382`),
and so the model has one step for it.

**Assembler.** The text of a routine is not modelled; what it does is. A memory
cell is one byte of the frame, a register holds one such byte, or `Junk`: what was
in it before the call, or the immediate of a far access. `Planned` is the loop over
the equations in `schedule_rounds`, with its three conditions in `Room`. `first`
distinguishes the cell that the built-in grammars of `crcc.py` name for a signal
from the one that `get_offset` counts.

**Batch.** `args` is the global object, `ran` the parameters that each job saw.
`disk` has for each file the jobs whose text is in it, which the program does not
keep; opening for writing empties it. `filename`, `filenames` and `bad_filenames`
are the code's, with `Classify` as `close_and_classify`.

**Cache.** `entry` and `nodes` are the directory and the files: a process that has a
file open goes on writing it when its entry is gone, and a second one that opens an
entry empties the file of the first. A graph is written in as many pieces as
`Lengths` says. `IsWhole` is the two checksums of `cache_read`.

**Preprocessor.** `frames` is the Python call stack; the exceptions are a record in
`raised`, with the frames that were there for the properties. `Catches` has one line
for each `except` clause. A string is a sequence of tokens, so that substitution,
splitting and comparison are there without characters. What an expression in
`%seteval` evaluates to is modelled for sums and products.

**Expressions.** Lexemes arrive one by one, so every prefix is checked as an input of
its own (`EndOfInput` is possible at any time). `Level` and `Climb` are `parse_9` to
`parse_0` at once, with `Order` for the level.

## Runs

| run | asks | bounds |
|---|---|---|
| `controllers` | what exactly does ECB answer, is a CBC message chained, is each request answered? | 3 nibbles, messages of 2 blocks |
| `gcm` | are tag, verdict and counters those of the message, the hash starting from what `T` held (zero for a first message)? Is F answered by a whole tag, or one character? | 3 nibbles of which 1 is nonce; a message of 1 block of additional data and 2 of text, then one of 1 block |
| `gcm_standard` | is the first counter the standard's? *(violated)* | 1 block |
| `gcm_reset` | is the tag of a second message right? *(violated)* | 2 messages of 1 block |
| `datapath` | does the counter mode controller, under every sequence of characters, implement the block device, and is no counter block used twice before all are used? When is the output of the rounds the cipher of the inputs, are the tables and rounds those of FIPS-197, does `ghash_iter` multiply? | controller: 3 binary nibbles to a block, 1 to a key; units: 3 rounds, 3 keys, 4 blocks; every byte and a published block; the 128 bits and the modulus of the code on a published test case and its blocks in any order |
| `uart` | does every byte arrive once, and is every reply heard? | the clock numbers of the code; characters E and 0; replies of 2 bytes |
| `uart_8n0` | does 8N0 work for text? *(violated)* | 10 clock cycles a bit |
| `crcc` | from the matrix over the optimiser, with `^C` at any step, to the routine: the same equations? Does each job of a batch have its parameters, and no text get lost silently? What may processes do to a shared cache? | 31 systems of 3 to 5 equations over a constant and 4 inputs, 9 ways of searching, 3 `^C`, 8 machines, bytes of 2 bits; up to 4 jobs; 2 processes with up to 2 jobs; checksums of 2 and 4 bits over up to 3 bytes of 2 bits |
| `risc` | is a routine for a RISC machine right in rounds that are not full? *(violated)* | the same |
| `language` | do exits reach their block, is state put back, do calls end and leave nothing; do the parsers agree; do the concatenations? | every exit in every pair of nested blocks and 76 other programs, six of them with an uncapped `%loop`, 2 calls, caps of 4; every expression of up to 6 lexemes over 6 alphabets; every range of every list of up to 5 nodes |
| `foreach` | is a loop variable always restored? *(violated)* | the same |
| `break_if` | does a `%break` with the tag of an `%if` leave it? *(violated)* | the same |

The parts of `crcc`, `language` and `datapath` do not share state within a run: a
behaviour is of one part from its first state on, and each property is about one of
them.

**Why the bounds are enough.** The controllers never branch on the value of a
nibble, only on `data_ofs` being first, last or between: three nibbles have all
three, and a hex character that is also a command (`E`) is in the alphabet. A
nibble of one bit still carries, so `incr_iv` runs through its whole range and
wraps. The permutation in `SmallCipher` is not linear and is unlike its inverse,
so xor in the wrong place and the wrong direction show. GCM's product is the true
one, in the field of eight elements. Two blocks make a chain; the second message
of `gcm_reset` is the first place where a reset matters. `uart` uses the real
divider, since its point is the position of samples in bits. In `datapath` and
`controllers` the theorem or the refinement carries what the bound does not.

In `crcc` the equations are chosen so that pairs and triples of them overlap: a
signal is extracted from the definition of another one, an output becomes an alias
of a signal, and both empty and constant equations occur. The options have both
metrics, each preference, lookahead with a beam, and each way to stop early. The
machines have room for one to four elements in a round, with and without far
accesses. A routine without `Junk` is an affine map, so zero and the unit vectors
tell a wrong one from a right one. Four jobs are enough for an output that is used,
left, used again and shared. Two processes are enough for every race, as each
property is about one entry. A checksum of two bytes has a step from one byte to the
next one; three bytes of data have two of them.

In `language` two nested blocks are enough for an exit that passes one block on its
way to another, a third level being like the second; included files and macros are
among them. `Inf` stands for `float("inf")`: rounds of a `%loop` are counted up to it and by
their parity from there on, and no cap that is a number is as large
(`CapsAssumption`), so a `%loop` without a cap goes on for ever in finitely many
states (the programs of this kind print nothing in a round). `RecursionLimit` is
Python's own bound on nested calls, which is all that is left when the cap on depth
is lifted. Six lexemes hold two operators with a sign or a group. The values of
the list have two positive numbers, so that inner operands can be out of order.

**Fairness.** `datapath` (its controller), `controllers` and `gcm` assume weak fairness of transmission
(and of `FINALIZING`): these branches wait for nothing but the clock. Nothing is
assumed of the host, who may stop at any time. `uart` assumes that the clock does
not stop (`WF_vars(Next)`), as every step there is an edge. `crcc` assumes that the
compiler, a sequential program, goes on while it can, and nothing of `^C`; the
condition that enables it is written out, as TLC would else evaluate the search once
more for each state. `language` assumes the same of the preprocessor; `CallsEnd` then leaves out one case only, a
`%loop` that goes round for ever after the program has lifted the cap (the help, `crcc.py:1060`,
offers this). Processes that
share a cache may stop at any time.

**Hosts.** A host does not send while a reply is under way; the controller does
not listen then, and what it would make of a frame that overlaps the end of a
reply is not modelled. In `gcm` the host follows the order of the standard:
nonce, additional data, text in one direction, F, reset. In `uart` a host leaves
eight idle bits between two frames, so that its hosts are in time
([proofs](#proofs)); with seven the last one of a run of frames
goes wrong. Without idle
bits, frames arrive when the last data bit is one, which the fourth host of the
run shows; ASCII characters do not have it.

## Findings

Each is a run that must fail, with the line of code and the sentence it
contradicts in `PROJECT.json`.

1. `gcm_standard`: the first block of text uses the counter J0, and so the
   keystream that masks the tag; the standard starts with inc32(J0).
2. `gcm_reset`: R leaves `T`, and the hash of one message enters the next tag.
3. `uart_8n0`: after sampling data bit 7 the controller takes the remaining half
   of a zero bit for a start bit.
4. `risc`: stage 3 of a round counts registers by the number of slots, stage 2 by
   the number of elements; in a round that is not full the routine XORs registers
   that were not loaded. `RoutineComputes` says what is right nevertheless.
5. `foreach`: an exit that is meant for an outer block leaves the loop variable with
   the value of the round. `ForeachRestores` says when it is put back.
6. `break_if`: the handler of `%if` has a branch for a `%break` with its tag, but raises the
   exit again after it, so the `%break` leaves an outer block or fails. `ExitsReachTheirBlock` is
   about all other exits.

Other places where the code does not do what is said of it, or what one would
expect. The models do what the code does, and the properties are stated around it.

- The first digit of a reply is latched at the edge that assigns `mode`, so after a
  change of direction it belongs to the other output; `ReplyAsBuilt` states exactly
  what is sent. In CBC the chain is right nevertheless (`ChainSurvivesModeChange`).
- `src/README.md:17` says that only CTR was tested. `RawAESBlock` in `AES.vhd` is
  declared with an ascending range and sliced with `downto`; the model takes the
  descending reading, which the conversions and the slices presuppose.
- *Optimiser.* With a lookahead the score of a round is no longer what it gains,
  which is why `RoundPays` asks for equality without one only.
- *Assembler.* The built-in grammars (`crcc.py:1690`, `1729`, `1775`, `1820`, `1869`,
  `1914`) count the cells of the signals from `tmp_ofs + 1`, so the last signal
  shares its cell with output 0. Only output 0, and outputs that have the last signal
  in their own equations, can then be wrong: a signal that read the last
  one would never be planned (`Overlaps`). `get_offset` counts from the cell `tmp_ofs - k`, so
  it never takes a signal for far, even if its cell lies beyond `max_ofs`; the machine of the model reaches
  such a cell (what an assembler makes of the operand is not modelled). With one slot and a far operand planning ends with
  equations left over.
- *Batch.* A file is emptied before the search that may fail (`FailureIsContained` says that
  no other text is lost with it); the warning about a
  file that was overwritten names the last of the jobs that share it
  (`LossesAreReported`). `valid_varname` calls `str.toupper()`, which strings do not
  have.
- *Cache.* An entry is written in place: a second writer, or a process that dies,
  leaves an entry that is no graph (`EntriesAreWhole` excludes these: it says where the damage ends, and does not rule it out), and it ends
  every later run that reads it. What an interrupted search found is cached like any
  other result. The way of sorting is not in the key. Two processes that clear the
  cache at once may fail; no property is about these exceptions.
- *Preprocessor.* `strne` does what `streq` does; `undef`, `notdef`, `inrange` and
  `notinrange` always raise; `xor` in `%seteval` is destroyed by the replacement of
  `or`; `%shift` keeps the head and moves the rest, and an empty needle or replacement
  fails in `%repl` (the help uses both otherwise, `crcc.py:1045-1047`); `%raw` in an included file keeps its bracket; a cap of n allows
  n - 1 rounds; the handler of `ExitMacro` at the top level uses a field that it
  does not have.
- *Prototypes.* Two assertions that call themselves unreachable
  (`expr_parser1.py:192`, `:198`) fail for `((x + y))` and for `($x$y)`. The second
  parser takes `!` for `&`, and `(x + y)(z + w)` for its first group. `ParsersAgree`
  leaves these out by name. The lexer reads `(2)3` as 23 and merges a minus with
  what follows `&` or `+` (`LexKeepsValue` has the cases).

## Proofs

Checked by TLAPS for all values of the constants that satisfy the named
assumptions.

| theorem | says | rests on |
|---|---|---|
| `CTR_proofs!TypeCorrect` | registers keep their types, `data_ofs` stays in the register it points into | `SizesAssumption`, `HexAssumption`, `XorAssumption`, `EncAssumption` |
| `CTR_proofs!ReplyCorrect` | the digits on the line and the next one are those of the output block | the same |
| `CTR_proofs!Implements` | every step of `CTR` is a step of `BlockDevice` or a stutter | the same, and `Unknown` is not a register value |
| `CTR_proofs!CountersStayFresh` | no counter block is used twice under one nonce before all are used | `SizesAssumption`, `EncAssumption` |
| `GCM_proofs!TypeCorrect` | registers, sizes, multiplexers and the tag keep their types | the assumptions of CTR, `GCMAssumption` |
| `GCM_proofs!CountersCorrect` | block n of a message uses the nonce counted up n - 1 times | the same, `MessagesAssumption` |
| `GCM_proofs!TagCorrect` | the tag that the host reads is the hash of all data, in order, and of the sizes, masked, for any `T` before the message | the same |
| `GCM_proofs!VerdictCorrect` | the verdict is P exactly if the host's tag is that one | the same |
| `BlockCipher_proofs!DecryptionInvertsEncryption` | `DecryptBlock` undoes `EncryptBlock`, for every key of 256 bits and every block | nothing |
| `BlockCipher_proofs!DecryptionInvertsHolds` | the same as the invariant `DecryptionInverts` of the run | nothing |
| `BlockCipher_proofs!LoopIsProductHolds` | after each round of `ghash_iter`, `Z` and `V` are products in the field | `FieldAssumption`: the width is at least 1, the modulus has bits below it; `FactorsAssumption`: blocks have the width |
| `BlockCipher_proofs!MulIsProduct` | what `ghash_iter` returns is the product of any two blocks, for any width and modulus | `FieldAssumption` |
| `BlockCipher_proofs!WaveCorrect` | nothing behind the wave front is stale | `PipelineAssumption` |
| `BlockCipher_proofs!Settles` | `Rounds` edges after the last change the output is the cipher of the inputs | the same |
| `BlockCipher_proofs!RepliesAreAsBuilt` | what exactly ECB answers, with the digit that it latched before the mode changed | `SizesAssumption`, `HexAssumption`, `XorAssumption`, `CipherAssumption` |
| `BlockCipher_proofs!MessagesAreCBC` | a message whose requests kept the mode is CBC, in either direction and of any length | the same |
| `BlockCipher_proofs!ChainSurvives` | `IV` is the last ciphertext, but for a first digit that was latched too early | the same |
| `Compiler_proofs!WorkIsKept` | a result is lost to `^C` only after three of them | nothing: any equations, options, search, and number of `^C` |
| `Compiler_proofs!EquationsAreKept` | each output stands for the equation of the caller, after every statement | `NoneAssumption`, `SystemsAssumption`, answers of the search that are sound |
| `Compiler_proofs!ResultOrder` | the result lists each signal after those it is computed from | the same |
| `Compiler_proofs!OptimizerRewrites` | every step of `Optimizer` is one of `GraphRewriting` or a stutter (`Refines`) | the same |
| `Compiler_proofs!RoutineIsCorrect` | the routine that returns has computed the equations, for all data and targets, but for the cases of `RoutineComputes` | the same, `BytesAssumption`, `TargetsAssumption`, `InputsAssumption` |
| `Compiler_proofs!MatrixIsChecksumHolds` | the equations of the matrix have, for every message, the values of the bits of `crc` | `JobsAssumption`: the register holds at least one byte |
| `CRCC_proofs!ValuesAreKept` | extraction, inlining and renumbering keep what each output stands for, and the terms of an equation never overlap | `NoneAssumption` |
| `CRCC_proofs!EntriesStayWhole` | an entry whose file had one writer, that lived, is whole | `LengthsAssumption`, `FlagsAssumption`, `CacheBatchesAssumption` |
| `CRCC_proofs!CachedGraphFits` | a job uses a graph of its own equations, whoever made it | the same |
| `CRCC_proofs!FailuresAreContained` | when a job fails, a text lost without a warning was in the file that was open | `OutputsAssumption` |
| `CRCC_proofs!WarningsAreExact` | at the end the warnings name the files that were emptied with a text in them, and nothing else is lost | the same |
| `CRCC_proofs!JobsHaveTheirParameters` | job i has the attributes of the i-th curve of the batch, each from the first of curve, command line, program and defaults that has it | `OutputsAssumption`, `ProgramsAssumption` |
| `CRCC_proofs!ExitsReachTheirBlockHolds` | an exit, but for a `%break` meant for an `%if`, reaches the innermost block it is meant for, or ends the call if there is none | nothing: any program, macros, files, caps |
| `CRCC_proofs!ForeachRestoresHolds` | a `%foreach` left from its end gives its variable its old value | nothing |
| `UARTFrame_proofs!BitsAreSampledInPlace` | every bit of a frame is sampled while it is sent, a tenth of a bit or more from its ends | `FrameAssumption`, `BytesAssumption`, hosts that are in time (`InTime`) |
| `UARTFrame_proofs!RepliesAreHeard` | the host hears the bytes of the reply and no others | the same |
| `UARTFrame_proofs!CharactersInOrder` | every step of the line is a step of `CharLink` or a stutter | the same |
| `UARTFrame_proofs!TypesOK` | the registers keep their types, the host's clock stays in its range | the same |

*CTR.* The inductive invariant is `TypeOK /\ ReplyOnTrack`. `ReplyOnTrack` needs
the types, since `get_nibble` is a function application; the refinement needs
`ReplyOnTrack`, since the answer of `BlockDevice` is determined at once while
that of `CTR` is collected digit by digit: at `SendLast` the invariant says that
the digits on the line are those of `oblk`, and `ReadBack` turns them into the
block. `UARTController_proofs` has the lemmas for the shared interpreter, which
`GCM_proofs` uses too; `hex_to_nibble` undoes `nibble_to_hex` because the table has
no character twice (`HexAssumption`).

*The counter.* That `CountersAreFresh` is an invariant is a statement about
`incr_iv` and not about a step: no cycle of it is shorter than all blocks. The
invariant (`Stretch`) says that the blocks used so far lead, by `incr_iv`, to blocks
used so far or to `IV`. When `IV` is one of them the set is closed under `incr_iv`,
and `CycleHasAll` shows that a closed set is empty or has every block: its members
have every value of the lowest nibble, since one below the largest is followed by
the next larger one; and, as a wrap carries, each nibble above in the same way
(`CoversMore`, by the carry out of all nibbles below, `WrapsMore`).

*GCM.* The properties are about a message as a whole, with a hash and a counter that
are defined by recursion over it; `HashOf` and `CounterAt` are unfolded by one step
in lemmas of their own. The invariant (`SInv`) has one part for each phase of a
message: in `InNew` and `InHeader` `T` is the hash of the additional data so far, in
`InText` that of all blocks answered so far, with the block in `iblk` still to come,
in `InDone` that with the sizes, masked; each says what `IV`, `copy_from` and the
sizes are. The sizes of the reference are those of the data and the sizes of the
machine wrap, so `Bounds` is where `MessagesAssumption` enters. TLC has checked the
invariant on the run's instance.

*Induction without its rule.* `HashingsAgree`, `UnfoldingsExist` and others are
inductions over the natural numbers. Each supposes that some number fails and takes
the least one (`LeastNumber`), which needs no operator as a parameter.

*Framing.* Two clocks and no common one: the invariant relates them. `Now` is the time
in the host's frame and `Elapsed` the time since the controller saw its start bit;
both count clock edges, the one in bits of `pace` cycles and the other in bits of
`UART_WRAP + 1`. `Line` has a part for each thing that the line can be in (a quiet line,
a frame, the byte that the controller reads out of the last bit of a frame, a reply),
and in `InFrame` they are equal. `Talk` does the same for the reply and the host's
ear. A sample is right when `SampleAt` falls into the bit, for every bit of a frame:
that is `InTime`, a condition on the numbers of a host and not on its behaviour. With the
numbers of the code it admits every pace from 478 to 524 clock cycles for a bit of 500,
with any number of stop bits, and any gap, if the last data bit is one. A last bit of zero reads like
a start bit when the controller is idle again; then the host must leave as much time as
another frame takes (the last part of `InTime`), which is nine idle or stop bits at
500 cycles. TLC evaluates `InTime` for the hosts of the run `uart`. `Multiple` and
`SamePlace` are the two facts of arithmetic: where `Middle` is true, and that a time
has one place in a frame.

*Cipher.* The run tries one key and block for each byte; the theorem is about all
2^384. `SBoxInverts` is a calculation, entry by entry. For the columns, a byte is the
set of its bits (`ByteOfBits`, `BitsOfByteOf`), where xor is the symmetric difference
(`XorIs`) and doubling a shift with a linear correction (`DoubleBits`, `DoubleAdds`).
`RowSums` therefore gives each bit of a mixed byte, doubled up to three times, as a sum
of bits of the column, doubled up to four times; and of the sums that
`InvMixColumn` forms of them everything cancels but the byte itself (`FactorsInvert`), without a
use of the polynomial. The key schedule and the blocks between the rounds are
defined by recursion. `ChainExists` says that such sequences exist, `Upwards` is the
induction along them; with these, block n of decryption is what `ShiftRows` and
`SubBytes` make of block 15 - n of encryption, so that each round removes one
(`RoundsUndo`). The key schedule only needs its type (`ScheduleType`), as both
directions use the same.

*Hash.* The reference multiplies polynomials by counting, and divides the product by
the modulus one power at a time. `LoopInv` is `LoopIsProduct` and types. A round needs
two facts: the remainder is linear (`RemainderPlus`), as each step of the division is;
and multiplying by x before or after the division makes no difference
(`RemainderShift`): the division of the shifted polynomial has the steps of the
other one, shifted, and a last one, which is the correction in `ShiftV`. With
`ProductAddsBit`, the parity of a count that one bit of `X` may change, `RoundIs` follows.
Divisions exist and have one result (`RemainderDivides`, `DividesOnce`); the
inductions are `Upwards` and `Downwards`. Nothing is asked of the modulus but that its
highest power is the width, so it need not be irreducible.

*Pipeline.* `WaveFront` is inductive on its own: at an edge, register `i + 1`
takes what register `i` held, which was right if `i` was behind the front.
`OutputSettles` is the case of a front that has reached the last round. Nothing
is assumed of the registers at power-up.

*ECB and CBC.* Both latch the first digit of a reply before the mode of the request
is in force and read the others after it. `ReplyOnTrack` says so at each digit: the
line holds the digits of the output block, with some `d` in place of the first.
`Latched` says what `d` is: in ECB the digit under the mode before, in CBC that of
the output itself, as long as the message is `steady`. `MessageInv` says that the
message so far is CBC under the key, and that `IV` is its last ciphertext. One step
matters, the last digit of a reply: what the host then reads is a pair that fits
(`PairFits`). In encryption it fits by the definition of the output. In decryption it
asks for `Enc(k, Dec(k, b)) = b`, while `CipherAssumption` has it the other way round;
since blocks are finitely many, one follows from the other (`EncryptionInverts`). The
theorems are about the module that runs one of two instances, which have copies of
the definitions that the controllers share; `SameData` and the lemmas after it say
that the copies are equal. TLC has checked the invariant on the run's instance.

*Interrupts.* `InterruptKeepsResult` is not inductive: it does not say why an
exception cannot be raised yet. `SigintInv` does: the handler that raises needs a
first `^C` to be installed; the section that must not be interrupted is `critical`
until its end; an exception that is caught needs a second `^C`; and after the
result is safe the handler is the caller's.

*Rewriting.* `_delete_tmp` replaces a signal by a union of sets where GF(2) asks
for a symmetric difference. That is right only if no two terms of an equation stand
for a common input, which no step checks. `GraphInv` says so for every equation,
along with what each signal stands for (`Stands`) and that all signals have a number
up to the number of signals (`TermsUpTo`). `Equations_proofs` has what the three
operations do to such equations, for this module and for the next one:
`ExtractionKeeps` needs that the extracted terms are terms of some equation and
therefore apart; `DeletionKeeps` that a definition stands for what its signal does,
and that the last signal, which takes the freed number, keeps its meaning
(`DeletingKeeps`); `RenumberingKeeps` is a change of names. That signals can be put
into an order at all is kept in the same way (`ExtractionIsAcyclic` and its
likes), and so is that each stands for something (`...IsSolid`), without which
`_delete_tmp` could make an equation empty.

*Optimiser.* A `^C` can come between the count and the list, so `tmp_count` may be one
ahead of the signals in `s` (`ListInv`, where `listed` is what the list says). After
the rounds `ResultInv` takes over, with a part for each of the loop that removes
aliases, the sort of Kahn (a signal is numbered after those it is computed from, and
as long as some are left, one of them is ready: `GoodIsSortable`) and the
renumbering by it. From `AllInv` follow the equations, the
order and the refinement, whose mapping takes the graph from `s` or from `td`
and `out`, by `HasGraph`. The hypothesis `[]AnswerIsSound` says that what `Search` answers
is a set of equations and terms that they share; the search itself is recursive
and not open to proof here (`BeamSearch`), so `RoundPays` checks exactly this at
every extraction of the run `crcc`.

*Routine.* The equations that the optimiser hands over are a program (`Program`): the
signals can be given values, as sets of inputs, such that each is the sum of its own
equation, in which no terms overlap, and each output is that of its. `RoutineInv` says
how far the routine is, in five parts. `WorkInv`: what is left of an equation is a
part of it. `PlanInv`: the elements of a round write to different cells, each reads an
input or a signal that is complete and comes before the one it writes, and no element
has its value in the register of the immediate. `RegInv`: what each register holds at
each stage. `MemInv` is the centre: a cell holds the parity of those terms that have
been taken from its equation (of all but this round's while a round runs), and the
cell of the last signal, where it is that of output 0, is left out, which is why what
reads it must be left out too. `PackInv`: the bytes that are stored have the bits of
their cells. That a round is what `PlanInv` says is an induction over the loop in
`Planned`, by its shortest prefix that is not so. The step from the optimiser,
`Handover`, needs from `AllInv` that the result is `Good`; from then on `RoutineInv`
is inductive. `InputsAssumption` says that the inputs are bits of the data; the part
of `TargetsAssumption` about `maxOfs` is what `gen_ir` checks before it begins. That
nothing is left over when a routine returns needs no assumption, and no order of the
signals: planning that ends early does not return, and when it does is a question of
liveness (`CompilerFinishes`).

*Matrix.* The comment in the code says of these steps that they make "no sense to me"
but were tested "quite a bit" (`crcc.py:2601`). Here is why they are right, for any
polynomial, any width of at least a byte and any length. The register is linear
(`StepsOfXor`), and the reflected one is the mirror image of the other
(`MirroredIs`). What a message adds to the checksum of as many zeros is therefore
the register that starts empty (`Delta`, `CrcIs`), and that of a message is the sum of
those of its bits (`DeltaIsSum`). Within a byte one more step of the register
moves the bit to where the next one enters (`DeltaWithinByte`). From one
byte to the next it does so too: a bit that enters first has come to the place of
the last after all but one of the steps of its byte, so what is left is one step
(`StepsOfFirst`, `DeltaOfNextByte`). `ColumnAt` is the order in which the code
fills the columns, and `MatrixInv` says that they are known up to some place in it,
that `current` is the one there, and, unless there is no data, that each is the
`Delta` of its bit. With no data the code still makes eight columns, and uses none.
The recursion in `crc` is a recursive function, so its values are found by an
induction over an interval (`UpTo`).

*Cache.* `EntriesAreWhole` says of a file nothing but when it is whole. `Unspoiled`
says what is in it at any time: with one writer, that much of this one's graph as it
has written; without any, a whole one. `OwnFile` and `OneKey` relate the descriptors
of processes with the directory: a descriptor outlives its entry, and a file that is
opened anew is truncated under the writer before, which is when it becomes
`spoiled`. `GraphIsForTheJob` needs `OneKey` alone.

*Batch.* Neither property mentions `outfile` until something fails, and both depend on
it: a file is named in `filenames` only when it is closed, long after it was emptied.
The invariant (`BatchInv`) therefore speaks of the jobs whose file is closed
(`Settled`, all but the group that shares the open one): the names are the files of
these, the warnings those that `LossesAreReported` asks for among these (`NamesAre`,
`WarningsAre`), and each text of a finished job is in its file or was there when a
later job emptied it (`Kept`). `Closing` is the step that matters: when a file is
closed, it is already among the names exactly if the first job of its group emptied
an older text (`WasClosed`). The parameters have an invariant of their own (`ParamInv`), which says
how far the loop over curves is. The flat list of curves is a concatenation of one list for
each program; `CurvesOf` counts them by recursion, and `ConcatenationIs` says
which curve of which program has a given place in it.

*Preprocessor.* Both are about single steps and need to know how the stack came about.
`ExitInv`: the first frame is the call of `preproc` and no other one is (`IsStack`), so
an exit that has not been caught has a frame to go to until it is in the first; and an
exception on its way (`OnItsWay`) is in a part of the stack that it was raised in,
none of whose frames it has left was its target. A frame that catches it is
therefore the last of its targets (`CatchesIsTarget`), and what is below is what was
there when it was raised.

Only model-checked:

- liveness, since it needs `ENABLED`, and that every character does arrive at
  last (the fairness in `BytesArrive`);
- `UnitsAreStandard`: it has no parameter, and the run goes through all bytes and the
  published blocks. It ties the constants of the code to the standards;
- what the search, the parsers and the ranges compute (`RoundPays`, `ParsersAgree`,
  `LexKeepsValue`, `RangeIsOne`): their modules have `RECURSIVE` operators, which the
  provers cannot use;
- `CallsAreAlike`, which compares two runs of a program.

## Abstractions

- AES is a function of key and block in the controllers. `BlockPipeline` and
  `AES` justify it; their composition at full size is not a state machine that
  TLC can enumerate.
- A byte array is its nibbles. Bit order inside a nibble matters in GHASH only,
  and there blocks are sets of bit positions.
- Sizes in GCM are counted in blocks. The counter wraps, at `SizeWrap` (2^57 blocks
  are 2^64 bits); a session's messages are shorter (`MessagesAssumption`). The 32 bit
  counter does not wrap in the bound.
- `debug_LEDs` is a function of the state and is left out, as are the pin
  assignment and the clock constraint.
- The cycle in `FINALIZING` is in `GCM` and not in `UARTFrame`, which models the
  branches all controllers share.
- The prologue of a routine is its effect, a frame with the bits of the data and
  zeros. That hides the registers it saves and the loop that pushes the zeros.
- A cache key is the set of what it depends on, not a hash; a graph is whom it is
  for and who wrote it.
- A batch has attributes by name, with the values that the code compares (`Types` says
  which values have the type that an attribute asks for); a TOML
  file is what was parsed from it.
- Strings of the preprocessor are tokens. Numbers are numerals of one digit.

`Preprocessor` was compared with the program by running both on 1,116 programs, and
`Expressions` on 190,462 expressions, without a difference.

## Not modelled

- `process` and `generate` in `crc_dsl.py`: a command line, and a rewriting of text
  by regular expressions.
- In `crcc.py`, most of the lines: the help, the parsing of
  options, the printing of C, Verilog and other formats, the tables of named curves,
  `--preproc`, a job from `--polynomial` (it differs from a named one in the source
  of its numbers), `--cache=l`. They compute text and keep no state. An undocumented branch
  of `validate_format` has nothing to do with checksums and is left out too.
- In `gf2_cse.py`, statistics for the log, and the large neighborhood search beyond
  the exception it ends in.
- Non-interactive use of the optimiser, where the handlers are not installed, and
  `^C` outside its rounds, which ends the program as it does in any other.
- The hash tests and benchmarks: statistics and timing, with nothing that could be
  in a wrong state.
- `HashMap` and the port of the expression language to C. The map keeps a bucket
  array, an overflow arena with chains by index, tombstones and four counts, and is
  meant to be used by a program that does not exist yet; the expression language is
  modelled from the prototypes that the port follows. This is the largest part left.
- `software/raw-eth.c`: a loop over a terminal and a raw socket without a connection
  to the rest.

## Plan

Done: the hardware; the compiler from matrix to routine, with its batch and cache;
the preprocessor and the prototypes; the proofs above.

1. `HashMap`: a map as a dictionary, and as buckets with an overflow arena: set,
   delete with tombstones, collection, resizing, iteration; with the refinement.
2. `RawEthernet`: the loop of keys and packets.
