------------------------------- MODULE Batch -------------------------------
(***************************************************************************)
(* A batch of crcc.py: the programs are read, their curves become jobs     *)
(* with parameters from four places, and each job prints into stdout, a    *)
(* file of its own, or the file of the job before.                         *)
(***************************************************************************)
EXTENDS Integers, Sequences, FiniteSets, SequencesExt

CONSTANTS
  Batches,     \* what may be given: records [programs, cli, nop]
  RealPath,    \* the file of each output that is a path
  AutoPath,    \* the file of "auto" for each data length
  Defaults,    \* the parameters that are given nowhere
  Types        \* the values of each attribute that have its type

(* A program has the file it is in, or "" for one that is inline, whether  *)
(* it is TOML, its top-level attributes and its curves.  Attributes, and   *)
(* the flags cli, are functions from names to values.                      *)

VARIABLES
  batch,
  reading, files_seen,     \* programs that are read
  curves,
  job_num, params, ran,    \* the job, args, and the parameters of all jobs that started
  outfile, filename,       \* the open file, and the file to classify; "" is None
  new_file, prev_output,
  filenames, bad_filenames,
  disk,                    \* the jobs whose text each file has, 0 for a newline between two
  bpc

Local     == {"in-port", "out-port", "data-len", "file"}
Known     == Local \union {"name", "polynomial", "init"}

Typed(a) == \A k \in DOMAIN a : k \in Known => a[k] \in Types[k]

\* The empty path is none of a file, and stdout has no path.
ASSUME OutputsAssumption ==
  /\ Types["file"] = {"-", "auto"} \union DOMAIN RealPath
  /\ Types["data-len"] = DOMAIN AutoPath
  /\ "" \notin DOMAIN RealPath
  /\ \A o \in DOMAIN RealPath : RealPath[o] \notin {"", "stdout"}
  /\ \A n \in DOMAIN AutoPath : AutoPath[n] \notin {"", "stdout"}
  /\ DOMAIN Defaults = Local /\ Typed(Defaults)
  /\ \A b \in Batches : b.nop \in BOOLEAN /\ DOMAIN b.cli \subseteq Local /\ Typed(b.cli)

\* Programs come in a list, and so do the curves of each.
ASSUME ProgramsAssumption ==
  \A b \in Batches :
    /\ b.programs \in Seq(ToSet(b.programs))
    /\ \A i \in DOMAIN b.programs : b.programs[i].curves \in Seq(ToSet(b.programs[i].curves))

input == <<batch, reading, files_seen, curves>>
files == <<outfile, filename, filenames, bad_filenames>>
batchVars == <<input, job_num, params, ran, files, new_file, prev_output, disk, bpc>>

BatchInit ==
  /\ batch \in Batches
  /\ reading = 1 /\ files_seen = {} /\ curves = <<>>
  /\ job_num = 0 /\ params = Defaults /\ ran = <<>>
  /\ outfile = "" /\ filename = "" /\ new_file = TRUE /\ prev_output = ""
  /\ filenames = {} /\ bad_filenames = {}
  /\ disk = [f \in {RealPath[o] : o \in DOMAIN RealPath}
               \union {AutoPath[n] : n \in DOMAIN AutoPath} \union {"stdout"} |-> <<>>]
  /\ bpc = "read"

-----------------------------------------------------------------------------
(* parse_input. *)

Error == bpc' = "error" /\ UNCHANGED <<reading, files_seen, curves>>

\* The attributes of a, and those of b that a does not have.
Over(a, b) == [k \in DOMAIN a \union DOMAIN b |-> IF k \in DOMAIN a THEN a[k] ELSE b[k]]

\* Mutant of Attributes: the attributes of the program before the flags.
Attributes_file(curve, program) == Over(curve, Over(program.top, batch.cli))

\* A curve's own attributes, the flags, and what the program has for all curves.
Attributes(curve, program) == Over(curve, Over(batch.cli, program.top))

\* parse_toml, for one of the programs: no file is read twice.
ReadProgram ==
  /\ bpc = "read" /\ reading <= Len(batch.programs)
  /\ LET program == batch.programs[reading]
     IN  IF ~program.toml \/ (program.path # "" /\ RealPath[program.path] \in files_seen)
         THEN Error
         ELSE /\ reading' = reading + 1
              /\ files_seen' = files_seen \union (IF program.path = "" THEN {} ELSE {RealPath[program.path]})
              /\ UNCHANGED <<curves, bpc>>
  /\ UNCHANGED <<batch, job_num, params, ran, files, new_file, prev_output, disk>>

Curves ==
  FlattenSeq([i \in DOMAIN batch.programs |->
    [j \in DOMAIN batch.programs[i].curves |->
       Attributes(batch.programs[i].curves[j], batch.programs[i])]])

Valid(curve) ==
  /\ DOMAIN curve \subseteq Known
  /\ Typed(curve)
  /\ IF "name" \in DOMAIN curve THEN DOMAIN curve \intersect {"polynomial", "init"} = {}
     ELSE "polynomial" \in DOMAIN curve

\* The second half of parse_input, then the flags that are not given have defaults.
\* Without a program there is one job.
Validate ==
  /\ bpc = "read" /\ reading > Len(batch.programs)
  /\ params' = Over(batch.cli, Defaults)
  /\ IF batch.programs = <<>>
     THEN curves' = <<[file |-> params'["file"]]>> /\ bpc' = "loop" /\ UNCHANGED <<reading, files_seen>>
     ELSE IF \A i \in DOMAIN batch.programs : batch.programs[i].curves # <<>>
     THEN IF \A i \in DOMAIN Curves : Valid(Curves[i])
          THEN curves' = Curves /\ bpc' = "loop" /\ UNCHANGED <<reading, files_seen>>
          ELSE Error
     ELSE Error
  /\ UNCHANGED <<batch, job_num, ran, files, new_file, prev_output, disk>>

-----------------------------------------------------------------------------
(* The loop over the curves. *)

\* Mutant of Classify: the paths as they were given.
Classify_path(f, k) ==
  /\ bad_filenames' = bad_filenames \union (IF f # "" /\ prev_output \in filenames THEN {<<k, f>>} ELSE {})
  /\ filenames' = filenames \union (IF f # "" THEN {prev_output} ELSE {})

\* close_and_classify, of the file f by the job k.
Classify(f, k) ==
  /\ bad_filenames' = bad_filenames \union (IF f # "" /\ f \in filenames THEN {<<k, f>>} ELSE {})
  /\ filenames' = filenames \union (IF f # "" THEN {f} ELSE {})

\* The parameters of a job: what its curve has, and args.
Parameters(curve) ==
  LET given == Over(curve, params)
  IN  IF batch.nop THEN [given EXCEPT !["file"] = "-"] ELSE given

\* Mutant of Continues: stdout and a path to the same file continue it too.
Continues_path(output) ==
  output # "auto" /\ prev_output \in DOMAIN RealPath /\ output \in DOMAIN RealPath
  /\ RealPath[output] = RealPath[prev_output]

\* A job prints where the job before did.
Continues(output) == output # "auto" /\ output = prev_output

StartJob ==
  /\ bpc = "loop" /\ job_num + 1 \in DOMAIN curves
  /\ LET p == Parameters(curves[job_num + 1])
     IN  /\ ran' = Append(ran, p)
         /\ new_file' = ~Continues(p["file"])
         /\ IF new_file' /\ outfile # ""
            THEN Classify(filename, job_num) /\ outfile' = "" /\ filename' = ""
            ELSE UNCHANGED files
  /\ job_num' = job_num + 1
  /\ bpc' = "run"
  /\ UNCHANGED <<input, params, prev_output, disk>>

Job == ran[job_num]

Path(p) == IF p["file"] = "auto" THEN AutoPath[p["data-len"]] ELSE RealPath[p["file"]]

\* Other jobs have their file open already, or none.
Opens == Job["file"] # "-" /\ (Job["file"] = "auto" \/ outfile = "")

\* run_job up to the output file, which a new job empties.  The ports must differ.
OpenOutput ==
  /\ bpc = "run"
  /\ IF Job["in-port"] = Job["out-port"]
     THEN bpc' = "failed" /\ UNCHANGED <<outfile, disk>>
     ELSE /\ bpc' = "print"
          /\ IF Opens THEN outfile' = Path(Job) /\ disk' = [disk EXCEPT ![Path(Job)] = <<>>]
             ELSE outfile' = (IF Job["file"] = "-" THEN "" ELSE outfile) /\ UNCHANGED disk
  /\ UNCHANGED <<input, job_num, params, ran, filename, filenames, bad_filenames, new_file, prev_output>>

\* A new output cannot be opened; optimising is interrupted, or raises an exception.
Fails ==
  /\ \/ bpc = "run" /\ Job["in-port"] # Job["out-port"] /\ Opens
     \/ bpc = "print"
  /\ bpc' = "failed"
  /\ UNCHANGED <<input, job_num, params, ran, files, new_file, prev_output, disk>>

\* The rest of run_job and of the round.  A file of "auto" is closed at once.
EndJob ==
  /\ bpc = "print"
  /\ LET f == IF outfile = "" THEN "stdout" ELSE outfile
         text == IF batch.nop THEN <<>> ELSE (IF new_file THEN <<>> ELSE <<0>>) \o <<job_num>>
     IN  disk' = [disk EXCEPT ![f] = @ \o text]
  /\ IF Job["file"] = "auto"
     THEN Classify(outfile, job_num) /\ outfile' = "" /\ filename' = ""
     ELSE filename' = outfile /\ UNCHANGED <<outfile, filenames, bad_filenames>>
  /\ prev_output' = Job["file"]
  /\ bpc' = "loop"
  /\ UNCHANGED <<input, job_num, params, ran, new_file>>

Finish ==
  /\ bpc = "loop" /\ job_num = Len(curves)
  /\ Classify(filename, job_num)
  /\ bpc' = "end"
  /\ UNCHANGED <<input, job_num, params, ran, outfile, filename, new_file, prev_output, disk>>

BatchNext == ReadProgram \/ Validate \/ StartJob \/ OpenOutput \/ Fails \/ EndJob \/ Finish

BatchSpec == BatchInit /\ [][BatchNext]_batchVars

-----------------------------------------------------------------------------
(* Properties. *)

Has(f, j) == \E i \in DOMAIN disk[f] : disk[f][i] = j

Target(j) == IF ran[j]["file"] = "-" THEN "stdout" ELSE Path(ran[j])

\* Jobs in a row with the same output share it.
First(j) == j = 1 \/ ran[j]["file"] # ran[j - 1]["file"] \/ ran[j]["file"] = "auto"
LastOfFile(j) == j = Len(ran) \/ First(j + 1)

\* A job that empties a file that an earlier one printed into.
Overwrites(j) ==
  First(j) /\ Target(j) # "stdout" /\ \E i \in 1 .. j - 1 : Target(i) = Target(j)

\* At the end the warnings are exact: each file that was emptied after a job printed into
\* it is named once for each time, with the last job of those that share it since, also
\* when it has several paths; and every other text is where its job printed it.
LossesAreReported ==
  bpc = "end" =>
    /\ bad_filenames =
         {<<j, Target(j)>> : j \in {j \in DOMAIN ran : LastOfFile(j) /\
            \E i \in 1 .. j : Overwrites(i) /\ \A k \in i + 1 .. j : ~First(k)}}
    /\ ~batch.nop =>
         \A j \in DOMAIN ran :
           Has(Target(j), j) \/ \E k \in j + 1 .. Len(ran) : Overwrites(k) /\ Target(k) = Target(j)

\* When a job fails, a text that is lost without a warning was in the file that was open.
FailureIsContained ==
  bpc = "failed" /\ ~batch.nop =>
    \A j \in 1 .. job_num - 1 :
      Has(Target(j), j) \/ Target(j) = outfile \/ \E k \in 1 .. job_num : <<k, Target(j)>> \in bad_filenames

\* The number of curves in the first n programs.
CurvesOf ==
  LET count[n \in 0 .. Len(batch.programs)] ==
        IF n = 0 THEN 0 ELSE count[n - 1] + Len(batch.programs[n].curves)
  IN  count

\* Where the curve i of all the curves comes from: its program and its place in it.
Origin(i) ==
  CHOOSE o \in (DOMAIN batch.programs) \X (1 .. Len(curves)) :
    /\ o[2] \in DOMAIN batch.programs[o[1]].curves
    /\ i = o[2] + CurvesOf[o[1] - 1]

\* The parameters of a job are those of its curve, else of the command line, else of
\* its program, else the defaults, and never those of another job.
ParametersAreTheCurves ==
  batch.programs # <<>> => \A i \in DOMAIN ran : \A k \in Local :
    LET program == batch.programs[Origin(i)[1]]
        curve   == program.curves[Origin(i)[2]]
    IN  ran[i][k] = IF k = "file" /\ batch.nop THEN "-"
                    ELSE IF k \in DOMAIN curve THEN curve[k]
                    ELSE IF k \in DOMAIN batch.cli THEN batch.cli[k]
                    ELSE IF k \in DOMAIN program.top THEN program.top[k]
                    ELSE Defaults[k]
=============================================================================
