---------------------------- MODULE Preprocessor ----------------------------
(***************************************************************************)
(* The preprocessor of crc_dsl.py: _preproc goes through a list of lines   *)
(* and calls itself for the body of each %if, %loop, %foreach, %macro and  *)
(* %include.  The calls are a stack of frames here.  Blocks are left by    *)
(* Python exceptions, which every frame may catch or let pass.             *)
(*                                                                         *)
(* A string is a sequence of tokens: words, numerals, commas, variables    *)
(* ("$x") and references to macro arguments ("#1").  A line is a record:   *)
(* its keyword op, its tag, the name in its first bracket, the texts a and *)
(* b of the others, and whether it still ends with a newline.              *)
(***************************************************************************)
EXTENDS Integers, Sequences, FiniteSets, SequencesExt

CONSTANTS
  Programs,            \* the programs that preproc may be called with
  Files,               \* what %include finds at a path: a list of lines
  Inputs,              \* what %readline finds at a path: a list of texts
  Starts,              \* the values of start_vars; {} for None, else {variables}
  VarNames,            \* the tokens that are variables
  ArgIndex,            \* the number of each token that refers to an argument
  DEFAULT_DEPTH_CAP, DEFAULT_ITER_CAP,
  default_vars,            \* default_vars
  Inf,                 \* float("inf"), a cap that nothing reaches
  RecursionLimit,      \* the calls of _preproc that Python allows inside each other
  Calls                \* bound on the calls of preproc, all of one program

\* A cap that is a number is below Inf: a program gives it as a numeral.
ASSUME CapsAssumption ==
  /\ Inf \in Nat /\ Inf > 9
  /\ {DEFAULT_DEPTH_CAP, DEFAULT_ITER_CAP} \subseteq 0 .. Inf - 1

VARIABLES
  prgm, start,         \* in_prgm and start_vars
  frames,              \* the calls of _preproc
  vars, macros,        \* the globals of the module
  DEPTH_CAP, ITER_CAP,
  out,                 \* out_prgm
  raised,              \* the exceptions that are on their way, at most one
  outcome,             \* "running", or how the call ends
  results              \* what the finished calls gave

request == <<prgm, start>>
caps  == <<DEPTH_CAP, ITER_CAP>>
state == <<request, frames, vars, macros, caps, out, raised, outcome, results>>

Top  == Last(frames)
Line == Top.prog[Top.at]

Absent == {}

Frame(kind, prog, tag) ==
  [kind |-> kind, prog |-> prog, at |-> 1, tag |-> tag, var |-> "", old |-> Absent,
   rest |-> <<>>, count |-> 1]

-----------------------------------------------------------------------------
(* Texts. *)

\* The elements of a list, which are separated by commas.
Split(t) ==
  FoldLeft(LAMBDA acc, x : IF x = "," THEN Append(acc, <<>>)
                           ELSE [acc EXCEPT ![Len(acc)] = Append(@, x)],
           <<<<>>>>, t)

Joined(l) ==
  IF l = <<>> THEN <<>> ELSE FoldLeft(LAMBDA acc, e : acc \o <<",">> \o e, l[1], Tail(l))

Undefined(t) == \E i \in DOMAIN t : t[i] \in VarNames /\ t[i] \notin DOMAIN vars

expand_vars(t) ==
  FlattenSeq([i \in DOMAIN t |-> IF t[i] \in VarNames THEN vars[t[i]] ELSE <<t[i]>>])

\* An argument counts from 1; number 0 is the last one.
Argument(args, n) == args[IF n = 0 THEN Len(args) ELSE n]

NoArgument(t, args) ==
  \E i \in DOMAIN t : t[i] \in DOMAIN ArgIndex /\ ArgIndex[t[i]] > Len(args)

Instantiated(t, args) ==
  FlattenSeq([i \in DOMAIN t |->
    IF t[i] \in DOMAIN ArgIndex THEN Argument(args, ArgIndex[t[i]]) ELSE <<t[i]>>])

Numerals == [n \in 0 .. 9 |-> ToString(n)]
IsNumber(e) == \E n \in DOMAIN Numerals : e = <<Numerals[n]>>
Number(e) == CHOOSE n \in DOMAIN Numerals : e = <<Numerals[n]>>

-----------------------------------------------------------------------------
(* _parse_condition. *)

Compare(op, x, y) ==
  CASE op = "eq" -> x = y [] op = "ne" -> x # y [] op = "lt" -> x < y
    [] op = "le" -> x <= y [] op = "gt" -> x > y [] op = "ge" -> x >= y

Comparisons == {"eq", "ne", "lt", "le", "gt", "ge"}

\* Where a comparison of lists ends: at the first pair that fails or is no number.
Decisive(op, l, m) ==
  {i \in DOMAIN l : \/ ~IsNumber(l[i]) \/ ~IsNumber(m[i])
                    \/ ~Compare(op, Number(l[i]), Number(m[i]))}

\* The operators that end in an exception whatever they are given: undef strips
\* a list, and inrange reads a variable that has no value yet.
BadOperators == {"undef", "notdef", "inrange", "notinrange"}

BadCondition(op, a, b) ==
  \/ a = <<>>
  \/ op \in BadOperators
  \/ op \in {"def", "int", "notint"} /\ b # <<>>
  \/ /\ op \in Comparisons
     /\ LET l == Split(a) m == Split(b)
        IN  \/ Len(l) # Len(m)
            \/ /\ Decisive(op, l, m) # {}
               /\ LET i == Min(Decisive(op, l, m)) IN ~IsNumber(l[i]) \/ ~IsNumber(m[i])

Holds(op, a, b) ==
  CASE op \in {"streq", "strne"} -> a = b
    [] op = "def"       -> \A i \in DOMAIN a : a[i] = "," \/ "$" \o a[i] \in DOMAIN vars
    [] op = "subset"    -> ToSet(Split(a)) \subseteq ToSet(Split(b))
    [] op = "notsubset" -> ~(ToSet(Split(a)) \subseteq ToSet(Split(b)))
    [] op = "int"       -> \A e \in ToSet(Split(a)) : IsNumber(e)
    [] op = "notint"    -> \A e \in ToSet(Split(a)) : ~IsNumber(e)
    [] OTHER            -> Decisive(op, Split(a), Split(b)) = {}

(* _eval_expr, for sums and products of two numbers.  The word xor does not  *)
(* survive the replacement of the word or in it.                             *)

BadExpression(t) ==
  ~(IsNumber(t) \/ (Len(t) = 3 /\ IsNumber(<<t[1]>>) /\ t[2] \in {"+", "*"} /\ IsNumber(<<t[3]>>)))

Evaluated(t) ==
  IF IsNumber(t) THEN t
  ELSE LET x == Number(<<t[1]>>) y == Number(<<t[3]>>)
       IN  <<ToString(IF t[2] = "+" THEN x + y ELSE x * y)>>

-----------------------------------------------------------------------------
(* Blocks. *)

Ends(op, tag, prog, i) == {j \in i .. Len(prog) : prog[j].op = op /\ prog[j].tag = tag}

\* The first line that closes the block; 0 without one.
BlockEnd(op, tag, prog, i) ==
  IF Ends(op, tag, prog, i) = {} THEN 0 ELSE Min(Ends(op, tag, prog, i))

\* The last %else before the %endif, or the %endif.
ElseOf(tag, prog, i) ==
  LET end == BlockEnd("endif", tag, prog, i + 1)
  IN  Max({j \in Ends("else", tag, prog, i + 1) : j < end} \union {0})

EndOf(l, prog, i) ==
  CASE l.op = "if"      -> BlockEnd("endif", l.tag, prog, i + 1)
    [] l.op = "loop"    -> BlockEnd("endloop", l.tag, prog, i)
    [] l.op = "foreach" -> BlockEnd("endfor", l.tag, prog, i)
    [] OTHER            -> BlockEnd("endmacro", "", prog, i)

Blocks == {"if", "loop", "foreach", "defmacro", "xdefmacro"}
Closers == {"else", "endif", "endloop", "endfor", "endmacro"}

Bodies == {"if", "loop", "foreach", "macro", "include"}

\* The key of a macro: its name and how many arguments it takes.
MacroKey(name, args) == <<name, IF args = <<>> THEN 0 ELSE Len(Split(args))>>

\* The lines of a macro after strip_line.
Stripped(body) == [i \in DOMAIN body |-> [body[i] EXCEPT !.nl = FALSE]]

\* A call of _preproc at this depth, the first one having depth 0, ends in an
\* exception: that of the cap, or Python's RecursionError.
TooDeep(depth) == (DEPTH_CAP # Inf /\ depth > DEPTH_CAP) \/ depth > RecursionLimit

\* Mutant of Exhausted: %continue goes round without a look at the cap.
Exhausted_continue(round) == raised = <<>> /\ ITER_CAP # Inf /\ round >= ITER_CAP

\* A %loop does not begin this round, which is the last one that the cap allows.
Exhausted(round) == ITER_CAP # Inf /\ round >= ITER_CAP

\* What stops _preproc at the line l, with a and b expanded.
Wrong(l, a, b) ==
  \/ l.op \in Blocks /\ EndOf(l, Top.prog, Top.at) = 0
  \/ l.op \in Closers \union {"fatal", "unknown"}
  \/ l.op \in Bodies /\ TooDeep(Len(frames))
  \/ l.op = "if" /\ BadCondition(l.name, a, b)
  \/ l.op = "loop" /\ Exhausted(1)
  \/ l.op = "foreach" /\ a = <<>>
  \/ /\ l.op = "xdefmacro"
     /\ \E j \in Top.at + 1 .. EndOf(l, Top.prog, Top.at) - 1 :
          Undefined(Top.prog[j].a) \/ Undefined(Top.prog[j].b)
  \/ l.op = "undefmacro" /\ <<l.name, Number(a)>> \notin DOMAIN macros
  \/ /\ l.op = "macro"
     /\ \/ MacroKey(l.name, a) \notin DOMAIN macros
        \/ LET body == macros[MacroKey(l.name, a)]
           IN  \E i \in DOMAIN body : NoArgument(body[i].a, Split(a)) \/ NoArgument(body[i].b, Split(a))
  \/ l.op \in {"pop", "shift"} /\ "$" \o a[1] \notin DOMAIN vars
  \/ l.op = "index" /\ Number(a) > Len(Split(b))
  \/ l.op = "repl" /\ (l.tag = "" \/ b = <<>>)
  \/ l.op = "seteval" /\ BadExpression(a)
  \/ l.op = "include" /\ a[1] \notin DOMAIN Files
  \/ l.op = "readline" /\ (b[1] \notin DOMAIN Inputs \/ Number(a) > Len(Inputs[b[1]]))
-----------------------------------------------------------------------------
(* One line. *)

A == expand_vars(Line.a)
B == expand_vars(Line.b)

\* There is a line to look at; lines are expanded as a whole before the keyword
\* is looked up, except for %raw.
AtLine ==
  /\ outcome = "running" /\ raised = <<>>
  /\ Top.at <= Len(Top.prog)

Fine == ~ (Line.op # "raw" /\ (Undefined(Line.a) \/ Undefined(Line.b) \/ Wrong(Line, A, B)))

Reads(ops) == AtLine /\ Line.op \in ops /\ Fine

\* The frames after the top one has gone on to the line to.
At(to) == [frames EXCEPT ![Len(frames)].at = to]
GoOn == frames' = At(Top.at + 1)

\* _preproc calls itself, and goes on at the line to afterwards.
Call(frame, to) == frames' = Append(At(to), frame)

\* A dictionary after f[x] = v.
With(f, x, v) == [y \in DOMAIN f \union {x} |-> IF y = x THEN v ELSE f[y]]

SetVar(name, t) == vars' = With(vars, "$" \o name, t)

LineFails ==
  /\ AtLine /\ ~Fine
  /\ outcome' = "failed"
  /\ UNCHANGED <<request, frames, vars, macros, caps, out, raised, results>>

\* A line of a list from readlines still has its newline, which takes the place
\* of the bracket that is cut off.
Output ==
  /\ Reads({"text", "raw"})
  /\ out' = Append(out, IF Line.op = "text" THEN A
                        ELSE IF Line.nl THEN Append(Line.a, "]") ELSE Line.a)
  /\ GoOn
  /\ UNCHANGED <<request, vars, macros, caps, raised, outcome, results>>

If ==
  /\ Reads({"if"})
  /\ LET end  == EndOf(Line, Top.prog, Top.at)
         mid  == IF ElseOf(Line.tag, Top.prog, Top.at) = 0 THEN end
                 ELSE ElseOf(Line.tag, Top.prog, Top.at)
         path == IF Holds(Line.name, A, B) THEN SubSeq(Top.prog, Top.at + 1, mid - 1)
                                           ELSE SubSeq(Top.prog, mid + 1, end - 1)
     IN  Call(Frame("if", path, Line.tag), end + 1)
  /\ UNCHANGED <<request, vars, macros, caps, out, raised, outcome, results>>

Body == SubSeq(Top.prog, Top.at + 1, EndOf(Line, Top.prog, Top.at) - 1)

Loop ==
  /\ Reads({"loop"})
  /\ Call(Frame("loop", Body, Line.tag), EndOf(Line, Top.prog, Top.at) + 1)
  /\ UNCHANGED <<request, vars, macros, caps, out, raised, outcome, results>>

Foreach ==
  /\ Reads({"foreach"})
  /\ LET var == "$" \o Line.name
     IN  Call([Frame("foreach", Body, Line.tag) EXCEPT
                 !.var = var,
                 !.old = IF var \in DOMAIN vars THEN {vars[var]} ELSE Absent,
                 !.rest = Tail(Split(A))],
              EndOf(Line, Top.prog, Top.at) + 1)
  /\ SetVar(Line.name, Head(Split(A)))
  /\ UNCHANGED <<request, macros, caps, out, raised, outcome, results>>

\* %xdefmacro expands its lines now, %defmacro when they are reached.
Defmacro ==
  /\ Reads({"defmacro", "xdefmacro"})
  /\ LET lines == Stripped(Body)
         body  == IF Line.op = "defmacro" THEN lines
                  ELSE [i \in DOMAIN lines |->
                          [lines[i] EXCEPT !.a = expand_vars(@), !.b = expand_vars(@)]]
     IN  macros' = With(macros, <<Line.name, Number(A)>>, body)
  /\ frames' = At(EndOf(Line, Top.prog, Top.at) + 1)
  /\ UNCHANGED <<request, vars, caps, out, raised, outcome, results>>

Undefmacro ==
  /\ Reads({"undefmacro"})
  /\ macros' = [k \in DOMAIN macros \ {<<Line.name, Number(A)>>} |-> macros[k]]
  /\ GoOn
  /\ UNCHANGED <<request, vars, caps, out, raised, outcome, results>>

Macro ==
  /\ Reads({"macro"})
  /\ LET args == Split(A)
         body == macros[MacroKey(Line.name, A)]
     IN  Call(Frame("macro",
                    [i \in DOMAIN body |-> [body[i] EXCEPT !.a = Instantiated(@, args),
                                                           !.b = Instantiated(@, args)]],
                    ""),
              Top.at + 1)
  /\ UNCHANGED <<request, vars, macros, caps, out, raised, outcome, results>>

Include ==
  /\ Reads({"include"})
  /\ Call(Frame("include", Files[A[1]], ""), Top.at + 1)
  /\ UNCHANGED <<request, vars, macros, caps, out, raised, outcome, results>>

\* What %shift and %pop leave of the list, and what they put into the variable.
\* str.split(',', 1) gives the head first, and both take the first part as the
\* rest of the list.
Parts(op, l) ==
  IF Len(l) = 1 THEN <<<<>>, l[1]>>
  ELSE IF op = "pop" THEN <<Joined(Front(l)), Last(l)>>
  ELSE <<l[1], Joined(Tail(l))>>

Pop ==
  /\ Reads({"pop", "shift"})
  /\ LET parts == Parts(Line.op, Split(vars["$" \o A[1]]))
         less  == With(vars, "$" \o A[1], parts[1])
     IN  vars' = IF B = <<>> THEN less ELSE With(less, "$" \o B[1], parts[2])
  /\ GoOn
  /\ UNCHANGED <<request, macros, caps, out, raised, outcome, results>>

\* The directives that give a variable a value.  The needle of %repl is one token,
\* in the place of the tag.
Assigned ==
  CASE Line.op = "set"      -> A
    [] Line.op = "seteval"  -> Evaluated(A)
    [] Line.op = "len"      -> <<ToString(IF A = <<>> THEN 0 ELSE Len(Split(A)))>>
    [] Line.op = "index"    -> Argument(Split(B), Number(A))
    [] Line.op = "repl"     -> FlattenSeq([i \in DOMAIN A |-> IF A[i] = Line.tag THEN B ELSE <<A[i]>>])
    [] Line.op = "substr"   -> SubSeq(B, Number(<<A[1]>>), Min({Number(<<A[2]>>), Len(B)}))
    [] Line.op = "readline" -> Inputs[B[1]][Number(A)]

Set ==
  /\ Reads({"set", "seteval", "len", "index", "repl", "substr", "readline"})
  /\ SetVar(Line.name, Assigned)
  /\ GoOn
  /\ UNCHANGED <<request, macros, caps, out, raised, outcome, results>>

Unset ==
  /\ Reads({"unset"})
  /\ vars' = [v \in DOMAIN vars \ {"$" \o A[i] : i \in DOMAIN A} |-> vars[v]]
  /\ GoOn
  /\ UNCHANGED <<request, macros, caps, out, raised, outcome, results>>

Cap(default) == IF A = <<>> THEN Inf ELSE IF A = <<"default">> THEN default ELSE Number(A)

Setcap ==
  /\ Reads({"setcap"})
  /\ DEPTH_CAP' = IF Line.name = "depth" THEN Cap(DEFAULT_DEPTH_CAP) ELSE DEPTH_CAP
  /\ ITER_CAP'  = IF Line.name = "iter" THEN Cap(DEFAULT_ITER_CAP) ELSE ITER_CAP
  /\ GoOn
  /\ UNCHANGED <<request, vars, macros, out, raised, outcome, results>>

\* %log and %sleep change nothing here.
Log ==
  /\ Reads({"log", "sleep"})
  /\ GoOn
  /\ UNCHANGED <<request, vars, macros, caps, out, raised, outcome, results>>

-----------------------------------------------------------------------------
(* Exceptions: the kind, the tag, and for the properties the frames that     *)
(* were there when it was raised.                                            *)

Raise ==
  /\ Reads({"break", "continue", "exitmacro", "exit"})
  /\ raised' = <<[kind |-> Line.op, tag |-> Line.tag, from |-> frames]>>
  /\ UNCHANGED <<request, frames, vars, macros, caps, out, outcome, results>>

IsExitLoop == raised[1].kind \in {"break", "continue"}

\* The top frame is left by a call that returns, or by an exception caught here.
Leave == frames' = Front(frames) /\ raised' = <<>>

\* The call ends with an exception that is not caught.
Abort == outcome' = "failed" /\ UNCHANGED <<frames, vars, raised>>

\* Mutant of EndForeach: the variable keeps its last value.
EndForeach_keep == Leave /\ UNCHANGED <<vars, outcome>>

\* A %foreach is done: its variable has its old value again.  A variable that
\* had none must still be there to be deleted.
EndForeach ==
  IF Top.old = Absent /\ Top.var \notin DOMAIN vars THEN Abort
  ELSE /\ Leave
       /\ vars' = IF Top.old = Absent THEN [v \in DOMAIN vars \ {Top.var} |-> vars[v]]
                  ELSE With(vars, Top.var, CHOOSE t \in Top.old : TRUE)
       /\ UNCHANGED outcome

\* The frames with another one in the place of the top one.
Again(frame) == [frames EXCEPT ![Len(frames)] = frame]

\* A %loop or %foreach is at the end of its body, or at a %continue.  Rounds are
\* counted up to Inf, and by their parity from there on, where only a cap of Inf
\* matters: a round is a step however often it has been done.
NextRound ==
  IF Top.kind = "loop"
  THEN IF Exhausted(Top.count + 1) \/ TooDeep(Len(frames) - 1)
       THEN Abort
       ELSE /\ frames' = Again([Top EXCEPT !.at = 1, !.count = IF @ < Inf THEN @ + 1 ELSE @ - 1])
            /\ raised' = <<>> /\ UNCHANGED <<vars, outcome>>
  ELSE IF Top.rest = <<>> THEN EndForeach
  ELSE IF TooDeep(Len(frames) - 1) THEN Abort
  ELSE /\ frames' = Again([Top EXCEPT !.at = 1, !.rest = Tail(@)])
       /\ vars' = With(vars, Top.var, Head(Top.rest))
       /\ raised' = <<>> /\ UNCHANGED outcome

\* A frame has no more lines.
Returns ==
  /\ outcome = "running" /\ raised = <<>>
  /\ Top.at > Len(Top.prog)
  /\ CASE Top.kind = "main" -> outcome' = "finished" /\ UNCHANGED <<frames, vars, raised>>
       [] Top.kind \in {"loop", "foreach"} -> NextRound
       [] OTHER -> Leave /\ UNCHANGED <<vars, outcome>>
  /\ UNCHANGED <<request, macros, caps, out, results>>

\* Mutant of Catches: the tag is not looked at.
Catches_any ==
  \/ Top.kind \in {"loop", "foreach"} /\ IsExitLoop
  \/ Top.kind = "macro" /\ raised[1].kind = "exitmacro"
  \/ Top.kind = "include" /\ raised[1].kind = "exit"

\* The top frame catches the exception.  The handler of %if raises every one again.
Catches ==
  \/ Top.kind \in {"loop", "foreach"} /\ IsExitLoop /\ raised[1].tag = Top.tag
  \/ Top.kind = "macro" /\ raised[1].kind = "exitmacro"
  \/ Top.kind = "include" /\ raised[1].kind = "exit"

Handles ==
  /\ outcome = "running" /\ raised # <<>> /\ Top.kind # "main" /\ Catches
  /\ IF raised[1].kind = "continue" THEN NextRound
     ELSE IF Top.kind = "foreach" THEN EndForeach
     ELSE Leave /\ UNCHANGED <<vars, outcome>>
  /\ UNCHANGED <<request, macros, caps, out, results>>

Passes ==
  /\ outcome = "running" /\ raised # <<>> /\ Top.kind # "main" /\ ~Catches
  /\ frames' = Front(frames)
  /\ UNCHANGED <<request, vars, macros, caps, out, raised, outcome, results>>

\* preproc: %exit ends the program, the others are errors there.
Uncaught ==
  /\ outcome = "running" /\ raised # <<>> /\ Top.kind = "main"
  /\ outcome' = IF raised[1].kind = "exit" THEN "finished" ELSE "failed"
  /\ UNCHANGED <<request, frames, vars, macros, caps, out, raised, results>>
-----------------------------------------------------------------------------
(* preproc. *)

Started == IF start = {} THEN default_vars ELSE (CHOOSE v \in start : TRUE) @@ default_vars

\* Mutant of Finally: the variables and caps stay.
Finally_keep ==
  /\ outcome \in {"finished", "failed"}
  /\ results' = Append(results, IF outcome = "finished" THEN <<out>> ELSE <<>>)
  /\ macros' = <<>>
  /\ frames' = <<>> /\ out' = <<>> /\ raised' = <<>>
  /\ outcome' = "idle"
  /\ UNCHANGED <<request, vars, caps>>

\* The call is over; a result is a list of lines or nothing.
Finally ==
  /\ outcome \in {"finished", "failed"}
  /\ results' = Append(results, IF outcome = "finished" THEN <<out>> ELSE <<>>)
  /\ vars' = default_vars /\ macros' = <<>>
  /\ DEPTH_CAP' = DEFAULT_DEPTH_CAP /\ ITER_CAP' = DEFAULT_ITER_CAP
  /\ frames' = <<>> /\ out' = <<>> /\ raised' = <<>>
  /\ outcome' = "idle"
  /\ UNCHANGED request

\* Without start_vars the variables are those that the last call left.
Preproc ==
  /\ outcome = "idle" /\ Len(results) < Calls
  /\ vars' = IF start = {} THEN vars ELSE Started
  /\ frames' = <<Frame("main", prgm, "")>>
  /\ outcome' = "running"
  /\ UNCHANGED <<request, macros, caps, out, raised, results>>

PreprocInit ==
  /\ prgm \in Programs /\ start \in Starts
  /\ vars = default_vars /\ macros = <<>>
  /\ DEPTH_CAP = DEFAULT_DEPTH_CAP /\ ITER_CAP = DEFAULT_ITER_CAP
  /\ frames = <<>> /\ out = <<>> /\ raised = <<>>
  /\ outcome = "idle" /\ results = <<>>

PreprocNext ==
  \/ LineFails \/ Output \/ If \/ Loop \/ Foreach \/ Defmacro \/ Undefmacro \/ Macro \/ Include
  \/ Pop \/ Set \/ Unset \/ Setcap \/ Log
  \/ Raise \/ Returns \/ Handles \/ Passes \/ Uncaught
  \/ Preproc \/ Finally

PreprocSpec == PreprocInit /\ [][PreprocNext]_state /\ WF_state(PreprocNext)

-----------------------------------------------------------------------------
(* Properties. *)

TargetOf(e) ==
  CASE e.kind \in {"break", "continue"} ->
         {k \in DOMAIN e.from : e.from[k].kind \in {"loop", "foreach"} /\ e.from[k].tag = e.tag}
    [] e.kind = "exitmacro" -> {k \in DOMAIN e.from : e.from[k].kind = "macro"}
    [] e.kind = "exit"      -> {k \in DOMAIN e.from : e.from[k].kind = "include"}

\* The blocks %if with the tag of a %break.
IfsOf(e) == {k \in DOMAIN e.from : e.from[k].kind = "if" /\ e.from[k].tag = e.tag}

\* A %break whose closest block with its tag is an %if.
MeantForIf(e) ==
  e.kind = "break" /\ \E k \in IfsOf(e) : \A j \in TargetOf(e) : j < k

\* An exit reaches the innermost block it is meant for, through whatever blocks,
\* macros and files are open inside that, and leaves what is around it alone; if
\* there is none the call fails, and only %exit ends it well.  This is said of all
\* exits but a %break that is meant for an %if (BreakLeavesIf).
ExitsReachTheirBlock ==
  [][raised # <<>> /\ ~MeantForIf(raised[1]) =>
       LET e == raised[1]
           k == Max(TargetOf(e))
       IN  /\ raised' = <<>> /\ outcome' = "running" =>
                /\ TargetOf(e) # {}
                /\ Len(frames') \in {k - 1, k}
                /\ Len(frames') = k => e.kind = "continue"
                /\ SubSeq(frames', 1, k - 1) = SubSeq(e.from, 1, k - 1)
           /\ outcome' = "finished" => e.kind = "exit" /\ TargetOf(e) = {}
           /\ outcome' = "failed" =>
                \/ TargetOf(e) = {} /\ e.kind # "exit"
                \/ Len(frames) = k]_state

\* A %break leaves the closest block with its tag when that is an %if, and the call
\* goes on behind the block: the help says it "would match the `%if2` and break out
\* of the if2 block", and the handler of %if has a branch for it.
BreakLeavesIf ==
  [][raised # <<>> /\ MeantForIf(raised[1]) =>
       LET e == raised[1]
           k == Max(IfsOf(e))
       IN  /\ outcome' = "running"
           /\ raised' = <<>> => frames' = SubSeq(e.from, 1, k - 1)]_state

\* What the variable of a %foreach was, it is again when the loop has been left
\* from its end, by its %break or its %continue.
ForeachRestores ==
  [][\A k \in DOMAIN frames :
       /\ frames[k].kind = "foreach" /\ k \notin DOMAIN frames'
       /\ outcome' = "running" /\ raised' = <<>> /\ k = Len(frames)
       => \/ frames[k].old = Absent /\ frames[k].var \notin DOMAIN vars'
          \/ frames[k].var \in DOMAIN vars' /\ frames[k].old = {vars'[frames[k].var]}]_state

\* A call leaves nothing behind: the next one with the same program gives the same.
CallsAreAlike == \A i, j \in DOMAIN results : results[i] = results[j]

\* The same for a %foreach that is left in any way, unless the call fails: a loop
\* in it or around it that catches the exit does not matter ("x is restored after
\* foreach loops").
ForeachAlwaysRestores ==
  [][\A k \in DOMAIN frames :
       /\ frames[k].kind = "foreach" /\ k \notin DOMAIN frames' /\ outcome' = "running"
       /\ raised = <<>> \/ TargetOf(raised[1]) # {}
       => \/ frames[k].old = Absent /\ frames[k].var \notin DOMAIN vars'
          \/ frames[k].var \in DOMAIN vars' /\ frames[k].old = {vars'[frames[k].var]}]_state
=============================================================================
