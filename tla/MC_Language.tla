----------------------------- MODULE MC_Language -----------------------------
(***************************************************************************)
(* The language of the tools.  A behaviour is of one of three parts: the   *)
(* preprocessor, with every exit in every pair of nested blocks, and       *)
(* programs for the other directives, preprocessed twice, with small caps; *)
(* the expression prototypes, with every expression of up to MaxLexemes    *)
(* over one of a few alphabets, each with the operators that interact; and *)
(* the prototypes of concatenation in a linked list, on every short list.  *)
(***************************************************************************)
EXTENDS Preprocessor

CONSTANTS Alphabets, MaxLexemes, Values, MaxNodes

VARIABLES
  part,
  alphabet, input, epc, tokens, depth, lparens, lexed,
  version, original, first, range, value, next, count, length, current, prev, merges, lpc

expression == <<alphabet, input, epc, tokens, depth, lparens, lexed>>
list == <<version, original, first, range, value, next, count, length, current, prev, merges, lpc>>

Expr == INSTANCE Expressions WITH pc <- epc
List == INSTANCE ConcatList WITH start <- first, pc <- lpc

NoPreprocessor ==
  /\ prgm = <<>> /\ start = {} /\ frames = <<>> /\ vars = <<>> /\ macros = <<>>
  /\ DEPTH_CAP = 0 /\ ITER_CAP = 0 /\ out = <<>> /\ raised = <<>> /\ outcome = "" /\ results = <<>>

NoExpression ==
  /\ alphabet = {} /\ input = <<>> /\ epc = "" /\ tokens = <<>> /\ depth = 0
  /\ lparens = <<>> /\ lexed = <<>>

NoList ==
  /\ version = 0 /\ original = <<>> /\ first = 0 /\ range = 0 /\ value = <<>> /\ next = <<>>
  /\ count = 0 /\ length = 0 /\ current = 0 /\ prev = 0 /\ merges = 0 /\ lpc = ""

MCInit ==
  \/ part = "preprocessor" /\ PreprocInit /\ NoExpression /\ NoList
  \/ part = "expression" /\ Expr!Init /\ NoPreprocessor /\ NoList
  \/ part = "list" /\ List!Init /\ NoPreprocessor /\ NoExpression

Preprocesses == part = "preprocessor" /\ PreprocNext /\ UNCHANGED <<part, expression, list>>
Evaluates    == part = "expression" /\ Expr!Next /\ UNCHANGED <<part, state, list>>
Concatenates == part = "list" /\ List!Next /\ UNCHANGED <<part, state, expression>>

everything == <<part, state, expression, list>>

\* Nothing but its own steps keeps the preprocessor waiting.
MCSpec ==
  /\ MCInit /\ [][Preprocesses \/ Evaluates \/ Concatenates]_everything
  /\ WF_everything(Preprocesses)

-----------------------------------------------------------------------------
(* Lines of programs. *)

L(op) == [op |-> op, tag |-> "", name |-> "", a |-> <<>>, b |-> <<>>, nl |-> FALSE]

Text(w)       == [L("text") EXCEPT !.a = w]
Exit(op, tag) == [L(op) EXCEPT !.tag = tag]
Do(op, name, a) == [L(op) EXCEPT !.name = name, !.a = a]
Do2(op, name, a, b) == [L(op) EXCEPT !.name = name, !.a = a, !.b = b]
Check(tag, op, a, b) == [L("if") EXCEPT !.tag = tag, !.name = op, !.a = a, !.b = b]

Pair(x, y) == <<x, ",", y>>

\* A block with the tag, around the lines of its body.
Block(kind, tag, body) ==
  CASE kind = "if" -> <<Check(tag, "streq", <<"1">>, <<"1">>)>> \o body \o <<Exit("endif", tag)>>
    [] kind = "loop" -> <<Exit("loop", tag)>> \o body \o <<Exit("endloop", tag)>>
    [] kind = "foreach" ->
         <<[Do("foreach", IF tag = "1" THEN "x" ELSE "y", Pair("3", "4")) EXCEPT !.tag = tag]>>
         \o body \o <<Exit("endfor", tag)>>
    [] kind = "macro" ->
         <<Do("defmacro", "m", <<"0">>)>> \o body \o <<L("endmacro"), Do("macro", "m", <<>>)>>

Exits ==
  {Exit("break", t) : t \in {"", "1", "2"}} \union {Exit("continue", t) : t \in {"1", "2"}}
  \union {L("exitmacro"), L("exit"), Text(<<"none">>), Do("unset", "", Pair("x", "y")),
          Do("set", "x", <<"7">>)}
  \union {Do("include", "", <<f>>) : f \in {"breaks", "exits", "returns"}}

Kinds == {"if", "loop", "foreach", "macro"}

Nested(k1, k2, e) ==
  Block(k1, "1", Block(k2, "2", <<e, Text(<<"on">>)>>) \o <<Text(<<"out">>)>>) \o <<Text(<<"end", "$x">>)>>

MCFiles ==
  [breaks  |-> <<Exit("break", "2")>>,
   exits   |-> <<Text(<<"f">>), L("exit"), Text(<<"g">>)>>,
   returns |-> <<L("exitmacro")>>,
   raw     |-> <<[Do("raw", "", <<"$x">>) EXCEPT !.nl = TRUE]>>]

MCInputs == [stdin |-> <<<<"5">>>>, file |-> <<<<"6">>, Pair("$x", "7")>>]

Counter(last) ==
  <<Do("set", "x", <<"0">>), L("loop"), Check("", "ge", <<"$x">>, <<last>>), L("break"),
    L("endif"), Text(<<"$x">>), Do("seteval", "x", <<"$x", "+", "1">>), L("endloop")>>

\* A macro that calls itself until its argument is 2.
Recursion(last) ==
  <<Do("defmacro", "m", <<"1">>), Check("", "eq", <<"#1">>, <<last>>), L("exitmacro"), L("else"),
    Do("seteval", "y", <<"#1", "+", "1">>), Do("macro", "m", <<"$y">>), Text(<<"#1", "#0">>),
    L("endif"), L("endmacro"), Do("macro", "m", <<"0">>), Text(<<"$y">>)>>

Conditions ==
  {Check("", op, Pair("1", "2"), b) :
     op \in {"eq", "le", "subset", "notsubset", "strne", "notdef", "inrange", "ne"},
     b \in {Pair("1", "2"), Pair("2", "2"), <<"1">>, Pair("1", "z")}}
  \union {Check("", op, Pair("x", "1"), <<>>) : op \in {"def", "undef", "int", "notint"}}

Singles ==
  {Do2("pop", "", <<"x">>, <<"y">>), Do2("shift", "", <<"x">>, <<"$null">>), Do2("shift", "", <<"x">>, <<"y">>),
   Do("len", "y", <<"$x">>), Do2("index", "y", <<"2">>, <<"$x">>), Do2("index", "y", <<"4">>, <<"$x">>),
   [Do2("repl", "y", <<"$x">>, <<"z", "z">>) EXCEPT !.tag = "1"], Do2("repl", "y", <<"$x">>, <<"z">>),
   Do2("substr", "y", <<"1", "3">>, <<"$x">>), Do("seteval", "y", <<"2", "*", "3">>),
   Do("seteval", "y", <<"2", "xor", "3">>), Do2("readline", "y", <<"2">>, <<"file">>),
   Do2("readline", "y", <<"2">>, <<"stdin">>), Do("log", "", <<"$y">>), Do("sleep", "", <<"1">>),
   Do("fatal", "", <<>>), L("endif"), Do("raw", "", <<"$z">>), Do("include", "", <<"raw">>),
   Do("include", "", <<"none">>), Do("undefmacro", "m", <<"0">>), Do("macro", "m", <<>>)}

\* Loops without a cap, the last two of which change the cap while they run.
Uncapped(body) ==
  <<Do("setcap", "iter", <<>>), L("loop")>> \o body \o <<L("endloop"), Text(<<"behind">>)>>

Loops ==
  {Uncapped(<<>>), Uncapped(<<L("continue"), L("break")>>),
   Uncapped(Block("if", "", <<Do("set", "y", <<"1">>), L("continue")>>)),
   Uncapped(Block("loop", "2", <<Exit("break", "2")>>)),
   Uncapped(<<Do("setcap", "iter", <<"3">>)>>),
   Uncapped(<<Do("setcap", "iter", <<"3">>), Do("setcap", "iter", <<>>)>>)}

MCPrograms ==
  Loops \union
  {Nested(k1, k2, e) : k1, k2 \in Kinds, e \in Exits}
  \union {Counter(n) : n \in {"2", "3", "9"}}
  \union {Recursion(n) : n \in {"1", "9"}}
  \union {<<Do("setcap", "iter", <<>>)>> \o Counter("5"),
          <<Do("setcap", "iter", <<"2">>), Do("setcap", "iter", <<"default">>)>> \o Counter("2"),
          <<Do("setcap", "depth", <<"0">>)>> \o Counter("2"),
          <<Do("setcap", "depth", <<>>)>> \o Recursion("3")}
  \union {<<Do("set", "x", Pair("1", "2")), c, Text(<<"yes">>), L("else"), Text(<<"no">>), L("endif")>> :
            c \in Conditions}
  \union {<<Do("set", "x", Pair("1", "2")), s, Text(<<"$x", "$y">>)>> : s \in Singles}
  \union {<<Check("", "def", <<"z">>, <<>>), Text(<<"again">>), L("endif"), Do("set", "z", <<"1">>)>>,
          Counter("2") \o <<Do("setcap", "iter", <<"2">>)>>}
  \union {<<Do("set", "x", <<"1">>), Do(d, "m", <<"1">>), Text(<<"$x", "-", "#1">>), L("endmacro"),
            Do("set", "x", <<"2">>), Do("macro", "m", <<"$x">>), Do("undefmacro", "m", <<"1">>)>>
          : d \in {"defmacro", "xdefmacro"}}

MCVarNames == {"$null", "$x", "$y", "$z"}
MCArgIndex == "#0" :> 0 @@ "#1" :> 1
MCDefaults == "$null" :> <<>>
MCStarts   == {{}, {"$x" :> <<"8">>}}

-----------------------------------------------------------------------------
(* Lexemes. *)

Lexeme(type, sym, num) == [type |-> type, sym |-> sym, num |-> num]

Lit(n) == Lexeme("LITERAL", "", n)
Var(n) == Lexeme("VAR", "", n)
Pre(s) == Lexeme("UNARY", s, 0)
Bin(s) == Lexeme("BINARY", s, 0)
Plus == Lexeme("SIGN", "+", 0)
Minus == Lexeme("SIGN", "-", 0)
Left == Lexeme("LPAREN", "(", 0)
Right == Lexeme("RPAREN", ")", 0)

MCAlphabets == {
  {Left, Right, Plus, Minus, Lit(2), Bin("*")},
  {Left, Right, Minus, Pre("~"), Pre("&"), Var(-3)},
  {Left, Right, Lit(2), Bin("^"), Minus, Pre("!")},
  {Plus, Minus, Lit(7), Lit(2), Bin("/"), Bin("<<")},
  {Minus, Pre("&"), Lit(0), Var(-7), Bin("."), Bin("%")},
  {Plus, Lit(2), Var(5), Bin("and"), Bin("xor"), Bin(">>")}}

MCValues == {-2, 0, 2, 3}

-----------------------------------------------------------------------------
\* What each part promises.

\* A %loop goes into its next round with no cap in force.
UncappedRound ==
  outcome = "running" /\ ITER_CAP = Inf /\ Top.kind = "loop" /\ NextRound

\* Calls of the preprocessor end, as loops and recursions are capped, unless the
\* program has lifted the cap of %loop and goes round under no cap for ever.
CallsEnd ==
  part = "preprocessor" =>
    \/ <>(outcome = "idle" /\ Len(results) = Calls)
    \/ []<><<UncappedRound>>_everything

ParsersAgree  == part = "expression" => Expr!ParsersAgree
LexKeepsValue == part = "expression" => Expr!LexKeepsValue
RangeIsOne    == part = "list" => List!RangeIsOne
=============================================================================
