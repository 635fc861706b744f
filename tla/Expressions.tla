---------------------------- MODULE Expressions ----------------------------
(***************************************************************************)
(* The prototypes of the evaluation of expressions: the lexer, which reads *)
(* one lexeme after the other and simplifies as it goes, and the two       *)
(* parsers.  The first one resolves juxtaposed values, replaces the groups *)
(* in parentheses from the last one on, and evaluates what is left with    *)
(* two stacks.  The second one is a recursive descent.                     *)
(***************************************************************************)
EXTENDS Arithmetic, FiniteSets

CONSTANTS
  Alphabets,   \* sets of lexemes; an expression is over one of them
  MaxLexemes   \* bound on the lexemes of an expression

VARIABLES
  alphabet, input,   \* the lexemes there may be, and those that were read
  pc,
  tokens, depth,     \* of the lexer; the first parser goes on with tokens
  lparens,           \* where the groups start that are still to be replaced
  lexed              \* the tokens that the lexer returned

vars == <<alphabet, input, pc, tokens, depth, lparens, lexed>>

(* A lexeme or token has a type, a symbol and for a value its number.      *)
(* TEMPORARY is the type of a value that was computed.                     *)
Token(type, sym, num) == [type |-> type, sym |-> sym, num |-> num]

Value == {"LITERAL", "VAR"}
Operator == {"UNARY", "BINARY"}

None == Token("NONE", "", 0)
LastToken == IF tokens = <<>> THEN None ELSE Last(tokens)

Is(t, type, sym) == t.type = type /\ t.sym = sym

Init ==
  /\ alphabet \in Alphabets
  /\ input = <<>> /\ tokens = <<>> /\ depth = 0 /\ pc = "lex"
  /\ lparens = <<>> /\ lexed = <<>>

-----------------------------------------------------------------------------
(* lex. *)

\* The next lexeme.  Two literals would be one, and with a space between them
\* an error.
Reads(t) ==
  /\ pc = "lex" /\ Len(input) < MaxLexemes
  /\ t \in alphabet
  /\ ~(t.type = "LITERAL" /\ input # <<>> /\ Last(input).type = "LITERAL")
  /\ input' = Append(input, t)
  /\ UNCHANGED <<alphabet, lparens, lexed>>

Error == pc' = "error" /\ UNCHANGED <<tokens, depth>>
Becomes(ts) == tokens' = ts /\ UNCHANGED <<pc, depth>>

Paren(t) ==
  /\ Reads(t)
  /\ \/ /\ t.sym = "("
        /\ IF LastToken.type \in Value THEN Error
           ELSE tokens' = Append(tokens, t) /\ depth' = depth + 1 /\ UNCHANGED pc
     \/ /\ t.sym = ")"
        /\ IF depth = 0 \/ LastToken.type \in Operator \union {"LPAREN"} THEN Error
           ELSE /\ depth' = depth - 1
                /\ UNCHANGED pc
                /\ LET n == Len(tokens)
                   IN  tokens' = IF n > 1 /\ tokens[n - 1].type = "LPAREN"
                                 THEN Append(SubSeq(tokens, 1, n - 2), tokens[n])
                                 ELSE Append(tokens, t)

\* The operators ^ . * / % << >> and, or, xor.
Infix(t) ==
  /\ Reads(t) /\ t.type = "BINARY"
  /\ Becomes(Append(tokens, t))

\* Two ~ cancel, a second & is dropped.
Prefix(t) ==
  /\ Reads(t) /\ t.type = "UNARY"
  /\ Becomes(IF t.sym = "~" /\ Is(LastToken, "UNARY", "~") THEN Front(tokens)
             ELSE IF t.sym = "&" /\ Is(LastToken, "UNARY", "&") THEN tokens
             ELSE Append(tokens, t))

\* The absolute value of a literal is the literal.
Atom(t) ==
  /\ Reads(t) /\ t.type \in Value
  /\ Becomes(IF t.type = "LITERAL" /\ Is(LastToken, "UNARY", "&")
             THEN Append(Front(tokens), t) ELSE Append(tokens, t))

\* Mutant of Signed: a minus after a plus takes its place, and a second one too.
Signed_twice(ts, sym) ==
  LET last == IF ts = <<>> THEN None ELSE Last(ts)
  IN  IF last.type \in Value \union {"RPAREN"} THEN Append(ts, Token("BINARY", sym, 0))
      ELSE IF sym = "+" THEN ts
      ELSE IF Is(last, "UNARY", "-") THEN Front(ts)
      ELSE IF Is(last, "UNARY", "&") THEN ts
      ELSE IF last.type = "BINARY" /\ last.sym \in {"+", "-"}
        THEN Append(Front(ts), Token("BINARY", "-", 0))
      ELSE Append(ts, Token("UNARY", "-", 0))

\* The tokens ts after + or -: a binary operator after a value or a group.  As a
\* prefix + is dropped, two - cancel, & swallows -, and x + -y becomes x - y.
Signed(ts, sym) ==
  LET last == IF ts = <<>> THEN None ELSE Last(ts)
  IN  IF last.type \in Value \union {"RPAREN"} THEN Append(ts, Token("BINARY", sym, 0))
      ELSE IF sym = "+" THEN ts
      ELSE IF Is(last, "UNARY", "-") THEN Front(ts)
      ELSE IF Is(last, "UNARY", "&") THEN ts
      ELSE IF Is(last, "BINARY", "+") THEN Append(Front(ts), Token("BINARY", "-", 0))
      ELSE Append(ts, Token("UNARY", "-", 0))

Sign(t) ==
  /\ Reads(t) /\ t.type = "SIGN"
  /\ Becomes(Signed(tokens, t.sym))

\* The neighbours that the last loop of lex refuses.
Misplaced(prev, cur) ==
  \/ cur.type \in Value /\ prev.type = "RPAREN"
  \/ cur.type = "UNARY" /\ prev.type \in Value \union {"RPAREN"}
  \/ cur.type = "BINARY" /\ prev.type \in Operator \union {"LPAREN", "NONE"}

Malformed(ts) ==
  \/ ts = <<>> \/ Last(ts).type \in Operator
  \/ \E i \in DOMAIN ts : Misplaced(IF i = 1 THEN None ELSE ts[i - 1], ts[i])

EndOfInput ==
  /\ pc = "lex"
  /\ pc' = IF depth # 0 \/ Malformed(tokens) THEN "error" ELSE "resolve"
  /\ lexed' = tokens
  /\ UNCHANGED <<alphabet, input, tokens, depth, lparens>>

-----------------------------------------------------------------------------
(* The first parser. *)

Temporary(n) == Token("TEMPORARY", "", n)

\* The longest run of values that starts at i.
RunEnd(ts, i) == Max({j \in i .. Len(ts) : \A k \in i .. j : ts[k].type \in Value})

RunStarts(ts) == {i \in DOMAIN ts : ts[i].type \in Value /\ (i = 1 \/ ts[i - 1].type \notin Value)}

\* resolve_expr: each run of values is one value.
Resolved(ts) ==
  FlattenSeq([i \in DOMAIN ts |->
    IF i \in RunStarts(ts)
    THEN <<Temporary(concat_implicit([k \in 1 .. RunEnd(ts, i) - i + 1 |-> ts[i + k - 1].num]))>>
    ELSE IF ts[i].type \in Value THEN <<>> ELSE <<ts[i]>>])

Resolve ==
  /\ pc = "resolve"
  /\ tokens' = Resolved(tokens)
  /\ lparens' = SetToSortSeq({i \in DOMAIN tokens' : tokens'[i].type = "LPAREN"}, <)
  /\ pc' = "groups"
  /\ UNCHANGED <<alphabet, input, depth, lexed>>

\* Prefix operators have order 3.
OrderOf(t) == IF t.type = "UNARY" THEN 3 ELSE Order(t.sym)

\* simple_pop_and_eval.
Popped(st) ==
  LET op == Last(st.ops)
      n  == Len(st.vals)
  IN  [ops  |-> Front(st.ops),
       vals |-> IF op.type = "UNARY"
                THEN [st.vals EXCEPT ![n] = Unary(op.sym, @)]
                ELSE Append(SubSeq(st.vals, 1, n - 2), Binary(op.sym, st.vals[n - 1], st.vals[n]))]

\* Mutant of Stays: ^ is used from the left.
Stays_left(t, top) == t.type = "UNARY" \/ OrderOf(top) > OrderOf(t)

\* The operator top waits when t comes.
Stays(t, top) ==
  \/ t.type = "UNARY"
  \/ OrderOf(top) > OrderOf(t)
  \/ (OrderOf(t) \in {2, 3} /\ OrderOf(top) = OrderOf(t))

\* The stacks when the operators that do not wait for t are used; all are at the end.
RECURSIVE PopWhile(_, _)
PopWhile(st, t) ==
  IF st.ops = <<>> \/ (t # None /\ Stays(t, Last(st.ops))) THEN st ELSE PopWhile(Popped(st), t)

\* The stacks when all the tokens are used.
Flushed(ts) ==
  PopWhile(FoldLeft(LAMBDA st, t :
             IF t.type = "TEMPORARY" THEN [st EXCEPT !.vals = Append(@, t.num)]
             ELSE LET p == PopWhile(st, t)
                  IN  [p EXCEPT !.ops = Append(@, t)],
             [vals |-> <<>>, ops |-> <<>>], ts),
           None)

\* parse_simple, without the parentheses around the tokens.  It fails on a
\* parenthesis among them, and when two values are left.
parse_simple(ts) ==
  LET end == Flushed(ts)
  IN  IF \E i \in DOMAIN ts : ts[i].type = "RPAREN" THEN NoValue
      ELSE IF Len(end.vals) # 1 THEN NoValue ELSE end.vals[1]

\* The group that starts last is replaced by its value.  Its end is looked for
\* from the fourth token on.  An exception ends it all.
Group ==
  /\ pc = "groups" /\ lparens # <<>>
  /\ LET left == Last(lparens)
         ends == {i \in left + 3 .. Len(tokens) : tokens[i].type = "RPAREN"}
         val  == parse_simple(SubSeq(tokens, left + 1, Min(ends) - 1))
     IN  IF ends = {} THEN pc' = "unreachable" /\ UNCHANGED <<tokens, lparens>>
         ELSE IF val = NoValue THEN pc' = "done" /\ tokens' = <<Temporary(val)>> /\ UNCHANGED lparens
         ELSE /\ tokens' = SubSeq(tokens, 1, left - 1) \o <<Temporary(val)>>
                           \o SubSeq(tokens, Min(ends) + 1, Len(tokens))
              /\ lparens' = Front(lparens)
              /\ UNCHANGED pc
  /\ UNCHANGED <<alphabet, input, depth, lexed>>

Whole ==
  /\ pc = "groups" /\ lparens = <<>>
  /\ tokens' = <<Temporary(parse_simple(tokens))>>
  /\ pc' = "done"
  /\ UNCHANGED <<alphabet, input, depth, lparens, lexed>>

Next ==
  \/ \E t \in alphabet : Paren(t) \/ Infix(t) \/ Prefix(t) \/ Atom(t) \/ Sign(t)
  \/ EndOfInput \/ Resolve \/ Group \/ Whole

Spec == Init /\ [][Next]_vars

-----------------------------------------------------------------------------
(* The second parser: a value and the index after it, for each level. *)

Got(val, at) == [val |-> val, at |-> at]

RECURSIVE Level(_, _, _, _), Climb(_, _, _, _, _)

\* parse_4 .. parse_9: operands of the level below, joined from the left.
Climb(ts, lv, abs, left, i) ==
  IF i > Len(ts) \/ ts[i].type # "BINARY" \/ Order(ts[i].sym) # lv THEN Got(left, i)
  ELSE LET right == Level(ts, lv - 1, abs, i + 1)
       IN  Climb(ts, lv, abs, Binary(ts[i].sym, left, right.val), right.at)

\* abs is what a prefix operator other than - and ~ does.
Level(ts, lv, abs, i) ==
  CASE lv >= 4 -> LET left == Level(ts, lv - 1, abs, i)
                  IN  Climb(ts, lv, abs, left.val, left.at)
    [] lv = 3 -> IF ts[i].type # "UNARY" THEN Level(ts, 2, abs, i)
                 ELSE LET right == Level(ts, 3, abs, i + 1)
                      IN  Got(Unary(IF ts[i].sym \in {"-", "~"} \/ ~abs THEN ts[i].sym ELSE "&",
                                    right.val), right.at)
    [] lv = 2 -> LET left == Level(ts, 1, abs, i)
                 IN  IF left.at > Len(ts) \/ ~Is(ts[left.at], "BINARY", "^") THEN left
                     ELSE LET right == Level(ts, 3, abs, left.at + 1)
                          IN  Got(Binary("^", left.val, right.val), right.at)
    [] lv = 1 -> IF ts[i].type = "LPAREN"
                 THEN LET in == Level(ts, 9, abs, i + 1) IN Got(in.val, in.at + 1)
                 ELSE LET end == RunEnd(ts, i)
                      IN  Got(concat_implicit([k \in 1 .. end - i + 1 |-> ts[i + k - 1].num]), end + 1)

Parse2(ts) == Level(ts, 9, TRUE, 1).val

-----------------------------------------------------------------------------
(* Properties. *)

Symbols(ts) == {ts[i].sym : i \in DOMAIN ts}

Depth(ts, i) ==
  Cardinality({k \in 1 .. i : ts[k].sym = "("}) - Cardinality({k \in 1 .. i : ts[k].sym = ")"})

\* Two groups side by side, which the lexer accepts.
Adjacent(ts) == \E i \in 1 .. Len(ts) - 1 : ts[i].sym = ")" /\ ts[i + 1].sym = "("

\* The parenthesis that closes the one at i.
Closes(ts, i) == Min({j \in i .. Len(ts) : Depth(ts, j) < Depth(ts, i)})

\* A group with one operand in it: another group or a run of values.
OneOperand(ts) ==
  \E i \in 1 .. Len(ts) - 1 :
    /\ ts[i].sym = "("
    /\ \/ ts[i + 1].sym = "(" /\ Closes(ts, i) = Closes(ts, i + 1) + 1
       \/ \A k \in i + 1 .. Closes(ts, i) - 1 : ts[k].type \in Value

\* The two prototypes are parsers of one language: they find the same value, and
\* the first one gives up nowhere else.  As built the second one takes ! for &,
\* the first one fails on ((x + y)) and on ($x$y), which its comments take to be
\* "unreachable", and (x + y)(z + w) is the value of its first group for the
\* second one and an exception for the first.
ParsersAgree ==
  /\ pc = "done" /\ "!" \notin Symbols(lexed) /\ ~OneOperand(lexed) /\ ~Adjacent(lexed)
       => tokens[1].num = Parse2(lexed)
  /\ pc = "unreachable" => OneOperand(lexed)

\* The tokens of an expression by the table of precedence, without simplification:
\* a sign is binary after a value or a closing parenthesis.
Plain(ts) ==
  [i \in DOMAIN ts |->
     IF ts[i].type # "SIGN" THEN ts[i]
     ELSE Token(IF i > 1 /\ ts[i - 1].type \in Value \union {"RPAREN"} THEN "BINARY" ELSE "UNARY",
                ts[i].sym, 0)]

WellFormed(ts) ==
  /\ ~Malformed(ts) /\ ~Adjacent(ts)
  /\ Depth(ts, Len(ts)) = 0
  /\ \A i \in 1 .. Len(ts) :
       /\ Depth(ts, i) >= 0
       /\ i > 1 /\ ts[i].sym = "(" => ts[i - 1].type \notin Value
       /\ i > 1 /\ ts[i].sym = ")" => ts[i - 1].type \notin Operator \union {"LPAREN"}

\* A sum with a negated term that is divided or concatenated: for x + -y / z the lexer
\* has x - y / z, which rounds the other way.
NegatedTerm(ts) ==
  /\ \E i \in 1 .. Len(ts) - 1 : Is(ts[i], "BINARY", "+") /\ ts[i + 1].type = "UNARY"
  /\ Symbols(ts) \cap {"/", "%", "."} # {}

\* & before 0 and a value: the lexer drops it, and 0 before a negative value keeps
\* the sign of that.
AbsOfZero(ts) ==
  /\ "&" \in Symbols(ts)
  /\ \E i \in 1 .. Len(ts) - 1 : ts[i] = Token("LITERAL", "", 0) /\ ts[i + 1].type \in Value

\* Simplifying while reading changes no value: the lexer accepts each expression that
\* is well formed, and the value of its tokens is that of the expression.
LexKeepsValue ==
  LET ts == Plain(input)
  IN  WellFormed(ts) /\ ~NegatedTerm(ts) /\ ~AbsOfZero(ts) =>
        /\ pc # "error"
        /\ pc = "resolve" => Level(lexed, 9, FALSE, 1).val = Level(ts, 9, FALSE, 1).val
=============================================================================
