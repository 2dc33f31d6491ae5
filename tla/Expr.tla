-------------------------------- MODULE Expr --------------------------------
(***************************************************************************)
(* src/src/parts/parser/expr_parser.c: parse_expr, the operator precedence *)
(* parser of expressions, the type checks of its reductions, and the run   *)
(* of the code they print.  That code is straight-line, so the model runs  *)
(* it as it is printed: values is the data stack of the interpreter and    *)
(* ret its register GF@$RET, with the type of each value only.             *)
(*                                                                         *)
(* Abstractions.  A call is one operand, made when it is read (module      *)
(* Parser has its arguments); "end" is any token that is no part of an     *)
(* expression.  Tokens are chosen when they are read.                      *)
(***************************************************************************)
EXTENDS Integers, SequencesExt

CONSTANT Vocabulary \* what the expressions are written with, see ExprAssumption

VARIABLES
    collect_funcs,         \* whether this is the first pass
    ignore_right_bracket,  \* whether the expression is an argument of a call
    tokens,                \* the tokens read; the last is local_lookahead
    a,                     \* the element next_token made of it
    bracket_count,
    pushdown_stack,
    values, ret,           \* of the interpreter
    nil_unwrapped,         \* history: E! was executed on nil
    exit                   \* "none" while the expression is parsed

vars == <<collect_funcs, ignore_right_bracket, tokens, a, bracket_count,
          pushdown_stack, values, ret, nil_unwrapped, exit>>
-----------------------------------------------------------------------------
(* type_t, and the value types of the interpreter *)

int_type == 0
double_type == 1
string_type == 2
bool_type == 3
nil_int_type == 4
nil_double_type == 5
nil_string_type == 6
nil_bool_type == 7
nil_type == 8
void_type == 9
Type == int_type .. void_type

\* One operator for each class and each code printed; "<", "<=" and "=="
\* stand for ">", ">=" and "!=" too.
Operator == {"unwrap", "!", "*", "/", "+", "-", "??", "<", "<=", "==", "&&", "||"}

\* An identifier may name nothing, or a variable that has no value yet.
Form == {"literal", "variable", "call", "undeclared", "uninitialised"}

\* An expression takes its tokens from one vocabulary: operands (tokens of kind
\* "i"), of which only a call may have no type, and operators; whether it may
\* be an argument of a call; and two bounds, on the newlines within it and on
\* its tokens, the one that ends it included.
ASSUME ExprAssumption ==
    \A v \in Vocabulary :
        /\ v.operands \subseteq [kind : {"i"}, form : Form, type : Type]
        /\ \A o \in v.operands : o.type = void_type => o.form = "call"
        /\ \E o \in v.operands : o.form = "literal"
        /\ v.operators \subseteq Operator
        /\ v.in_arguments \subseteq BOOLEAN
        /\ v.newlines \in Nat /\ v.max \in Nat \ {0}

\* The values an expression of a static type has at run time.
Value(type) ==
    LET plain(t) == CASE t = int_type -> {"int"} [] t = double_type -> {"float"}
                      [] t = string_type -> {"string"} [] t = bool_type -> {"bool"}
    IN  CASE type \in int_type .. bool_type -> plain(type)
          [] type \in nil_int_type .. nil_bool_type -> plain(type - 4) \cup {"nil"}
          [] type = nil_type -> {"nil"}
          [] OTHER -> {"none"}
-----------------------------------------------------------------------------
(* The precedence table *)

UNWRAP == 1
NOT == 2
MUL_DIV == 3
ADD_SUB == 4
NIL_COL == 5
REL_OP == 6
AND == 7
OR == 8
LEFT_BRACKET == 9
IDENTIFIER == 10
RIGHT_BRACKET == 11
DOLLAR == 12
LESS == 13
NON_TERM == 14

OperatorClass == [x \in Operator |->
    CASE x = "unwrap" -> UNWRAP [] x = "!" -> NOT
      [] x \in {"*", "/"} -> MUL_DIV [] x \in {"+", "-"} -> ADD_SUB
      [] x = "??" -> NIL_COL [] x \in {"<", "<=", "=="} -> REL_OP
      [] x = "&&" -> AND [] x = "||" -> OR]

\* 1 is shift with LESS, 2 reduce, 3 shift, 4 an error; a row for the top
\* terminal, a column for the token read.
prec_table ==
  << <<4, 2, 2, 2, 2, 2, 2, 2, 4, 4, 2, 2>>,
     <<1, 1, 2, 2, 2, 2, 2, 2, 1, 1, 2, 2>>,
     <<1, 1, 2, 2, 2, 2, 2, 2, 1, 1, 2, 2>>,
     <<1, 1, 1, 2, 2, 2, 2, 2, 1, 1, 2, 2>>,
     <<1, 1, 1, 1, 1, 2, 2, 2, 1, 1, 2, 2>>,
     <<1, 1, 1, 1, 1, 4, 2, 2, 1, 1, 2, 2>>,
     <<1, 1, 1, 1, 1, 1, 2, 2, 1, 1, 2, 2>>,
     <<1, 1, 1, 1, 1, 1, 1, 2, 1, 1, 2, 2>>,
     <<1, 1, 1, 1, 1, 1, 1, 1, 1, 1, 3, 4>>,
     <<2, 4, 2, 2, 2, 2, 2, 2, 4, 4, 2, 2>>,
     <<4, 4, 2, 2, 2, 2, 2, 2, 4, 4, 2, 2>>,
     <<1, 1, 1, 1, 1, 1, 1, 1, 1, 1, 4, 4>> >>

\* Mutant of Action: an operand followed by an open bracket is reduced.
Action_call(b, c) ==
    IF b = IDENTIFIER /\ c = LEFT_BRACKET THEN 2 ELSE prec_table[b][c]

\* Mutant of Action: a sum is evaluated from the right.
Action_right(b, c) == IF b = ADD_SUB /\ c = ADD_SUB THEN 1 ELSE prec_table[b][c]

Action(b, c) == prec_table[b][c]
-----------------------------------------------------------------------------
(* The elements of the stack and the tokens *)

\* Mutant of RightBracket: it ends the arguments even of an inner bracket.
RightBracket_ends == IF ignore_right_bracket THEN DOLLAR ELSE RIGHT_BRACKET

\* Within the arguments of a call ")" belongs to the expression only if a "("
\* of the expression is open.
RightBracket ==
    IF ignore_right_bracket /\ bracket_count <= 0 THEN DOLLAR ELSE RIGHT_BRACKET

map_token(t) ==
    CASE t.kind = "i" -> IDENTIFIER
      [] t.kind \in DOMAIN OperatorClass -> OperatorClass[t.kind]
      [] t.kind = "(" -> LEFT_BRACKET
      [] t.kind = ")" -> RightBracket
      [] t.kind = "end" -> DOLLAR

Other(kind) == [kind |-> kind, form |-> "none", type |-> void_type]

\* tree is a ghost: the number of the token, then the trees of its operands.
Elem(class, t, tree) ==
    [class |-> class, token |-> t, type |-> t.type, literal |-> FALSE, tree |-> tree]

NonTerm(type, literal, tree) ==
    [class |-> NON_TERM, token |-> Other("none"), type |-> type,
     literal |-> literal, tree |-> tree]

Less == Elem(LESS, Other("none"), <<>>)
Dollar == Elem(DOLLAR, Other("none"), <<>>)
NoElem == Elem(0, Other("none"), <<>>)

TopTerminal(stack) ==
    CHOOSE i \in DOMAIN stack :
        /\ stack[i].class \notin {LESS, NON_TERM}
        /\ \A j \in i + 1 .. Len(stack) : stack[j].class \in {LESS, NON_TERM}

ActionOn(stack, class) == Action(stack[TopTerminal(stack)].class, class)
-----------------------------------------------------------------------------
(* next_token *)

\* The first pass looks at no operand: one is enough there.
OperandsRead(v) ==
    IF collect_funcs THEN {CHOOSE o \in v.operands : o.form = "literal"} ELSE v.operands

\* An identifier before "(" is the name of a call.
Follows(kind) ==
    ~ /\ kind = "(" /\ tokens # <<>>
      /\ tokens[Len(tokens)].form \in {"variable", "undeclared", "uninitialised"}

Newlines == Len(SelectSeq(tokens, LAMBDA t : t.nl))

\* nl is has_newline_after; behind the token that ends the expression it is not
\* looked at.
Newline(v, kind) == IF kind # "end" /\ Newlines < v.newlines THEN BOOLEAN ELSE {FALSE}

TokensRead(v) ==
    IF Len(tokens) + 1 = v.max THEN {Other("end")}
    ELSE OperandsRead(v) \cup
         {Other(x) : x \in {y \in v.operators \cup {"(", ")", "end"} : Follows(y)}}

WithNewline(t, nl) == [kind |-> t.kind, form |-> t.form, type |-> t.type, nl |-> nl]

\* The tokens read so far are the beginning of an expression of v.
Begun(v) ==
    /\ ignore_right_bracket \in v.in_arguments
    /\ Len(tokens) < v.max /\ Newlines <= v.newlines
    /\ \A t \in ToSet(tokens) :
          \/ \E o \in v.operands : t = WithNewline(o, t.nl)
          \/ t.kind \in v.operators \cup {"(", ")"}

NextTokens ==
    UNION {UNION {{WithNewline(t, nl) : nl \in Newline(v, t.kind)} : t \in TokensRead(v)} :
              v \in {w \in Vocabulary : Begun(w)}}

\* After a newline the token is looked at first: where it would be an error,
\* the expression ends before it, and it is not evaluated.
EndsBefore(stack, t) ==
    /\ tokens # <<>> /\ tokens[Len(tokens)].nl
    /\ ActionOn(stack, map_token(t)) = 4

BracketChange(class) ==
    CASE class = LEFT_BRACKET -> 1 [] class = RIGHT_BRACKET -> -1 [] OTHER -> 0

next_token(stack) ==
    \E t \in NextTokens :
        LET class == IF EndsBefore(stack, t) THEN DOLLAR ELSE map_token(t)
            evaluated == ~collect_funcs /\ class = IDENTIFIER
        IN  /\ tokens' = Append(tokens, t)
            /\ a' = Elem(class, t, <<Len(tokens) + 1>>)
            /\ bracket_count' = bracket_count + BracketChange(map_token(t))
            /\ ret' \in IF evaluated /\ t.form = "call" THEN Value(t.type) ELSE {ret}
            /\ exit' = IF tokens = <<>> /\ class = DOLLAR THEN "syntax"
                       ELSE IF evaluated /\ t.form = "undeclared" THEN "undefined"
                       ELSE "none"
-----------------------------------------------------------------------------
(* The checks of the operators.  x is the right operand, y the left one: a *)
(* and b of the code.  The result has type Refused if the types do not fit,*)
(* and otherwise says which operand, if any, INT2FLOATS converts.          *)

Refused == -1
Typed(type, convert, literal) == [type |-> type, convert |-> convert, literal |-> literal]
Mismatch == Typed(Refused, "none", FALSE)

LiteralInt(e) == e.type = int_type /\ e.literal

ar_op_check(x, y) ==
    LET literal == x.literal /\ y.literal
    IN  CASE x.type = y.type -> Typed(x.type, "none", literal)
          [] LiteralInt(x) /\ y.type = double_type -> Typed(double_type, "right", literal)
          [] LiteralInt(y) /\ x.type = double_type -> Typed(double_type, "left", literal)
          [] OTHER -> Mismatch

add_op_check(x, y) ==
    IF x.type = bool_type \/ x.type > 3 \/ y.type > 3 THEN Mismatch ELSE ar_op_check(x, y)

other_ar_op_check(x, y) ==
    IF x.type \in {string_type, bool_type} \/ x.type > 3 \/ y.type > 3
    THEN Mismatch ELSE ar_op_check(x, y)

\* Mutant of rel_op_check: the conversion is printed for the other operand.
rel_op_check_swapped(x, y) ==
    CASE x.type = y.type /\ x.type \in {int_type, double_type, string_type} ->
            Typed(bool_type, "none", FALSE)
      [] x.type = double_type /\ LiteralInt(y) -> Typed(bool_type, "right", FALSE)
      [] y.type = double_type /\ LiteralInt(x) -> Typed(bool_type, "right", FALSE)
      [] OTHER -> Mismatch

rel_op_check(x, y) ==
    CASE x.type = y.type /\ x.type \in {int_type, double_type, string_type} ->
            Typed(bool_type, "none", FALSE)
      [] x.type = double_type /\ LiteralInt(y) -> Typed(bool_type, "left", FALSE)
      [] y.type = double_type /\ LiteralInt(x) -> Typed(bool_type, "right", FALSE)
      [] OTHER -> Mismatch

eq_op_check(x, y) ==
    CASE \/ x.type = y.type \/ nil_type \in {x.type, y.type}
         \/ x.type - 4 = y.type \/ y.type - 4 = x.type -> Typed(bool_type, "none", FALSE)
      [] x.type \in {double_type, nil_double_type} /\ LiteralInt(y) ->
            Typed(bool_type, "left", FALSE)
      [] y.type \in {double_type, nil_double_type} /\ LiteralInt(x) ->
            Typed(bool_type, "right", FALSE)
      [] OTHER -> Mismatch

log_op_check(x, y) ==
    IF x.type = bool_type /\ y.type = bool_type THEN Typed(bool_type, "none", FALSE) ELSE Mismatch

\* The operator ?? has its checks in reduce: of a left operand that may be nil,
\* then of one that may not, whose right operand the code drops.
nil_col_check(x, y) ==
    CASE y.type > 3 /\ x.type <= 3 /\ (y.type - 4 = x.type \/ y.type = nil_type) ->
            Typed(x.type, "none", FALSE)
      [] y.type = nil_double_type /\ LiteralInt(x) -> Typed(x.type, "right", FALSE)
      [] y.type <= 3 /\ (y.type = x.type \/ x.type = nil_type) -> Typed(y.type, "none", FALSE)
      [] OTHER -> Mismatch

Check(op, x, y) ==
    CASE op = "+" -> add_op_check(x, y)
      [] op \in {"-", "*", "/"} -> other_ar_op_check(x, y)
      [] op \in {"&&", "||"} -> log_op_check(x, y)
      [] op \in {"<", "<="} -> rel_op_check(x, y)
      [] op = "==" -> eq_op_check(x, y)
      [] op = "??" -> nil_col_check(x, y)
-----------------------------------------------------------------------------
(* The instructions of the interpreter on the types of their operands.     *)
(* "error" is the end of the run with a type error; nothing mends it.      *)

Int2Float(v) == IF v = "int" THEN "float" ELSE "error"
Number(v, w, types) == IF v = w /\ v \in types THEN v ELSE "error"
Compare(v, w) == IF v = w /\ v \in {"int", "float", "string"} THEN "bool" ELSE "error"
\* EQS and JUMPIFEQ also take nil.
Equal(v, w) == IF "error" \notin {v, w} /\ (v = w \/ "nil" \in {v, w}) THEN "bool" ELSE "error"

\* What the code printed for an operator leaves of its operands v and w.
Computed(op, type, v, w) ==
    IF "error" \in {v, w} THEN "error"
    ELSE CASE op = "+" ->
                 Number(v, w, IF type = string_type THEN {"string"} ELSE {"int", "float"})
           [] op \in {"-", "*"} -> Number(v, w, {"int", "float"})
           [] op = "/" -> Number(v, w, IF type = int_type THEN {"int"} ELSE {"float"})
           [] op \in {"&&", "||"} -> IF {v, w} \subseteq {"bool", "nil"} THEN "bool" ELSE "error"
           [] op \in {"<", "<="} -> Compare(v, w)
           [] op = "==" -> Equal(v, w)

\* CALL $??op tests the left operand; a left operand that cannot be nil stays.
NilCoalesced(type, v, w) ==
    IF "error" \in {v, w} THEN "error" ELSE IF type > 3 /\ v = "nil" THEN w ELSE v

Converted(convert, side, v) == IF convert = side THEN Int2Float(v) ELSE v
-----------------------------------------------------------------------------
(* reduce *)

LessIndexes == {i \in DOMAIN pushdown_stack : pushdown_stack[i].class = LESS}
HandleStart ==
    CHOOSE i \in LessIndexes : \A j \in LessIndexes : j <= i
Handle == SubSeq(pushdown_stack, HandleStart + 1, Len(pushdown_stack))
Classes == [i \in DOMAIN Handle |-> Handle[i].class]
Top == values[Len(values)]
Second == values[Len(values) - 1]

Parsing == exit = "none" /\ a # NoElem
Acts(n) == Parsing /\ ActionOn(pushdown_stack, a.class) = n

Kept == UNCHANGED <<collect_funcs, ignore_right_bracket>>
Read == <<tokens, a, bracket_count>>

Reduces(classes) ==
    /\ Acts(2) /\ ~collect_funcs
    /\ LessIndexes # {} /\ Classes = classes
    /\ Kept /\ UNCHANGED Read

ReplaceHandle(e) ==
    pushdown_stack' = Append(SubSeq(pushdown_stack, 1, HandleStart - 1), e)

Fail(error) ==
    exit' = error /\ UNCHANGED <<pushdown_stack, values, ret, nil_unwrapped>>

\* elems has room for three elements, and the loop that fills it stops at LESS.
HandleFits == LessIndexes # {} /\ Len(Handle) <= 3

\* The first pass replaces whatever is there.
ReduceFirstPass ==
    /\ Acts(2) /\ collect_funcs
    /\ IF ~HandleFits THEN Fail("overflow")
       ELSE /\ ReplaceHandle(NonTerm(void_type, FALSE, <<>>))
            /\ UNCHANGED <<values, ret, nil_unwrapped, exit>>
    /\ Kept /\ UNCHANGED Read

ReduceOperand ==
    /\ Reduces(<<IDENTIFIER>>)
    /\ LET e == Handle[1]
           form == e.token.form
       IN  IF form = "call" /\ e.type = void_type THEN Fail("type")
           ELSE IF form = "uninitialised" THEN Fail("undefined")
           ELSE /\ \E v \in IF form = "call" THEN {ret} ELSE Value(e.type) :
                       values' = Append(values, v)
                /\ ReplaceHandle(NonTerm(e.type, form = "literal", e.tree))
                /\ UNCHANGED <<ret, nil_unwrapped, exit>>

ReduceNot ==
    /\ Reduces(<<NOT, NON_TERM>>)
    /\ LET e == Handle[2]
       IN  IF e.type # bool_type THEN Fail("type")
           ELSE /\ values' = Append(Front(values), IF Top = "bool" THEN "bool" ELSE "error")
                /\ ReplaceHandle(NonTerm(bool_type, FALSE, Handle[1].tree \o <<e.tree>>))
                /\ UNCHANGED <<ret, nil_unwrapped, exit>>

\* Mutant of CanUnwrap: anything but the literal nil.
CanUnwrap_any(type) == type # nil_type
CanUnwrap(type) == type >= 4 /\ type # nil_type

\* Nothing is printed: the value stays as it is.
ReduceUnwrap ==
    /\ Reduces(<<NON_TERM, UNWRAP>>)
    /\ LET e == Handle[1]
       IN  IF ~CanUnwrap(e.type) THEN Fail("type")
           ELSE /\ nil_unwrapped' = (nil_unwrapped \/ Top = "nil")
                /\ ReplaceHandle(NonTerm(e.type - 4, FALSE, Handle[2].tree \o <<e.tree>>))
                /\ UNCHANGED <<values, ret, exit>>

ReduceBrackets ==
    /\ Reduces(<<LEFT_BRACKET, NON_TERM, RIGHT_BRACKET>>)
    /\ ReplaceHandle(Handle[2])
    /\ UNCHANGED <<values, ret, nil_unwrapped, exit>>

BinaryClasses == {<<NON_TERM, c, NON_TERM>> : c \in MUL_DIV .. OR}

ReduceBinary ==
    /\ \E classes \in BinaryClasses : Reduces(classes)
    /\ LET y == Handle[1]
           x == Handle[3]
           op == Handle[2].token.kind
           check == Check(op, x, y)
           v == Converted(check.convert, "left", Second)
           w == Converted(check.convert, "right", Top)
           result == IF op = "??" THEN NilCoalesced(y.type, v, w)
                     ELSE Computed(op, check.type, v, w)
       IN  IF check.type = Refused THEN Fail("type")
           ELSE /\ values' = Append(Front(Front(values)), result)
                /\ ret' = IF \/ op = "??" /\ y.type > 3
                             \/ op = "+" /\ check.type = string_type
                          THEN result ELSE ret
                /\ ReplaceHandle(NonTerm(check.type, check.literal,
                                        Handle[2].tree \o <<y.tree, x.tree>>))
                /\ UNCHANGED <<nil_unwrapped, exit>>

ReduceNothing ==
    /\ Acts(2) /\ ~collect_funcs
    /\ HandleFits => Classes \notin {<<IDENTIFIER>>, <<NOT, NON_TERM>>, <<NON_TERM, UNWRAP>>,
                      <<LEFT_BRACKET, NON_TERM, RIGHT_BRACKET>>} \cup BinaryClasses
    /\ Fail(IF HandleFits THEN "syntax" ELSE "overflow")
    /\ Kept /\ UNCHANGED Read
-----------------------------------------------------------------------------
(* parse_expr *)

Init ==
    /\ collect_funcs \in BOOLEAN /\ ignore_right_bracket \in UNION {v.in_arguments : v \in Vocabulary}
    /\ tokens = <<>> /\ a = NoElem
    /\ bracket_count = 0
    /\ pushdown_stack = <<Dollar>>
    /\ values = <<>> /\ ret = "none" /\ nil_unwrapped = FALSE
    /\ exit = "none"

First ==
    /\ a = NoElem
    /\ next_token(pushdown_stack)
    /\ Kept /\ UNCHANGED <<pushdown_stack, values, nil_unwrapped>>

ShiftLess ==
    /\ Acts(1)
    /\ pushdown_stack' =
           Append(InsertAt(pushdown_stack, TopTerminal(pushdown_stack) + 1, Less), a)
    /\ next_token(pushdown_stack')
    /\ Kept /\ UNCHANGED <<values, nil_unwrapped>>

Shift ==
    /\ Acts(3)
    /\ pushdown_stack' = Append(pushdown_stack, a)
    /\ next_token(pushdown_stack')
    /\ Kept /\ UNCHANGED <<values, nil_unwrapped>>

OnlyDollars ==
    a.class = DOLLAR /\ pushdown_stack[TopTerminal(pushdown_stack)].class = DOLLAR

Refuse ==
    /\ Acts(4) /\ ~OnlyDollars
    /\ Fail("syntax")
    /\ Kept /\ UNCHANGED Read

Accept ==
    /\ Parsing /\ OnlyDollars
    /\ exit' = "accepted"
    /\ Kept /\ UNCHANGED <<Read, pushdown_stack, values, ret, nil_unwrapped>>

Done == exit # "none" /\ UNCHANGED vars

Next ==
    \/ First \/ ShiftLess \/ Shift \/ Refuse \/ Accept \/ Done
    \/ ReduceFirstPass \/ ReduceOperand \/ ReduceNot
    \/ ReduceUnwrap \/ ReduceBrackets \/ ReduceBinary \/ ReduceNothing

Spec == Init /\ [][Next]_vars
=============================================================================
