------------------------------- MODULE Parser -------------------------------
(***************************************************************************)
(* src/src/parts/parser/parser.c: the recursive-descent parser, with the   *)
(* way expr_parser.c calls it back for the arguments of a call, the cursor *)
(* of the token array, and the label stacks of codegen.c.                  *)
(*                                                                         *)
(* Every function of parser.c has the same shape: it switches on the look- *)
(* ahead and runs a list of statements with a flag s.  "s = s && X()" is   *)
(* skipped once s is false; the other statements run whatever happened     *)
(* before.  Here a function is the list of its statements (Body), and the  *)
(* C call stack is a stack of frames with the statements still to run.     *)
(*                                                                         *)
(* Abstractions.  An expression is one operand: an identifier, a call, or  *)
(* a literal ("literal", or "(" for one in brackets; "(" after an identi-  *)
(* fier is a call); operators are in module Expr.  The checks of names and *)
(* types (module Symtable) may end the compiler wherever the code makes    *)
(* them.  Tokens carry their kind and has_newline_after, and are chosen    *)
(* when the parser first reads them.  A label is the index of the token    *)
(* that starts the statement it was made for.                              *)
(***************************************************************************)
EXTENDS Integers, Sequences

CONSTANT Vocabulary \* what the programs are written with, see Programs

\* The kinds of tokens besides eof, written as in the text or, like lbrace, after
\* token_type_t; operators are in module Expr.
Kind == {"id", "underscore", "literal", "type", "var", "let", "func", "while", "for",
         "in", "if", "else", "return", "break", "continue",
         "(", ")", "lbrace", "rbrace", "comma", ":", "=", "->", "..."}

\* A program takes its tokens from one vocabulary: the kinds it has besides
\* eof, those of them a newline may follow, and a bound on its length.
ASSUME ParserAssumption ==
    /\ Vocabulary # {}
    /\ \A v \in Vocabulary : v.kinds \subseteq Kind /\ v.max \in Nat \ {0}

VARIABLES
    tokens,       \* the token array, as far as it has been read
    current,      \* its cursor: tokens[current], 0 before the first
    lookahead,    \* the token lookahead points at
    nl_flag,
    ignore_right_bracket,
    collect_funcs,          \* the pass: TRUE in the first
    stack,        \* the call stack, S at the bottom
    inside_func, has_return, returnsVoid, inside_loop, inside_branch,
    scopeDepth,
    current_loop, current_loop_is_for, loop_label_stack, cycle_type_stack,
    branch_label_stack,
    exit          \* "none" while the compiler runs

cursor == <<tokens, current, lookahead, nl_flag>>
context == <<inside_func, has_return, returnsVoid, inside_loop, inside_branch>>
labels == <<current_loop, current_loop_is_for, loop_label_stack,
            cycle_type_stack, branch_label_stack>>
vars == <<cursor, ignore_right_bracket, collect_funcs, stack, context,
          scopeDepth, labels, exit>>
-----------------------------------------------------------------------------
(* The token array *)

Closed == tokens # <<>> /\ tokens[Len(tokens)].kind = "eof"

\* No token is there: the slot after eof holds whatever the allocator left.
Garbage(i) == Closed /\ i > Len(tokens)

TokenKind(i) == tokens[i].kind

Token(v) == [kind : v.kinds \cup {"eof"}, nl : {FALSE}]
            \cup [kind : v.kinds \cap v.newline_after, nl : {TRUE}]

\* The beginnings of the programs of v; the last token of a program is eof.
Programs(v) ==
    {ts \in Seq(Token(v)) :
        Len(ts) <= v.max /\ (Len(ts) = v.max => ts[Len(ts)].kind = "eof")}

\* What the array holds once tokens[i] has been read.
Read(i) ==
    IF i <= Len(tokens) \/ Closed THEN {tokens}
    ELSE UNION {{ts \in {Append(tokens, t) : t \in Token(v)} : ts \in Programs(v)} :
                   v \in Vocabulary}

\* TokenArray.next: its test lets the cursor leave the array by one.
next ==
    /\ tokens' \in Read(current + 1)
    /\ current' = IF Garbage(current) THEN current ELSE current + 1

\* The token next() returns.
nextToken == IF Garbage(current) THEN current ELSE current + 1
-----------------------------------------------------------------------------
(* The functions of parser.c.  Match and Call are "s = s && ...", If is a  *)
(* statement under "if (s)", Do one that always runs.                      *)

\* The functions; a statement is a match, a call or one of the others in Op.  func
\* and for open two scopes each; the inner one has a name of its own in Op.
Function ==
    {"S", "CODE", "RETURN", "RET_EXPR", "VAR_DECL", "LET_DECL", "VAR_LET_TYPE",
     "VAR_LET_EXP", "FUNC_DECL", "FUNC_RET_TYPE", "PARAM_LIST", "PARAM", "NEXT_PARAM",
     "BRANCH", "BR_EXPR", "ELSE", "ELSE_IF", "WHILE_LOOP", "FOR_LOOP", "FOR_ID", "RANGE",
     "CALL_PARAM_LIST", "CALL_PARAM", "NEXT_CALL_PARAM", "ID_CALL_OR_ASSIGN",
     "NEXT_ID_CALL_OR_ASSIGN", "TYPE", "EXPR"}

Op ==
    {"match", "call", "reject", "nl_check", "match_id_or_underscore", "match_colon_or_back",
     "check", "check_arg", "check_first_pass", "check_both_passes", "needs_type",
     "add_for_let", "end_of_func",
     "enter_func", "leave_func", "has_return", "void", "typed",
     "increase_scope", "increase_inner_scope", "decrease_scope", "decrease_inner_scope",
     "enter_loop", "leave_loop", "enter_branch", "leave_branch", "ignore_on", "ignore_off",
     "gen_while_start", "gen_for_start", "gen_loop_end", "gen_break", "gen_continue",
     "gen_branch_labels", "gen_skip_label", "gen_branch_if_end", "gen_branch_end",
     "next_token", "operand", "after_operand", "call_params", "call_end", "fail"}

Statements ==
    [needs_s : BOOLEAN, op : Op, arg : Kind \cup {"eof", "none"} \cup Function]

Match(kind) == [needs_s |-> TRUE, op |-> "match", arg |-> kind]
Call(f) == [needs_s |-> TRUE, op |-> "call", arg |-> f]
If(statement) == [needs_s |-> TRUE, op |-> statement, arg |-> "none"]
Do(statement) == [needs_s |-> FALSE, op |-> statement, arg |-> "none"]

Accept == <<>>
Reject == <<If("reject")>>

FirstOfExpr == {"id", "literal", "("}

Statement == [var |-> "VAR_DECL", let |-> "LET_DECL", func |-> "FUNC_DECL",
              while |-> "WHILE_LOOP", for |-> "FOR_LOOP", if |-> "BRANCH",
              id |-> "ID_CALL_OR_ASSIGN"]

S(t) ==
    IF t \in DOMAIN Statement \cup {"return", "break", "continue", "eof"}
    THEN <<Call("CODE"), Match("eof")>> ELSE Reject

CODE(t) ==
    CASE t \in DOMAIN Statement -> <<Call(Statement[t]), If("nl_check"), Call("CODE")>>
      [] t = "return" -> <<Call("RETURN")>>
      [] t = "break" -> <<Match("break"), Do("gen_break")>>
      [] t = "continue" -> <<Match("continue"), Do("gen_continue")>>
      [] t \in {"rbrace", "eof"} -> Accept
      [] OTHER -> Reject

RETURN(t) == <<Match("return"), Do("has_return"), Call("RET_EXPR")>>

RET_EXPR(t) ==
    CASE t \in {"rbrace", "eof"} -> <<Do("check"), Do("has_return")>>
      [] t \in FirstOfExpr -> <<Call("EXPR"), Do("check"), Do("has_return")>>
      [] OTHER -> Reject \o <<Do("has_return")>>

VAR_DECL(t) ==
    <<Match(t), Match("id"), Call("VAR_LET_TYPE"), Call("VAR_LET_EXP"), If("check")>>

VAR_LET_TYPE(t) ==
    CASE t = ":" -> <<Match(":"), Call("TYPE")>>
      [] t = "=" -> Accept
      [] OTHER -> IF nl_flag THEN Accept ELSE Reject

\* In the second pass a declaration with neither type nor value is refused.
VAR_LET_EXP(t) ==
    CASE t = "=" -> <<Match("="), Call("EXPR")>>
      [] OTHER -> IF nl_flag THEN <<Do("needs_type")>> ELSE Reject

FUNC_DECL(t) ==
    <<Match("func"), Do("enter_func"), Match("id"), Match("("),
      Do("increase_scope"), Call("PARAM_LIST"), If("check_first_pass"),
      Do("increase_inner_scope"), Match(")"), Call("FUNC_RET_TYPE"), Match("lbrace"),
      Call("CODE"), If("end_of_func"), Match("rbrace"), Do("leave_func"),
      Do("decrease_inner_scope"), Do("decrease_scope")>>

FUNC_RET_TYPE(t) ==
    CASE t = "->" -> <<Do("void"), Match("->"), Call("TYPE"), If("typed")>>
      [] t = "lbrace" -> <<Do("void")>>
      [] OTHER -> Reject

PARAM_LIST(t) ==
    CASE t \in {"id", "underscore"} -> <<Call("PARAM"), Call("NEXT_PARAM")>>
      [] t = ")" -> Accept
      [] OTHER -> Reject

\* PARAM_NAME is called on an identifier or "_" only and so succeeds.
PARAM(t) ==
    IF t \in {"id", "underscore"}
    THEN <<Match(t), If("match_id_or_underscore"), Match(":"), Call("TYPE"),
           If("check_both_passes")>>
    ELSE Reject

NEXT_PARAM(t) ==
    CASE t = "comma" -> <<Match("comma"), Call("PARAM"), Call("NEXT_PARAM")>>
      [] t = ")" -> Accept
      [] OTHER -> Reject

\* Mutant of BRANCH: the branch is left before its else.
BRANCH_early(t) ==
    <<Do("gen_branch_labels"), Match("if"), Do("increase_scope"),
      Call("BR_EXPR"), Match("lbrace"), Do("enter_branch"), Call("CODE"), Match("rbrace"),
      Do("leave_branch"), Do("decrease_scope"), Do("gen_branch_if_end"),
      Call("ELSE"), Do("gen_branch_end")>>

BRANCH(t) ==
    <<Do("gen_branch_labels"), Match("if"), Do("increase_scope"),
      Call("BR_EXPR"), Match("lbrace"), Do("enter_branch"), Call("CODE"), Match("rbrace"),
      Do("decrease_scope"), Do("gen_branch_if_end"), Call("ELSE"),
      Do("gen_branch_end"), Do("leave_branch")>>

BR_EXPR(t) ==
    CASE t = "let" -> <<Match("let"), Match("id"), If("check")>>
      [] t \in FirstOfExpr -> <<Call("EXPR"), If("check")>>
      [] OTHER -> Reject

ELSE_(t) ==
    CASE t = "else" -> <<Match("else"), Call("ELSE_IF")>>
      [] OTHER -> IF nl_flag THEN Accept ELSE Reject

\* Mutant of ELSE_IF: gen_branch_labels(false) is missing.
ELSE_IF_unlabelled(t) ==
    CASE t = "if" ->
           <<Match("if"), Do("increase_scope"), Call("BR_EXPR"), Match("lbrace"),
             Call("CODE"), Match("rbrace"), Do("decrease_scope"),
             Do("gen_branch_if_end"), Call("ELSE")>>
      [] t = "lbrace" ->
           <<Match("lbrace"), Do("increase_scope"), Call("CODE"), Match("rbrace"),
             Do("decrease_scope")>>
      [] OTHER -> IF nl_flag THEN Accept ELSE Reject

ELSE_IF(t) ==
    CASE t = "if" ->
           <<Do("gen_skip_label"), Match("if"), Do("increase_scope"),
             Call("BR_EXPR"), Match("lbrace"), Call("CODE"), Match("rbrace"),
             Do("decrease_scope"), Do("gen_branch_if_end"), Call("ELSE")>>
      [] t = "lbrace" ->
           <<Match("lbrace"), Do("increase_scope"), Call("CODE"), Match("rbrace"),
             Do("decrease_scope")>>
      [] OTHER -> IF nl_flag THEN Accept ELSE Reject

\* Mutant of WHILE_LOOP: inside_loop is never decremented.
WHILE_LOOP_leaky(t) ==
    <<Do("enter_loop"), Match("while"), Do("gen_while_start"), Call("EXPR"),
      If("check"), Match("lbrace"), Do("increase_scope"), Call("CODE"), Match("rbrace"),
      Do("decrease_scope"), Do("gen_loop_end")>>

WHILE_LOOP(t) ==
    <<Do("enter_loop"), Match("while"), Do("gen_while_start"), Call("EXPR"),
      If("check"), Match("lbrace"), Do("increase_scope"), Call("CODE"), Match("rbrace"),
      Do("decrease_scope"), Do("gen_loop_end"), Do("leave_loop")>>

\* Mutant of FOR_LOOP: the scope of the loop constant is never opened.
FOR_LOOP_unscoped(t) ==
    <<Do("enter_loop"), Match("for"), Call("FOR_ID"),
      Do("add_for_let"), Match("in"), Call("EXPR"), If("check"), Call("RANGE"),
      Do("gen_for_start"), Match("lbrace"), Do("increase_inner_scope"), Call("CODE"),
      Match("rbrace"), Do("decrease_inner_scope"), Do("gen_loop_end"),
      Do("decrease_scope"), Do("leave_loop")>>

FOR_LOOP(t) ==
    <<Do("enter_loop"), Match("for"), Call("FOR_ID"), Do("increase_scope"),
      Do("add_for_let"), Match("in"), Call("EXPR"), If("check"), Call("RANGE"),
      Do("gen_for_start"), Match("lbrace"), Do("increase_inner_scope"), Call("CODE"),
      Match("rbrace"), Do("decrease_inner_scope"), Do("gen_loop_end"),
      Do("decrease_scope"), Do("leave_loop")>>

FOR_ID(t) == IF t \in {"id", "underscore"} THEN <<Match(t)>> ELSE Reject

RANGE(t) == IF t = "..." THEN <<Match("..."), Call("EXPR"), If("check")>> ELSE Reject

CALL_PARAM_LIST(t) ==
    CASE t \in FirstOfExpr ->
           <<Call("CALL_PARAM"), Call("NEXT_CALL_PARAM"), If("check")>>
      [] t = ")" -> <<If("check")>>
      [] OTHER -> Reject

CALL_PARAM(t) ==
    CASE t = "id" -> <<Match("id"), Do("match_colon_or_back"), Call("EXPR"), Do("check_arg")>>
      [] t \in FirstOfExpr \ {"id"} -> <<Call("EXPR"), Do("check_arg")>>
      [] OTHER -> Reject

NEXT_CALL_PARAM(t) ==
    CASE t = "comma" -> <<Match("comma"), Call("CALL_PARAM"), Call("NEXT_CALL_PARAM")>>
      [] t = ")" -> Accept
      [] OTHER -> Reject

ID_CALL_OR_ASSIGN(t) == <<Match("id"), Call("NEXT_ID_CALL_OR_ASSIGN")>>

NEXT_ID_CALL_OR_ASSIGN(t) ==
    CASE t = "(" -> <<Match("("), Do("ignore_on"), Do("check"),
                      Call("CALL_PARAM_LIST"), Match(")"), Do("ignore_off")>>
      [] t = "=" -> <<Match("="), Call("EXPR"), If("check")>>
      [] OTHER -> Reject

TYPE(t) == IF t = "type" THEN <<Match("type")>> ELSE Reject

\* call_expr_parser and parse_expr, on one operand.
EXPR(t) == <<Do("next_token"), Do("operand"), Do("next_token"), Do("after_operand")>>

Body(f, t) ==
    CASE f = "S" -> S(t)
      [] f = "CODE" -> CODE(t)
      [] f = "RETURN" -> RETURN(t)
      [] f = "RET_EXPR" -> RET_EXPR(t)
      [] f \in {"VAR_DECL", "LET_DECL"} -> VAR_DECL(t)
      [] f = "VAR_LET_TYPE" -> VAR_LET_TYPE(t)
      [] f = "VAR_LET_EXP" -> VAR_LET_EXP(t)
      [] f = "FUNC_DECL" -> FUNC_DECL(t)
      [] f = "FUNC_RET_TYPE" -> FUNC_RET_TYPE(t)
      [] f = "PARAM_LIST" -> PARAM_LIST(t)
      [] f = "PARAM" -> PARAM(t)
      [] f = "NEXT_PARAM" -> NEXT_PARAM(t)
      [] f = "BRANCH" -> BRANCH(t)
      [] f = "BR_EXPR" -> BR_EXPR(t)
      [] f = "ELSE" -> ELSE_(t)
      [] f = "ELSE_IF" -> ELSE_IF(t)
      [] f = "WHILE_LOOP" -> WHILE_LOOP(t)
      [] f = "FOR_LOOP" -> FOR_LOOP(t)
      [] f = "FOR_ID" -> FOR_ID(t)
      [] f = "RANGE" -> RANGE(t)
      [] f = "CALL_PARAM_LIST" -> CALL_PARAM_LIST(t)
      [] f = "CALL_PARAM" -> CALL_PARAM(t)
      [] f = "NEXT_CALL_PARAM" -> NEXT_CALL_PARAM(t)
      [] f = "ID_CALL_OR_ASSIGN" -> ID_CALL_OR_ASSIGN(t)
      [] f = "NEXT_ID_CALL_OR_ASSIGN" -> NEXT_ID_CALL_OR_ASSIGN(t)
      [] f = "TYPE" -> TYPE(t)
      [] f = "EXPR" -> EXPR(t)
-----------------------------------------------------------------------------
(* The call stack *)

Frame == [fn : Function,
          at : Nat,         \* the token it was called on
          todo : Seq(Statements),
          s : BOOLEAN,      \* its flag
          heed : BOOLEAN,   \* whether its caller looks at what it returns
          local : Nat,      \* local_lookahead, in parse_expr
          line_ends : BOOLEAN,      \* is_last_on_line, in next_token
          tmp : BOOLEAN]    \* the saved ignore_right_bracket, in next_token

NewFrame(f, heed) ==
    [fn |-> f, at |-> lookahead, todo |-> Body(f, TokenKind(lookahead)),
     s |-> TRUE, heed |-> heed, local |-> 0, line_ends |-> FALSE, tmp |-> FALSE]

Top == stack[Len(stack)]

Doing(op) ==
    /\ exit = "none" /\ stack # <<>>
    /\ Top.todo # <<>> /\ Head(Top.todo).op = op

Arg == Head(Top.todo).arg

\* The first statement that does not need s; it stays false once it is.
NextDo(todo) ==
    CHOOSE i \in 1 .. Len(todo) + 1 :
        /\ \A j \in 1 .. i - 1 : todo[j].needs_s
        /\ i <= Len(todo) => ~todo[i].needs_s

\* What is left of a list of statements once s has the value ok.
Rest(todo, ok) == IF ok THEN todo ELSE SubSeq(todo, NextDo(todo), Len(todo))

\* The frame after its first statement, which left s = ok.
Advanced(frame, ok) == [frame EXCEPT !.todo = Rest(Tail(frame.todo), ok), !.s = ok]

SetTop(frame) == stack' = [stack EXCEPT ![Len(stack)] = frame]
Advance(ok) == SetTop(Advanced(Top, ok))

\* The compiler stops: "success", "syntax" (2), "semantic" (3 to 9), or
\* "undefined": it reads through a pointer nobody stored.
Exit(code) ==
    /\ exit' = code
    /\ UNCHANGED <<cursor, ignore_right_bracket, collect_funcs, stack, context,
                   scopeDepth, labels>>

MaySemanticExit == Exit("semantic")
-----------------------------------------------------------------------------
(* main and S *)

Init ==
    /\ tokens = <<>> /\ current = 0 /\ lookahead = 0 /\ nl_flag = FALSE
    /\ ignore_right_bracket = FALSE /\ collect_funcs = FALSE /\ stack = <<>>
    /\ inside_func = FALSE /\ has_return = FALSE /\ returnsVoid = TRUE
    /\ inside_loop = 0 /\ inside_branch = 0 /\ scopeDepth = 0
    /\ current_loop = 0 /\ current_loop_is_for = FALSE
    /\ loop_label_stack = <<>> /\ cycle_type_stack = <<>>
    /\ branch_label_stack = <<>> /\ exit = "none"

\* Mutant of ThisPass: S does not flip collect_funcs.
ThisPass_stuck == TRUE

\* S flips collect_funcs: the first pass collects.
ThisPass == ~collect_funcs

BeginS ==
    /\ collect_funcs' = ThisPass
    /\ scopeDepth' = 0
    /\ next /\ lookahead' = nextToken
    /\ stack' = <<[fn |-> "S", at |-> nextToken, todo |-> S(tokens'[nextToken].kind),
                   s |-> TRUE, heed |-> TRUE, local |-> 0, line_ends |-> FALSE,
                   tmp |-> FALSE]>>
    /\ IF ThisPass THEN UNCHANGED labels
       ELSE /\ loop_label_stack' = <<>> /\ cycle_type_stack' = <<>>
            /\ branch_label_stack' = <<>>
            /\ UNCHANGED <<current_loop, current_loop_is_for>>
    /\ UNCHANGED <<nl_flag, ignore_right_bracket, context, exit>>

StartPass ==
    /\ exit = "none" /\ stack = <<>>
    /\ IF Garbage(nextToken) THEN Exit("undefined") ELSE BeginS

\* Mutant of Start: TokenArray.reset leaves the cursor on the first token.
Start_late == 1

Start == 0

EndOfPass ==
    /\ exit = "none" /\ Len(stack) = 1 /\ Top.todo = <<>>
    /\ IF Top.s /\ collect_funcs
       THEN /\ stack' = <<>> /\ current' = Start
            /\ UNCHANGED <<tokens, lookahead, nl_flag, ignore_right_bracket,
                           collect_funcs, context, scopeDepth, labels, exit>>
       ELSE Exit(IF Top.s THEN "success" ELSE "syntax")
-----------------------------------------------------------------------------
(* match, the calls of parser.c, nl_check *)

\* Mutant of OutOfPlace: break and continue are matched anywhere.
OutOfPlace_loops(kind) ==
    \/ kind = "return" /\ ~inside_func
    \/ kind = "func" /\ (scopeDepth # 0 \/ inside_loop # 0 \/ inside_branch # 0)

OutOfPlace(kind) ==
    \/ kind = "return" /\ ~inside_func
    \/ kind \in {"break", "continue"} /\ inside_loop = 0
    \/ kind = "func" /\ (scopeDepth # 0 \/ inside_loop # 0 \/ inside_branch # 0)

Matches(kind) == ~OutOfPlace(kind) /\ TokenKind(lookahead) = kind

match ==
    /\ Doing("match")
    /\ IF Garbage(lookahead) THEN Exit("undefined")
       ELSE /\ Advance(Matches(Arg))
            /\ IF Matches(Arg)
               THEN /\ nl_flag' = tokens[lookahead].nl
                    /\ lookahead' = nextToken /\ next
               ELSE UNCHANGED cursor
            /\ UNCHANGED <<ignore_right_bracket, collect_funcs, context,
                           scopeDepth, labels, exit>>

CallInto(f, heed) ==
    IF Garbage(lookahead) THEN Exit("undefined")
    ELSE /\ stack' = Append([stack EXCEPT ![Len(stack)].todo = Tail(@)],
                            NewFrame(f, heed))
         /\ UNCHANGED <<cursor, ignore_right_bracket, collect_funcs, context,
                        scopeDepth, labels, exit>>

call == Doing("call") /\ CallInto(Arg, TRUE)

\* next_token throws away what CALL_PARAM_LIST returns.
call_params == Doing("call_params") /\ CallInto("CALL_PARAM_LIST", FALSE)

return ==
    /\ exit = "none" /\ Len(stack) > 1 /\ Top.todo = <<>>
    /\ LET caller == stack[Len(stack) - 1]
           ok == IF Top.heed THEN Top.s ELSE caller.s
       IN  stack' = Append(SubSeq(stack, 1, Len(stack) - 2),
                           [caller EXCEPT !.todo = Rest(@, ok), !.s = ok])
    /\ UNCHANGED <<cursor, ignore_right_bracket, collect_funcs, context,
                   scopeDepth, labels, exit>>

reject ==
    /\ Doing("reject") /\ Advance(FALSE)
    /\ UNCHANGED <<cursor, ignore_right_bracket, collect_funcs, context,
                   scopeDepth, labels, exit>>

nl_check ==
    /\ Doing("nl_check") /\ Advance(nl_flag)
    /\ UNCHANGED <<cursor, ignore_right_bracket, collect_funcs, context,
                   scopeDepth, labels, exit>>

\* The second name of a parameter; s is set again by the second match.
match_id_or_underscore ==
    /\ Doing("match_id_or_underscore")
    /\ IF Garbage(lookahead) THEN Exit("undefined")
       ELSE LET ok == TokenKind(lookahead) \in {"id", "underscore"}
            IN  /\ Advance(ok)
                /\ IF ok THEN /\ nl_flag' = tokens[lookahead].nl
                              /\ lookahead' = nextToken /\ next
                   ELSE UNCHANGED cursor
                /\ UNCHANGED <<ignore_right_bracket, collect_funcs, context,
                               scopeDepth, labels, exit>>

\* Without a ":" the argument starts at the identifier already matched.
match_colon_or_back ==
    /\ Doing("match_colon_or_back")
    /\ IF Garbage(lookahead) THEN Exit("undefined")
       ELSE /\ Advance(Top.s)
            /\ IF TokenKind(lookahead) = ":"
               THEN /\ nl_flag' = tokens[lookahead].nl
                    /\ lookahead' = nextToken /\ next
               ELSE /\ current' = current - 1 /\ lookahead' = current - 1
                    /\ UNCHANGED <<tokens, nl_flag>>
            /\ UNCHANGED <<ignore_right_bracket, collect_funcs, context,
                           scopeDepth, labels, exit>>
-----------------------------------------------------------------------------
(* parse_expr on one operand.  after_local_lookahead is tokens[current].   *)

next_token ==
    /\ Doing("next_token")
    /\ next
    /\ LET last == Top.local
       IN  SetTop([Advanced(Top, Top.s) EXCEPT
               !.local = current,
               !.line_ends = last # 0 /\ ~Garbage(last) /\ tokens[last].nl])
    /\ UNCHANGED <<lookahead, nl_flag, ignore_right_bracket, collect_funcs,
                   context, scopeDepth, labels, exit>>

\* An identifier before "(": a call, whatever newline is between the two.
\* "then" is what parse_expr does with the operand the call returns.
BeginCall(then) ==
    IF Garbage(current) THEN Exit("undefined")
    ELSE /\ next /\ lookahead' = nextToken
         /\ SetTop([Top EXCEPT !.todo = <<Do("call_params"), Do("call_end")>> \o then,
                               !.tmp = ignore_right_bracket])
         /\ ignore_right_bracket' = TRUE
         /\ UNCHANGED <<nl_flag, collect_funcs, context, scopeDepth, labels, exit>>

\* Mutant of RestoredIgnore: the flag is cleared after every call.
RestoredIgnore_off == FALSE

RestoredIgnore == Top.tmp

call_end ==
    /\ Doing("call_end")
    /\ \/ ~collect_funcs /\ MaySemanticExit
       \/ /\ next
          /\ SetTop([Advanced(Top, Top.s) EXCEPT !.local = lookahead])
          /\ ignore_right_bracket' = RestoredIgnore
          /\ UNCHANGED <<lookahead, nl_flag, collect_funcs, context, scopeDepth,
                         labels, exit>>

IsCall ==
    /\ TokenKind(Top.local) = "id"
    /\ Garbage(current) \/ TokenKind(current) = "("

GoOn(ok) ==
    /\ Advance(ok)
    /\ UNCHANGED <<cursor, ignore_right_bracket, collect_funcs, context,
                   scopeDepth, labels, exit>>

\* A parse_expr that fails returns at once and leaves the cursor where it is.
Fail ==
    /\ SetTop([Top EXCEPT !.todo = <<>>, !.s = FALSE])
    /\ UNCHANGED <<cursor, ignore_right_bracket, collect_funcs, context,
                   scopeDepth, labels, exit>>

operand ==
    /\ Doing("operand")
    /\ IF Garbage(Top.local) THEN Exit("undefined")
       ELSE CASE IsCall -> BeginCall(Tail(Top.todo))
              [] ~IsCall /\ TokenKind(Top.local) \in FirstOfExpr ->
                   \/ ~collect_funcs /\ TokenKind(Top.local) = "id" /\ MaySemanticExit
                   \/ GoOn(TRUE)
              [] OTHER -> Fail

\* Mutant of LastOfExpr: the newline is taken from the token after it.
LastOfExpr_next == current - 1

\* call_expr_parser steps back to it for its newline.
LastOfExpr == current - 2

\* The expression ends before local_lookahead, which becomes the lookahead.
EndOfExpr ==
    /\ SetTop(Advanced(Top, TRUE))
    /\ current' = current - 1 /\ lookahead' = current - 1
    /\ nl_flag' = tokens[LastOfExpr].nl
    /\ UNCHANGED <<tokens, ignore_right_bracket, collect_funcs, context,
                   scopeDepth, labels, exit>>

\* What follows the operand.  A newline before a token that cannot go on the
\* expression ends it; a second call is made before it is refused.
after_operand ==
    /\ Doing("after_operand")
    /\ IF Garbage(Top.local) THEN Exit("undefined")
       ELSE LET kind == TokenKind(Top.local)
            IN  CASE kind \in FirstOfExpr /\ Top.line_ends -> EndOfExpr
                  [] kind \in FirstOfExpr /\ ~Top.line_ends ->
                       IF IsCall THEN BeginCall(<<Do("fail")>>) ELSE Fail
                  [] kind = ")" /\ ~ignore_right_bracket -> Fail
                  [] OTHER -> EndOfExpr

fail == Doing("fail") /\ Fail
-----------------------------------------------------------------------------
(* The statements that do not touch the cursor *)

Here(op) ==
    /\ Doing(op) /\ Advance(Top.s)
    /\ UNCHANGED <<cursor, ignore_right_bracket, collect_funcs, exit>>

\* Checks of names and types: the compiler may stop here.
Checking ==
    \/ (Doing("check") \/ Doing("check_arg")) /\ ~collect_funcs
    \/ Doing("check_first_pass") /\ collect_funcs
    \/ Doing("check_both_passes")

check_fails == Checking /\ MaySemanticExit

check_passes ==
    \E op \in {"check", "check_arg", "check_first_pass", "check_both_passes"} :
        Here(op) /\ UNCHANGED <<context, scopeDepth, labels>>

\* check_func_param splits the argument, or the parameter list, into parts
\* that are not there: the argument of a failed EXPR has no type, a function
\* without parameters has no list.
bad_argument == Doing("check_arg") /\ ~collect_funcs /\ Exit("undefined")

needs_type ==
    /\ Doing("needs_type")
    /\ IF ~collect_funcs /\ TokenKind(lookahead - 1) # "type" THEN Exit("syntax")
       ELSE GoOn(TRUE)

\* After a refused FOR_ID the loop constant is the uninitialised for_id.
add_for_let ==
    /\ Doing("add_for_let")
    /\ \/ ~Top.s /\ Exit("undefined")
       \/ Top.s /\ MaySemanticExit
       \/ GoOn(Top.s)

has_return_true ==
    /\ Here("has_return") /\ has_return' = TRUE
    /\ UNCHANGED <<inside_func, returnsVoid, inside_loop, inside_branch,
                   scopeDepth, labels>>

enter_func ==
    /\ Here("enter_func") /\ inside_func' = TRUE /\ has_return' = FALSE
    /\ UNCHANGED <<returnsVoid, inside_loop, inside_branch, scopeDepth, labels>>

leave_func ==
    /\ Here("leave_func") /\ inside_func' = FALSE
    /\ UNCHANGED <<has_return, returnsVoid, inside_loop, inside_branch,
                   scopeDepth, labels>>

return_type ==
    /\ \/ Here("void") /\ returnsVoid' = TRUE
       \/ Here("typed") /\ returnsVoid' = FALSE
    /\ UNCHANGED <<inside_func, has_return, inside_loop, inside_branch,
                   scopeDepth, labels>>

\* Mutant of Missing: the function that returns a value is the one let off.
Missing_swapped == returnsVoid /\ ~has_return

Missing == ~returnsVoid /\ ~has_return

end_of_func ==
    /\ Doing("end_of_func")
    /\ IF Missing THEN Exit("semantic") ELSE GoOn(TRUE)

scope ==
    /\ \/ /\ Here("increase_scope") \/ Here("increase_inner_scope")
          /\ scopeDepth' = scopeDepth + 1
       \/ /\ Here("decrease_scope") \/ Here("decrease_inner_scope")
          /\ scopeDepth' = scopeDepth - 1
    /\ UNCHANGED <<context, labels>>

loop ==
    /\ \/ Here("enter_loop") /\ inside_loop' = inside_loop + 1
       \/ Here("leave_loop") /\ inside_loop' = inside_loop - 1
    /\ UNCHANGED <<inside_func, has_return, returnsVoid, inside_branch,
                   scopeDepth, labels>>

branch ==
    /\ \/ Here("enter_branch") /\ inside_branch' = inside_branch + 1
       \/ Here("leave_branch") /\ inside_branch' = inside_branch - 1
    /\ UNCHANGED <<inside_func, has_return, returnsVoid, inside_loop,
                   scopeDepth, labels>>

ignore ==
    /\ \/ Doing("ignore_on") /\ ignore_right_bracket' = TRUE
       \/ Doing("ignore_off") /\ ignore_right_bracket' = FALSE
    /\ Advance(Top.s)
    /\ UNCHANGED <<cursor, collect_funcs, context, scopeDepth, labels, exit>>
-----------------------------------------------------------------------------
(* codegen.c: the labels of loops and branches.  The first pass has none.  *)

Generates(op) == Here(op) /\ ~collect_funcs /\ UNCHANGED <<context, scopeDepth>>

generates_nothing ==
    /\ collect_funcs
    /\ \E op \in {"gen_while_start", "gen_for_start", "gen_loop_end",
                  "gen_branch_labels", "gen_skip_label", "gen_branch_if_end",
                  "gen_branch_end", "gen_break", "gen_continue"} : Here(op)
    /\ UNCHANGED <<context, scopeDepth, labels>>

Last(stk) == stk[Len(stk)]
Popped(stk) == SubSeq(stk, 1, Len(stk) - 1)

LoopStart(is_for) ==
    /\ cycle_type_stack' = Append(cycle_type_stack, current_loop_is_for)
    /\ current_loop_is_for' = is_for
    /\ loop_label_stack' = IF current_loop = 0 THEN loop_label_stack
                           ELSE Append(loop_label_stack, current_loop)
    /\ current_loop' = Top.at
    /\ UNCHANGED branch_label_stack

gen_while_start == Generates("gen_while_start") /\ LoopStart(FALSE)

gen_for_start == Generates("gen_for_start") /\ LoopStart(TRUE)

\* Mutant of OuterLoop: the labels go back to the outer loop, its kind does not.
OuterLoop_kind_kept ==
    /\ current_loop' = IF loop_label_stack = <<>> THEN 0 ELSE Last(loop_label_stack)
    /\ loop_label_stack' = IF loop_label_stack = <<>> THEN <<>> ELSE Popped(loop_label_stack)
    /\ cycle_type_stack' = Popped(cycle_type_stack)
    /\ UNCHANGED current_loop_is_for

OuterLoop ==
    /\ current_loop' = IF loop_label_stack = <<>> THEN 0 ELSE Last(loop_label_stack)
    /\ loop_label_stack' = IF loop_label_stack = <<>> THEN <<>> ELSE Popped(loop_label_stack)
    /\ current_loop_is_for' = Last(cycle_type_stack)
    /\ cycle_type_stack' = Popped(cycle_type_stack)

\* gen_while_end and gen_for_end.
gen_loop_end ==
    Generates("gen_loop_end") /\ OuterLoop /\ UNCHANGED branch_label_stack

gen_jump == \E op \in {"gen_break", "gen_continue"} : Generates(op) /\ UNCHANGED labels

PushLabels(new) ==
    /\ branch_label_stack' = branch_label_stack \o new
    /\ UNCHANGED <<current_loop, current_loop_is_for, loop_label_stack, cycle_type_stack>>

PopLabel ==
    /\ branch_label_stack' = Popped(branch_label_stack)
    /\ UNCHANGED <<current_loop, current_loop_is_for, loop_label_stack, cycle_type_stack>>

\* gen_branch_labels(true) is gen_branch_labels here, gen_branch_labels(false)
\* gen_skip_label.
gen_branch_labels ==
    \/ /\ Generates("gen_branch_labels")
       /\ PushLabels(<< <<"end", Top.at>>, <<"skip", Top.at>> >>)
    \/ /\ Generates("gen_skip_label") /\ PushLabels(<< <<"skip", Top.at>> >>)

gen_branch_if_end == Generates("gen_branch_if_end") /\ PopLabel

gen_branch_end == Generates("gen_branch_end") /\ PopLabel
-----------------------------------------------------------------------------
Stopped == exit # "none" /\ UNCHANGED vars

Next ==
    \/ StartPass \/ EndOfPass
    \/ match \/ call \/ call_params \/ return \/ reject \/ nl_check
    \/ match_id_or_underscore \/ match_colon_or_back
    \/ next_token \/ operand \/ call_end \/ after_operand \/ fail
    \/ check_fails \/ check_passes \/ bad_argument \/ needs_type \/ add_for_let
    \/ has_return_true \/ enter_func \/ leave_func \/ return_type \/ end_of_func
    \/ scope \/ loop \/ branch \/ ignore
    \/ gen_while_start \/ gen_for_start \/ gen_loop_end \/ gen_jump
    \/ gen_branch_labels \/ gen_branch_if_end \/ gen_branch_end
    \/ generates_nothing
    \/ Stopped

Spec == Init /\ [][Next]_vars

\* One thread, and no statement waits: the compiler goes on while it can.
FairSpec == Spec /\ WF_vars(Next)
-----------------------------------------------------------------------------
(* What the parser promises, see also module ParserProperties *)

\* Types; the depths of parser.c never go below zero.
TypeOK ==
    /\ \E v \in Vocabulary : tokens \in Programs(v)
    /\ {current, lookahead} \subseteq 0 .. Len(tokens) + 1
    /\ stack \in Seq(Frame)
    /\ {nl_flag, ignore_right_bracket, collect_funcs, inside_func, has_return,
        returnsVoid, current_loop_is_for} \subseteq BOOLEAN
    /\ {inside_loop, inside_branch, scopeDepth, current_loop} \subseteq Nat
    /\ loop_label_stack \in Seq(Nat) /\ cycle_type_stack \in Seq(BOOLEAN)
    /\ branch_label_stack \in Seq({"end", "skip"} \X Nat)
    /\ exit \in {"none", "success", "syntax", "semantic", "undefined"}

\* A block of an if is ended with the skip label of that if, and the jump out
\* of it goes to the end label of the first if of its chain.
BranchLabelsNest ==
    ~collect_funcs =>
        /\ Doing("gen_branch_if_end") =>
             /\ Len(branch_label_stack) > 1
             /\ Last(branch_label_stack) = <<"skip", Top.at>>
             /\ LET chain == {i \in 1 .. Len(stack) : stack[i].fn = "BRANCH"}
                    inner == CHOOSE i \in chain : \A j \in chain : j <= i
                IN  Last(Popped(branch_label_stack)) = <<"end", stack[inner].at>>
        /\ Doing("gen_branch_end") /\ Top.s =>
             branch_label_stack # <<>> /\ Last(branch_label_stack) = <<"end", Top.at>>

\* A pass that accepts the program leaves every global as it found it, and the
\* second pass starts with the globals the first one started with.
PassRestoresGlobals ==
    exit = "none" /\ Len(stack) = 1 /\ Top.todo = <<>> /\ Top.s =>
        /\ ~inside_func /\ inside_loop = 0 /\ inside_branch = 0 /\ scopeDepth = 0
        /\ ~ignore_right_bracket
        /\ current_loop = 0 /\ ~current_loop_is_for
        /\ loop_label_stack = <<>> /\ cycle_type_stack = <<>> /\ branch_label_stack = <<>>

\* Where an operand ends, ")" ends the expression exactly inside the brackets
\* of a call, however calls are nested and whatever became of the inner ones.
BracketEndsArguments ==
    Doing("after_operand") =>
        (ignore_right_bracket <=> \E i \in 1 .. Len(stack) :
            stack[i].fn = "CALL_PARAM_LIST" \/ (stack[i].fn = "NEXT_ID_CALL_OR_ASSIGN"
                                                 /\ tokens[stack[i].at].kind = "("))
=============================================================================
