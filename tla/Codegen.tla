------------------------------- MODULE Codegen -------------------------------
(***************************************************************************)
(* src/src/parts/codegen/codegen.c as the second pass of                   *)
(* src/src/parts/parser/parser.c drives it: the IFJcode23 program that is  *)
(* written for a source program.  One step is a statement, or the end of a *)
(* block, that the parser and the symbol table accept; the text is chosen  *)
(* as it is read.                                                          *)
(*                                                                         *)
(* Abstractions.  A condition is one operand that may be true or false;    *)
(* a range is one of Ranges; the values of variables are left out where no *)
(* range comes of them.  Of the expressions' code only what pushes their   *)
(* result is here (module Expr has the rest).                              *)
(***************************************************************************)
EXTENDS Integers, SequencesExt

CONSTANTS
    Function,   \* the names of functions
    Parameters, \* the names of the parameters of each
    Vocabulary  \* what the programs are made of, see CodegenAssumption

Statement == {"func", "value_func", "if", "else", "else if", "while", "for", "break",
              "continue", "return", "call", "declare", "nillable", "if let", "write"}

\* Bounds on the programs.  A program has at most max statements.  Only if
\* leaves_for, a return leaves a for loop; only if falls_through, a function with
\* a value may end otherwise than by a return; only if replaces, the constant of
\* an "if let" is replaced by one that may be nil.
ASSUME CodegenAssumption ==
    /\ Function \subseteq STRING \ {"write", "$$main"}
    /\ Parameters \in [Function -> Seq(STRING)]
    /\ \A v \in Vocabulary :
          /\ v.statements \subseteq Statement /\ v.max \in Nat
          /\ {v.leaves_for, v.falls_through, v.replaces} \subseteq BOOLEAN

VARIABLES
    code,               \* the instructions written
    label,              \* the number of the next unique label
    branch_label_stack, loop_label_stack, cycle_type_stack,
    current_loop,       \* current_loop_start_label and current_loop_end_label
    current_loop_is_for,
    used_vars, global_vars, array_stack,
    open,               \* the blocks the parser is in, with their own labels
    scope,              \* get_scope
    declared,           \* the variables in scope, with the kind of each
    has_return,
    ended,              \* after return, break and continue a block must end
    length,             \* history: how many statements were read
    called, defined,    \* history: the functions called, and those defined
    loops,              \* history: where the code of each for loop is
    sure,               \* history: where variables are read that may not be nil
    vocabulary          \* the one the program is made of

stacks == <<branch_label_stack, loop_label_stack, cycle_type_stack, current_loop,
            current_loop_is_for>>
frame_vars == <<used_vars, global_vars, array_stack>>
context == <<open, scope, declared, has_return>>
codegen == <<code, label, stacks, frame_vars, context, ended, length, called, defined, loops,
             sure, vocabulary>>
-----------------------------------------------------------------------------
(* Operands are constants, or variables by name and scope; scope 0 is GF. *)

Constant(n) == <<"int", n>>
true == Constant(1)
nil == <<"nil", 0>>
Condition == <<"condition", 0>>
Maybe == <<"maybe", 0>> \* nil or not
for_counter_reg == <<"$FOR_COUNTER", 0>>
for_max_val == <<"$FOR_MAX_VAL", 0>>
ret_reg == <<"$RET", 0>>
cond_reg == <<"$COND", 0>>
A == <<"$A", 0>>
registers == {for_counter_reg, for_max_val, ret_reg, cond_reg, A}

\* A unique label; functions are labels too, without a number.
Label(prefix, n) == <<prefix, n>>
Entry(f) == <<f, -1>>
NoLoop == <<>>

\* The ranges of for loops, "i in 0 ..< 1" and "_ in 1 ... 2": the variables, the
\* first value, and the end as it is written.
Ranges == {[names |-> {"i"}, low |-> 0, high |-> 1, open |-> TRUE],
           [names |-> {}, low |-> 1, high |-> 2, open |-> FALSE]}

\* What the symbol table says of a variable: it is "plain", never nil;
\* "nillable"; or "unwrapped", the constant of an "if let", which is not nil and
\* which one declaration may replace.
None == [x \in {} |-> "plain"]
All(xs, kind) == [x \in xs |-> kind]
Over(f, g) == [x \in DOMAIN f \cup DOMAIN g |-> IF x \in DOMAIN f THEN f[x] ELSE g[x]]
Within(depth) == Restrict(declared, {x \in DOMAIN declared : x[2] <= depth})

AddUnique(seq, x) == IF x \in ToSet(seq) THEN seq ELSE Append(seq, x)

\* gen_var_name has the name x of a variable defined where its frame is made.
gen_var_name(x) ==
    /\ used_vars' = IF x[2] = 0 THEN used_vars ELSE AddUnique(used_vars, x)
    /\ global_vars' = IF x[2] = 0 THEN AddUnique(global_vars, x) ELSE global_vars
    /\ UNCHANGED array_stack

gen_line(lines) == code' = code \o lines

Defvars(xs) == [i \in DOMAIN xs |-> <<"DEFVAR", xs[i]>>]

gen_return(void_return) ==
    (IF void_return THEN <<>> ELSE <<<<"POPS", ret_reg>>>>) \o <<<<"POPFRAME">>, <<"RETURN">>>>

\* The library: of its functions only write, which begins in front of main.
gen_std_functions ==
    <<<<"LABEL", Entry("write")>>, <<"POPS", A>>, <<"RETURN">>, <<"LABEL", Entry("$$main")>>>>

Init ==
    /\ code = <<<<"JUMP", Entry("$$main")>>>> \o gen_std_functions
              \o <<<<"CREATEFRAME">>, <<"PUSHFRAME">>, <<"JUMP", Label("main_defvar", 0)>>,
                   <<"LABEL", Label("main_defvar_back", 1)>>>>
    /\ label = 2
    /\ branch_label_stack = <<>> /\ loop_label_stack = <<>> /\ cycle_type_stack = <<>>
    /\ current_loop = NoLoop /\ current_loop_is_for = FALSE
    /\ used_vars = <<>> /\ global_vars = <<>> /\ array_stack = <<>>
    /\ open = <<>> /\ scope = 0 /\ declared = None /\ has_return = FALSE /\ ended = FALSE
    /\ length = 0 /\ called = {} /\ defined = {} /\ loops = {} /\ sure = {}
    /\ vocabulary \in Vocabulary
-----------------------------------------------------------------------------
(* The context of a statement *)

InFunction == open # <<>> /\ open[1].what \in {"func", "value_func"}
InLoop == \E i \in DOMAIN open : open[i].what \in {"while", "for"}
InFor == \E i \in DOMAIN open : open[i].what = "for"

\* The next statement is of kind s.  Past the bound a program is only completed.
Completes(s) ==
    /\ ~ended /\ s \in vocabulary.statements
    /\ length' = length + 1
    /\ UNCHANGED vocabulary

Reads(s) == length < vocabulary.max /\ Completes(s)

\* A block of one or more scopes begins, with variables, and ends.
Block(what, depth, variables, labels) ==
    /\ open' = Append(open, [what |-> what, depth |-> depth, labels |-> labels])
    /\ scope' = scope + depth
    /\ declared' = Over(variables, declared)

Closes(what) == open # <<>> /\ Last(open).what = what

BlockEnd ==
    /\ open' = Front(open)
    /\ scope' = scope - Last(open).depth
    /\ declared' = Within(scope')
    /\ ended' = FALSE
    /\ UNCHANGED <<length, vocabulary>>
-----------------------------------------------------------------------------
(* Functions *)

Arity(f) == Len(Parameters[f])
Params(f) == [i \in 1 .. Arity(f) |-> <<Parameters[f][i], 1>>]

\* The head of a function, to its "{".  Its variables are defined behind its
\* code, when they are known.
FuncDecl(f, what) ==
    LET skip == Label("skip", label)
        defvar == Label("defvar", label + 1)
        defvar_back == Label("defvar_back", label + 2)
    IN  /\ open = <<>> /\ f \notin defined
        /\ IF f \in called THEN Completes(what) ELSE Reads(what)
        /\ gen_line(<<<<"JUMP", skip>>, <<"LABEL", Entry(f)>>, <<"CREATEFRAME">>, <<"PUSHFRAME">>,
                      <<"JUMP", defvar>>, <<"LABEL", defvar_back>>>>
                    \o Reverse([i \in DOMAIN Params(f) |-> <<"POPS", Params(f)[i]>>]))
        /\ label' = label + 3
        /\ array_stack' = Append(array_stack, used_vars) /\ used_vars' = Params(f)
        /\ Block(what, 2, All(ToSet(Params(f)), "plain"), <<skip, defvar, defvar_back>>)
        /\ defined' = defined \cup {f} /\ has_return' = FALSE
        /\ UNCHANGED <<stacks, global_vars, ended, called, loops, sure>>

\* Mutant of DefinedVars: the variables of main stay those of the function.
DefinedVars_kept == used_vars

\* gen_used_vars goes back to the variables of the frame around.
DefinedVars == Last(array_stack)

FuncEnd(what) ==
    LET labels == Last(open).labels
        def_skip == Label("def_skip", label)
    IN  /\ Closes(what)
        /\ what = "value_func" => has_return /\ (vocabulary.falls_through \/ ended)
        /\ gen_line(<<<<"JUMP", def_skip>>, <<"LABEL", labels[2]>>>> \o Defvars(used_vars)
                    \o <<<<"JUMP", labels[3]>>, <<"LABEL", def_skip>>>>
                    \o (IF what = "func" THEN gen_return(TRUE) ELSE <<>>)
                    \o <<<<"LABEL", labels[1]>>>>)
        /\ label' = label + 1
        /\ used_vars' = DefinedVars /\ array_stack' = Front(array_stack)
        /\ BlockEnd
        /\ UNCHANGED <<stacks, global_vars, has_return, called, defined, loops, sure>>

Return ==
    /\ Completes("return") /\ InFunction /\ (InFor => vocabulary.leaves_for)
    /\ gen_line(IF open[1].what = "func" THEN gen_return(TRUE)
                ELSE <<<<"PUSHS", Constant(0)>>>> \o gen_return(FALSE))
    /\ has_return' = TRUE /\ ended' = TRUE
    /\ UNCHANGED <<label, stacks, frame_vars, open, scope, declared, called, defined, loops, sure>>

\* A call, as a statement, of a function that the first pass has found: it may
\* be defined further down.
Call(f) ==
    /\ Reads("call")
    /\ gen_line([i \in 1 .. Arity(f) |-> <<"PUSHS", Constant(0)>>] \o <<<<"CALL", Entry(f)>>>>)
    /\ called' = called \cup {f}
    /\ UNCHANGED <<label, stacks, frame_vars, context, ended, defined, loops, sure>>
-----------------------------------------------------------------------------
(* Variables *)

\* A declaration of x.  If it replaces the constant of an "if let", the entry of
\* the symbol table keeps its type.
Replaces(x) == x \in DOMAIN declared
Declares(x, kind) ==
    /\ Replaces(x) => declared[x] = "unwrapped"
    /\ declared' = Over(All({x}, IF Replaces(x) THEN "plain" ELSE kind), declared)
    /\ gen_var_name(x)
    /\ UNCHANGED <<label, stacks, open, scope, has_return, ended, called, defined, loops, sure>>

Declare(x) ==
    /\ Reads("declare")
    /\ gen_line(<<<<"PUSHS", Constant(0)>>, <<"POPS", x>>>>)
    /\ Declares(x, "plain")

\* With a type that allows nil; it may be given a value.
DeclareNillable(x) ==
    /\ Reads("nillable") /\ (Replaces(x) => vocabulary.replaces)
    /\ \E value \in {<<>>, <<<<"PUSHS", Maybe>>, <<"POPS", x>>>>} :
          gen_line(<<<<"MOVE", x, nil>>>> \o value)
    /\ Declares(x, "nillable")

\* x is the innermost variable of its name, of those in scope.
Innermost(x, in_scope) == x \in in_scope /\ \A y \in in_scope : y[1] = x[1] => y[2] <= x[2]

Write(x) ==
    /\ Reads("write") /\ Innermost(x, DOMAIN declared)
    /\ gen_line(<<<<"PUSHS", x>>, <<"CALL", Entry("write")>>>>)
    /\ sure' = IF declared[x] = "nillable" THEN sure ELSE sure \cup {Len(code) + 1}
    /\ gen_var_name(x)
    /\ UNCHANGED <<label, stacks, context, ended, called, defined, loops>>
-----------------------------------------------------------------------------
(* Branches *)

Branch(skip) == <<<<"PUSHS", Condition>>, <<"PUSHS", true>>, <<"JUMPIFNEQS", skip>>>>

\* A branch is taken on a condition, or on a constant that is not nil.
NoLet == <<>>
Tests(in_scope) ==
    {NoLet} \cup {x \in in_scope : declared[x] = "nillable" /\ Innermost(x, in_scope)}
Unwrapped(test, depth) == <<test[1], depth>>

\* BR_EXPR, whose block is in the scope depth.
BR_EXPR(test, depth) ==
    /\ test # NoLet => "if let" \in vocabulary.statements
    /\ IF test = NoLet THEN UNCHANGED frame_vars ELSE gen_var_name(Unwrapped(test, depth))

TestCode(test, depth, skip) ==
    IF test = NoLet THEN Branch(skip)
    ELSE <<<<"PUSHS", test>>, <<"MOVE", Unwrapped(test, depth), test>>,
           <<"POPS", cond_reg>>, <<"JUMPIFEQ", skip, cond_reg, nil>>>>

Binds(test, depth) == IF test = NoLet THEN None ELSE All({Unwrapped(test, depth)}, "unwrapped")

If(test) ==
    LET end == Label("branch_end", label)
        skip == Label("branch_skip", label + 1)
    IN  /\ Reads("if") /\ BR_EXPR(test, scope + 1)
        /\ branch_label_stack' = branch_label_stack \o <<end, skip>>
        /\ gen_line(TestCode(test, scope + 1, skip)) /\ label' = label + 2
        /\ Block("if", 1, Binds(test, scope + 1), <<>>)
        /\ UNCHANGED <<loop_label_stack, cycle_type_stack, current_loop, current_loop_is_for,
                       has_return, ended, called, defined, loops, sure>>

BranchEnd == branch_label_stack[Len(branch_label_stack) - 1]

gen_branch_if_end == <<<<"JUMP", BranchEnd>>, <<"LABEL", Last(branch_label_stack)>>>>

Unbranched == <<loop_label_stack, cycle_type_stack, current_loop, current_loop_is_for,
                has_return, called, defined, loops, sure>>

IfEnd ==
    /\ Closes("if")
    /\ gen_line(gen_branch_if_end \o
                <<<<"LABEL", BranchEnd>>>>)
    /\ branch_label_stack' = Front(Front(branch_label_stack))
    /\ BlockEnd
    /\ UNCHANGED <<label, frame_vars, Unbranched>>

\* "} else {" and "} else if".
Else ==
    /\ Closes("if") /\ "else" \in vocabulary.statements /\ length < vocabulary.max
    /\ gen_line(gen_branch_if_end)
    /\ branch_label_stack' = Front(branch_label_stack)
    /\ open' = Append(Front(open), [Last(open) EXCEPT !.what = "else"])
    /\ declared' = Within(scope - 1)
    /\ ended' = FALSE /\ length' = length + 1
    /\ UNCHANGED <<label, scope, frame_vars, vocabulary, Unbranched>>

ElseIf(test) ==
    LET skip == Label("branch_skip", label)
    IN  /\ Closes("if") /\ "else if" \in vocabulary.statements /\ length < vocabulary.max
        /\ BR_EXPR(test, scope)
        /\ gen_line(gen_branch_if_end \o TestCode(test, scope, skip)) /\ label' = label + 1
        /\ branch_label_stack' = Append(Front(branch_label_stack), skip)
        /\ declared' = Over(Binds(test, scope), Within(scope - 1))
        /\ ended' = FALSE /\ length' = length + 1
        /\ UNCHANGED <<open, scope, vocabulary, Unbranched>>

ElseEnd ==
    /\ Closes("else")
    /\ gen_line(<<<<"LABEL", Last(branch_label_stack)>>>>)
    /\ branch_label_stack' = Front(branch_label_stack)
    /\ BlockEnd
    /\ UNCHANGED <<label, frame_vars, Unbranched>>
-----------------------------------------------------------------------------
(* Loops *)

\* gen_while_start and gen_for_start, but for the line they write.
LoopStart(is_for, start, end) ==
    /\ cycle_type_stack' = Append(cycle_type_stack, current_loop_is_for)
    /\ current_loop_is_for' = is_for
    /\ loop_label_stack' = loop_label_stack \o current_loop
    /\ current_loop' = <<start, end>>
    /\ label' = label + 2
    /\ UNCHANGED branch_label_stack

\* Mutant of OuterLoop: only the end of the loop around is brought back.
OuterLoop_end == IF loop_label_stack = <<>> THEN NoLoop ELSE <<current_loop[1], Last(loop_label_stack)>>

OuterLoop ==
    IF loop_label_stack = <<>> THEN NoLoop
    ELSE SubSeq(loop_label_stack, Len(loop_label_stack) - 1, Len(loop_label_stack))

LoopEnd ==
    /\ current_loop' = OuterLoop
    /\ loop_label_stack' =
          IF loop_label_stack = <<>> THEN <<>> ELSE Front(Front(loop_label_stack))
    /\ current_loop_is_for' = Last(cycle_type_stack)
    /\ cycle_type_stack' = Front(cycle_type_stack)
    /\ UNCHANGED branch_label_stack

While ==
    LET start == Label("while_start", label)
        end == Label("while_end", label + 1)
    IN  /\ Reads("while")
        /\ LoopStart(FALSE, start, end)
        /\ gen_line(<<<<"LABEL", start>>>> \o Branch(end))
        /\ Block("while", 1, None, <<>>)
        /\ UNCHANGED <<frame_vars, has_return, ended, called, defined, loops, sure>>

WhileEnd ==
    /\ Closes("while")
    /\ gen_line(<<<<"JUMP", current_loop[1]>>, <<"LABEL", current_loop[2]>>>>)
    /\ LoopEnd /\ BlockEnd
    /\ UNCHANGED <<label, frame_vars, has_return, called, defined, loops, sure>>

\* Mutant of gen_for_range_save: only the counter is saved.
gen_for_range_save_half == <<<<"PUSHS", for_counter_reg>>, <<"PUSHS", for_counter_reg>>>>

gen_for_range_save == <<<<"PUSHS", for_counter_reg>>, <<"PUSHS", for_max_val>>>>

gen_for_range_restore == <<<<"POPS", for_max_val>>, <<"POPS", for_counter_reg>>>>

gen_for_range(open_range) ==
    (IF open_range THEN <<>> ELSE <<<<"PUSHS", Constant(1)>>, <<"ADDS">>>>)
    \o <<<<"POPS", for_max_val>>, <<"POPS", for_counter_reg>>>>

gen_for_next == <<<<"ADD", for_counter_reg>>, <<"JUMP", current_loop[1]>>>>

For(range) ==
    LET start == Label("for_start", label)
        end == Label("for_end", label + 1)
        x == <<"i", scope + 1>>
        head == gen_for_range_save
                \o <<<<"PUSHS", Constant(range.low)>>, <<"PUSHS", Constant(range.high)>>>>
                \o gen_for_range(range.open)
    IN  /\ Reads("for")
        /\ LoopStart(TRUE, start, end)
        /\ gen_line(head \o <<<<"LABEL", start>>, <<"JUMPIFEQ", end, for_counter_reg, for_max_val>>>>
                    \o (IF range.names = {} THEN <<>> ELSE <<<<"MOVE", x, for_counter_reg>>>>))
        /\ IF range.names = {} THEN UNCHANGED frame_vars ELSE gen_var_name(x)
        /\ Block("for", 2, All({<<n, scope + 1>> : n \in range.names}, "plain"), <<range, Len(code) + Len(head) + 1>>)
        /\ UNCHANGED <<has_return, ended, called, defined, loops, sure>>

ForEnd ==
    LET range == Last(open).labels[1]
    IN  /\ Closes("for")
        /\ gen_line(gen_for_next \o <<<<"LABEL", current_loop[2]>>>> \o gen_for_range_restore)
        /\ loops' = loops \cup
              {[from |-> Last(open).labels[2], to |-> Len(code) + 3, low |-> range.low,
                limit |-> range.high + IF range.open THEN 0 ELSE 1]}
        /\ LoopEnd /\ BlockEnd
        /\ UNCHANGED <<label, frame_vars, has_return, called, defined, sure>>

Break ==
    /\ Reads("break") /\ InLoop
    /\ gen_line(<<<<"JUMP", current_loop[2]>>>>)
    /\ ended' = TRUE
    /\ UNCHANGED <<label, stacks, frame_vars, context, called, defined, loops, sure>>

\* Mutant of Continued: in a for loop, too, it only goes to the start.
Continued_start == <<<<"JUMP", current_loop[1]>>>>

Continued == IF current_loop_is_for THEN gen_for_next ELSE <<<<"JUMP", current_loop[1]>>>>

Continue ==
    /\ Reads("continue") /\ InLoop
    /\ gen_line(Continued)
    /\ ended' = TRUE
    /\ UNCHANGED <<label, stacks, frame_vars, context, called, defined, loops, sure>>
-----------------------------------------------------------------------------
Statements ==
    \/ \E f \in Function :
          \/ \E what \in {"func", "value_func"} : FuncDecl(f, what)
          \/ Call(f)
    \/ \E what \in {"func", "value_func"} : FuncEnd(what)
    \/ Return
    \/ Declare(<<"x", scope>>) \/ DeclareNillable(<<"x", scope>>)
    \/ \E x \in DOMAIN declared : Write(x)
    \/ \E test \in Tests(DOMAIN declared) : If(test)
    \/ \E test \in Tests(DOMAIN Within(scope - 1)) : ElseIf(test)
    \/ IfEnd \/ Else \/ ElseEnd
    \/ While \/ WhileEnd
    \/ \E range \in Ranges : For(range)
    \/ ForEnd
    \/ Break \/ Continue

\* The end of the file: the frame of main is left, and its variables and those
\* of GF are defined behind all the code.
FileEnd ==
    LET main_def_skip == Label("main_def_skip", label)
    IN  /\ open = <<>> /\ called \subseteq defined
        /\ gen_line(<<<<"POPFRAME">>, <<"JUMP", main_def_skip>>, <<"LABEL", Label("main_defvar", 0)>>>>
                    \o Defvars(used_vars) \o Defvars(global_vars)
                    \o <<<<"JUMP", Label("main_defvar_back", 1)>>, <<"LABEL", main_def_skip>>>>)
        /\ label' = label + 1
        /\ UNCHANGED <<stacks, frame_vars, context, ended, length, called, defined, loops, sure, vocabulary>>
=============================================================================
