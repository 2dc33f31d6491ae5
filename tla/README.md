# IFJ23 compiler: TLA+ models, checks and proofs

TLA+ modules that model the compiler in `src/` (a C program that translates
IFJ23, a subset of Swift, to IFJcode23), the TLC configurations that check them
on small instances, and proofs checked by TLAPS. `PROJECT.json` lists components,
runs, the source lines behind each definition, hazards, findings and theorems.

## The system

The compiler reads the whole program from standard input, turns it into an array
of tokens, and parses that array **twice** with one recursive-descent parser. The
first pass (`collect_funcs`) only collects the functions; the second checks names
and types and prints code as it goes. Any error ends the process with its code.
Everything is sequential. What is hard is state shared by hand: globals set and
reset around recursive calls, stacks that must stay in step with the text, a
cursor stepped back and forth, and flags left over from the first pass.

| component | state | operations | talks to |
|---|---|---|---|
| main (`main.c`) | - | two calls of `S()`, a reset of the cursor between | scanner, parser |
| scanner (`scanner.c`) | automaton state, lexeme, comment depth | one pass over the source | source file, token array |
| token array (`token.c`) | tokens, cursor | add, set_nl_after, next, prev, reset | scanner fills it, both parsers move its cursor |
| parser (`parser.c`) | lookahead, `nl_flag`, `inside_func`, `has_return`, `inside_loop`, `inside_branch`, current function | one function per grammar rule | expression parser, symbol table, code generator |
| expression parser (`expr_parser.c`) | pushdown stack, two lookaheads, bracket count, `ignore_right_bracket` | shift, reduce, accept, error | is called by the parser, and calls it back for the arguments of a call |
| symbol table (`symtable.c`) | current scope, two stacks of scopes, `scopeDepth`, functions | enter and leave a scope, add and get variables, constants, functions | both parsers write declarations through the pointers it returns |
| search tree (`symtable.c`) | nodes with heights | add, find, rotations | one tree is one scope |
| code generator (`codegen.c`) | label stacks of loops and branches, labels of the current loop, variables used in the frame | prints lines | called by both parsers, silent in the first pass |
| stack, dynamic array, strings, memory registry (`utils/`) | - | containers; every allocation is registered and freed at exit | all |
| interpreter (`bin/ic23int`) | data stack, frames, registers | runs the printed code | external |
| generator scripts (`gen_scripts/`) | - | the LL(1) grammar and the precedence table | produced parts of the two parsers |

What makes each correct: a look-up answers the innermost declaration and loses no
scope (symbol table); the tree finds what was added (search tree); the language
accepted is the grammar and the globals describe the position in the text
(parser); operators are evaluated by precedence and well-typed expressions run
without a type error (expression parser); jumps go to the labels of the statement
they belong to, and the program that is written runs without an error of the interpreter
(code generator); reads stay inside the array (token array); the text is cut into its
longest tokens and no newline that separates is lost (scanner).

## Modules

| module | models | runs |
|---|---|---|
| `Scopes` | the abstract symbol table: a stack of scopes with an atomic look-up | through `Symtable` |
| `Symtable` | `symtable.c` above the trees; the walk of `symtable_find` one loop iteration at a time | `symtable` |
| `SymtableProofs` | the refinement, theorems about the walks of `Symtable`, and what the declarations keep true | - |
| `SearchTree` | the trees of `symtable.c` with their heights and rotations | `searchtree` |
| `Scanner` | `scanner.c` with `source_file.c` and the filling of the token array | `scanner`, `scanner_newline` |
| `Lexemes`, `ScannerProperties` | an independent definition of tokens, and what the scanner promises | the same |
| `ScannerProofs` | the tokens of `Scanner`, for every text | - |
| `Parser` | `parser.c`, the token cursor, the calls of `expr_parser.c`, the label stacks of `codegen.c` | four `parser_*` runs |
| `Grammar`, `ParserProperties` | the language of `gen_scripts/grammar` by substitution, and what the parser promises about it | the same |
| `CallStack`, `ParserProofs` (extends it) | what the functions of `Parser` and the call stack owe, and the theorems | - |
| `Expr` | `expr_parser.c` with its type checks, and the run of the code it prints | `expr`, `expr_nil_coalescing` |
| `Uses` (extends `Expr`) | what statements do with the value: the type checks of `parser.c` and `check_func_param`, and the code they print; type safety | the same |
| `ExprProperties` | an independent definition of expressions, and what `Expr` and `Uses` promise about it | the same |
| `ExprProofs` | the lay-out of the pushdown stack of `Expr`, for every expression; well-typed expressions run without a type error | - |
| `Codegen` | `codegen.c` as the second pass drives it: the program that is written | through `Machine` |
| `Machine` (extends `Codegen`) | the interpreter that runs it | `machine`, `machine_return` |
| `MachineProperties` | what the programs do when they run | the same |
| `CodeProofs`, `StatementProofs` (extends it) | what each piece of code leads to; the code of every program is right at each of its instructions | - |
| `MachineProofs` (extends it) | what every program does when it runs | - |
| `MC*` | constants for TLC | |

### Symtable and Scopes

`currentScope`, `scopeStack`, `tmpScopeStack`, `scopeDepth` are the variables of the
code; a tree is a function from names to declarations (`SearchTree` justifies that).
`find` is the stack frame of `symtable_find`: `Descend` and `Ascend` are iterations
of its two loops, `TurnBack` the step between them, `ReturnGet` and
`ReturnRedeclare` its callers. `ret` is the pointer the caller received; the parser
uses it before its next call, and `SetInited` is the assignment it makes through
it. The actions of the environment are any order of the operations the parser
calls. `Abstract == INSTANCE Scopes WITH scopes <- OpenScopes, answer <- ret` is the
refinement mapping: scope i is on `scopeStack` if the walk has not reached it and
otherwise on `tmpScopeStack`.

### SearchTree

A node is a record, NULL an empty tree. `AddNode` is `tree_add` with the early
returns of its recursive calls, so the rebalancing runs only at the node just made.
The tree is therefore never balanced, whatever `symtable.c:3` says of it; only the
speed of look-ups depends on that.

### Scanner, Lexemes, ScannerProperties

A character is a member of a small alphabet, "utf8" any byte above 127; "quote", "blank",
"comma", "underscore", "lbrace" and "rbrace" are named. The text is
chosen as it is read; `position` is the cursor of `source_file.c`, and `Turn` its
step over a line end. `fsm_state`, `lexeme`, `prev`, `prev_prev`, `comment_cnt`,
`count`, `token_added` are the variables of `source_code_to_tokens`. A step is one
turn of its loop: one character in one state. The states that move on without a
token are the tables `StartMoves`, `OperatorMoves`, `NumberMoves`, `StringMoves`,
`EscapeMoves`, `CommentMoves`, `WordMoves`; those that make a token, comments, escapes
and errors are actions (`Operator`, `NumberOrWord`, `IntegerBeforeRange`, `String`,
`Escape`, `Comment`, `CommentEnd`, ...). `PutBack` is what `add_token` does when the
token ended one character ago. `verify_str` is a function of the lexeme.
`NothingBeforeBrace` is `set_nl_after` on an empty array: it writes through
`array[-1]`, and the model ends with exit "undefined".

`Lexemes` says what marks, numbers and words are without an automaton, as sets of
texts; `ScannerProperties` adds what is read recursively, a reading of comments by their nesting, a reading of string literals by what they
denote. Three places are named as exceptions: `_?` stands for the keywords a "?" turns
into a token; `Wraps` for escapes above 7fffffff; `name?`, which the automaton
refuses although `name` and `??` would follow.

### Parser, Grammar, ParserProperties

Each function of `parser.c` is the list of its statements, chosen by the lookahead.
`s = s && X()` is a statement that is skipped once the flag `s` of the frame is
false; the others run whatever happened, as in the code, where a `decrease_scope()`
or `inside_loop--` after a failure still runs. `stack` is the C call stack. A step
runs one statement. The second pass starts with the globals of the first. `func` and
`for` open two scopes each; the statements of the inner one are called
`increase_inner_scope` and `decrease_inner_scope` to tell the two apart, and do the same.

The tokens are chosen when the parser first reads them, so every program within the
bound is covered and one that is refused early is not extended. An expression is
one operand: an identifier, a call, a literal, or `(` for an operand in brackets;
`(` after an identifier is a call, whose arguments are parsed by the parser's own
functions. The checks of names and types end the compiler in one nondeterministic
step ("check") at each place the code makes them (`Uses` has what they check); that
keeps every path through the parser. `exit = "undefined"` is a read through a pointer
nobody stored: the slot after the last token, or a part of an argument that was never
written.

`Grammar` says which texts are programs with no parser: it rewrites innermost
phrases of a token sequence until the start symbol is left.

### Expr, Uses and ExprProperties

`pushdown_stack` holds elements with class, static type, the literal mark (the
code's `token != NULL`) and, as a ghost, the tree evaluated. The second lookahead is
implicit: a call is read as one operand. `prec_table` is the table of the code.
`ShiftLess`, `Shift`, `Reduce...`, `Refuse`, `Accept` are the branches of the loop in
`parse_expr`. The code printed for an expression is straight-line, so the model
runs it while it is printed: `values` is the data stack of the interpreter with the
types of the values, `ret` its register GF@$RET. The first pass reduces anything
to void; the second checks. `nil_unwrapped` records that `E!` met nil, for which the
code prints nothing.

`Uses` goes on where the expression is accepted: `DeclareTyped`, `DeclareUntyped`
(`check_decl_expr`), `Assign`, `Pass` (`check_func_param`), `Return`, `ReturnInVoid`
(`check_return_type`), `Decide` (conditions) and `Bound` (ranges) compare the static
type with the one that is wanted, by the differences of `type_t` the code uses, and
take the value from the data stack.

`ExprProperties!Tree` finds the tree of a token sequence by splitting it at its
weakest operator outside brackets, and uses neither table nor stack.

### Codegen, Machine and MachineProperties

A step of `Codegen` is a statement, or the end of a block, that the parser and the
symbol table accept; it appends the instructions to `code`. `branch_label_stack`,
`loop_label_stack`, `cycle_type_stack`, `current_loop` (the two current labels),
`current_loop_is_for`, `used_vars`, `global_vars`, `array_stack` are the globals of
`codegen.c`; `open`, `scope`, `declared` are what the parser and the symbol table know
of the place in the text. `FuncDecl` and `FuncEnd` are the parts of `FUNC_DECL` around
the body, `If` ... `ElseEnd` those of `BRANCH`, `ELSE` and `ELSE_IF`, `While` ... `ForEnd`
those of the loops, `FileEnd` the end of `S`. `declared` says of each variable in scope
whether it is never nil, may be, or is the constant of an `if let` (`Binds`), whose code
(`TestCode`) pushes the old variable, copies it, and skips the branch if it is nil;
`DeclareNillable` is `check_decl_type`, which writes nil first. Conditions are one operand that may be
true or false, ranges are `0 ..< 1` with a variable and `1 ... 2` without.

`Machine` runs `code`: the data stack, GF, the stack of frames, the call stack, one
action per instruction. An instruction that cannot be done (no such label, no such
variable or defined twice, no value, an empty stack, no frame) ends in `Fault`. Each
call remembers what it found (frames, the data below its arguments, the range of the
loop around it), which only the properties read.

## Runs

| run | question | bounds |
|---|---|---|
| `symtable` | do the two stacks implement scopes; what do declarations keep true; does every look-up return | 3 names (two declared, one standard function), 2 types, 3 nested scopes, 2 declarations open at once, both passes |
| `searchtree` | does the tree find what was added | 5 names, 2 declarations |
| `scanner` | is the text cut into its longest tokens, with newlines, "!", strings and errors right | nine vocabularies, see below |
| `scanner_newline` | is every newline between two tokens noted | (violated) |
| `parser_control` | do the globals, the loop labels and the branch labels follow the braces; is only the grammar accepted | if, else, while, for, break; 14 tokens |
| `parser_functions` | functions and returns; arguments of calls inside expressions; does the second pass follow the first; is only the rest refused; termination | functions: 11 tokens; calls: 8 tokens, newlines after identifiers, `)` and types |
| `parser_swallow` | is everything accepted in the grammar | (violated) |
| `parser_past_end` | does the cursor stay in the array | (violated) |
| `expr` | does what passes the type checks run without a type error and store a value of the type it claims; precedence, brackets, newlines, arguments | `Types`: ten operands, eight operators, 5 tokens and the one that ends them; `Shape`: one operand, `*` and `-`, 7 tokens and the one that ends them, one newline, inside a call's arguments or not; values are used of expressions of up to 3 tokens and the one that ends them (`MaxUsed`) |
| `expr_nil_coalescing` | the type safety of `expr` with `Double? ?? 1` | (violated) |
| `machine` | does the program run, keep its loops and calls apart, and end | four vocabularies of 4 statements, one function with one parameter, 2 calls in progress |
| `machine_return` | do calls give back what they found when a return may leave a for loop | (violated) |

Why the bounds are enough. A walk of `symtable_find` differs only in where the key
is: in the current scope, in one the walk must move, or nowhere; three scopes have
them all, and the theorems hold for any number. The global state of the parser
changes at braces: 14 tokens hold a loop with two further levels in it, `if` chains
with two `else if`, and statements after them; 11 tokens hold a function with a
parameter, a result and a body. Eight tokens hold a call in an argument of a call. Two
binary operators, which is where precedence shows, need five tokens: `Types` has them
for every class of operator, with every outcome of every check; seven, in `Shape`,
hold `(a - b) * c`, brackets that change the order. `<` stands for `>`, `<=` for
`>=`, `==` for `!=`, and `Int?` for other nillable types, which differ from it in the
code only by their number (`Double?`, where that number matters, is in the findings
and the hazards).

The automaton of the scanner has parts that meet only in its start state, so each
vocabulary has the characters of one part: comments (7 characters), nested comments
(10), numbers (7), words and types (6), all marks (4), strings (10), escapes (13), long
escapes (16, behind seven digits), multiline strings (12). The bound lets a comment, a
number, a word and a mark be entered, left and entered again, which is where characters are
put back. Strings have room for a one-line string that runs over into a multiline one, which
takes nine characters (13 with an escape in it): `TokensTileTheText` and
`StringsKeepTheirMeaning` name that exception, `OpenedLate`, without which both fail.

Four statements hold a loop in a loop in a function that is called from a loop, an
`if` with `else if` and `else`, or a function called twice with variables of its own;
blocks are closed without counting. The programs of `machine` are those three
bounds allow, each of which stands for a fault the code does have: no return leaves a
for loop (`leaves_for`, that is `machine_return`); a function with a value ends in a
return (`falls_through`: otherwise the machine runs on behind the function); the constant of an
`if let` is not replaced by one that may be nil (`replaces`: `add_let` then keeps the old
entry, so the type says it is never nil).
A function may be called before its definition; if it then reads a global that has no
value yet the program stops, which is the one error `ProgramRuns` allows. A run that would need more than
`MaxCalls` calls at once stops with exit "bound"; `Finishes` takes that for an end, so it
says nothing of a function that calls itself for ever.

Deadlock is checked in no run of the symbol table, because the compiler stops when
it reports an error, and in all others, where a final state has a step of its own.

Fairness. The program is sequential, and a function that is called runs on:
`WF_vars(Walk)` for the loops of `symtable_find`, `WF_vars(Next)` for the parser and
for the interpreter. No fairness is asked of the input or of a condition, so a
while loop need not end. `LookupReturns`, `Terminates` and `Finishes` use it, the
other properties are safety.

Each property has a mutant in `PROJECT.json`: a plausible error in a definition
that makes its run fail.

## What the runs found

* `parser_swallow`: the result of `CALL_PARAM_LIST` is dropped inside an expression
  (`expr_parser.c:642`), so `let a = readInt(Int` followed by a newline is accepted.
* `parser_past_end`: the bound test of `TokenArray.next` (`token.c:218`) is off by one;
  the slot after the end-of-file token is read.
* `expr_nil_coalescing`: `d ?? 1` has type Int and a float value (`expr_parser.c:544`).
* `scanner_newline`: a newline directly behind `*/` is lost (`scanner.c:893`), and the
  parser refuses the statement on the next line.
* `machine_return`: a `return` inside a `for` gives neither the range of the loop around
  nor the data stack back (`parser.c:233`); a caller's loop may never end.

Seen while modelling, not the subject of a run: the tree is never rebalanced, and
`tree_left_rotate` (`symtable.c:76`), which no call reaches, would overwrite the left
child of the right grandchild; definite initialisation knows depths but not branches
(`parser.c:1143`); a range that starts above its end never ends (`codegen.c:424`); a
void function may return a `Double?` (`parser.c:215`); a function with a value may run
past its end (`parser.c:500`); the constant of an `if let` may be replaced by one that is
nil while its entry keeps a type without nil (`parser.c:713`, `symtable.c:473`); a program that begins with `}` writes in front of the
token array (`token.c:248`); `a??b` without spaces is refused (`scanner.c:502`); a
quote behind a one-line string that is not empty is taken for the second of three
(`scanner.c:633`, while `scanner.h:54` has three quotes before that state), so `"n""` and a
newline open a multiline string, of which `verify_str` drops the first line, the `n`; a
byte 255 ends the text (`scanner.c:250`); integer literals wrap (`scanner.c:485`).
The hazards in `PROJECT.json` list them with their lines.

## Proofs

Each theorem holds for every value of the constants that its assumptions allow:
names, types, depths and lengths of any size. The method is always an invariant
that is inductive, one lemma per action, and a last step in temporal logic.

### The symbol table (`SymtableProofs`)

From `ConstantsAssumption` (NULL is no name, declaration or pointer; the standard
functions are names; a depth is a C int, so it is bounded by `INT_MAX`):

* `TypeCorrect`: `Spec => []TypeOK`;
* `WalkKeepsScopesCorrect`: a look-up loses no scope;
* `MissIsUndeclaredCorrect`: a name reported as undeclared is declared in no open scope;
* `Refinement`: `Spec => Abstract!Spec`, the two stacks and the walk implement the
  abstract table with its atomic look-up of the innermost declaration;
* `ScopeFieldIsDepthCorrect`: the field `scope` of a variable is the depth at which it
  is declared (`minInitScope` is compared with it);
* `InitDepthIsVisibleCorrect`: the depth at which a variable got its first value is not
  smaller than that of its scope, and INT_MAX stays where there is no value;
* `NoParamlessFunctionShadowedCorrect`: in the second pass no variable takes the name of a
  function without parameters, wherever the program declares that function;
* `RedefinitionUsedOnceCorrect`, an action property: an entry that gave up its one
  redefinition never gets it back.

None of these is inductive alone. `IInv` is the conjunction of `TypeOK`; `FrameOK`,
which ties the depth in the frame of `symtable_find` to the lengths of the two
stacks (without it `ScopeAt` means nothing in the middle of a walk); `SearchOK`, what
the walk has learnt of the scopes it has passed, and that a redeclaration is found
where it started; and `PointerOK`, that a pointer handed out still points at a
declaration. There is one lemma per action, and for `Descend` and `Ascend` a lemma
saying that moving a scope between the stacks leaves `OpenScopes` as it was: these
are the stuttering steps of the refinement. `ReturnGet` is the step that maps to the
abstract `Lookup`.

`DInv` adds the last three invariants to `IInv`. Every action is first shown to change the
entry of a name in an open scope in one of five ways (`EntryStep`): kept, cleared,
declared, redeclared with its one redefinition used up, or initialised through a pointer.
The properties follow from that without looking at the actions or the two stacks again.

### Expressions (`ExprProofs`)

From `ExprAssumption` (only a call may be void; operators are those of the precedence
table; bounds are numbers), for expressions of any length:

* `ShapeCorrect`: every two neighbours in the pushdown stack stand in a relation that
  the precedence table allows, so `Reduce` finds a handle or the expression is refused;
* `HandlesFitCorrect`: a handle that is reduced is as long as one of the rules;
* `TypeCorrect`: the type invariant of `Expr` and `Uses`;
* `CodeIsTypeSafeCorrect`: the code printed for an expression that passed the checks
  meets no type error in the interpreter;
* `StoredFitsItsTypeCorrect`: the value that is stored, passed or returned is one of the
  type that its variable, parameter or function claims.

`SInv` is about neighbours in the pushdown stack: a terminal has a `<` mark before it,
or two places before it with one non-terminal between; only `)` stands without one, and
only on its `(`. `CInv(V)` adds the data stack of the interpreter. There is one value on
it for each non-terminal in the pushdown stack, in the same order; the proof finds the
value of a non-terminal by counting, and `V` says which values a static type allows: those
of its meaning (`Tight`), or, once `E!` ran on nil, for which the code prints no check,
any (`Loose`). Finding it showed that two arms of the CASE in `Computed` overlapped, which
TLC, taking the first, could not show.

Two steps break this, and both are in the code: `d ?? 1` with a `Double?` on the left
(`CoalescesDouble`, the finding `expr_nil_coalescing`), and a void function that returns
a `Double?` (`ReturnsDoubleInVoid`, `parser.c:215`). Type safety is proved of the
behaviours in which neither step occurs, and only these two are excepted: with all types in the
vocabulary TLC finds a counterexample when either exception is left out. The vocabulary of
the run `expr` has no `Double?`, so the run needs no exception.

### The scanner (`ScannerProofs`)

From `ScannerAssumption` (texts are written with characters), for texts of any length:

* `TypeCorrect`: the type invariant, with the bound on the digits of an escape;
* `TokensAreLexemesCorrect`: each mark, number and word is one of its kind and the longest
  that begins where it does, and tokens do not overlap. It is the conjunct of
  `TokensTileTheText` that needs no recursive definition;
* `ExclamationsAreToldCorrect`: a `!` is told by what stands around it in the text.

`ScannerInv` ties the automaton to the text. `Reads(state, s)` says what can have been read
of a token in each state: in `REAL_E_S` digits, perhaps a fraction, and an "e". `ReadingOK`
says that `Slice(first, position)` is such a text, that `lexeme` is the same text where one
is collected, and what `prev_prev` tells of a `!`; `BetweenOK` what `prev` tells of the
places since the last token, which is where comments (they pretend a blank or a newline) and
characters put back come in. A finished token is `Good` in the text it ends in, and stays so
when the text is read further (`TokensGrow`), because the character that ended it is
part of the text already: it is `Stopped` by a character no lexeme goes on with, or, an
integer before a range, by two points. That no longer lexeme begins there is then a lemma
about texts alone (`NoLonger`, `NoLongerBeforeRange`), without the automaton.

### The parser (`CallStack`, `ParserProofs`)

From `ParserAssumption` (programs are written with the kinds of tokens the parser knows,
and have at least one token), for programs of any length:

* `Types`: the type invariant; no counter goes below zero, and the cursor and the lookahead
  stay in the token array or one behind its eof, although `CALL_PARAM` and `parse_expr`
  step back;
* `GlobalsRestored`: a pass that accepts the program leaves every global as it was (the
  labels, too, in the second pass; the first makes none);
* `BracketsEndArguments`: `ignore_right_bracket` is set exactly inside the brackets of a call;
* `BranchLabels`: the label on top of `branch_label_stack` is the one wanted, with the end
  label of its chain below it;
* `Invariant`, the inductive invariant that these follow from.

What is hard is that the globals are set and reset by hand, far apart, around recursive
calls that may fail. The argument is about debts. A frame **owes** a thing (a scope, the
loop, a label, the bracket flag, ...) if its statement that closes it is still to come and
the one that opens it is not: `Owes`. `CallStack` shows of each function of `parser.c`
that its list opens and closes each thing at most once and in order (`Neat`), so it owes
nothing when it is called and nothing when it is done, and that this stays true of what is left
of the list however often statements are skipped because `s` is false: no skipped
statement opens or closes anything. `Ordered` says where its calls stand between them.
It then says what the stack means: `inside_loop` is the number of frames that owe
the loop, `scopeDepth` the number that owe a scope, outer or inner (`CountsOK`); the label
stacks list the labels of the frames that owe one, from the bottom of the stack to its top
(`BranchLabelsOK`, `LoopLabelsOK`); `ignore_right_bracket` is set if a frame owes it, and a
call in an expression has saved whether one below it does (`BracketsOK`). Calls and returns change none of it (`CallMoves`, `ReturnMoves`), and a statement
changes one debt of one frame (`AdvanceMoves`).

`IInv` is the conjunction of `Flags`, the types of the flags; `CursorOK`; `FramesOK`, that
each frame has statements of its own function left, was called by a function that calls it,
on a token not behind those of the frames above; `TopOK`, where the cursor is when
`parse_expr` or `CALL_PARAM` steps back; and `CountsOK`, `BracketsOK`, `LabelsOK`.
`ParserProofs` has one lemma per action or group of alike ones. In the end S is alone with nothing
to do: it owes nothing, so everything is as it was.

### The code and the machine (`CodeProofs`, `StatementProofs`, `MachineProofs`)

From `CodegenAssumption` (functions have names of their own, their parameters are
sequences of names) and `MachineAssumption`, for programs of any length with any number of
functions and parameters, and any number of calls in progress:

* `StatementSteady`: every statement keeps the code right at each of its instructions, for any
  range around the program (`Steady`);
* `MachineInvariant`: every activation is as the code says, on top of what it found;
* `TypeCorrectness`: the data stack and the frames hold integers, the registers are defined;
* `RangeIsOwned`: in the code of a for loop the counter and the limit that all loops share
  are its own;
* `CallsRestore`, an action property: a call gives back the frames, the data stack below its
  arguments and the range of the loop around it;
* `ProgramsEndClean`: a program that ends has emptied its stacks (`EndsClean`, part of
  `ProgramRuns`);
* `StacksAlwaysSuffice`: no instruction finds the data stack too short, a frame or a call
  missing.

They all assume `Returning` (the first through `Names`): no return leaves a for loop, and a
function with a value ends by a return. Of programs with such a return the theorems are false, as
`machine_return` shows; of a function that runs on past its end nothing of the kind can be
said, since the machine goes on in the middle of another piece of code. `MCMachine` checks
programs that satisfy it; it is the bound `leaves_for`, `falls_through` of the vocabularies.

The code is not executed in the order it is written, and it is finished long after its
labels are used: a loop, a call, a `break`, the definition of variables behind a function
all jump. So the proof says first, of the code alone, what is known at each
instruction, as a bytecode verifier does: a **point** has the number of values the
activation has on the data stack and the sets they are in, whether it has a frame, and the
sets the counter and the limit are in. `Flow` says how each instruction changes a point, and
that a jump is allowed where the point of its label holds; code is right if there are points
that fit (`Typed`). `CodeProofs` shows of each piece that `codegen.c` writes where it leads
(`Chunk`): `gen_for_range_save` and `gen_for_range_restore` cancel, a test leaves nothing on
the stack, a function takes its arguments.

The pieces of a block are written at different times. `StatementProofs` has a context for
each block that is open (`Sound`, `Pushed`, `Chain`): the point where the block began, where its
labels are, and what it put on `branch_label_stack`, `loop_label_stack`, `cycle_type_stack` and
`array_stack`. A `break` in an `if` in a loop is right because the chain says that the labels in
`current_loop` belong to the innermost loop of the open blocks, and at which points they are.
`Code` ties the points to `loops`: each line is in the range of the innermost loop around it.

The registers are global, so a function is called in whatever range its caller is in.
Therefore the code is shown to be right for **every** range R around it (`Steady(R)` for
all R): what a function does to the registers it undoes. `MachineInv` says that each activation, the one
that is executed and those waiting in `calls`, is at the point of its instruction, with the
range it found for R. `CALL` begins an activation with R the range of its caller, so nothing
needs to be known of callers; `RETURN` is at a point where everything is as it was
found, so the caller's own point, which says nothing of the callee, still holds. This needs
no induction on the depth of calls.

### What is only model-checked

* Liveness (`LookupReturns`, `Terminates`, `Finishes`): out of the prover's reach.
* `SearchTree`, and the properties in `ScannerProperties`, `ExprProperties`, `Grammar` and
  `ParserProperties`, which compare the code with a recursive definition of what it
  should do: recursive operators and induction over data are out of its reach too.
* Of the parser, what compares it with `Grammar`, which is recursive, or with the braces of
  the text, which are counted recursively: `AcceptsOnlyTheGrammar`, `RejectsOnlyTheRest`,
  `ContextMatchesBraces`, `JumpsToInnermostLoop`. `SecondPassFollows` and `ValueFunctionsReturn`
  look into the past of the run and are not proved yet.
* Of the machine, that no instruction fails (`ProgramRuns` but for `EndsClean` and what
  `StacksAlwaysSuffice` says): it speaks of ENABLED, and needs what is known of variables
  and of the labels still to come; and that a variable without nil is not nil.

## Not modelled

* The memory registry and the dynamic array (`memory.c`, `list.c`): bookkeeping of
  pointers that no other component reads. Strings (`string_util.c`) are sequences.
* The value of a multiline string (its lines are joined from `source_file.c` by
  position); only where the string begins and ends.
* The strings in which `symtable.c` keeps parameters and the splitting of them; `Uses`
  has the check they serve.
* In `Codegen` a declaration that leaves a variable without a value, to be assigned later
  (`isInited`, `minInitScope`), and the library functions other than `write` and `$??op`,
  which are fixed text.
* Values of expressions: `Expr` has their types, `Codegen` only what ranges need; division
  by zero and overflow are outside.
* The generator scripts and `_parser.c`, the skeleton they print, which is not compiled.
* Reading a source file by name, messages, the debug printing of tokens and trees.

## Plan

1. `Codegen`: that every jump has its label and every variable a definition in its frame,
   with the points of `CodeProofs` extended by the variables that have a value.
2. `DefiniteInit`: declarations in branches and loops, `isInited` and `minInitScope` against
   the run of the program.
