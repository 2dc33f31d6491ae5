------------------------------ MODULE Symtable ------------------------------
(***************************************************************************)
(* src/src/parts/parser/symtable.c: the scoped symbol table.               *)
(*                                                                         *)
(* The innermost scope is the tree currentScope; the enclosing ones lie on *)
(* scopeStack.  symtable_find moves the enclosing scopes one at a time to  *)
(* tmpScopeStack until the key is found, then moves them back: find is the *)
(* frame of that function, and each of its loop iterations is a step.      *)
(*                                                                         *)
(* A tree is a total function from names to declarations, NULL where the   *)
(* tree has no node (module SearchTree has the nodes).  ret is the pointer *)
(* the last look-up returned; the parser uses it before its next call.     *)
(***************************************************************************)
EXTENDS Integers, Sequences

CONSTANTS Name,           \* identifiers
          Type,           \* the types a declaration may carry
          NULL,           \* C's NULL
          StdParamless,   \* the standard functions that take no parameter
          MaxDepth        \* bound on the nesting the environment opens

VARIABLES
    collect_funcs,   \* TRUE in the first pass, which only collects functions
    functions,       \* "none", "paramless" or "params" for each name
    currentScope,    \* table of the innermost scope
    scopeStack,      \* tables of the enclosing scopes, the global one first
    tmpScopeStack,   \* tables a look-up has set aside
    scopeDepth,
    find,            \* the frame of symtable_find
    ret,             \* pointer returned by the last look-up, or NULL
    exit             \* 0 while the compiler runs, else its exit code

vars == <<collect_funcs, functions, currentScope, scopeStack, tmpScopeStack,
          scopeDepth, find, ret, exit>>

tables == <<currentScope, scopeStack, tmpScopeStack, scopeDepth>>

\* The scope stack the walk keeps, whichever of the two stacks a scope is on.
ScopeAt(i) ==
    IF i = scopeDepth + 1 THEN currentScope
    ELSE IF i <= Len(scopeStack) THEN scopeStack[i]
    ELSE tmpScopeStack[scopeDepth + 1 - i]

OpenScopes == [i \in 1..scopeDepth + 1 |-> ScopeAt(i)]

Abstract == INSTANCE Scopes WITH scopes <- OpenScopes, answer <- ret

\* A depth is a C int.
ASSUME ConstantsAssumption ==
    /\ NULL \notin Abstract!Entry
    /\ NULL \notin Abstract!Pointer
    /\ NULL \notin Name
    /\ StdParamless \subseteq Name
    /\ MaxDepth \in 0..Abstract!INT_MAX
-----------------------------------------------------------------------------
(* Stacks: top of an empty stack is NULL, popping it does nothing.         *)

StackTop(s) == IF s = <<>> THEN Abstract!EmptyTable ELSE s[Len(s)]

\* Mutant of StackPop: the emptiness test is off by one.
StackPopOffByOne(s) == IF Len(s) <= 1 THEN s ELSE SubSeq(s, 1, Len(s) - 1)

StackPop(s) == IF s = <<>> THEN s ELSE SubSeq(s, 1, Len(s) - 1)

\* tree_find answers the depth it was asked about, or -1.  It also answers
\* -1 when the key is there and the caller did not ask for the data.
TreeFind(tree, key, wantData, depth) ==
    IF tree[key] # NULL /\ wantData THEN depth ELSE -1
-----------------------------------------------------------------------------
(* symtable_find *)

Idle == [pc |-> "idle", op |-> "none", key |-> NULL, depth |-> 0, found |-> -1]

\* The call, up to the test of the first loop.
StartFind(op, key) ==
    find' = [pc |-> "down", op |-> op, key |-> key, depth |-> scopeDepth,
             found |-> TreeFind(currentScope, key, TRUE, scopeDepth)]

\* Mutants of Searching: the global scope is left out; the search goes on
\* after a hit.
SearchingNoGlobal == find.depth > 1 /\ find.found = -1
SearchingOn == find.depth > 0

Searching == find.depth > 0 /\ find.found = -1

Descend ==
    /\ find.pc = "down" /\ Searching
    /\ LET tmp == StackTop(scopeStack)
       IN  /\ find' = [find EXCEPT !.depth = @ - 1,
                       !.found = TreeFind(tmp, find.key, TRUE, find.depth - 1)]
           /\ tmpScopeStack' = Append(tmpScopeStack, tmp)
    /\ scopeStack' = StackPop(scopeStack)
    /\ UNCHANGED <<collect_funcs, functions, currentScope, scopeDepth, ret, exit>>

TurnBack ==
    /\ find.pc = "down" /\ ~Searching
    /\ find' = [find EXCEPT !.pc = "up"]
    /\ UNCHANGED <<collect_funcs, functions, tables, ret, exit>>

\* Mutant of Returning: the last scope is not put back.
ReturningShort == find.depth < scopeDepth - 1

Returning == find.depth < scopeDepth

Ascend ==
    /\ find.pc = "up" /\ Returning
    /\ scopeStack' = Append(scopeStack, StackTop(tmpScopeStack))
    /\ tmpScopeStack' = StackPop(tmpScopeStack)
    /\ find' = [find EXCEPT !.depth = @ + 1]
    /\ UNCHANGED <<collect_funcs, functions, currentScope, scopeDepth, ret, exit>>

Walked(op) == find.pc = "up" /\ find.depth = scopeDepth /\ find.op = op

\* get_var and get_let: a miss ends the compiler, a hit hands out a pointer.
ReturnGet ==
    /\ Walked("get")
    /\ find' = Idle
    /\ IF find.found = -1
       THEN exit' = 5 /\ ret' = NULL
       ELSE ret' = [scope |-> find.found, key |-> find.key] /\ UNCHANGED exit
    /\ UNCHANGED <<collect_funcs, functions, tables>>

\* The end of add_var and add_let on a name the scope already has: the old
\* declaration stays.  The caller of a refused addition exits with 3 or 9,
\* or goes on when the name is the "_" of a parameter list.
ReturnRedeclare ==
    /\ Walked("redeclare")
    /\ find' = Idle
    /\ currentScope' = [currentScope EXCEPT ![find.key].canBeRedefined = FALSE]
    /\ IF currentScope[find.key].canBeRedefined
       THEN UNCHANGED exit
       ELSE exit' \in {0, 3, 9}
    /\ ret' = NULL
    /\ UNCHANGED <<collect_funcs, functions, scopeStack, tmpScopeStack, scopeDepth>>
-----------------------------------------------------------------------------
(* The operations the parser calls, between two look-ups. *)

Ready == find = Idle /\ exit = 0

increase_scope ==
    /\ Ready /\ scopeDepth < MaxDepth
    /\ scopeStack' = Append(scopeStack, currentScope)
    /\ currentScope' = Abstract!EmptyTable
    /\ scopeDepth' = scopeDepth + 1
    /\ ret' = NULL
    /\ UNCHANGED <<collect_funcs, functions, tmpScopeStack, find, exit>>

\* The parser closes only scopes it has opened (module Parser).
decrease_scope ==
    /\ Ready /\ scopeDepth > 0
    /\ currentScope' = StackTop(scopeStack)
    /\ scopeStack' = StackPop(scopeStack)
    /\ scopeDepth' = scopeDepth - 1
    /\ ret' = NULL
    /\ UNCHANGED <<collect_funcs, functions, tmpScopeStack, find, exit>>

\* Only the first pass adds functions.  The collision test passes no place
\* for the data, so tree_find cannot tell it that the name is taken.
\* "sameNames" is a parameter list with a parameter called by its own name.
add_func(n, params) ==
    /\ Ready /\ collect_funcs
    /\ exit' = IF \/ params = "paramless" /\ TreeFind(currentScope, n, FALSE, 0) # -1
                  \/ params = "sameNames"
               THEN 9
               ELSE IF functions[n] # "none" THEN 3 ELSE 0
    /\ functions' = IF exit' = 0 THEN [functions EXCEPT ![n] = params] ELSE functions
    /\ ret' = NULL
    /\ UNCHANGED <<collect_funcs, tables, find>>

\* Mutants: the collision with a function is looked up in the scope;
\* a constant of the same scope is overwritten.
CollidesWithScope(n) == TreeFind(currentScope, n, FALSE, 0) # -1
TakenByVar(n) == currentScope[n] # NULL /\ currentScope[n].kind = "var"

CollidesWithFunction(n) == functions[n] = "paramless"

Taken(n) == currentScope[n] # NULL

\* add_var and add_let of a declaration the parser has filled in.
Add(kind, n, type, inited, redefinable) ==
    /\ Ready
    /\ ret' = NULL
    /\ IF CollidesWithFunction(n)
       THEN exit' = 9 /\ UNCHANGED <<currentScope, find>>
       ELSE /\ UNCHANGED exit
            /\ IF Taken(n)
               THEN StartFind("redeclare", n) /\ UNCHANGED currentScope
               ELSE /\ currentScope' = [currentScope EXCEPT ![n] =
                         Abstract!NewEntry(kind, type, inited, redefinable, scopeDepth)]
                    /\ UNCHANGED find
    /\ UNCHANGED <<collect_funcs, functions, scopeStack, tmpScopeStack, scopeDepth>>

\* The first pass adds no variable: only parameters and "for" constants.
add_var(n, type, inited) ==
    ~collect_funcs /\ Add("var", n, type, inited, FALSE)

add_let(n, type, inited, redefinable) ==
    /\ collect_funcs => inited /\ ~redefinable
    /\ redefinable => inited
    /\ Add("let", n, type, inited, redefinable)

\* get_var and get_let are called by the second pass only.
get(n) ==
    /\ Ready /\ ~collect_funcs
    /\ StartFind("get", n)
    /\ ret' = NULL
    /\ UNCHANGED <<collect_funcs, functions, tables, exit>>

\* get_func: the first pass answers NULL for a function it does not know yet.
get_func(n) ==
    /\ Ready
    /\ exit' = IF functions[n] = "none" /\ ~collect_funcs THEN 3 ELSE 0
    /\ ret' = NULL
    /\ UNCHANGED <<collect_funcs, functions, tables, find>>

\* An assignment, through the pointer the look-up before it returned; a
\* constant that has a value is refused.
SetInited ==
    /\ Ready /\ ret # NULL
    /\ LET e == ScopeAt(ret.scope + 1)[ret.key]
           new == Abstract!Initialised(e, scopeDepth)
       IN  IF e.kind = "let" /\ e.isInited
           THEN exit' = 9 /\ UNCHANGED tables
           ELSE /\ IF ret.scope = scopeDepth
                   THEN /\ currentScope' = [currentScope EXCEPT ![ret.key] = new]
                        /\ UNCHANGED scopeStack
                   ELSE /\ scopeStack' =
                             [scopeStack EXCEPT ![ret.scope + 1][ret.key] = new]
                        /\ UNCHANGED currentScope
                /\ UNCHANGED <<tmpScopeStack, scopeDepth, exit>>
    /\ ret' = NULL
    /\ UNCHANGED <<collect_funcs, functions, find>>

\* Between the passes: symtable_destroy and symtable_init, which keep only
\* the functions.  The first pass ends with every scope closed.
SecondPass ==
    /\ Ready /\ collect_funcs /\ scopeDepth = 0
    /\ collect_funcs' = FALSE
    /\ currentScope' = Abstract!EmptyTable
    /\ scopeStack' = <<>> /\ tmpScopeStack' = <<>> /\ scopeDepth' = 0
    /\ ret' = NULL
    /\ UNCHANGED <<functions, find, exit>>
-----------------------------------------------------------------------------
Init ==
    /\ collect_funcs = TRUE
    /\ functions = [n \in Name |-> IF n \in StdParamless THEN "paramless" ELSE "none"]
    /\ currentScope = Abstract!EmptyTable
    /\ scopeStack = <<>> /\ tmpScopeStack = <<>> /\ scopeDepth = 0
    /\ find = Idle /\ ret = NULL /\ exit = 0

Walk == Descend \/ TurnBack \/ Ascend \/ ReturnGet \/ ReturnRedeclare

Call ==
    \/ increase_scope
    \/ decrease_scope
    \/ \E n \in Name, params \in {"paramless", "params", "sameNames"} :
          add_func(n, params)
    \/ \E n \in Name, t \in Type, i \in BOOLEAN : add_var(n, t, i)
    \/ \E n \in Name, t \in Type, i, r \in BOOLEAN : add_let(n, t, i, r)
    \/ \E n \in Name : get(n) \/ get_func(n)
    \/ SetInited
    \/ SecondPass

Next == Walk \/ Call

\* symtable_find runs to its end: the walk is sequential code.
Spec == Init /\ [][Next]_vars

FairSpec == Spec /\ WF_vars(Walk)
-----------------------------------------------------------------------------
(* Properties *)

TypeOK ==
    /\ collect_funcs \in BOOLEAN
    /\ functions \in [Name -> {"none", "paramless", "params"}]
    /\ currentScope \in Abstract!Table
    /\ scopeStack \in Seq(Abstract!Table)
    /\ tmpScopeStack \in Seq(Abstract!Table)
    /\ scopeDepth \in 0..MaxDepth
    /\ find \in [pc : {"idle", "down", "up"}, op : {"none", "get", "redeclare"},
                 key : Name \cup {NULL}, depth : Int, found : Int]
    /\ ret \in Abstract!Pointer \cup {NULL}
    /\ exit \in {0, 3, 5, 9}

\* The walk loses no scope: every scope is on exactly one of the two stacks,
\* the ones below the depth it has reached on scopeStack, and when no
\* look-up runs all of them are back (symtable.c:250-266).
WalkKeepsScopes ==
    /\ Len(scopeStack) + Len(tmpScopeStack) = scopeDepth
    /\ Len(scopeStack) = IF find.pc = "idle" THEN scopeDepth ELSE find.depth

\* A look-up that answers -1, on which the caller reports an undefined
\* variable, has really been through every open scope (symtable.c:250-266).
MissIsUndeclared ==
    find.pc = "up" /\ find.found = -1 =>
        \A i \in 1..scopeDepth + 1 : ScopeAt(i)[find.key] = NULL

\* The generated code names a variable by its identifier and the scope field
\* of its declaration (codegen.c:552): the field is the depth of the scope
\* the declaration is found in, so two visible variables never share a name.
ScopeFieldIsDepth ==
    \A i \in 1..scopeDepth + 1, n \in Name :
        ScopeAt(i)[n] # NULL => ScopeAt(i)[n].scope = i - 1

\* A value recorded for a declaration was given where the declaration is
\* visible: never at a smaller depth than its scope, and a declaration with
\* no value keeps INT_MAX (parser.c:335, 1142-1143).
InitDepthIsVisible ==
    \A i \in 1..scopeDepth + 1, n \in Name :
        LET e == ScopeAt(i)[n]
        IN  e # NULL => IF e.isInited
                        THEN e.minInitScope \in i - 1 .. MaxDepth
                        ELSE e.minInitScope = Abstract!INT_MAX

\* In the second pass no scope declares the name of a function without
\* parameters, wherever the program declares that function: the first pass
\* has collected them all (symtable.c:440, 463).
NoParamlessFunctionShadowed ==
    ~collect_funcs =>
        \A i \in 1..scopeDepth + 1, n \in Name :
            ScopeAt(i)[n] # NULL => functions[n] # "paramless"

\* An entry that gave up its one redefinition never gets it back, so an
\* "if let" constant is declared again in its scope at most once
\* (symtable.c:447-452, 470-475).
RedefinitionUsedOnce ==
    [][\A i \in 1..scopeDepth + 1, n \in Name :
           /\ scopeDepth' >= i - 1
           /\ collect_funcs' = collect_funcs
           /\ ScopeAt(i)[n] # NULL
           /\ ~ScopeAt(i)[n].canBeRedefined
           => /\ ScopeAt(i)'[n] # NULL
              /\ ~ScopeAt(i)'[n].canBeRedefined]_vars

\* The two stacks and the walk implement a stack of scopes with an atomic
\* look-up that answers the innermost declaration.
ImplementsScopes == Abstract!Spec

\* Every look-up comes back with all scopes in place or ends the compiler.
LookupReturns == find.pc # "idle" ~> find.pc = "idle" /\ Len(scopeStack) = scopeDepth
=============================================================================
