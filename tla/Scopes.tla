------------------------------- MODULE Scopes -------------------------------
(***************************************************************************)
(* What the symbol table promises to the parser: a stack of scopes, the    *)
(* global one first, each a table from names to declarations; a look-up is *)
(* atomic and answers with the innermost scope that declares the name.     *)
(*                                                                         *)
(* The code reaches this through two stacks of trees and a walk down and   *)
(* back up; module Symtable is that walk and implements this module.       *)
(***************************************************************************)
EXTENDS Integers, Sequences

CONSTANTS Name,      \* identifiers
          Type,      \* the types a declaration may carry
          NULL       \* C's NULL: no declaration, no answer

INT_MAX == 2147483647

\* What varData_t and letData_t record; the name is the key of the table.
Entry == [kind : {"var", "let"}, type : Type, isInited : BOOLEAN,
          minInitScope : Int, canBeRedefined : BOOLEAN, scope : Int]

Table == [Name -> Entry \cup {NULL}]

EmptyTable == [n \in Name |-> NULL]

\* A pointer to a declaration: the depth of its scope and its key.
Pointer == [scope : Int, key : Name]

VARIABLES scopes, answer

vars == <<scopes, answer>>

Depth == Len(scopes) - 1

Innermost == scopes[Len(scopes)]

\* Mutants of NewEntry: add_var and add_let forget to set the scope field;
\* the declaration is filled in without canBeRedefined.
NewEntryScopeUnset(kind, type, inited, redefinable, depth) ==
    [kind |-> kind, type |-> type, isInited |-> inited,
     minInitScope |-> IF inited THEN depth ELSE INT_MAX,
     canBeRedefined |-> redefinable, scope |-> 0]

NewEntryUnfilled(kind, type, inited, redefinable, depth) ==
    [kind |-> kind, type |-> type, isInited |-> inited,
     minInitScope |-> IF inited THEN depth ELSE INT_MAX,
     canBeRedefined |-> NULL, scope |-> depth]

\* A declaration as the parser fills it in, at the given depth.
NewEntry(kind, type, inited, redefinable, depth) ==
    [kind |-> kind, type |-> type, isInited |-> inited,
     minInitScope |-> IF inited THEN depth ELSE INT_MAX,
     canBeRedefined |-> redefinable, scope |-> depth]

\* Mutant of Initialised: the larger of the two depths.
InitialisedDeepest(e, depth) ==
    [e EXCEPT !.isInited = TRUE,
              !.minInitScope = IF @ < depth THEN depth ELSE @]

\* min(minInitScope, get_scope()), the earliest depth a value was given at.
Initialised(e, depth) ==
    [e EXCEPT !.isInited = TRUE,
              !.minInitScope = IF @ < depth THEN @ ELSE depth]

\* d is the depth of the innermost scope that declares n.
Resolves(n, d) ==
    /\ d \in 0..Depth
    /\ scopes[d + 1][n] # NULL
    /\ \A i \in 0..Depth : i > d => scopes[i + 1][n] = NULL

Init == scopes = <<EmptyTable>> /\ answer = NULL

Enter == scopes' = Append(scopes, EmptyTable) /\ answer' = NULL

Leave ==
    /\ Depth > 0
    /\ scopes' = SubSeq(scopes, 1, Depth)
    /\ answer' = NULL

Declare ==
    \E n \in Name, k \in {"var", "let"}, t \in Type, i, r \in BOOLEAN :
        /\ Innermost[n] = NULL
        /\ scopes' = [scopes EXCEPT ![Len(scopes)][n] = NewEntry(k, t, i, r, Depth)]
        /\ answer' = NULL

\* A second declaration of a name in one scope never replaces the first; it
\* only uses up the one redefinition an "if let" constant allows.
Redeclare ==
    \E n \in Name :
        /\ Innermost[n] # NULL
        /\ scopes' = [scopes EXCEPT ![Len(scopes)][n].canBeRedefined = FALSE]
        /\ answer' = NULL

Lookup ==
    /\ \E n \in Name, d \in 0..Depth :
          Resolves(n, d) /\ answer' = [scope |-> d, key |-> n]
    /\ UNCHANGED scopes

\* The parser sets isInited and minInitScope through the pointer it was given.
SetInited ==
    /\ answer # NULL
    /\ scopes' = [scopes EXCEPT ![answer.scope + 1][answer.key] =
                                   Initialised(@, Depth)]
    /\ answer' = NULL

Forget == answer' = NULL /\ UNCHANGED scopes

\* The second pass starts again from an empty global scope.
Restart == scopes' = <<EmptyTable>> /\ answer' = NULL

Next == Enter \/ Leave \/ Declare \/ Redeclare \/ Lookup \/ SetInited \/ Forget
        \/ Restart

Spec == Init /\ [][Next]_vars
=============================================================================
