-------------------------------- MODULE Uses --------------------------------
(***************************************************************************)
(* What the statements do with the value of an expression: the checks of   *)
(* parser.c and symtable.c behind parse_expr, and the code they print.  A  *)
(* value is declared with, assigned, returned, passed as an argument,      *)
(* tested by an if or a while, or bounds the range of a for.               *)
(***************************************************************************)
EXTENDS Expr

CONSTANT MaxUsed \* bound on the tokens of an expression whose value is used

ASSUME UsesAssumption == MaxUsed \in Nat

VARIABLES
    use,     \* the statement, the type it wants, the error it ends with or 0
    stored   \* the value in the variable, the parameter, GF@$RET or the test

none_type == -1
Unused == [kind |-> "none", type |-> none_type, error |-> 0]

\* The types a declaration can name (TYPE).
Nameable == int_type .. nil_bool_type

Result == pushdown_stack[2]

\* The second pass has parsed the expression.
Ready ==
    /\ exit = "accepted" /\ ~collect_funcs /\ use = Unused
    /\ Len(tokens) <= MaxUsed

Ends(kind, type, error) ==
    /\ use' = [kind |-> kind, type |-> type, error |-> error]
    /\ UNCHANGED vars /\ UNCHANGED stored

\* The code for the value v is printed; it takes the value from the stack.
Stores(kind, type, v) ==
    /\ use' = [kind |-> kind, type |-> type, error |-> 0]
    /\ stored' = v /\ values' = Front(values)
    /\ UNCHANGED <<collect_funcs, ignore_right_bracket, tokens, a, bracket_count,
                   pushdown_stack, ret, nil_unwrapped, exit>>

\* Mutant of Fits: the types are compared the wrong way round.
Fits_reversed(target, type) ==
    \/ target = type
    \/ type - target = nil_int_type - int_type
    \/ target > 3 /\ type = nil_type

Fits(target, type) ==
    \/ target = type
    \/ target - type = nil_int_type - int_type
    \/ target > 3 /\ type = nil_type

\* Mutant of Converts: an integer literal is no Double?.
Converts_plain(target, e) == target = double_type /\ LiteralInt(e)

\* INT2FLOATS is printed for an integer literal.
Converts(target, e) == target \in {double_type, nil_double_type} /\ LiteralInt(e)

\* A value for a variable, a parameter or the result of type target.
Take(kind, target, fits, error) ==
    CASE fits -> Stores(kind, target, Top)
      [] ~fits /\ Converts(target, Result) -> Stores(kind, target, Int2Float(Top))
      [] OTHER -> Ends(kind, target, error)

\* check_decl_expr: a declaration that names no type takes that of the value.
DeclareTyped ==
    /\ Ready
    /\ \E type \in Nameable : Take("declaration", type, Fits(type, Result.type), 7)

DeclareUntyped ==
    /\ Ready
    /\ IF Result.type = nil_type THEN Ends("declaration", none_type, 8)
       ELSE Stores("declaration", Result.type, Top)

Assign ==
    /\ Ready
    /\ \E type \in Nameable : Take("assignment", type, Fits(type, Result.type), 7)

\* check_func_param
Pass ==
    /\ Ready
    /\ \E type \in Nameable : Take("argument", type, Fits(type, Result.type), 4)

\* check_return_type, in a function that returns a value.
Return ==
    /\ Ready
    /\ \E type \in Nameable : Take("return", type, Fits(type, Result.type), 4)

\* In one that does not, nil is no value of "nillable" type.
ReturnInVoid ==
    /\ Ready
    /\ LET fits == Result.type # nil_type /\ Fits(void_type, Result.type)
       IN  Take("return", void_type, fits, 4)

\* The condition of an if or a while: compared with true on the stack.
Decide ==
    /\ Ready
    /\ IF Result.type = bool_type THEN Stores("condition", bool_type, Equal(Top, "bool"))
       ELSE Ends("condition", bool_type, 7)

\* A bound of a range; the closed range adds one to its end.
Bound ==
    /\ Ready
    /\ IF Result.type = int_type
       THEN \/ Stores("range", int_type, Top)
            \/ Stores("range", int_type, Number(Top, "int", {"int", "float"}))
       ELSE Ends("range", int_type, 9)

UInit == Init /\ use = Unused /\ stored = "none"

UNext ==
    \/ Next /\ UNCHANGED <<use, stored>>
    \/ DeclareTyped \/ DeclareUntyped \/ Assign \/ Pass \/ Return \/ ReturnInVoid
    \/ Decide \/ Bound

USpec == UInit /\ [][UNext]_<<vars, use, stored>>
-----------------------------------------------------------------------------
(* Every variable keeps its type, and the type of a reduced expression is  *)
(* one an expression may have: an operand that may not be nil is never     *)
(* unwrapped (reduce).                                                     *)
TypeOK ==
    /\ collect_funcs \in BOOLEAN /\ ignore_right_bracket \in BOOLEAN
    /\ \A t \in ToSet(tokens) : t.form \in Form \cup {"none"} /\ t.type \in Type
    /\ bracket_count \in -Len(tokens) .. Len(tokens)
    /\ nil_unwrapped \in BOOLEAN
    /\ \A i \in DOMAIN pushdown_stack :
          /\ pushdown_stack[i].class \in UNWRAP .. NON_TERM
          /\ pushdown_stack[i].type \in Type
    /\ ToSet(values) \cup {ret} \subseteq
          {"int", "float", "string", "bool", "nil", "none", "error"}
    /\ exit \in {"none", "accepted", "syntax", "type", "undefined", "overflow"}

(* The array of three elements of reduce is never overrun, and the loop    *)
(* that fills it always meets a LESS before the stack is empty: in either  *)
(* pass, whatever the tokens.                                              *)
HandlesFit == exit # "overflow"

(* The types are checked for a purpose: the code printed for an expression *)
(* the second pass accepts runs without a type error and leaves one value, *)
(* of the type the expression was given.  Only E! on nil is the            *)
(* programmer's promise.                                                   *)
CodeIsTypeSafe ==
    exit = "accepted" /\ ~collect_funcs /\ use = Unused /\ ~nil_unwrapped =>
        Len(values) = 1 /\ values[1] \in Value(pushdown_stack[2].type)

(* A variable, a parameter, a result, a condition and a range bound hold a *)
(* value of the type the rest of the program relies on, however the types  *)
(* of the expression were combined, and the data stack is left as it was   *)
(* (check_decl_expr, check_return_type, check_func_param).                 *)
StoredFitsItsType ==
    use # Unused /\ use.error = 0 /\ ~nil_unwrapped =>
        values = <<>> /\ stored \in Value(use.type)
=============================================================================
