-------------------------------- MODULE MCExpr --------------------------------
(* The vocabularies of the runs of Expr and Uses. *)
EXTENDS ExprProperties

Of(form, types) == [kind : {"i"}, form : {form}, type : types]

\* For the types: one operator of each set of checks.
Types ==
    [operands |->
         Of("literal", {int_type, nil_type}) \cup Of("call", {int_type, void_type})
         \cup Of("variable", {double_type, string_type, bool_type, nil_int_type})
         \cup Of("undeclared", {int_type}) \cup Of("uninitialised", {int_type}),
     operators |-> {"unwrap", "!", "/", "+", "??", "<", "==", "&&"},
     in_arguments |-> {FALSE}, newlines |-> 0, max |-> 6]

\* For the shape: an operand and operators that fit each other everywhere.
Shape ==
    [operands |-> Of("literal", {int_type}), operators |-> {"*", "-"},
     in_arguments |-> BOOLEAN, newlines |-> 1, max |-> 8]

NilCoalescing ==
    [operands |-> Of("literal", {int_type}) \cup Of("variable", {nil_double_type}),
     operators |-> {"??", "+"},
     in_arguments |-> {FALSE}, newlines |-> 0, max |-> 6]

TypesAndShape == {Types, Shape}
OnlyNilCoalescing == {NilCoalescing}
=============================================================================
