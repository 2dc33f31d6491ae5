------------------------------ MODULE MCMachine ------------------------------
(* The vocabularies of the programs. *)
EXTENDS MachineProperties

Of(statements) ==
    [statements |-> statements, max |-> 4,
     leaves_for |-> FALSE, falls_through |-> FALSE, replaces |-> FALSE]

Loops == Of({"func", "for", "call", "break", "continue"})
Variables == Of({"func", "value_func", "return", "call", "declare", "write", "for"})
Blocks == Of({"if", "else", "else if", "while", "for", "break", "continue"})
Nillables == Of({"nillable", "declare", "if", "if let", "else", "else if", "write"})

AllPrograms == {Loops, Variables, Blocks, Nillables}
OnlyLeaving == {[Of({"func", "for", "call", "return"}) EXCEPT !.leaves_for = TRUE]}
MCFunction == {"f"}
MCParameters == [f \in MCFunction |-> <<"p">>]
=============================================================================
