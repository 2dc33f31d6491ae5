-------------------------- MODULE MachineProperties --------------------------
(* What the programs that module Codegen writes do in module Machine. *)
EXTENDS Machine

\* No instruction meets an error of the interpreter: a label that is not there,
\* a variable that is not defined or defined twice, one read before it has a
\* value, an empty stack, a missing frame.  One thing the compiler cannot tell
\* (parser.c:1101): a function that is called in front of a global variable reads
\* it before it has a value.  A variable whose type does not allow nil is not nil
\* where it is read, so "if let" has told them apart (parser.c:687-718).
ReadsTooEarly ==
    /\ Operation = "PUSHS" /\ Operand \in DOMAIN global /\ global[Operand] = Undefined
    /\ calls # <<>>

\* A program that ends has taken everything it put on its stacks.
EndsClean == exit = "success" => data = <<>> /\ frames = <<>> /\ calls = <<>>

\* A program does all of that: it stops with no error but the one the compiler
\* cannot tell, reads no nil where there is none, and ends with empty stacks.
ProgramRuns ==
    /\ exit = "fault" => ReadsTooEarly
    /\ pc \in sure => Values(Operand) # {Nil}
    /\ EndsClean

\* All for loops share one counter and one limit.  In the code of a loop they
\* are those of that loop, whatever was called or nested in it; while a range
\* is put in place and while it is taken back they are in between
\* (codegen.c:390-434).
InBetween(l) == {l.from - 1} \cup l.to .. l.to + 2

RangeIsOwn ==
    (pc > 0 /\ \A l \in loops : pc \notin InBetween(l)) =>
        \A l \in loops :
            (pc \in l.from .. l.to /\ \A k \in loops : pc \in k.from .. k.to => k.from <= l.from)
                => /\ global[for_max_val] = l.limit
                   /\ global[for_counter_reg] \in l.low .. l.limit

\* A function that returns has left the frames, what was on the data stack
\* below its arguments, and the range of the loop around the call as they were.
ReturnsRestore ==
    [][RETURN => /\ data = Last(calls).kept /\ frames = Last(calls).frames
                 /\ CurrentRange = Last(calls).range]_vars

\* A program without while loops comes to its end; one that calls itself without
\* end comes to MaxCalls calls, which counts as an end here (exit "bound").
HasWhile == \E i \in DOMAIN code : code[i][1] = "LABEL" /\ code[i][2][1] = "while_start"
Finishes == (pc = 1 /\ ~HasWhile) ~> (exit # "none")
=============================================================================
