------------------------------- MODULE Machine -------------------------------
(***************************************************************************)
(* The programs module Codegen writes, run by the interpreter of IFJcode23 *)
(* (bin/ic23int, not in src/): its data stack, its frames, its call stack, *)
(* and the errors it stops with.  Conditions are true or false at will.    *)
(***************************************************************************)
EXTENDS Codegen

CONSTANT MaxCalls \* bound on the calls that are in progress at once

ASSUME MachineAssumption == MaxCalls \in Nat

VARIABLES
    pc,         \* the next instruction, 0 while the program is being compiled
    data,       \* the data stack
    global,     \* GF
    frames,     \* the stack of frames; the last one is LF
    temporary,  \* whether there is a TF
    calls,      \* where each call returns to; history: what it found
    exit        \* "none" while it runs; else "success", "refused", "bound" or "fault"

machine == <<pc, data, global, frames, temporary, calls, exit>>
vars == <<codegen, machine>>

Undefined == -1 \* the value of a variable that has none yet
Nil == -2

MInit ==
    /\ Init
    /\ pc = 0 /\ data = <<>> /\ frames = <<>> /\ temporary = FALSE /\ calls = <<>>
    /\ global = [r \in registers |->
                    IF r \in {for_counter_reg, for_max_val} THEN 0 ELSE Undefined]
    /\ exit = "none"
-----------------------------------------------------------------------------
(* Compiling *)

Compile == pc = 0 /\ exit = "none" /\ Statements /\ UNCHANGED machine

\* A function with a value and no return in it.
Refuse ==
    /\ pc = 0 /\ exit = "none" /\ Closes("value_func") /\ ~has_return
    /\ exit' = "refused"
    /\ UNCHANGED <<codegen, pc, data, global, frames, temporary, calls>>

Run ==
    /\ pc = 0 /\ exit = "none" /\ FileEnd /\ pc' = 1
    /\ UNCHANGED <<data, global, frames, temporary, calls, exit>>
-----------------------------------------------------------------------------
(* Operands *)

Running == pc \in DOMAIN code /\ exit = "none"
Operation == code[pc][1]
Operand == code[pc][2]

FrameOf(x) == IF x[2] = 0 THEN global ELSE Last(frames)
Exists(x) == (x[2] = 0 \/ frames # <<>>) /\ x \in DOMAIN FrameOf(x)

\* What an operand that is read may be; nothing if it may not be read.
Values(x) ==
    CASE x[1] = "int" -> {x[2]}
      [] x = nil -> {Nil}
      [] x = Condition -> {0, 1}
      [] x = Maybe -> {0, Nil}
      [] OTHER -> IF Exists(x) THEN {FrameOf(x)[x]} \ {Undefined} ELSE {}

\* x, which there is, becomes v, or is defined.
Set(x, v) ==
    IF x[2] = 0 THEN global' = Over(All({x}, v), global) /\ UNCHANGED frames
    ELSE frames' = [frames EXCEPT ![Len(frames)] = Over(All({x}, v), @)] /\ UNCHANGED global

Top(n) == data[Len(data) + 1 - n]
Without(n) == SubSeq(data, 1, Len(data) - n)

Places(l) == {i \in DOMAIN code : code[i] = <<"LABEL", l>>}
Place(l) == CHOOSE i \in Places(l) : TRUE

\* The operation is op and the interpreter has no error to report.
Does(op) == Running /\ Operation = op
Step == pc' = pc + 1
-----------------------------------------------------------------------------
(* The instructions *)

PUSHS ==
    /\ Does("PUSHS")
    /\ \E v \in Values(Operand) : data' = Append(data, v)
    /\ Step /\ UNCHANGED <<codegen, global, frames, temporary, calls, exit>>

POPS ==
    /\ Does("POPS") /\ data # <<>> /\ Exists(Operand)
    /\ Set(Operand, Top(1)) /\ data' = Without(1)
    /\ Step /\ UNCHANGED <<codegen, temporary, calls, exit>>

ADDS ==
    /\ Does("ADDS") /\ Len(data) > 1
    /\ data' = Append(Without(2), Top(1) + Top(2))
    /\ Step /\ UNCHANGED <<codegen, global, frames, temporary, calls, exit>>

\* Always of one, to a register.
ADD ==
    /\ Does("ADD")
    /\ \E v \in Values(Operand) : Set(Operand, v + 1)
    /\ Step /\ UNCHANGED <<codegen, data, temporary, calls, exit>>

MOVE ==
    /\ Does("MOVE") /\ Exists(Operand)
    /\ \E v \in Values(code[pc][3]) : Set(Operand, v)
    /\ Step /\ UNCHANGED <<codegen, data, temporary, calls, exit>>

DEFVAR ==
    /\ Does("DEFVAR") /\ ~Exists(Operand) /\ (Operand[2] = 0 \/ frames # <<>>)
    /\ Set(Operand, Undefined)
    /\ Step /\ UNCHANGED <<codegen, data, temporary, calls, exit>>

Frame ==
    /\ \/ Does("CREATEFRAME") /\ temporary' = TRUE /\ UNCHANGED frames
       \/ /\ Does("PUSHFRAME") /\ temporary /\ temporary' = FALSE
          /\ frames' = Append(frames, [x \in {} |-> Undefined])
       \/ /\ Does("POPFRAME") /\ frames # <<>> /\ temporary' = TRUE
          /\ frames' = Front(frames)
    /\ Step /\ UNCHANGED <<codegen, data, global, calls, exit>>

LABEL == Does("LABEL") /\ Step /\ UNCHANGED <<codegen, data, global, frames, temporary, calls, exit>>

JumpIf(condition) ==
    /\ Places(Operand) # {}
    /\ pc' = IF condition THEN Place(Operand) ELSE pc + 1
    /\ UNCHANGED <<codegen, global, frames, temporary, calls, exit>>

JUMP == Does("JUMP") /\ JumpIf(TRUE) /\ UNCHANGED data

JUMPIFEQ ==
    /\ Does("JUMPIFEQ")
    /\ \E v \in Values(code[pc][3]), w \in Values(code[pc][4]) : JumpIf(v = w)
    /\ UNCHANGED data

JUMPIFNEQS ==
    /\ Does("JUMPIFNEQS") /\ Len(data) > 1 /\ JumpIf(Top(1) # Top(2)) /\ data' = Without(2)

CurrentRange == <<global[for_counter_reg], global[for_max_val]>>

\* The arguments are on the stack; kept is what is below them.
CALL ==
    /\ Does("CALL") /\ Places(Operand) # {}
    /\ IF Len(calls) < MaxCalls
       THEN /\ calls' = Append(calls,
                  [back |-> pc + 1, frames |-> frames, range |-> CurrentRange,
                   kept |-> Without(IF Operand = Entry("write") THEN 1 ELSE Arity(Operand[1]))])
            /\ pc' = Place(Operand) /\ UNCHANGED exit
       ELSE exit' = "bound" /\ UNCHANGED <<pc, calls>>
    /\ UNCHANGED <<codegen, data, global, frames, temporary>>

RETURN ==
    /\ Does("RETURN") /\ calls # <<>>
    /\ pc' = Last(calls).back /\ calls' = Front(calls)
    /\ UNCHANGED <<codegen, data, global, frames, temporary, exit>>

Instruction ==
    \/ PUSHS \/ POPS \/ ADDS \/ ADD \/ MOVE \/ DEFVAR \/ Frame \/ LABEL
    \/ JUMP \/ JUMPIFEQ \/ JUMPIFNEQS \/ CALL \/ RETURN

\* An instruction that cannot be done.
Stuck == Running /\ ~ENABLED Instruction

Fault ==
    /\ Stuck
    /\ exit' = "fault"
    /\ UNCHANGED <<codegen, pc, data, global, frames, temporary, calls>>

End ==
    /\ pc = Len(code) + 1 /\ exit = "none"
    /\ exit' = "success"
    /\ UNCHANGED <<codegen, pc, data, global, frames, temporary, calls>>

Done == exit # "none" /\ UNCHANGED vars

Next == Compile \/ Refuse \/ Run \/ Instruction \/ Fault \/ End \/ Done

Spec == MInit /\ [][Next]_vars

\* The compiler and the interpreter are one thread each and never wait.
FairSpec == Spec /\ WF_vars(Next)
=============================================================================
