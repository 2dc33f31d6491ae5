-------------------------- MODULE StatementProofs ---------------------------
(***************************************************************************)
(* Theorems about the programs that module Codegen writes, for every       *)
(* vocabulary, any functions and parameters, and programs of any length:   *)
(* after every statement the code so far is right in the sense of module   *)
(* CodeProofs, for every range around it.                                  *)
(*                                                                         *)
(* A block is closed long after it was begun, and other blocks and jumps   *)
(* come in between. So the argument is about contexts, one for each block  *)
(* that is open and one for the main program: what the point was where the *)
(* block began, where its labels are, and what it put on the stacks of     *)
(* codegen.c. Sound says that the fields of a context fit each other,      *)
(* Pushed how a block's context fits the one around it, and Chain that it  *)
(* is so all the way down. A block that ends finds its labels on the       *)
(* stacks because the chain says so, and goes on at the point of the       *)
(* context around it.                                                      *)
(***************************************************************************)
EXTENDS CodeProofs

\* h is the context of the next statement.
Here(h) ==
    /\ h.blocks = open /\ h.scope = scope /\ h.bl = branch_label_stack
    /\ h.ll = loop_label_stack /\ h.ct = cycle_type_stack /\ h.cl = current_loop
    /\ h.isfor = current_loop_is_for /\ h.kept = array_stack

\* T, ann and H show that the code so far is right, for a range R around the program.
Compiled(R, T, ann, H) ==
    /\ IsSeq(open) /\ Chain(H, open, T, R)
    /\ Here(H[Len(open) + 1])
    /\ Code(code, label, loops, H[Len(open) + 1].loops, R, T, ann)
    /\ ann[Len(code) + 1] = IF ended THEN Never ELSE H[Len(open) + 1].point

\* The code so far is right, for the range R.
Steady(R) == \E T, ann, H : Compiled(R, T, ann, H)

\* The context of a statement: its blocks and its scope, its point, the stacks of labels and
\* of loops, the variables of the frames around and the for loops it is in.
Context(bs, sc, p, bl, ll, ct, cl, f, kept, os) ==
    [blocks |-> bs, scope |-> sc, point |-> p, bl |-> bl, ll |-> ll, ct |-> ct, cl |-> cl,
     isfor |-> f, kept |-> kept, loops |-> os]

\* There is a context with the state a step leads to.
Reached(g, p, os) ==
    /\ g.blocks = open' /\ g.scope = scope' /\ g.point = p /\ g.bl = branch_label_stack'
    /\ g.ll = loop_label_stack' /\ g.ct = cycle_type_stack' /\ g.cl = current_loop'
    /\ g.isfor = current_loop_is_for' /\ g.kept = array_stack' /\ g.loops = os /\ Here(g)'

\* A context can be made of whatever state a step leads to.
LEMMA ReachedContext ==
    ASSUME NEW p, NEW os
    PROVE  \E g : Reached(g, p, os)
<1> DEFINE g == Context(open', scope', p, branch_label_stack', loop_label_stack', cycle_type_stack',
                        current_loop', current_loop_is_for', array_stack', os)
<1>1. /\ g.blocks = open' /\ g.scope = scope' /\ g.point = p /\ g.bl = branch_label_stack'
      /\ g.ll = loop_label_stack' /\ g.ct = cycle_type_stack' /\ g.cl = current_loop'
      /\ g.isfor = current_loop_is_for' /\ g.kept = array_stack' /\ g.loops = os
  BY DEF Context
<1> HIDE DEF g
<1>2. PICK f : f = g
  OBVIOUS
<1>3. Reached(f, p, os)
  BY <1>1, <1>2 DEF Reached, Here
<1> QED BY <1>3

\* The code is right after a step if there are contexts and an annotation for it.
LEMMA Install ==
    ASSUME NEW R, NEW U, NEW G, NEW g, NEW k, Chain(G, open', U, R),
           Sound(g, U, R), G[Len(open') + 1] = g, Here(g)', Code(code', label', loops', g.loops, R, U, k),
           k[Len(code') + 1] = IF ended' THEN Never ELSE g.point
    PROVE  Steady(R)'
<1>1. Compiled(R, U, k, G)'
  <2>1. Here(G[Len(open) + 1])'
    BY DEF Here
  <2>2. IsSeq(open)'
    BY DEF Sound, Here
  <2> QED BY <2>1, <2>2 DEF Compiled
<1> QED BY <1>1 DEF Steady

\* What a statement finds.
LEMMA Parts ==
    ASSUME NEW R, NEW T, NEW ann, NEW H, Compiled(R, T, ann, H)
    PROVE  LET h == H[Len(open) + 1]
           IN  /\ Sound(h, T, R) /\ Here(h) /\ Labels(T, label, R) /\ IsSeq(open)
               /\ Len(open) \in Nat /\ h.point \in Point /\ h.point.frame = 1
               /\ scope \in Nat /\ (open # <<>> => scope > 0)
               /\ Owns(OwnPoint(h.point), h.loops)
               /\ ann[Len(code) + 1] = IF ended THEN Never ELSE h.point
               /\ Code(code, label, loops, h.loops, R, T, ann)
               /\ Chain(H, open, T, R)
<1> DEFINE h == H[Len(open) + 1]
<1>1. /\ Chain(H, open, T, R) /\ Here(h) /\ Code(code, label, loops, h.loops, R, T, ann)
      /\ ann[Len(code) + 1] = IF ended THEN Never ELSE h.point
  BY DEF Compiled
<1>2. Labels(T, label, R)
  BY <1>1 DEF Code
<1>3. IsSeq(open) /\ Len(open) \in Nat
  BY DEF Compiled, IsSeq
<1>4. Sound(h, T, R)
  <2>1. \A j \in 1 .. Len(open) + 1 : Sound(H[j], T, R)
    BY <1>1 DEF Chain
  <2> QED BY <2>1, <1>3
<1> HIDE DEF h
<1>5. h.point \in Point /\ h.point.frame = 1 /\ scope \in Nat /\ (open # <<>> => scope > 0)
  BY <1>1, <1>4 DEF Sound, Here
<1>6. Owns(OwnPoint(h.point), h.loops)
  BY <1>4, SoundOwns
<1> QED BY <1>1, <1>2, <1>3, <1>4, <1>5, <1>6 DEF h

\* The rest of a block goes on in the same context.
LEMMA StayOn ==
    ASSUME NEW R, NEW T, NEW U, NEW ann, NEW H, NEW d, NEW b, NEW h,
           Compiled(R, T, ann, H), h = H[Len(open) + 1],
           Extends(T, U), Labels(U, label', R), code' = code \o d, loops' = loops,
           UNCHANGED <<open, scope, stacks, array_stack>>,
           Chunk(d, ann[Len(code) + 1], b, U, OwnPoint(h.point)),
           b = IF ended' THEN Never ELSE h.point
    PROVE  Steady(R)'
<1>1. /\ Sound(h, T, R) /\ Here(h) /\ Owns(OwnPoint(h.point), h.loops)
      /\ Code(code, label, loops, h.loops, R, T, ann) /\ Chain(H, open, T, R)
  BY Parts
<1>0. Grown(code \o d, label', loops, h.loops, R, U, b)
  BY <1>1, Grow
<1>2. PICK k : Code(code \o d, label', loops, h.loops, R, U, k) /\ k[Len(code \o d) + 1] = b
  BY <1>0 DEF Grown
<1>3. Code(code', label', loops', h.loops, R, U, k) /\ k[Len(code') + 1] = IF ended' THEN Never ELSE h.point
  BY <1>2
<1>4. Chain(H, open', U, R) /\ Sound(h, U, R) /\ H[Len(open') + 1] = h
  BY <1>1, ChainExtends, SoundExtends
<1>5. Here(h)'
  BY <1>1 DEF Here, stacks
<1> QED BY <1>3, <1>4, <1>5, Install

\* A block begins, in context g.
LEMMA PushOn ==
    ASSUME NEW R, NEW T, NEW U, NEW ann, NEW H, NEW d, NEW h, NEW g, NEW b,
           Compiled(R, T, ann, H), h = H[Len(open) + 1],
           Extends(T, U), Labels(U, label', R), code' = code \o d, loops' = loops,
           open' = Append(open, b), Pushed(b, h, g, U), Sound(g, U, R), Here(g)', g.loops = h.loops,
           Chunk(d, ann[Len(code) + 1], g.point, U, OwnPoint(h.point)), ended' = FALSE
    PROVE  Steady(R)'
<1>1. /\ Sound(h, T, R) /\ Here(h) /\ Owns(OwnPoint(h.point), h.loops) /\ IsSeq(open)
      /\ Code(code, label, loops, h.loops, R, T, ann) /\ Chain(H, open, T, R)
  BY Parts
<1>0. Grown(code \o d, label', loops, h.loops, R, U, g.point)
  BY <1>1, Grow
<1>2. PICK k : Code(code \o d, label', loops, h.loops, R, U, k) /\ k[Len(code \o d) + 1] = g.point
  BY <1>0 DEF Grown
<1>3. Code(code', label', loops', g.loops, R, U, k) /\ k[Len(code') + 1] = IF ended' THEN Never ELSE g.point
  BY <1>2
<1>4. Chain(H, open, U, R)
  BY <1>1, ChainExtends
<1>5. Pushed(b, H[Len(open) + 1], g, U)
  OBVIOUS
<1>6. PICK G : Chain(G, Append(open, b), U, R) /\ G[Len(Append(open, b)) + 1] = g
  BY <1>1, <1>4, <1>5, ChainPush
<1>7. Chain(G, open', U, R) /\ G[Len(open') + 1] = g
  BY <1>6
<1> QED BY <1>3, <1>7, Install

\* A block ends, and the context around it is back.
LEMMA PopOn ==
    ASSUME NEW R, NEW T, NEW U, NEW ann, NEW H, NEW d, NEW h, NEW g,
           Compiled(R, T, ann, H), h = H[Len(open) + 1], open # <<>>, g = H[Len(open)],
           Extends(T, U), Labels(U, label', R), code' = code \o d, loops' = loops,
           open' = Front(open), Here(g)', g.loops = h.loops,
           Chunk(d, ann[Len(code) + 1], g.point, U, OwnPoint(h.point)), ended' = FALSE
    PROVE  Steady(R)'
<1>1. /\ Sound(h, T, R) /\ Here(h) /\ Owns(OwnPoint(h.point), h.loops) /\ IsSeq(open)
      /\ Code(code, label, loops, h.loops, R, T, ann) /\ Chain(H, open, T, R)
  BY Parts
<1>0. Grown(code \o d, label', loops, h.loops, R, U, g.point)
  BY <1>1, Grow
<1>2. PICK k : Code(code \o d, label', loops, h.loops, R, U, k) /\ k[Len(code \o d) + 1] = g.point
  BY <1>0 DEF Grown
<1>3. Code(code', label', loops', g.loops, R, U, k) /\ k[Len(code') + 1] = IF ended' THEN Never ELSE g.point
  BY <1>2
<1>4. Chain(H, open, U, R)
  BY <1>1, ChainExtends
<1>5. /\ Sound(H[Len(open)], U, R)
      /\ \E G : Chain(G, Front(open), U, R) /\ G[Len(Front(open)) + 1] = H[Len(open)]
  BY <1>1, <1>4, ChainPop
<1>6. PICK G : Chain(G, open', U, R) /\ G[Len(open') + 1] = g
  BY <1>5
<1> QED BY <1>3, <1>5, <1>6, Install

\* A block ends and another begins.
LEMMA SwapOn ==
    ASSUME NEW R, NEW T, NEW U, NEW ann, NEW H, NEW d, NEW h, NEW f, NEW g, NEW b,
           Compiled(R, T, ann, H), h = H[Len(open) + 1], open # <<>>, f = H[Len(open)],
           Extends(T, U), Labels(U, label', R), code' = code \o d, loops' = loops,
           open' = Append(Front(open), b), Pushed(b, f, g, U), Sound(g, U, R), Here(g)',
           g.loops = h.loops,
           Chunk(d, ann[Len(code) + 1], g.point, U, OwnPoint(h.point)), ended' = FALSE
    PROVE  Steady(R)'
<1>1. /\ Sound(h, T, R) /\ Here(h) /\ Owns(OwnPoint(h.point), h.loops) /\ IsSeq(open)
      /\ Code(code, label, loops, h.loops, R, T, ann) /\ Chain(H, open, T, R)
  BY Parts
<1>0. Grown(code \o d, label', loops, h.loops, R, U, g.point)
  BY <1>1, Grow
<1>2. PICK k : Code(code \o d, label', loops, h.loops, R, U, k) /\ k[Len(code \o d) + 1] = g.point
  BY <1>0 DEF Grown
<1>3. Code(code', label', loops', g.loops, R, U, k) /\ k[Len(code') + 1] = IF ended' THEN Never ELSE g.point
  BY <1>2
<1>4. Chain(H, open, U, R)
  BY <1>1, ChainExtends
<1>5. /\ IsSeq(Front(open))
      /\ \E G : Chain(G, Front(open), U, R) /\ G[Len(Front(open)) + 1] = H[Len(open)]
  BY <1>1, <1>4, ChainPop
<1>6. PICK K : Chain(K, Front(open), U, R) /\ K[Len(Front(open)) + 1] = f
  BY <1>5
<1>7. Pushed(b, K[Len(Front(open)) + 1], g, U)
  BY <1>6
<1>8. PICK G : Chain(G, Append(Front(open), b), U, R) /\ G[Len(Append(Front(open), b)) + 1] = g
  BY <1>5, <1>6, <1>7, ChainPush
<1>9. Chain(G, open', U, R) /\ G[Len(open') + 1] = g
  BY <1>8
<1> QED BY <1>3, <1>9, Install

\* A sequence, of whatever it holds, with one more element.
LEMMA AppendIsSeq ==
    ASSUME NEW s, IsSeq(s), NEW x
    PROVE  /\ IsSeq(Append(s, x)) /\ Len(s) \in Nat /\ Len(Append(s, x)) = Len(s) + 1
           /\ (\A j \in 1 .. Len(s) : Append(s, x)[j] = s[j])
           /\ Append(s, x)[Len(s) + 1] = x
<1> DEFINE B == {s[i] : i \in DOMAIN s}
           S == B \cup {x}
           c == Append(s, x)
           D == {c[i] : i \in DOMAIN c}
<1>1. s \in Seq(B)
  BY DEF IsSeq
<1>2. s \in Seq(S)
  <2> HIDE DEF B
  <2> QED BY <1>1
<1>3. x \in S
  OBVIOUS
<1> HIDE DEF B, S
<1>4. /\ c \in Seq(S) /\ Len(s) \in Nat /\ Len(c) = Len(s) + 1
      /\ (\A j \in 1 .. Len(s) : c[j] = s[j]) /\ c[Len(s) + 1] = x
  BY <1>2, <1>3, AppendSeq
<1> HIDE DEF c
<1>5. c \in [1 .. Len(c) -> D]
  BY <1>4
<1> HIDE DEF D
<1>6. c \in Seq(D)
  BY <1>4, <1>5
<1> QED BY <1>4, <1>6 DEF IsSeq, c, D

\* A block that is neither a function nor a for loop changes no point.
Nested(h, g, b, T) ==
    /\ b.what \in {"if", "else", "while"} /\ b.depth \in {1, 2}
    /\ g.blocks = Append(h.blocks, b) /\ g.scope = h.scope + b.depth
    /\ g.point = h.point /\ g.loops = h.loops /\ g.kept = h.kept
    /\ g.bl \in Seq(Unique) /\ g.ll \in Seq(Unique) /\ IsSeq(g.ct)
    /\ g.cl \in Seq(Unique) /\ (g.cl # <<>> => Len(g.cl) = 2 /\ LoopJumps(g, T))
    /\ (g.cl = <<>> => h.cl = <<>> /\ g.ll = h.ll /\ b.what # "while")

\* Such a block leaves the context right.
LEMMA SoundPush ==
    ASSUME NEW T, NEW R, NEW h, Sound(h, T, R), NEW b, NEW g, Nested(h, g, b, T)
    PROVE  Sound(g, T, R)
<1>0. /\ b.what \in {"if", "else", "while"} /\ b.depth \in {1, 2}
      /\ g.blocks = Append(h.blocks, b) /\ g.scope = h.scope + b.depth
      /\ g.point = h.point /\ g.loops = h.loops /\ g.kept = h.kept
      /\ g.bl \in Seq(Unique) /\ g.ll \in Seq(Unique) /\ IsSeq(g.ct)
      /\ g.cl \in Seq(Unique) /\ (g.cl # <<>> => Len(g.cl) = 2 /\ LoopJumps(g, T))
      /\ (g.cl = <<>> => h.cl = <<>> /\ g.ll = h.ll /\ b.what # "while")
  BY DEF Nested
<1> USE <1>0
<1> DEFINE B == h.blocks
           C == Append(B, b)
           n == Len(B)
<1>1. IsSeq(B)
  BY DEF Sound
<1>2. n \in Nat /\ Len(C) = n + 1 /\ (\A j \in 1 .. n : C[j] = B[j]) /\ C[n + 1] = b /\ IsSeq(C)
  BY <1>1, AppendIsSeq
<1>20. B = <<>> <=> n = 0
  <2> DEFINE D == {B[i] : i \in DOMAIN B}
  <2>1. B \in Seq(D)
    BY <1>1 DEF IsSeq
  <2> HIDE DEF D, B
  <2> QED BY <2>1
<1> HIDE DEF n
<1>3. C # <<>>
  <2> HIDE DEF B, C
  <2>1. Len(C) # 0
    BY <1>2
  <2> QED BY <2>1
<1>4. Level(C) = Level(B)
  <2>1. CASE n = 0
    <3>1. C[1] = b
      BY <2>1, <1>2
    <3>2. ~IsFunction(C[1])
      BY <3>1 DEF IsFunction
    <3>3. B = <<>>
      BY <2>1, <1>20
    <3> QED BY <3>2, <3>3 DEF Level
  <2>2. CASE n # 0
    <3>0. 1 \in 1 .. n
      BY <2>2, <1>2
    <3> HIDE DEF B, C
    <3>1. C[1] = B[1] /\ B # <<>>
      BY <3>0, <2>2, <1>2, <1>20
    <3> QED BY <3>1, <1>3 DEF Level
  <2> QED BY <2>1, <2>2
<1>5. g.blocks = C
  OBVIOUS
<1>6. (\A i \in 1 .. Len(C) : C[i].what # "for") => g.point = Inside(R, Level(C))
  <2>1. (\A i \in 1 .. n : B[i].what # "for") => h.point = Inside(R, Level(B))
    BY DEF Sound, n
  <2>2. (\A i \in 1 .. n + 1 : C[i].what # "for") => \A i \in 1 .. n : B[i].what # "for"
    BY <1>2
  <2> HIDE DEF B, C
  <2> QED BY <2>1, <2>2, <1>2, <1>4
<1>7. g.cl = <<>> => g.ll = <<>> /\ \A i \in 1 .. Len(C) : C[i].what \notin {"while", "for"}
  <2>1. h.cl = <<>> => h.ll = <<>> /\ \A i \in 1 .. n : B[i].what \notin {"while", "for"}
    BY DEF Sound, n
  <2> HIDE DEF B, C
  <2>2. \A i \in 1 .. n + 1 : i \in 1 .. n \/ i = n + 1
    BY <1>2
  <2> QED BY <2>1, <2>2, <1>2
<1> HIDE DEF B, C
<1>8. g.scope \in Nat /\ g.scope > 0
  BY DEF Sound
<1> QED BY <1>2, <1>3, <1>5, <1>6, <1>7, <1>8 DEF Sound

\* The inductive facts about the rest of the state: what is named are variables, and a
\* block must end only where there is one.  The programs are those of Returning.
Names ==
    /\ used_vars \in Seq(Variables) /\ global_vars \in Seq(Variables)
    /\ DOMAIN declared \subseteq Variables
    /\ label \in Nat /\ ended \in BOOLEAN
    /\ open = <<>> => ~ended
    /\ ~vocabulary.leaves_for /\ ~vocabulary.falls_through

\* No new labels.
LEMMA ExtendsRefl == ASSUME NEW T PROVE Extends(T, T)
  BY DEF Extends

\* A statement that is not a jump
LEMMA Plainly ==
    ASSUME NEW R, Steady(R), NEW d, ~ended, ~ended',
           code' = code \o d, loops' = loops, label' = label,
           UNCHANGED <<open, scope, stacks, array_stack>>,
           \A T : \A p \in Point : p.frame = 1 => Chunk(d, p, p, T, OwnPoint(p))
    PROVE  Steady(R)'
<1>1. PICK T, ann, H : Compiled(R, T, ann, H)
  BY DEF Steady
<1> DEFINE h == H[Len(open) + 1]
<1>2. /\ Labels(T, label, R) /\ h.point \in Point /\ h.point.frame = 1
      /\ ann[Len(code) + 1] = IF ended THEN Never ELSE h.point
  BY <1>1, Parts
<1> HIDE DEF h
<1>3. Chunk(d, ann[Len(code) + 1], h.point, T, OwnPoint(h.point))
  BY <1>2
<1>4. h.point = IF ended' THEN Never ELSE h.point
  OBVIOUS
<1>5. Labels(T, label', R) /\ Extends(T, T) /\ h = H[Len(open) + 1]
  BY <1>2, ExtendsRefl DEF h
<1> QED BY <1>1, <1>3, <1>4, <1>5, StayOn

\* VAR_DECL keeps the code right.
LEMMA DeclareSteady ==
    ASSUME NEW R, Steady(R), NEW x \in Variables, Declare(x)
    PROVE  Steady(R)'
<1> DEFINE d == <<<<"PUSHS", Constant(0)>>, <<"POPS", x>>>>
<1>1. /\ code' = code \o d /\ loops' = loops /\ label' = label /\ ~ended /\ ~ended'
      /\ UNCHANGED <<open, scope, stacks, array_stack>>
  BY DEF Declare, Reads, Completes, gen_line, Declares, gen_var_name
<1>2. ASSUME NEW p \in Point, p.frame = 1, NEW T
      PROVE  Chunk(d, p, p, T, OwnPoint(p))
  BY <1>2, SourceFacts, ChunkAssign DEF Writable
<1> HIDE DEF d
<1> QED BY <1>1, <1>2, Plainly

\* So does that of a variable that allows nil.
LEMMA DeclareNillableSteady ==
    ASSUME NEW R, Steady(R), NEW x \in Variables, DeclareNillable(x)
    PROVE  Steady(R)'
<1> DEFINE c == <<<<"MOVE", x, nil>>>>
           e == <<<<"PUSHS", Maybe>>, <<"POPS", x>>>>
<1>1. PICK value \in {<<>>, e} : code' = code \o (c \o value)
  BY DEF DeclareNillable, gen_line
<1>2. /\ loops' = loops /\ label' = label /\ ~ended /\ ~ended'
      /\ UNCHANGED <<open, scope, stacks, array_stack>>
  BY DEF DeclareNillable, Reads, Completes, Declares, gen_var_name
<1> DEFINE d == c \o value
<1>3. ASSUME NEW p \in Point, p.frame = 1, NEW T
      PROVE  Chunk(d, p, p, T, OwnPoint(p))
  <2>1. Chunk(c, p, p, T, OwnPoint(p))
    BY <1>3, SourceFacts, OwnWithin, ChunkMOVE DEF Writable
  <2>2. Chunk(e, p, p, T, OwnPoint(p))
    BY <1>3, SourceFacts, ChunkAssign DEF Writable
  <2>3. Chunk(<<>>, p, p, T, OwnPoint(p))
    BY ChunkEmpty
  <2> HIDE DEF c, e
  <2>4. Chunk(value, p, p, T, OwnPoint(p))
    BY <2>2, <2>3
  <2> QED BY <2>1, <2>4, ChunkJoin
<1>4. code' = code \o d
  BY <1>1
<1> HIDE DEF d
<1> QED BY <1>2, <1>3, <1>4, Plainly

\* A call of write keeps the code right.
LEMMA WriteSteady ==
    ASSUME NEW R, Steady(R), NEW x \in Variables, Write(x)
    PROVE  Steady(R)'
<1> DEFINE d == <<<<"PUSHS", x>>, <<"CALL", Entry("write")>>>>
<1>1. /\ code' = code \o d /\ loops' = loops /\ label' = label /\ ~ended /\ ~ended'
      /\ UNCHANGED <<open, scope, stacks, array_stack>>
  BY DEF Write, Reads, Completes, gen_line, gen_var_name, context
<1>2. ASSUME NEW p \in Point, p.frame = 1, NEW T
      PROVE  Chunk(d, p, p, T, OwnPoint(p))
  BY SourceFacts, ChunkWrite
<1> HIDE DEF d
<1> QED BY <1>1, <1>2, Plainly

\* A call of a function keeps the code right.
LEMMA CallSteady ==
    ASSUME NEW R, Steady(R), NEW f \in Function, Call(f)
    PROVE  Steady(R)'
<1> DEFINE d == [i \in 1 .. Arity(f) |-> <<"PUSHS", Constant(0)>>] \o <<<<"CALL", Entry(f)>>>>
<1>1. /\ code' = code \o d /\ loops' = loops /\ label' = label /\ ~ended /\ ~ended'
      /\ UNCHANGED <<open, scope, stacks, array_stack>>
  BY DEF Call, Reads, Completes, gen_line, context, frame_vars
<1>2. ASSUME NEW p \in Point, p.frame = 1, NEW T
      PROVE  Chunk(d, p, p, T, OwnPoint(p))
  BY ChunkCallOf
<1> HIDE DEF d
<1> QED BY <1>1, <1>2, Plainly

\* A statement after which nothing of its block is reached
LEMMA Finally ==
    ASSUME NEW R, NEW T, NEW ann, NEW H, Compiled(R, T, ann, H), NEW d, NEW p,
           p = H[Len(open) + 1].point, ended' = TRUE,
           code' = code \o d, loops' = loops, label' = label,
           UNCHANGED <<open, scope, stacks, array_stack>>,
           Chunk(d, ann[Len(code) + 1], Never, T, OwnPoint(p))
    PROVE  Steady(R)'
<1> DEFINE h == H[Len(open) + 1]
           b == Never
<1>1. Labels(T, label', R) /\ Extends(T, T)
  BY Parts, ExtendsRefl
<1>2. h = H[Len(open) + 1] /\ b = IF ended' THEN Never ELSE h.point
  OBVIOUS
<1>3. Chunk(d, ann[Len(code) + 1], b, T, OwnPoint(h.point))
  OBVIOUS
<1> HIDE DEF h, b
<1> QED BY <1>1, <1>2, <1>3, StayOn

\* gen_break keeps the code right: the end of a loop is where its body may jump to.
LEMMA BreakSteady ==
    ASSUME NEW R, Steady(R), Break
    PROVE  Steady(R)'
<1>1. PICK T, ann, H : Compiled(R, T, ann, H)
  BY DEF Steady
<1> DEFINE h == H[Len(open) + 1]
           p == h.point
           d == <<<<"JUMP", current_loop[2]>>>>
<1>2. /\ code' = code \o d /\ loops' = loops /\ label' = label /\ ~ended /\ ended' = TRUE
      /\ UNCHANGED <<open, scope, stacks, array_stack>>
  BY DEF Break, Reads, Completes, gen_line, context, frame_vars
<1>3. /\ Sound(h, T, R) /\ Here(h) /\ p \in Point
      /\ ann[Len(code) + 1] = p
  BY <1>1, <1>2, Parts
<1> HIDE DEF h
<1>4. PICK i \in 1 .. Len(h.blocks) : h.blocks[i].what \in {"while", "for"}
  <2>1. h.blocks = open /\ IsSeq(h.blocks)
    BY <1>3 DEF Sound, Here
  <2>2. DOMAIN open = 1 .. Len(open)
    BY <2>1 DEF IsSeq
  <2> QED BY <2>1, <2>2 DEF Break, InLoop
<1>5. Goes(current_loop[2], p, T)
  <2>1. h.cl # <<>>
    BY <1>3, <1>4 DEF Sound
  <2> QED BY <2>1, <1>3 DEF Sound, LoopJumps, Here
<1>6. Chunk(d, p, Never, T, OwnPoint(p))
  BY <1>3, <1>5, OwnWithin, NeverPoint, ChunkJUMP
<1>7. p = H[Len(open) + 1].point
  BY DEF h
<1> HIDE DEF p, d
<1> QED BY <1>1, <1>2, <1>3, <1>6, <1>7, Finally

\* gen_continue keeps the code right: a for loop counts before it goes on.
LEMMA ContinueSteady ==
    ASSUME NEW R, Steady(R), Continue
    PROVE  Steady(R)'
<1>1. PICK T, ann, H : Compiled(R, T, ann, H)
  BY DEF Steady
<1> DEFINE h == H[Len(open) + 1]
           p == h.point
           d == Continued
<1>2. /\ code' = code \o d /\ loops' = loops /\ label' = label /\ ~ended /\ ended' = TRUE
      /\ UNCHANGED <<open, scope, stacks, array_stack>>
  BY DEF Continue, Reads, Completes, gen_line, context, frame_vars
<1>3. /\ Sound(h, T, R) /\ Here(h) /\ p \in Point
      /\ ann[Len(code) + 1] = p
  BY <1>1, <1>2, Parts
<1> HIDE DEF h
<1>4. PICK i \in 1 .. Len(h.blocks) : h.blocks[i].what \in {"while", "for"}
  <2>1. h.blocks = open /\ IsSeq(h.blocks)
    BY <1>3 DEF Sound, Here
  <2>2. DOMAIN open = 1 .. Len(open)
    BY <2>1 DEF IsSeq
  <2> QED BY <2>1, <2>2 DEF Continue, InLoop
<1>5. Goes(current_loop[1], IF current_loop_is_for THEN Added(p) ELSE p, T)
  <2>1. h.cl # <<>>
    BY <1>3, <1>4 DEF Sound
  <2> QED BY <2>1, <1>3 DEF Sound, LoopJumps, Here
<1>6. Chunk(d, p, Never, T, OwnPoint(p))
  <2>1. CASE current_loop_is_for
    <3>1. Goes(current_loop[1], Added(p), T)
      BY <1>5, <2>1
    <3>2. Chunk(<<<<"ADD", for_counter_reg>>, <<"JUMP", current_loop[1]>>>>, p, Never, T, OwnPoint(p))
      BY <3>1, <1>3, OwnWithin, NeverPoint, ChunkNext
    <3> QED BY <3>2, <2>1 DEF Continued, gen_for_next
  <2>2. CASE ~current_loop_is_for
    <3>1. Goes(current_loop[1], p, T)
      BY <1>5, <2>2
    <3>2. Chunk(<<<<"JUMP", current_loop[1]>>>>, p, Never, T, OwnPoint(p))
      BY <3>1, <1>3, OwnWithin, NeverPoint, ChunkJUMP
    <3> QED BY <3>2, <2>2 DEF Continued
  <2> QED BY <2>1, <2>2
<1>7. p = H[Len(open) + 1].point
  BY DEF h
<1> HIDE DEF p, d
<1> QED BY <1>1, <1>2, <1>3, <1>6, <1>7, Finally

\* RETURN keeps the code right, for outside of the for loops the registers are the
\* caller's and nothing is on the data stack.
LEMMA ReturnSteady ==
    ASSUME NEW R \in Int \X Int, Steady(R), Names, Return
    PROVE  Steady(R)'
<1>1. PICK T, ann, H : Compiled(R, T, ann, H)
  BY DEF Steady
<1> DEFINE h == H[Len(open) + 1]
           p == h.point
           d == IF open[1].what = "func" THEN gen_return(TRUE)
                ELSE <<<<"PUSHS", Constant(0)>>>> \o gen_return(FALSE)
<1>2. /\ code' = code \o d /\ loops' = loops /\ label' = label /\ ~ended /\ ended' = TRUE
      /\ UNCHANGED <<open, scope, stacks, array_stack>>
  BY DEF Return, Reads, Completes, gen_line, context, frame_vars
<1>3. /\ Sound(h, T, R) /\ Here(h) /\ p \in Point /\ Labels(T, label, R)
      /\ ann[Len(code) + 1] = p
  BY <1>1, <1>2, Parts
<1> HIDE DEF h
<1>4. p = Inside(R, 1)
  <2>1. ~InFor /\ InFunction
    BY DEF Return, Names
  <2>2. h.blocks = open /\ IsSeq(h.blocks)
    BY <1>3 DEF Sound, Here
  <2>3. DOMAIN open = 1 .. Len(open)
    BY <2>2 DEF IsSeq
  <2>4. \A i \in 1 .. Len(h.blocks) : h.blocks[i].what # "for"
    BY <2>1, <2>2, <2>3 DEF InFor
  <2>5. p = Inside(R, Level(open))
    BY <2>2, <2>4, <1>3 DEF Sound
  <2>6. Level(open) = 1
    BY <2>1 DEF Level, InFunction, IsFunction
  <2> QED BY <2>5, <2>6
<1>5. Is(Back, Outside(R, 1, 0), T)
  BY <1>3 DEF Labels, Fixed, Is
<1>6. Chunk(d, p, Never, T, OwnPoint(p))
  <2>1. Chunk(<<<<"POPFRAME">>, <<"RETURN">>>>, Inside(R, 1), Never, T, OwnPoint(Inside(R, 1)))
    BY <1>5, NeverPoint, ChunkGoBack
  <2>2. Chunk(<<<<"PUSHS", Constant(0)>>>> \o (<<<<"POPS", ret_reg>>>> \o <<<<"POPFRAME">>, <<"RETURN">>>>),
              Inside(R, 1), Never, T, OwnPoint(Inside(R, 1)))
    BY <1>5, NeverPoint, ChunkReturnValue
  <2>3. gen_return(TRUE) = <<<<"POPFRAME">>, <<"RETURN">>>>
    BY DEF gen_return
  <2>4. gen_return(FALSE) = <<<<"POPS", ret_reg>>>> \o <<<<"POPFRAME">>, <<"RETURN">>>>
    BY DEF gen_return
  <2>5. CASE open[1].what = "func"
    <3>1. d = <<<<"POPFRAME">>, <<"RETURN">>>>
      BY <2>3, <2>5
    <3> QED BY <3>1, <2>1, <1>4
  <2>6. CASE open[1].what # "func"
    <3>1. d = <<<<"PUSHS", Constant(0)>>>> \o (<<<<"POPS", ret_reg>>>> \o <<<<"POPFRAME">>, <<"RETURN">>>>)
      BY <2>4, <2>6
    <3> QED BY <3>1, <2>2, <1>4
  <2> QED BY <2>5, <2>6
<1>7. p = H[Len(open) + 1].point
  BY DEF h
<1> HIDE DEF p, d
<1> QED BY <1>1, <1>2, <1>3, <1>6, <1>7, Finally

\* The labels of branches and loops go on their stacks.
LEMMA UniqueLabel ==
    ASSUME NEW n \in Int
    PROVE  /\ Label("branch_end", n) \in Unique /\ Label("branch_skip", n) \in Unique
           /\ Label("while_start", n) \in Unique /\ Label("while_end", n) \in Unique
           /\ Label("for_start", n) \in Unique /\ Label("for_end", n) \in Unique
  BY DEF Label, Unique, LabelNames

\* A stack with two labels more.
LEMMA PairSeq ==
    ASSUME NEW S, NEW s \in Seq(S), NEW x \in S, NEW y \in S
    PROVE  s \o <<x, y>> \in Seq(S) /\ <<x, y>> \in Seq(S) /\ Len(<<x, y>>) = 2
           /\ <<x, y>>[1] = x /\ <<x, y>>[2] = y /\ <<x, y>> # <<>>
<1>1. <<x, y>> \in Seq(S) /\ Len(<<x, y>>) = 2 /\ <<x, y>>[1] = x /\ <<x, y>>[2] = y
  OBVIOUS
<1>2. <<x, y>> # <<>>
  OBVIOUS
<1>3. s \o <<x, y>> \in Seq(S)
  BY <1>1
<1> QED BY <1>1, <1>2, <1>3

\* A test is on nothing or on a variable in scope.
LEMMA TestVariables ==
    ASSUME NEW V, V \subseteq Variables, NEW test \in Tests(V)
    PROVE  test = NoLet \/ test \in Variables
  BY DEF Tests

\* BRANCH keeps the code right.
LEMMA IfSteady ==
    ASSUME NEW R, Steady(R), Names, NEW test \in Tests(DOMAIN declared), If(test)
    PROVE  Steady(R)'
<1>1. PICK T, ann, H : Compiled(R, T, ann, H)
  BY DEF Steady
<1> DEFINE h == H[Len(open) + 1]
           p == h.point
           e == Label("branch_end", label)
           s == Label("branch_skip", label + 1)
           b == [what |-> "if", depth |-> 1, labels |-> <<>>]
           d == TestCode(test, scope + 1, s)
<1>2. /\ Sound(h, T, R) /\ Here(h) /\ p \in Point /\ p.frame = 1 /\ Labels(T, label, R)
      /\ scope \in Nat /\ (~ended => ann[Len(code) + 1] = p)
  BY <1>1, Parts
<1>3. /\ code' = code \o d /\ label' = label + 2 /\ loops' = loops /\ ~ended /\ ended' = FALSE
      /\ open' = Append(open, b) /\ scope' = scope + 1
      /\ branch_label_stack' = branch_label_stack \o <<e, s>>
      /\ UNCHANGED <<loop_label_stack, cycle_type_stack, current_loop, current_loop_is_for, array_stack>>
  BY DEF If, Reads, Completes, gen_line, Block, Names, BR_EXPR, gen_var_name, frame_vars
<1>40. PICK g : Reached(g, p, h.loops)
  BY ReachedContext
<1>4. /\ g.blocks = open' /\ g.scope = scope' /\ g.point = p /\ g.bl = branch_label_stack'
      /\ g.ll = loop_label_stack' /\ g.ct = cycle_type_stack' /\ g.cl = current_loop'
      /\ g.isfor = current_loop_is_for' /\ g.kept = array_stack' /\ g.loops = h.loops /\ Here(g)'
  BY <1>40 DEF Reached
<1>5. /\ h.blocks = open /\ h.scope = scope /\ h.bl = branch_label_stack
      /\ h.ll = loop_label_stack /\ h.ct = cycle_type_stack /\ h.cl = current_loop
      /\ h.isfor = current_loop_is_for /\ h.kept = array_stack
  BY <1>2 DEF Here
<1>6. PICK U : Labels(U, label + 2, R) /\ Extends(T, U) /\ Is(e, p, U) /\ Is(s, p, U)
  <2> HIDE DEF h, p
  <2> QED BY <1>2, NewLabelPair DEF Names
<1>7. IsBlock(b) /\ b.what = "if" /\ b.depth = 1 /\ e \in Unique /\ s \in Unique
  <2>1. label \in Nat /\ label + 1 \in Nat /\ b.what = "if" /\ b.depth = 1 /\ IsBlock(b)
    BY DEF Names, IsBlock
  <2> HIDE DEF b
  <2>2. e \in Unique /\ s \in Unique
    BY <2>1, UniqueLabel
  <2> QED BY <2>1, <2>2
<1>70. h = H[Len(open) + 1] /\ p = h.point
  OBVIOUS
<1> HIDE DEF b, e, h, p
<1>8. Sound(h, U, R)
  BY <1>2, <1>6, SoundExtends
<1>9. Pushed(b, h, g, U)
  <2>1. g.bl = h.bl \o <<e, s>> /\ g.blocks = Append(h.blocks, b) /\ g.scope = h.scope + b.depth
    BY <1>3, <1>4, <1>5, <1>7
  <2>2. SameLoop(h, g) /\ g.kept = h.kept /\ g.point = h.point
    BY <1>3, <1>4, <1>5, <1>70 DEF SameLoop
  <2> HIDE DEF s
  <2> QED BY <2>1, <2>2, <1>6, <1>7, <1>70 DEF Pushed
<1>10. Sound(g, U, R)
  <2>1. /\ h.bl \in Seq(Unique) /\ h.ll \in Seq(Unique) /\ IsSeq(h.ct) /\ h.cl \in Seq(Unique)
        /\ (h.cl # <<>> => Len(h.cl) = 2 /\ LoopJumps(h, U)) /\ h.scope \in Nat
    BY <1>8 DEF Sound
  <2>2. g.bl \in Seq(Unique)
    BY <2>1, <1>3, <1>4, <1>5, <1>7, PairSeq
  <2>3. g.ll = h.ll /\ g.ct = h.ct /\ g.cl = h.cl /\ g.isfor = h.isfor /\ g.point = h.point
    BY <1>3, <1>4, <1>5, <1>70
  <2>4. g.cl # <<>> => Len(g.cl) = 2 /\ LoopJumps(g, U)
    BY <2>1, <2>3 DEF LoopJumps
  <2>5. g.blocks = Append(h.blocks, b) /\ g.scope = h.scope + b.depth /\ g.kept = h.kept
    BY <1>3, <1>4, <1>5, <1>7
  <2>6. b.what \in {"if", "else", "while"} /\ b.what # "while"
    BY <1>7
  <2>7. g.ll \in Seq(Unique) /\ IsSeq(g.ct) /\ g.cl \in Seq(Unique) /\ g.loops = h.loops
    BY <2>1, <2>3, <1>4
  <2>8. g.cl = <<>> => h.cl = <<>> /\ g.ll = h.ll /\ b.what # "while"
    BY <2>3, <2>6
  <2>9. b.depth = 1 /\ g.point = h.point
    BY <2>3, <1>7
  <2>10. Nested(h, g, b, U)
    BY <2>2, <2>4, <2>5, <2>6, <2>7, <2>8, <2>9 DEF Nested
  <2> QED BY <1>8, <2>10, SoundPush
<1>11. Chunk(d, ann[Len(code) + 1], g.point, U, OwnPoint(h.point))
  <2>1. test = NoLet \/ test \in Variables
    BY TestVariables DEF Names
  <2>2. Goes(s, p, U)
    BY <1>2, <1>6, GoesIs
  <2> DEFINE n == scope + 1
  <2>3. n \in Nat /\ n > 0
    BY <1>2
  <2> HIDE DEF n, s
  <2>4. Chunk(TestCode(test, n, s), p, p, U, OwnPoint(p))
    BY <1>2, <2>1, <2>2, <2>3, ChunkTest
  <2> QED BY <2>4, <1>2, <1>3, <1>4, <1>70 DEF n
<1> HIDE DEF d
<1>12. Labels(U, label', R) /\ open' = Append(open, b)
  BY <1>3, <1>6
<1> QED BY <1>1, <1>3, <1>4, <1>6, <1>9, <1>10, <1>11, <1>12, <1>70, PushOn

\* Two sequences are the same if they have the same elements.
LEMMA SameSeq ==
    ASSUME NEW S, NEW s \in Seq(S), NEW t \in Seq(S), Len(s) = Len(t),
           \A i \in 1 .. Len(s) : s[i] = t[i]
    PROVE  s = t
  OBVIOUS

\* What was appended is last.
LEMMA Unappend ==
    ASSUME NEW S, NEW s \in Seq(S), NEW x
    PROVE  /\ Front(Append(s, x)) = s /\ Last(Append(s, x)) = x /\ Append(s, x) # <<>>
<1> DEFINE V == S \cup {x}
           t == Append(s, x)
<1>1. s \in Seq(V) /\ x \in V
  OBVIOUS
<1> HIDE DEF V
<1>2. t \in Seq(V) /\ Len(t) = Len(s) + 1 /\ Len(s) \in Nat
      /\ (\A i \in 1 .. Len(s) : t[i] = s[i]) /\ t[Len(s) + 1] = x
  BY <1>1, AppendSeq
<1> HIDE DEF t
<1>3. t # <<>> /\ Last(t) = x
  BY <1>2 DEF Last
<1>4. Front(t) \in Seq(V) /\ Len(Front(t)) = Len(s) /\ \A i \in 1 .. Len(s) : Front(t)[i] = t[i]
  <2>1. Len(t) - 1 = Len(s)
    BY <1>2
  <2> QED BY <1>2, <1>3, <2>1, FrontSeq
<1> DEFINE u == Front(t)
<1> HIDE DEF u
<1>5. u = s
  <2>1. u \in Seq(V) /\ Len(u) = Len(s) /\ \A i \in 1 .. Len(u) : u[i] = s[i]
    BY <1>2, <1>4 DEF u
  <2> QED BY <1>1, <2>1, SameSeq
<1> QED BY <1>3, <1>5 DEF t, u

\* Two elements, one after the other.
LEMMA AppendTwo ==
    ASSUME NEW S, NEW s \in Seq(S), NEW x \in S, NEW y \in S
    PROVE  s \o <<x, y>> = Append(Append(s, x), y)
  OBVIOUS

\* The last two elements of a stack
Topped(t, s, x, y) ==
    /\ Last(t) = y /\ t[Len(t) - 1] = x /\ Front(t) = Append(s, x) /\ Front(Front(t)) = s
    /\ t # <<>> /\ SubSeq(t, Len(t) - 1, Len(t)) = <<x, y>> /\ Append(Front(t), y) = t

\* The two elements that were put on a stack are its last two.
LEMMA TopTwo ==
    ASSUME NEW S, NEW s \in Seq(S), NEW x \in S, NEW y \in S
    PROVE  Topped(s \o <<x, y>>, s, x, y)
<1>0. PICK t : t = s \o <<x, y>>
  OBVIOUS
<1> DEFINE u == Append(s, x)
<1>1. t = Append(u, y)
  BY <1>0, AppendTwo
<1>2. u \in Seq(S) /\ Len(u) = Len(s) + 1 /\ Len(s) \in Nat /\ u[Len(s) + 1] = x
  BY AppendSeq
<1>3. Front(u) = s
  BY Unappend
<1> HIDE DEF u
<1>4. Front(t) = u /\ Last(t) = y /\ t # <<>>
  <2>1. Front(Append(u, y)) = u /\ Last(Append(u, y)) = y /\ Append(u, y) # <<>>
    BY <1>2, Unappend
  <2> QED BY <2>1, <1>1
<1>5. /\ t \in Seq(S) /\ Len(t) = Len(u) + 1 /\ Len(u) \in Nat
      /\ (\A i \in 1 .. Len(u) : t[i] = u[i]) /\ t[Len(u) + 1] = y
  <2> DEFINE z == Append(u, y)
  <2>1. /\ z \in Seq(S) /\ Len(z) = Len(u) + 1 /\ Len(u) \in Nat
        /\ (\A i \in 1 .. Len(u) : z[i] = u[i]) /\ z[Len(u) + 1] = y
    BY <1>2, AppendSeq
  <2> HIDE DEF z
  <2>2. t = z
    BY <1>1 DEF z
  <2> QED BY <2>1, <2>2
<1>6. t[Len(t) - 1] = x
  <2>1. Len(t) - 1 = Len(s) + 1 /\ Len(s) + 1 \in 1 .. Len(u)
    BY <1>2, <1>5
  <2> QED BY <2>1, <1>2, <1>5
<1>7. SubSeq(t, Len(t) - 1, Len(t)) = <<x, y>>
  <2>1. Len(t) - 1 \in Nat /\ Len(t) - 1 > 0 /\ t[Len(t)] = y
    BY <1>2, <1>5
  <2> DEFINE n == Len(t) - 1
             v == SubSeq(t, n, n + 1)
  <2>2. n \in Nat /\ n > 0 /\ n + 1 <= Len(t) /\ n + 1 = Len(t) /\ t[n] = x /\ t[n + 1] = y
    BY <1>5, <1>6, <2>1
  <2> HIDE DEF n
  <2>3. v \in Seq(S) /\ Len(v) = 2
    BY <1>5, <2>2
  <2>4. v[1] = t[n] /\ v[2] = t[n + 1]
    BY <1>5, <2>2
  <2>5. v[1] = x /\ v[2] = y /\ v \in Seq(S) /\ Len(v) = 2
    BY <2>2, <2>3, <2>4
  <2> HIDE DEF v
  <2>6. v = <<x, y>>
    BY <2>5
  <2> QED BY <2>2, <2>6 DEF v, n
<1> QED BY <1>0, <1>1, <1>3, <1>4, <1>6, <1>7 DEF u, Topped

\* A sequence is its front and its last element.
LEMMA FrontLast ==
    ASSUME NEW s, IsSeq(s), s # <<>>
    PROVE  Append(Front(s), Last(s)) = s
<1> DEFINE S == {s[i] : i \in DOMAIN s}
           u == Front(s)
           n == Len(s)
<1>1. s \in Seq(S)
  BY DEF IsSeq
<1> HIDE DEF S
<1>2. n \in Nat /\ n > 0 /\ u \in Seq(S) /\ Len(u) = n - 1 /\ \A i \in 1 .. n - 1 : u[i] = s[i]
  BY <1>1, FrontSeq
<1>3. Last(s) = s[n] /\ s[n] \in S
  BY <1>1, <1>2 DEF Last
<1> HIDE DEF u
<1> DEFINE t == Append(u, s[n])
<1>4. /\ t \in Seq(S) /\ Len(t) = Len(u) + 1
      /\ (\A i \in 1 .. Len(u) : t[i] = u[i]) /\ t[Len(u) + 1] = s[n]
  BY <1>2, <1>3, AppendSeq
<1> HIDE DEF t
<1>5. Len(t) = n /\ \A i \in 1 .. n : t[i] = s[i]
  <2>1. Len(t) = n /\ t[n] = s[n] /\ \A i \in 1 .. n - 1 : t[i] = s[i]
    BY <1>2, <1>4
  <2>2. \A i \in 1 .. n : i = n \/ i \in 1 .. n - 1
    BY <1>2
  <2> QED BY <2>1, <2>2
<1>6. t = s
  <2>1. Len(t) = Len(s) /\ \A i \in 1 .. Len(t) : t[i] = s[i]
    BY <1>5 DEF n
  <2> HIDE DEF n
  <2> QED BY <1>1, <1>4, <2>1, SameSeq
<1> QED BY <1>3, <1>6 DEF t, u

\* What the end of a branch finds
Branched(e, s, f, h, T) ==
    /\ e \in Unique /\ s \in Unique
    /\ branch_label_stack = f.bl \o <<e, s>> /\ f.bl \in Seq(Unique)
    /\ Is(e, h.point, T) /\ Is(s, h.point, T)

\* Under a branch is the context it was begun in, and its two labels are on the stack.
LEMMA UnderIf ==
    ASSUME NEW R, NEW T, NEW ann, NEW H, Compiled(R, T, ann, H), Closes("if")
    PROVE  LET h == H[Len(open) + 1]
               f == H[Len(open)]
               b == Last(open)
           IN  /\ Sound(f, T, R) /\ SameLoop(f, h) /\ h.kept = f.kept /\ h.point = f.point
               /\ Append(f.blocks, b) = open /\ Front(open) = f.blocks /\ Append(Front(open), b) = open
               /\ IsBlock(b) /\ b.depth \in {1, 2} /\ scope = f.scope + b.depth /\ f.scope \in Nat
               /\ \E e, s : Branched(e, s, f, h, T)
<1> DEFINE h == H[Len(open) + 1]
           f == H[Len(open)]
           b == Last(open)
<1>1. open # <<>> /\ b.what = "if"
  BY DEF Closes
<1>2. Chain(H, open, T, R) /\ IsSeq(open) /\ Here(h)
  BY Parts
<1>3. Pushed(b, f, h, T) /\ Sound(f, T, R)
  BY <1>1, <1>2, ChainPop
<1>4. Append(Front(open), b) = open
  BY <1>1, <1>2, FrontLast
<1> HIDE DEF h, f, b
<1>5. /\ SameLoop(f, h) /\ h.kept = f.kept /\ h.point = f.point
      /\ h.blocks = Append(f.blocks, b) /\ IsBlock(b) /\ b.depth \in {1, 2} /\ h.scope = f.scope + b.depth
      /\ \E e \in Unique, s \in Unique : h.bl = f.bl \o <<e, s>> /\ Is(e, f.point, T) /\ Is(s, f.point, T)
  BY <1>1, <1>3 DEF Pushed, IsFunction
<1>6. f.bl \in Seq(Unique) /\ IsSeq(f.blocks) /\ f.scope \in Nat
  BY <1>3 DEF Sound
<1>7. Append(f.blocks, b) = open /\ h.scope = scope /\ h.bl = branch_label_stack
  BY <1>2, <1>5 DEF Here
<1>8. Front(open) = f.blocks
  <2>1. f.blocks \in Seq({f.blocks[i] : i \in DOMAIN f.blocks})
    BY <1>6 DEF IsSeq
  <2> DEFINE S == {f.blocks[i] : i \in DOMAIN f.blocks}
  <2> HIDE DEF S
  <2>2. Front(Append(f.blocks, b)) = f.blocks
    BY <2>1, Unappend DEF S
  <2> QED BY <2>2, <1>7
<1>9. \E e, s : Branched(e, s, f, h, T)
  <2>1. PICK e \in Unique, s \in Unique :
           h.bl = f.bl \o <<e, s>> /\ Is(e, f.point, T) /\ Is(s, f.point, T)
    BY <1>5
  <2>2. Branched(e, s, f, h, T)
    BY <2>1, <1>5, <1>6, <1>7 DEF Branched
  <2> QED BY <2>2
<1>10. scope = f.scope + b.depth
  BY <1>5, <1>7
<1> QED BY <1>3, <1>4, <1>5, <1>6, <1>7, <1>8, <1>9, <1>10 DEF h, f, b

\* What gen_branch_if_end does with them.
LEMMA BranchedStack ==
    ASSUME NEW e, NEW s, NEW f, NEW h, NEW T, Branched(e, s, f, h, T)
    PROVE  /\ BranchEnd = e /\ Last(branch_label_stack) = s
           /\ Front(branch_label_stack) = Append(f.bl, e)
           /\ Front(Front(branch_label_stack)) = f.bl
           /\ gen_branch_if_end = <<<<"JUMP", e>>, <<"LABEL", s>>>>
<1>1. /\ e \in Unique /\ s \in Unique
      /\ branch_label_stack = f.bl \o <<e, s>> /\ f.bl \in Seq(Unique)
  BY DEF Branched
<1>2. /\ Last(branch_label_stack) = s /\ branch_label_stack[Len(branch_label_stack) - 1] = e
      /\ Front(branch_label_stack) = Append(f.bl, e)
      /\ Front(Front(branch_label_stack)) = f.bl
  <2>1. Topped(f.bl \o <<e, s>>, f.bl, e, s)
    BY <1>1, TopTwo
  <2>2. Topped(branch_label_stack, f.bl, e, s)
    BY <2>1, <1>1
  <2> QED BY <2>2 DEF Topped
<1> QED BY <1>2 DEF BranchEnd, gen_branch_if_end

\* The end of a branch keeps the code right.
LEMMA IfEndSteady ==
    ASSUME NEW R, Steady(R), IfEnd
    PROVE  Steady(R)'
<1>1. PICK T, ann, H : Compiled(R, T, ann, H)
  BY DEF Steady
<1>50. PICK h, f : h = H[Len(open) + 1] /\ f = H[Len(open)]
  OBVIOUS
<1> DEFINE p == h.point
           d == gen_branch_if_end \o <<<<"LABEL", BranchEnd>>>>
<1>2. Closes("if") /\ open # <<>>
  BY DEF IfEnd, Closes
<1>3. /\ Here(h) /\ p \in Point /\ Labels(T, label, R)
      /\ ann[Len(code) + 1] = IF ended THEN Never ELSE p
  BY <1>1, <1>50, Parts
<1>4. /\ Sound(f, T, R) /\ SameLoop(f, h) /\ h.kept = f.kept /\ p = f.point
      /\ Front(open) = f.blocks /\ scope = f.scope + Last(open).depth
      /\ Last(open).depth \in {1, 2} /\ f.scope \in Nat
      /\ \E e, s : Branched(e, s, f, h, T)
  BY <1>1, <1>2, <1>50, UnderIf
<1>5. PICK e, s : Branched(e, s, f, h, T)
  BY <1>4
<1>51. p = h.point
  OBVIOUS
<1> HIDE DEF p
<1>6. /\ BranchEnd = e /\ Front(Front(branch_label_stack)) = f.bl
      /\ gen_branch_if_end = <<<<"JUMP", e>>, <<"LABEL", s>>>>
      /\ Is(e, p, T) /\ Is(s, p, T)
  BY <1>5, <1>51, BranchedStack DEF Branched
<1>7. /\ code' = code \o d /\ label' = label /\ loops' = loops /\ ended' = FALSE
      /\ open' = Front(open) /\ scope' = scope - Last(open).depth
      /\ branch_label_stack' = Front(Front(branch_label_stack))
      /\ UNCHANGED <<loop_label_stack, cycle_type_stack, current_loop, current_loop_is_for, array_stack>>
  BY DEF IfEnd, gen_line, BlockEnd, Unbranched, frame_vars
<1>8. Here(f)'
  <2>1. scope' = f.scope
    BY <1>4, <1>7
  <2>2. /\ h.ll = loop_label_stack /\ h.ct = cycle_type_stack /\ h.cl = current_loop
        /\ h.isfor = current_loop_is_for /\ h.kept = array_stack
    BY <1>3 DEF Here
  <2>3. /\ f.ll = loop_label_stack' /\ f.ct = cycle_type_stack' /\ f.cl = current_loop'
        /\ f.isfor = current_loop_is_for' /\ f.kept = array_stack'
    BY <2>2, <1>4, <1>7 DEF SameLoop
  <2>4. f.blocks = open' /\ f.bl = branch_label_stack'
    BY <1>4, <1>6, <1>7
  <2> QED BY <2>1, <2>3, <2>4 DEF Here
<1>9. Chunk(d, ann[Len(code) + 1], f.point, T, OwnPoint(h.point))
  <2> DEFINE a == ann[Len(code) + 1]
  <2>1. a = p \/ a = Never
    BY <1>3
  <2> HIDE DEF a
  <2>2. Chunk(<<<<"JUMP", e>>, <<"LABEL", s>>>>, a, p, T, OwnPoint(p))
    BY <2>1, <1>3, <1>6, ChunkJumpLabel
  <2>3. Chunk(<<<<"LABEL", e>>>>, p, p, T, OwnPoint(p))
    BY <1>3, <1>6, ChunkLabel
  <2>4. Chunk(<<<<"JUMP", e>>, <<"LABEL", s>>>> \o <<<<"LABEL", e>>>>, a, p, T, OwnPoint(p))
    BY <2>2, <2>3, ChunkJoin
  <2> QED BY <2>4, <1>4, <1>6, <1>51 DEF a
<1>10. f.loops = h.loops /\ Labels(T, label', R) /\ Extends(T, T)
  BY <1>3, <1>4, <1>7, ExtendsRefl DEF SameLoop
<1> HIDE DEF d
<1> QED BY <1>1, <1>2, <1>7, <1>8, <1>9, <1>10, <1>50, PopOn

\* "else" keeps the code right.
LEMMA ElseSteady ==
    ASSUME NEW R, Steady(R), Else
    PROVE  Steady(R)'
<1>1. PICK T, ann, H : Compiled(R, T, ann, H)
  BY DEF Steady
<1>50. PICK h, f : h = H[Len(open) + 1] /\ f = H[Len(open)]
  OBVIOUS
<1> DEFINE p == h.point
           b == [Last(open) EXCEPT !.what = "else"]
           d == gen_branch_if_end
<1>2. Closes("if") /\ open # <<>>
  BY DEF Else, Closes
<1>3. /\ Here(h) /\ p \in Point /\ Labels(T, label, R)
      /\ ann[Len(code) + 1] = IF ended THEN Never ELSE p
  BY <1>1, <1>50, Parts
<1>4. /\ Sound(f, T, R) /\ SameLoop(f, h) /\ h.kept = f.kept /\ p = f.point
      /\ Front(open) = f.blocks /\ scope = f.scope + Last(open).depth /\ IsBlock(Last(open))
      /\ Last(open).depth \in {1, 2} /\ f.scope \in Nat
      /\ \E e, s : Branched(e, s, f, h, T)
  BY <1>1, <1>2, <1>50, UnderIf
<1>5. PICK e, s : Branched(e, s, f, h, T)
  BY <1>4
<1>51. p = h.point
  OBVIOUS
<1> HIDE DEF p
<1>6. /\ BranchEnd = e /\ Front(branch_label_stack) = Append(f.bl, e)
      /\ gen_branch_if_end = <<<<"JUMP", e>>, <<"LABEL", s>>>>
      /\ Is(e, p, T) /\ Is(s, p, T) /\ e \in Unique
  BY <1>5, <1>51, BranchedStack DEF Branched
<1>7. /\ code' = code \o d /\ label' = label /\ loops' = loops /\ ended' = FALSE
      /\ open' = Append(Front(open), b) /\ scope' = scope
      /\ branch_label_stack' = Front(branch_label_stack)
      /\ UNCHANGED <<loop_label_stack, cycle_type_stack, current_loop, current_loop_is_for, array_stack>>
  BY DEF Else, gen_line, Unbranched, frame_vars
<1>8. IsBlock(b) /\ b.what = "else" /\ b.depth = Last(open).depth
  <2> DEFINE w == Last(open)
  <2> HIDE DEF w
  <2>1. w = [what |-> w.what, depth |-> w.depth, labels |-> w.labels]
    BY <1>4 DEF IsBlock, w
  <2>2. PICK wd, wl, ww : w = [what |-> ww, depth |-> wd, labels |-> wl]
    BY <2>1
  <2>3. [w EXCEPT !.what = "else"] = [what |-> "else", depth |-> wd, labels |-> wl]
    BY <2>2
  <2>4. b = [what |-> "else", depth |-> wd, labels |-> wl] /\ wd = w.depth
    BY <2>2, <2>3 DEF w
  <2> HIDE DEF b
  <2> QED BY <2>4 DEF IsBlock, w
<1> HIDE DEF b, d
<1>9. PICK g : Reached(g, p, h.loops)
  BY ReachedContext
<1>10. /\ g.blocks = open' /\ g.scope = scope' /\ g.point = p /\ g.bl = branch_label_stack'
       /\ g.ll = loop_label_stack' /\ g.ct = cycle_type_stack' /\ g.cl = current_loop'
       /\ g.isfor = current_loop_is_for' /\ g.kept = array_stack' /\ g.loops = h.loops /\ Here(g)'
  BY <1>9 DEF Reached
<1>11. /\ g.ll = f.ll /\ g.ct = f.ct /\ g.cl = f.cl /\ g.isfor = f.isfor /\ g.kept = f.kept
       /\ g.loops = f.loops /\ g.point = f.point /\ g.scope = f.scope + b.depth
       /\ g.bl = Append(f.bl, e) /\ g.blocks = Append(f.blocks, b)
  <2>1. /\ h.ll = loop_label_stack /\ h.ct = cycle_type_stack /\ h.cl = current_loop
        /\ h.isfor = current_loop_is_for /\ h.kept = array_stack
    BY <1>3 DEF Here
  <2>2. /\ g.ll = f.ll /\ g.ct = f.ct /\ g.cl = f.cl /\ g.isfor = f.isfor /\ g.kept = f.kept
        /\ g.loops = f.loops /\ g.point = f.point
    BY <2>1, <1>4, <1>7, <1>10 DEF SameLoop
  <2>3. g.scope = f.scope + b.depth
    BY <1>4, <1>7, <1>8, <1>10
  <2>4. g.bl = Append(f.bl, e) /\ g.blocks = Append(f.blocks, b)
    BY <1>4, <1>6, <1>7, <1>10
  <2> QED BY <2>2, <2>3, <2>4
<1>12. Pushed(b, f, g, T)
  <2>1. SameLoop(f, g)
    BY <1>11 DEF SameLoop
  <2>2. Is(e, f.point, T) /\ b.depth \in {1, 2}
    BY <1>4, <1>6, <1>8
  <2> QED BY <2>1, <2>2, <1>6, <1>8, <1>11 DEF Pushed
<1>13. Sound(g, T, R)
  <2>1. /\ f.bl \in Seq(Unique) /\ f.ll \in Seq(Unique) /\ IsSeq(f.ct) /\ f.cl \in Seq(Unique)
        /\ (f.cl # <<>> => Len(f.cl) = 2 /\ LoopJumps(f, T))
    BY <1>4 DEF Sound
  <2>2. g.cl # <<>> => Len(g.cl) = 2 /\ LoopJumps(g, T)
    BY <2>1, <1>11 DEF LoopJumps
  <2>3. g.bl \in Seq(Unique)
    BY <2>1, <1>6, <1>11, AppendSeq
  <2>4. Nested(f, g, b, T)
    BY <2>1, <2>2, <2>3, <1>4, <1>8, <1>11 DEF Nested
  <2> QED BY <1>4, <2>4, SoundPush
<1>14. Chunk(d, ann[Len(code) + 1], g.point, T, OwnPoint(h.point))
  <2> DEFINE a == ann[Len(code) + 1]
  <2>1. a = p \/ a = Never
    BY <1>3
  <2> HIDE DEF a
  <2>2. Chunk(<<<<"JUMP", e>>, <<"LABEL", s>>>>, a, p, T, OwnPoint(p))
    BY <2>1, <1>3, <1>6, ChunkJumpLabel
  <2> QED BY <2>2, <1>6, <1>10, <1>51 DEF a, d
<1>15. Labels(T, label', R) /\ Extends(T, T)
  BY <1>3, <1>7, ExtendsRefl
<1> QED BY <1>1, <1>2, <1>7, <1>10, <1>12, <1>13, <1>14, <1>15, <1>50, SwapOn

\* "else if" keeps the code right.
LEMMA ElseIfSteady ==
    ASSUME NEW R, Steady(R), Names, NEW test, test = NoLet \/ test \in Variables, ElseIf(test)
    PROVE  Steady(R)'
<1>1. PICK T, ann, H : Compiled(R, T, ann, H)
  BY DEF Steady
<1>50. PICK h, f : h = H[Len(open) + 1] /\ f = H[Len(open)]
  OBVIOUS
<1> DEFINE p == h.point
           b == Last(open)
           s2 == Label("branch_skip", label)
           d == gen_branch_if_end \o TestCode(test, scope, s2)
<1>2. Closes("if") /\ open # <<>>
  BY DEF ElseIf, Closes
<1>3. /\ Here(h) /\ p \in Point /\ Labels(T, label, R) /\ p.frame = 1 /\ scope \in Nat /\ scope > 0
      /\ ann[Len(code) + 1] = IF ended THEN Never ELSE p
  BY <1>1, <1>2, <1>50, Parts
<1>4. /\ Sound(f, T, R) /\ SameLoop(f, h) /\ h.kept = f.kept /\ p = f.point
      /\ Front(open) = f.blocks /\ Append(Front(open), Last(open)) = open /\ scope = f.scope + Last(open).depth /\ IsBlock(Last(open))
      /\ Last(open).depth \in {1, 2} /\ f.scope \in Nat
      /\ \E e, s : Branched(e, s, f, h, T)
  BY <1>1, <1>2, <1>50, UnderIf
<1>5. PICK e, s : Branched(e, s, f, h, T)
  BY <1>4
<1>51. p = h.point
  OBVIOUS
<1> HIDE DEF p
<1>6. /\ BranchEnd = e /\ Front(branch_label_stack) = Append(f.bl, e)
      /\ gen_branch_if_end = <<<<"JUMP", e>>, <<"LABEL", s>>>>
      /\ Is(e, p, T) /\ Is(s, p, T) /\ e \in Unique
  BY <1>5, <1>51, BranchedStack DEF Branched
<1>60. b.what = "if" /\ IsBlock(b) /\ b = Last(open)
  BY <1>2, <1>4 DEF Closes
<1> HIDE DEF b
<1>7. /\ code' = code \o d /\ label' = label + 1 /\ loops' = loops /\ ended' = FALSE
      /\ open' = Append(Front(open), b) /\ scope' = scope
      /\ branch_label_stack' = Append(Front(branch_label_stack), s2)
      /\ UNCHANGED <<loop_label_stack, cycle_type_stack, current_loop, current_loop_is_for, array_stack>>
  <2>1. open' = open
    BY DEF ElseIf
  <2> QED BY <2>1, <1>4, <1>60 DEF ElseIf, gen_line, Unbranched, frame_vars, BR_EXPR, gen_var_name
<1>70. PICK U : Labels(U, label + 1, R) /\ Extends(T, U) /\ Is(s2, p, U)
  BY <1>3, NewLabel DEF Names
<1>71. s2 \in Unique
  BY UniqueLabel DEF Names
<1> HIDE DEF d, s2
<1>8. Sound(f, U, R) /\ Is(e, p, U) /\ Is(s, p, U)
  BY <1>4, <1>6, <1>70, SoundExtends DEF Is, Extends
<1>9. PICK g : Reached(g, p, h.loops)
  BY ReachedContext
<1>10. /\ g.blocks = open' /\ g.scope = scope' /\ g.point = p /\ g.bl = branch_label_stack'
       /\ g.ll = loop_label_stack' /\ g.ct = cycle_type_stack' /\ g.cl = current_loop'
       /\ g.isfor = current_loop_is_for' /\ g.kept = array_stack' /\ g.loops = h.loops /\ Here(g)'
  BY <1>9 DEF Reached
<1>11. /\ g.ll = f.ll /\ g.ct = f.ct /\ g.cl = f.cl /\ g.isfor = f.isfor /\ g.kept = f.kept
       /\ g.loops = f.loops /\ g.point = f.point /\ g.scope = f.scope + b.depth
       /\ g.bl = f.bl \o <<e, s2>> /\ g.blocks = Append(f.blocks, b)
  <2>1. /\ h.ll = loop_label_stack /\ h.ct = cycle_type_stack /\ h.cl = current_loop
        /\ h.isfor = current_loop_is_for /\ h.kept = array_stack
    BY <1>3 DEF Here
  <2>2. /\ g.ll = f.ll /\ g.ct = f.ct /\ g.cl = f.cl /\ g.isfor = f.isfor /\ g.kept = f.kept
        /\ g.loops = f.loops /\ g.point = f.point
    BY <2>1, <1>4, <1>7, <1>10 DEF SameLoop
  <2>3. g.scope = f.scope + b.depth
    BY <1>4, <1>7, <1>60, <1>10
  <2>4. g.bl = f.bl \o <<e, s2>> /\ g.blocks = Append(f.blocks, b)
    <3>1. f.bl \in Seq(Unique)
      BY <1>4 DEF Sound
    <3>2. f.bl \o <<e, s2>> = Append(Append(f.bl, e), s2)
      BY <3>1, <1>6, <1>71, AppendTwo
    <3> QED BY <3>2, <1>4, <1>6, <1>7, <1>10
  <2> QED BY <2>2, <2>3, <2>4
<1>12. Pushed(b, f, g, U)
  <2>1. SameLoop(f, g)
    BY <1>11 DEF SameLoop
  <2>2. Is(e, f.point, U) /\ Is(s2, f.point, U) /\ b.depth \in {1, 2}
    BY <1>4, <1>8, <1>60, <1>70
  <2> QED BY <2>1, <2>2, <1>6, <1>60, <1>71, <1>11 DEF Pushed
<1>13. Sound(g, U, R)
  <2>1. /\ f.bl \in Seq(Unique) /\ f.ll \in Seq(Unique) /\ IsSeq(f.ct) /\ f.cl \in Seq(Unique)
        /\ (f.cl # <<>> => Len(f.cl) = 2 /\ LoopJumps(f, U))
    BY <1>8 DEF Sound
  <2>2. g.cl # <<>> => Len(g.cl) = 2 /\ LoopJumps(g, U)
    BY <2>1, <1>11 DEF LoopJumps
  <2>3. g.bl \in Seq(Unique)
    BY <2>1, <1>6, <1>71, <1>11, PairSeq
  <2>4. Nested(f, g, b, U)
    BY <2>1, <2>2, <2>3, <1>4, <1>60, <1>11 DEF Nested
  <2> QED BY <1>8, <2>4, SoundPush
<1>14. Chunk(d, ann[Len(code) + 1], g.point, U, OwnPoint(h.point))
  <2> DEFINE a == ann[Len(code) + 1]
  <2>1. a = p \/ a = Never
    BY <1>3
  <2> HIDE DEF a
  <2>2. Chunk(<<<<"JUMP", e>>, <<"LABEL", s>>>>, a, p, U, OwnPoint(p))
    BY <2>1, <1>3, <1>8, ChunkJumpLabel
  <2>3. Goes(s2, p, U)
    BY <1>3, <1>70, GoesIs
  <2>4. Chunk(TestCode(test, scope, s2), p, p, U, OwnPoint(p))
    BY <2>3, <1>3, ChunkTest
  <2>5. Chunk(<<<<"JUMP", e>>, <<"LABEL", s>>>> \o TestCode(test, scope, s2), a, p, U, OwnPoint(p))
    BY <2>2, <2>4, ChunkJoin
  <2> QED BY <2>5, <1>6, <1>10, <1>51 DEF a, d
<1>15. Labels(U, label', R)
  BY <1>7, <1>70
<1> QED BY <1>1, <1>2, <1>7, <1>10, <1>12, <1>13, <1>14, <1>15, <1>50, <1>70, SwapOn

\* What the end of a block finds
LEMMA Under ==
    ASSUME NEW R, NEW T, NEW ann, NEW H, Compiled(R, T, ann, H), open # <<>>
    PROVE  LET h == H[Len(open) + 1]
               f == H[Len(open)]
               b == Last(open)
           IN  /\ Pushed(b, f, h, T) /\ Sound(f, T, R) /\ Front(open) = f.blocks
               /\ b.depth \in {1, 2} /\ scope = f.scope + b.depth /\ f.scope \in Nat
               /\ scope - b.depth = f.scope
<1> DEFINE h == H[Len(open) + 1]
           f == H[Len(open)]
           b == Last(open)
<1>2. Chain(H, open, T, R) /\ IsSeq(open) /\ Here(h)
  BY Parts
<1>3. Pushed(b, f, h, T) /\ Sound(f, T, R)
  BY <1>2, ChainPop
<1> HIDE DEF h, f, b
<1>5. h.blocks = Append(f.blocks, b) /\ b.depth \in {1, 2} /\ h.scope = f.scope + b.depth
  BY <1>3 DEF Pushed
<1>6. IsSeq(f.blocks) /\ f.scope \in Nat
  BY <1>3 DEF Sound
<1>7. Append(f.blocks, b) = open /\ h.scope = scope
  BY <1>2, <1>5 DEF Here
<1>8. Front(open) = f.blocks
  <2> DEFINE S == {f.blocks[i] : i \in DOMAIN f.blocks}
  <2>1. f.blocks \in Seq(S)
    BY <1>6 DEF IsSeq
  <2> HIDE DEF S
  <2>2. Front(Append(f.blocks, b)) = f.blocks
    BY <2>1, Unappend
  <2> QED BY <2>2, <1>7
<1>9. scope - b.depth = f.scope
  BY <1>5, <1>6, <1>7
<1> QED BY <1>3, <1>5, <1>6, <1>7, <1>8, <1>9 DEF h, f, b

\* The end of an "else" keeps the code right.
LEMMA ElseEndSteady ==
    ASSUME NEW R, Steady(R), ElseEnd
    PROVE  Steady(R)'
<1>1. PICK T, ann, H : Compiled(R, T, ann, H)
  BY DEF Steady
<1>50. PICK h, f, b : h = H[Len(open) + 1] /\ f = H[Len(open)] /\ b = Last(open)
  OBVIOUS
<1> DEFINE p == h.point
           d == <<<<"LABEL", Last(branch_label_stack)>>>>
<1>2. b.what = "else" /\ open # <<>>
  BY <1>50 DEF ElseEnd, Closes
<1>3. /\ Here(h) /\ p \in Point /\ Labels(T, label, R)
      /\ ann[Len(code) + 1] = IF ended THEN Never ELSE p
  BY <1>1, <1>50, Parts
<1>4. /\ Pushed(b, f, h, T) /\ Sound(f, T, R) /\ Front(open) = f.blocks /\ scope - b.depth = f.scope
  BY <1>1, <1>2, <1>50, Under
<1>5. /\ SameLoop(f, h) /\ h.kept = f.kept /\ p = f.point
      /\ \E e \in Unique : h.bl = Append(f.bl, e) /\ Is(e, f.point, T)
  BY <1>2, <1>4 DEF Pushed, IsFunction
<1>6. PICK e \in Unique : h.bl = Append(f.bl, e) /\ Is(e, f.point, T)
  BY <1>5
<1>51. p = h.point
  OBVIOUS
<1> HIDE DEF p
<1>7. Front(branch_label_stack) = f.bl /\ Last(branch_label_stack) = e
  <2>1. f.bl \in Seq(Unique) /\ branch_label_stack = Append(f.bl, e)
    BY <1>3, <1>4, <1>6 DEF Sound, Here
  <2>2. Front(Append(f.bl, e)) = f.bl /\ Last(Append(f.bl, e)) = e
    BY <2>1, Unappend
  <2> QED BY <2>1, <2>2
<1>8. /\ code' = code \o d /\ label' = label /\ loops' = loops /\ ended' = FALSE
      /\ open' = Front(open) /\ scope' = scope - b.depth
      /\ branch_label_stack' = Front(branch_label_stack)
      /\ UNCHANGED <<loop_label_stack, cycle_type_stack, current_loop, current_loop_is_for, array_stack>>
  BY <1>50 DEF ElseEnd, gen_line, BlockEnd, Unbranched, frame_vars
<1>9. Here(f)'
  <2>2. /\ h.ll = loop_label_stack /\ h.ct = cycle_type_stack /\ h.cl = current_loop
        /\ h.isfor = current_loop_is_for /\ h.kept = array_stack
    BY <1>3 DEF Here
  <2>3. /\ f.ll = loop_label_stack' /\ f.ct = cycle_type_stack' /\ f.cl = current_loop'
        /\ f.isfor = current_loop_is_for' /\ f.kept = array_stack'
    BY <2>2, <1>5, <1>8 DEF SameLoop
  <2>4. f.blocks = open' /\ f.bl = branch_label_stack' /\ f.scope = scope'
    BY <1>4, <1>7, <1>8
  <2> QED BY <2>3, <2>4 DEF Here
<1>10. Chunk(d, ann[Len(code) + 1], f.point, T, OwnPoint(h.point))
  <2> DEFINE a == ann[Len(code) + 1]
  <2>1. a = p \/ a = Never
    BY <1>3
  <2> HIDE DEF a
  <2>2. Is(e, p, T)
    BY <1>5, <1>6
  <2>3. Chunk(<<<<"LABEL", e>>>>, a, p, T, OwnPoint(p))
    BY <2>1, <2>2, <1>3, ChunkLabel
  <2> QED BY <2>3, <1>5, <1>7, <1>51 DEF a
<1>11. f.loops = h.loops /\ Labels(T, label', R) /\ Extends(T, T)
  BY <1>3, <1>5, <1>8, ExtendsRefl DEF SameLoop
<1> HIDE DEF d
<1> QED BY <1>1, <1>2, <1>8, <1>9, <1>10, <1>11, <1>50, PopOn

\* gen_while_end and gen_for_end bring back both labels of the loop around.
LEMMA LoopRestored ==
    ASSUME NEW f, f.ll \in Seq(Unique), f.cl \in Seq(Unique), f.cl = <<>> => f.ll = <<>>,
           f.cl # <<>> => Len(f.cl) = 2, loop_label_stack = f.ll \o f.cl
    PROVE  /\ OuterLoop = f.cl
           /\ (IF loop_label_stack = <<>> THEN <<>> ELSE Front(Front(loop_label_stack))) = f.ll
<1>1. CASE f.cl = <<>>
  <2>1. f.ll \o f.cl = <<>>
    BY <1>1
  <2> QED BY <2>1, <1>1 DEF OuterLoop, NoLoop
<1>2. CASE f.cl # <<>>
  <2> DEFINE x == f.cl[1]
             y == f.cl[2]
             t == loop_label_stack
  <2>1. x \in Unique /\ y \in Unique /\ f.cl = <<x, y>>
    <3>1. Len(f.cl) = 2
      BY <1>2
    <3>2. x \in Unique /\ y \in Unique
      BY <3>1
    <3>3. <<x, y>> \in Seq(Unique) /\ Len(<<x, y>>) = 2 /\ <<x, y>>[1] = x /\ <<x, y>>[2] = y
      BY <3>2, PairSeq
    <3> HIDE DEF x, y
    <3>4. f.cl = <<x, y>>
      BY <3>1, <3>3, SameSeq DEF x, y
    <3> QED BY <3>2, <3>4
  <2> HIDE DEF x, y
  <2>2. Topped(f.ll \o <<x, y>>, f.ll, x, y)
    BY <2>1, TopTwo
  <2>3. Topped(t, f.ll, x, y)
    BY <2>1, <2>2
  <2>4. t # <<>> /\ Front(Front(t)) = f.ll /\ SubSeq(t, Len(t) - 1, Len(t)) = f.cl
    BY <2>1, <2>3 DEF Topped
  <2> QED BY <2>4 DEF OuterLoop
<1> QED BY <1>1, <1>2

\* What was appended to a sequence is last.
LEMMA UnappendSeq ==
    ASSUME NEW s, IsSeq(s), NEW x
    PROVE  Front(Append(s, x)) = s /\ Last(Append(s, x)) = x
<1> DEFINE S == {s[i] : i \in DOMAIN s}
<1>1. s \in Seq(S)
  BY DEF IsSeq
<1> HIDE DEF S
<1> QED BY <1>1, Unappend

\* The stacks are back when a loop ends.
LEMMA LoopBack ==
    ASSUME NEW f, NEW h, NEW T, NEW R, Sound(f, T, R), Here(h), NewLoop(f, h), LoopEnd
    PROVE  /\ current_loop' = f.cl /\ loop_label_stack' = f.ll
           /\ current_loop_is_for' = f.isfor /\ cycle_type_stack' = f.ct
           /\ branch_label_stack' = f.bl
<1>1. /\ f.ll \in Seq(Unique) /\ f.cl \in Seq(Unique) /\ IsSeq(f.ct)
      /\ (f.cl = <<>> => f.ll = <<>>) /\ (f.cl # <<>> => Len(f.cl) = 2)
  BY DEF Sound
<1>2. /\ loop_label_stack = f.ll \o f.cl /\ cycle_type_stack = Append(f.ct, f.isfor)
      /\ branch_label_stack = f.bl
  BY DEF NewLoop, Here
<1>3. OuterLoop = f.cl
      /\ (IF loop_label_stack = <<>> THEN <<>> ELSE Front(Front(loop_label_stack))) = f.ll
  BY <1>1, <1>2, LoopRestored
<1>4. Front(Append(f.ct, f.isfor)) = f.ct /\ Last(Append(f.ct, f.isfor)) = f.isfor
  BY <1>1, UnappendSeq
<1>5. /\ current_loop' = OuterLoop
      /\ loop_label_stack' =
            (IF loop_label_stack = <<>> THEN <<>> ELSE Front(Front(loop_label_stack)))
      /\ current_loop_is_for' = Last(cycle_type_stack)
      /\ cycle_type_stack' = Front(cycle_type_stack) /\ branch_label_stack' = branch_label_stack
  BY DEF LoopEnd
<1> QED BY <1>2, <1>3, <1>4, <1>5

\* WHILE_LOOP keeps the code right.
LEMMA WhileSteady ==
    ASSUME NEW R, Steady(R), Names, While
    PROVE  Steady(R)'
<1>1. PICK T, ann, H : Compiled(R, T, ann, H)
  BY DEF Steady
<1>50. PICK h : h = H[Len(open) + 1]
  OBVIOUS
<1> DEFINE p == h.point
           s == Label("while_start", label)
           e == Label("while_end", label + 1)
           b == [what |-> "while", depth |-> 1, labels |-> <<>>]
           d == <<<<"LABEL", s>>>> \o Branch(e)
<1>2. /\ Sound(h, T, R) /\ Here(h) /\ p \in Point /\ Labels(T, label, R)
      /\ scope \in Nat /\ (~ended => ann[Len(code) + 1] = p)
  BY <1>1, <1>50, Parts
<1>3. /\ code' = code \o d /\ label' = label + 2 /\ loops' = loops /\ ~ended /\ ended' = FALSE
      /\ open' = Append(open, b) /\ scope' = scope + 1
      /\ cycle_type_stack' = Append(cycle_type_stack, current_loop_is_for)
      /\ current_loop_is_for' = FALSE
      /\ loop_label_stack' = loop_label_stack \o current_loop
      /\ current_loop' = <<s, e>>
      /\ UNCHANGED <<branch_label_stack, array_stack>>
  BY DEF While, Reads, Completes, gen_line, Block, Names, LoopStart, frame_vars
<1>4. PICK g : Reached(g, p, h.loops)
  BY ReachedContext
<1>5. /\ g.blocks = open' /\ g.scope = scope' /\ g.point = p /\ g.bl = branch_label_stack'
      /\ g.ll = loop_label_stack' /\ g.ct = cycle_type_stack' /\ g.cl = current_loop'
      /\ g.isfor = current_loop_is_for' /\ g.kept = array_stack' /\ g.loops = h.loops /\ Here(g)'
  BY <1>4 DEF Reached
<1>6. /\ h.blocks = open /\ h.scope = scope /\ h.bl = branch_label_stack
      /\ h.ll = loop_label_stack /\ h.ct = cycle_type_stack /\ h.cl = current_loop
      /\ h.isfor = current_loop_is_for /\ h.kept = array_stack
  BY <1>2 DEF Here
<1>7. PICK U : Labels(U, label + 2, R) /\ Extends(T, U) /\ Is(s, p, U) /\ Is(e, p, U)
  <2> HIDE DEF p
  <2> QED BY <1>2, NewLabelPair DEF Names
<1>8. IsBlock(b) /\ b.what = "while" /\ b.depth = 1 /\ s \in Unique /\ e \in Unique
  <2>1. label \in Nat /\ label + 1 \in Nat /\ b.what = "while" /\ b.depth = 1 /\ IsBlock(b)
    BY DEF Names, IsBlock
  <2> HIDE DEF b
  <2>2. e \in Unique /\ s \in Unique
    BY <2>1, UniqueLabel
  <2> QED BY <2>1, <2>2
<1>9. p = h.point
  OBVIOUS
<1> HIDE DEF b, p, s, e
<1>10. Sound(h, U, R)
  BY <1>2, <1>7, SoundExtends
<1>11. /\ g.blocks = Append(h.blocks, b) /\ g.scope = h.scope + b.depth /\ g.point = h.point
       /\ g.bl = h.bl /\ g.kept = h.kept /\ g.ll = h.ll \o h.cl /\ g.ct = Append(h.ct, h.isfor)
       /\ g.cl = <<s, e>> /\ g.isfor = FALSE
  BY <1>3, <1>5, <1>6, <1>8, <1>9
<1>12. /\ <<s, e>> \in Seq(Unique) /\ Len(<<s, e>>) = 2 /\ <<s, e>>[1] = s /\ <<s, e>>[2] = e
       /\ <<s, e>> # <<>>
  <2>1. <<>> \in Seq(Unique)
    OBVIOUS
  <2> QED BY <2>1, <1>8, PairSeq
<1>13. Pushed(b, h, g, U)
  <2>1. NewLoop(h, g)
    BY <1>11, <1>12 DEF NewLoop
  <2>2. Is(g.cl[1], h.point, U) /\ Is(g.cl[2], h.point, U)
    BY <1>7, <1>9, <1>11, <1>12
  <2> QED BY <2>1, <2>2, <1>5, <1>8, <1>11 DEF Pushed
<1>14. Sound(g, U, R)
  <2>1. /\ h.bl \in Seq(Unique) /\ h.ll \in Seq(Unique) /\ IsSeq(h.ct) /\ h.cl \in Seq(Unique)
    BY <1>10 DEF Sound
  <2>2. g.bl \in Seq(Unique) /\ g.ll \in Seq(Unique) /\ g.cl \in Seq(Unique)
    BY <2>1, <1>11, <1>12
  <2>3. IsSeq(g.ct)
    BY <2>1, <1>11, AppendIsSeq
  <2>4. LoopJumps(g, U) /\ Len(g.cl) = 2 /\ g.cl # <<>>
    <3>1. Goes(s, p, U) /\ Goes(e, p, U)
      BY <1>2, <1>7, GoesIs
    <3> QED BY <3>1, <1>9, <1>11, <1>12 DEF LoopJumps
  <2>5. Nested(h, g, b, U)
    BY <2>2, <2>3, <2>4, <1>5, <1>8, <1>11 DEF Nested
  <2> QED BY <1>10, <2>5, SoundPush
<1>15. Chunk(d, ann[Len(code) + 1], g.point, U, OwnPoint(h.point))
  <2>1. Chunk(<<<<"LABEL", s>>>>, p, p, U, OwnPoint(p))
    BY <1>2, <1>7, ChunkLabel
  <2>2. Goes(e, p, U)
    BY <1>2, <1>7, GoesIs
  <2>3. Chunk(Branch(e), p, p, U, OwnPoint(p))
    BY <2>2, <1>2, ChunkBranch
  <2>4. Chunk(<<<<"LABEL", s>>>> \o Branch(e), p, p, U, OwnPoint(p))
    BY <2>1, <2>3, ChunkJoin
  <2> QED BY <2>4, <1>2, <1>3, <1>5, <1>9
<1> HIDE DEF d
<1>16. Labels(U, label', R) /\ open' = Append(open, b)
  BY <1>3, <1>7
<1> QED BY <1>1, <1>3, <1>5, <1>7, <1>13, <1>14, <1>15, <1>16, <1>50, PushOn

\* The end of a while loop keeps the code right.
LEMMA WhileEndSteady ==
    ASSUME NEW R, Steady(R), WhileEnd
    PROVE  Steady(R)'
<1>1. PICK T, ann, H : Compiled(R, T, ann, H)
  BY DEF Steady
<1>50. PICK h, f, b : h = H[Len(open) + 1] /\ f = H[Len(open)] /\ b = Last(open)
  OBVIOUS
<1> DEFINE p == h.point
           d == <<<<"JUMP", current_loop[1]>>, <<"LABEL", current_loop[2]>>>>
<1>2. b.what = "while" /\ open # <<>>
  BY <1>50 DEF WhileEnd, Closes
<1>3. /\ Here(h) /\ p \in Point /\ Labels(T, label, R)
      /\ ann[Len(code) + 1] = IF ended THEN Never ELSE p
  BY <1>1, <1>50, Parts
<1>4. /\ Pushed(b, f, h, T) /\ Sound(f, T, R) /\ Front(open) = f.blocks /\ scope - b.depth = f.scope
  BY <1>1, <1>2, <1>50, Under
<1>5. /\ NewLoop(f, h) /\ h.loops = f.loops /\ p = f.point
      /\ Is(h.cl[1], p, T) /\ Is(h.cl[2], p, T) /\ h.kept = f.kept
  BY <1>2, <1>4 DEF Pushed, IsFunction, NewLoop
<1>51. p = h.point
  OBVIOUS
<1> HIDE DEF p
<1>8. /\ code' = code \o d /\ label' = label /\ loops' = loops /\ ended' = FALSE
      /\ open' = Front(open) /\ scope' = scope - b.depth
      /\ LoopEnd /\ UNCHANGED array_stack
  BY <1>50 DEF WhileEnd, gen_line, BlockEnd, frame_vars
<1>9. Here(f)'
  <2>2. /\ f.ll = loop_label_stack' /\ f.ct = cycle_type_stack' /\ f.cl = current_loop'
        /\ f.isfor = current_loop_is_for' /\ f.bl = branch_label_stack'
    BY <1>3, <1>4, <1>5, <1>8, LoopBack
  <2>3. f.kept = array_stack'
    BY <1>3, <1>5, <1>8 DEF Here
  <2>4. f.blocks = open' /\ f.scope = scope'
    BY <1>4, <1>8
  <2> QED BY <2>2, <2>3, <2>4 DEF Here
<1>10. Chunk(d, ann[Len(code) + 1], f.point, T, OwnPoint(h.point))
  <2> DEFINE a == ann[Len(code) + 1]
  <2>1. a = p \/ a = Never
    BY <1>3
  <2> HIDE DEF a
  <2>2. Is(current_loop[1], p, T) /\ Is(current_loop[2], p, T)
    BY <1>3, <1>5 DEF Here
  <2>3. Chunk(d, a, p, T, OwnPoint(p))
    BY <2>1, <2>2, <1>3, ChunkJumpLabel
  <2> QED BY <2>3, <1>5, <1>51 DEF a
<1>11. f.loops = h.loops /\ Labels(T, label', R) /\ Extends(T, T)
  BY <1>3, <1>5, <1>8, ExtendsRefl
<1> HIDE DEF d
<1> QED BY <1>1, <1>2, <1>8, <1>9, <1>10, <1>11, <1>50, PopOn

\* Concatenation is associative, for sequences of the same things.
LEMMA AssocIn ==
    ASSUME NEW S, NEW s \in Seq(S), NEW t \in Seq(S), NEW u \in Seq(S)
    PROVE  (s \o t) \o u = s \o (t \o u)
<1> DEFINE v == (s \o t) \o u
           w == s \o (t \o u)
           a == Len(s)
           b == Len(t)
           c == Len(u)
<1>1. /\ s \o t \in Seq(S) /\ Len(s \o t) = a + b /\ t \o u \in Seq(S) /\ Len(t \o u) = b + c
      /\ v \in Seq(S) /\ w \in Seq(S) /\ a \in Nat /\ b \in Nat /\ c \in Nat
  OBVIOUS
<1>2. Len(v) = a + b + c /\ Len(w) = a + b + c
  BY <1>1
<1>3. ASSUME NEW i \in 1 .. a + b + c
      PROVE  v[i] = w[i]
  BY <1>1
<1> HIDE DEF v, w
<1>4. v = w
  BY <1>1, <1>2, <1>3, SameSeq
<1> QED BY <1>4 DEF v, w

\* Concatenation of these is associative.
Regrouped(s, t, u) == (s \o t) \o u = s \o (t \o u)

\* It is, for all sequences.
LEMMA Assoc ==
    ASSUME NEW s, NEW t, NEW u, IsSeq(s), IsSeq(t), IsSeq(u)
    PROVE  Regrouped(s, t, u)
<1> DEFINE A1 == {s[i] : i \in DOMAIN s}
           B1 == {t[i] : i \in DOMAIN t}
           C1 == {u[i] : i \in DOMAIN u}
           S == A1 \cup B1 \cup C1
<1>1. s \in Seq(A1) /\ t \in Seq(B1) /\ u \in Seq(C1)
  BY DEF IsSeq
<1> HIDE DEF A1, B1, C1
<1>2. s \in Seq(S) /\ t \in Seq(S) /\ u \in Seq(S)
  BY <1>1
<1> HIDE DEF S
<1>3. (s \o t) \o u = s \o (t \o u)
  BY <1>2, AssocIn
<1> QED BY <1>3 DEF Regrouped

\* A sequence of two.
LEMMA PairIsSeq ==
    ASSUME NEW x, NEW y
    PROVE  IsSeq(<<x, y>>) /\ <<x, y>> = <<x>> \o <<y>>
<1> DEFINE S == {x, y}
           e == <<x, y>>
<1>1. e \in Seq(S) /\ <<x>> \in Seq(S) /\ <<y>> \in Seq(S)
  OBVIOUS
<1>2. {e[i] : i \in DOMAIN e} = S
  <2>1. DOMAIN e = {1, 2} /\ e[1] = x /\ e[2] = y
    OBVIOUS
  <2> HIDE DEF e
  <2> QED BY <2>1
<1>3. IsSeq(e)
  BY <1>1, <1>2 DEF IsSeq
<1>4. e = <<x>> \o <<y>>
  <2> DEFINE f == <<x>> \o <<y>>
  <2>1. f \in Seq(S) /\ Len(f) = 2 /\ f[1] = x /\ f[2] = y
    BY <1>1
  <2>2. Len(e) = 2 /\ e[1] = x /\ e[2] = y
    OBVIOUS
  <2>3. e \in Seq(S) /\ f \in Seq(S) /\ Len(e) = Len(f)
    BY <2>1, <2>2, <1>1
  <2>4. \A i \in 1 .. 2 : i = 1 \/ i = 2
    OBVIOUS
  <2> HIDE DEF e, f, S
  <2>5. \A i \in 1 .. Len(e) : e[i] = f[i]
    BY <2>1, <2>2, <2>4
  <2>6. e = f
    BY <2>3, <2>5, SameSeq
  <2> QED BY <2>6 DEF f
<1> QED BY <1>3, <1>4 DEF e

\* The head of a loop is that of ForHead and the line in front of the start.
LEMMA ForHeadIs ==
    ASSUME NEW range \in Ranges
    PROVE  /\ gen_for_range_save
              \o <<<<"PUSHS", Constant(range.low)>>, <<"PUSHS", Constant(range.high)>>>>
              \o gen_for_range(range.open) = ForHead(range) \o <<<<"POPS", for_counter_reg>>>>
           /\ IsSeq(ForHead(range))
<1> DEFINE s == gen_for_range_save
           t == <<<<"PUSHS", Constant(range.low)>>, <<"PUSHS", Constant(range.high)>>>>
           u == IF range.open THEN <<>> ELSE <<<<"PUSHS", Constant(1)>>, <<"ADDS">>>>
           m == <<<<"POPS", for_max_val>>>>
           c == <<<<"POPS", for_counter_reg>>>>
           mc == <<<<"POPS", for_max_val>>, <<"POPS", for_counter_reg>>>>
<1>1. IsSeq(s) /\ IsSeq(t) /\ IsSeq(m) /\ IsSeq(c) /\ IsSeq(mc) /\ mc = m \o c
  BY PairIsSeq, SingleSeq DEF gen_for_range_save
<1>2. IsSeq(u)
  <2>1. IsSeq(<<>>)
    BY DEF IsSeq
  <2> QED BY <2>1, PairIsSeq
<1>3. gen_for_range(range.open) = u \o mc /\ ForHead(range) = ((s \o t) \o u) \o m
  BY DEF gen_for_range, ForHead
<1> HIDE DEF s, t, u, m, c, mc
<1> DEFINE st == s \o t
<1>4. IsSeq(st)
  BY <1>1, ConcatSeq
<1> HIDE DEF st
<1> DEFINE stu == st \o u
<1>5. IsSeq(stu)
  BY <1>2, <1>4, ConcatSeq
<1>6. st \o (u \o mc) = stu \o mc
  <2>1. Regrouped(st, u, mc)
    BY <1>1, <1>2, <1>4, Assoc
  <2> QED BY <2>1 DEF Regrouped
<1> HIDE DEF stu
<1>7. IsSeq(stu \o m) /\ stu \o (m \o c) = (stu \o m) \o c
  <2>1. Regrouped(stu, m, c)
    BY <1>1, <1>5, Assoc
  <2>2. IsSeq(stu \o m)
    BY <1>1, <1>5, ConcatSeq
  <2> QED BY <2>1, <2>2 DEF Regrouped
<1>8. st \o gen_for_range(range.open) = ForHead(range) \o c /\ IsSeq(ForHead(range))
  BY <1>1, <1>3, <1>6, <1>7 DEF st, stu
<1> QED BY <1>8 DEF s, t, c, st

\* The body of a loop may jump to its start, and when it has counted too.
LEMMA BodyGoes ==
    ASSUME NEW p \in Point, NEW l, RangeFields(l), NEW s, NEW T, Is(s, Looping(p, l), T)
    PROVE  Goes(s, Body(p, l), T) /\ Goes(s, Added(Body(p, l)), T)
<1> DEFINE b == Body(p, l)
           q == Looping(p, l)
<1>1. /\ b \in Point /\ b.counter = l.low .. l.limit - 1 /\ b.max = {l.limit} /\ Sub(Added(b), q)
  BY LoopPoints
<1>2. /\ q.level = b.level /\ q.frame = b.frame /\ q.data = b.data
      /\ q.counter = l.low .. l.limit /\ q.max = b.max
  BY DEF Looping, Body, At
<1> HIDE DEF b, q
<1>3. b.counter \subseteq q.counter
  BY <1>1, <1>2 DEF RangeFields
<1>4. Sub(b, q)
  BY <1>2, <1>3 DEF Sub
<1> QED BY <1>1, <1>4 DEF Goes, Is, b, q

\* The context in a for loop
LEMMA SoundFor ==
    ASSUME NEW T, NEW R, NEW h, Sound(h, T, R), NEW b, NEW g, NEW l, NEW p,
           p = h.point, b.what = "for", b.depth = 2, RangeFields(l), l.from \in Nat,
           \A k \in h.loops : k.from < l.from,
           g.blocks = Append(h.blocks, b), g.scope = h.scope + b.depth,
           g.point = Body(p, l), g.loops = h.loops \cup {l}, NewLoop(h, g),
           g.cl \in Seq(Unique), g.cl # <<>>,
           Is(g.cl[1], Looping(p, l), T), Is(g.cl[2], Looping(p, l), T)
    PROVE  Sound(g, T, R)
<1>1. /\ p \in Point /\ IsSeq(h.blocks) /\ h.scope \in Nat /\ h.kept \in Seq(Seq(Variables))
      /\ h.bl \in Seq(Unique) /\ h.ll \in Seq(Unique) /\ h.cl \in Seq(Unique) /\ IsSeq(h.ct)
      /\ Inner(p, h.loops)
  BY DEF Sound
<1>2. /\ g.bl = h.bl /\ g.kept = h.kept /\ g.ll = h.ll \o h.cl /\ g.ct = Append(h.ct, h.isfor)
      /\ Len(g.cl) = 2
  BY DEF NewLoop
<1>3. g.point \in Point /\ g.point.frame = 1 /\ g.point.counter = l.low .. l.limit - 1
      /\ g.point.max = {l.limit}
  <2>1. /\ Body(p, l) \in Point /\ Body(p, l).frame = 1 /\ Body(p, l).counter = l.low .. l.limit - 1
        /\ Body(p, l).max = {l.limit}
    BY <1>1, LoopPoints
  <2> HIDE DEF Body
  <2> QED BY <2>1
<1>4. IsSeq(g.blocks) /\ g.blocks # <<>>
      /\ \E i \in 1 .. Len(g.blocks) : g.blocks[i].what = "for"
  <2> DEFINE B == h.blocks
             C == Append(B, b)
  <2>1. IsSeq(C) /\ Len(B) \in Nat /\ Len(C) = Len(B) + 1 /\ C[Len(B) + 1] = b
    BY <1>1, AppendIsSeq
  <2>2. g.blocks = C
    OBVIOUS
  <2> HIDE DEF C, B
  <2>3. C # <<>> /\ Len(B) + 1 \in 1 .. Len(C)
    BY <2>1
  <2> QED BY <2>1, <2>2, <2>3
<1>5. IsSeq(g.ct)
  BY <1>1, <1>2, AppendIsSeq
<1>6. g.ll \in Seq(Unique)
  BY <1>1, <1>2
<1>7. LoopJumps(g, T)
  <2>1. /\ Goes(g.cl[2], Body(p, l), T) /\ Goes(g.cl[1], Body(p, l), T)
        /\ Goes(g.cl[1], Added(Body(p, l)), T)
    BY <1>1, BodyGoes
  <2> QED BY <2>1 DEF LoopJumps
<1>8. Inner(g.point, g.loops)
  <2>1. \A k \in h.loops : k.from \in Nat /\ k.low \in Int /\ k.limit \in Int
    BY <1>1 DEF Inner
  <2>2. l.low \in Int /\ l.limit \in Int
    BY DEF RangeFields
  <2>3. ASSUME NEW k \in g.loops, Latest(k, g.loops)
        PROVE  g.point.counter \subseteq k.low .. k.limit - 1 /\ g.point.max \subseteq {k.limit}
    <3>1. CASE k = l
      BY <3>1, <1>3
    <3>2. CASE k # l
      <4>1. k \in h.loops /\ l.from <= k.from /\ k.from < l.from
        BY <3>2, <2>3 DEF Latest
      <4> QED BY <4>1, <2>1
    <3> QED BY <3>1, <3>2
  <2> QED BY <2>1, <2>2, <2>3 DEF Inner
<1>9. g.scope \in Nat /\ g.scope > 0
  BY <1>1
<1> QED BY <1>1, <1>2, <1>3, <1>4, <1>5, <1>6, <1>7, <1>8, <1>9 DEF Sound

\* The range of a loop is that of the latest one.
LEMMA OwnsLatest ==
    ASSUME NEW l, NEW os, l.from \in Nat, \A k \in os : k.from \in Nat /\ k.from < l.from
    PROVE  Owns(RangeOf(l), os \cup {l})
<1> SUFFICES ASSUME NEW m \in os \cup {l}, \A k \in os \cup {l} : k.from <= m.from
             PROVE  /\ RangeOf(l)[1] \subseteq RangeOf(m)[1]
                    /\ RangeOf(l)[2] \subseteq RangeOf(m)[2]
  BY DEF Owns
<1>1. m = l
  <2>1. l.from <= m.from
    OBVIOUS
  <2> QED BY <2>1
<1> QED BY <1>1

\* The code of a loop's head
LEMMA CodeFor ==
    ASSUME NEW c, NEW n, NEW m, NEW ls, NEW os, NEW R, NEW T, NEW U, NEW ann, NEW p,
           NEW range \in Ranges, NEW l, NEW s, NEW e, NEW x,
           Code(c, n, ls, os, R, T, ann), Extends(T, U), Labels(U, m, R),
           ann[Len(c) + 1] = p, p \in Point, p.frame = 1, Owns(OwnPoint(p), os),
           l.low = range.low, l.limit = LimitOf(range), l.from = Len(c \o ForHead(range)) + 2,
           Is(s, Looping(p, l), U), Is(e, Looping(p, l), U), x \notin Ranged
    PROVE  Grown(((c \o ForHead(range)) \o <<<<"POPS", for_counter_reg>>>>)
                 \o (<<<<"LABEL", s>>, <<"JUMPIFEQ", e, for_counter_reg, for_max_val>>>>
                     \o (IF range.names = {} THEN <<>> ELSE <<<<"MOVE", x, for_counter_reg>>>>)),
                 m, ls, os \cup {l}, R, U, Body(p, l))
<1> DEFINE d == ForHead(range)
           r == <<<<"POPS", for_counter_reg>>>>
           t == <<<<"LABEL", s>>, <<"JUMPIFEQ", e, for_counter_reg, for_max_val>>>>
                \o (IF range.names = {} THEN <<>> ELSE <<<<"MOVE", x, for_counter_reg>>>>)
           c1 == c \o d
           c2 == c1 \o r
           os2 == os \cup {l}
<1>1. RangeFields(l)
  BY RangeFacts DEF RangeFields
<1>2. Len(r) = 1
  OBVIOUS
<1>3. Chunk(d, ann[Len(c) + 1], Setting(p, l), U, OwnPoint(p))
  BY ChunkForHead
<1>4. Chunk(r, Setting(p, l), Starting(p, l), U, <<Int, Int>>)
  BY <1>1, ChunkForFirst
<1>5. Chunk(t, Starting(p, l), Body(p, l), U, RangeOf(l))
  BY <1>1, ChunkForStart
<1>50. Extends(U, U)
  BY ExtendsRefl
<1> HIDE DEF d, r, t
<1>6. Grown(c1, m, ls, os, R, U, Setting(p, l))
  BY <1>3, Grow
<1>7. PICK k1 : Code(c1, m, ls, os, R, U, k1) /\ k1[Len(c1) + 1] = Setting(p, l)
  BY <1>6 DEF Grown
<1>8. l.from = Len(c1) + 2
  BY DEF d
<1> HIDE DEF c1
<1>9. Chunk(r, k1[Len(c1) + 1], Starting(p, l), U, <<Int, Int>>)
  BY <1>4, <1>7
<1>10. Grown(c2, m, ls, os2, R, U, Starting(p, l))
  BY <1>2, <1>7, <1>8, <1>9, <1>50, Enter
<1>11. PICK k2 : Code(c2, m, ls, os2, R, U, k2) /\ k2[Len(c2) + 1] = Starting(p, l)
  BY <1>10 DEF Grown
<1>12. Owns(RangeOf(l), os2)
  <2>1. Opened(os, Len(c)) /\ Len(c) \in Nat /\ Len(c1) = Len(c) + Len(d) /\ Len(d) \in Nat
    <3>1. IsSeq(c) /\ Opened(os, Len(c))
      BY DEF Code, Typed
    <3>2. IsSeq(d)
      BY ForHeadIs DEF d
    <3> QED BY <3>1, <3>2, ConcatSeq DEF c1
  <2>2. l.from \in Nat /\ \A k \in os : k.from \in Nat /\ k.from < l.from
    BY <2>1, <1>8 DEF Opened
  <2> QED BY <2>2, OwnsLatest
<1> HIDE DEF c2, os2
<1>13. Chunk(t, k2[Len(c2) + 1], Body(p, l), U, RangeOf(l))
  BY <1>5, <1>11
<1>14. Grown(c2 \o t, m, ls, os2, R, U, Body(p, l))
  BY <1>11, <1>12, <1>13, <1>50, Grow
<1> QED BY <1>14 DEF c2, os2, c1, d, r, t

\* The lines before the start of a for loop, as For writes them.
HeadOf(range) ==
    gen_for_range_save
    \o <<<<"PUSHS", Constant(range.low)>>, <<"PUSHS", Constant(range.high)>>>>
    \o gen_for_range(range.open)

\* The lines of a loop's head, up to and after the start.
ForLined(c, range, head, w, m) ==
    /\ c \o ((head \o w) \o m)
          = ((c \o ForHead(range)) \o <<<<"POPS", for_counter_reg>>>>) \o (w \o m)
    /\ Len(c) + Len(head) + 1 = Len(c \o ForHead(range)) + 2
    /\ Len(c \o ForHead(range)) >= Len(c)

\* The code of a loop's head, line by line, is that of CodeFor.
LEMMA ForLines ==
    ASSUME NEW c, IsSeq(c), NEW range \in Ranges, NEW head, NEW w, IsSeq(w), NEW m, IsSeq(m),
           head = HeadOf(range)
    PROVE  ForLined(c, range, head, w, m)
<1> DEFINE d == ForHead(range)
           r == <<<<"POPS", for_counter_reg>>>>
<1>1. head = d \o r /\ IsSeq(d) /\ IsSeq(r) /\ Len(r) = 1
  BY ForHeadIs, SingleSeq DEF HeadOf
<1> HIDE DEF d, r
<1>2. IsSeq(head) /\ Len(head) = Len(d) + 1 /\ Len(d) \in Nat
  <2>1. IsSeq(d \o r) /\ Len(d \o r) = Len(d) + Len(r) /\ Len(d) \in Nat
    BY <1>1, ConcatSeq
  <2> QED BY <2>1, <1>1
<1>3. (head \o w) \o m = head \o (w \o m) /\ IsSeq(w \o m)
  <2>1. Regrouped(head, w, m) /\ IsSeq(w \o m)
    BY <1>2, Assoc, ConcatSeq
  <2> QED BY <2>1 DEF Regrouped
<1> DEFINE t == w \o m
<1>4. IsSeq(t)
  BY <1>3
<1> HIDE DEF t
<1>5. (c \o head) \o t = c \o (head \o t) /\ (c \o d) \o r = c \o (d \o r)
  <2>1. Regrouped(c, head, t)
    BY <1>2, <1>4, Assoc
  <2>2. Regrouped(c, d, r)
    BY <1>1, Assoc
  <2> QED BY <2>1, <2>2 DEF Regrouped
<1>6. Len(c \o d) = Len(c) + Len(d) /\ Len(c) \in Nat
  BY <1>1, ConcatSeq
<1>7. c \o ((head \o w) \o m) = ((c \o d) \o r) \o t
  BY <1>1, <1>3, <1>5 DEF t
<1>8. Len(c) + Len(head) + 1 = Len(c \o d) + 2 /\ Len(c \o d) >= Len(c)
  <2> DEFINE i == Len(c)
             j == Len(d)
             n == Len(head)
             o == Len(c \o d)
  <2>1. i \in Nat /\ j \in Nat /\ n = j + 1 /\ o = i + j
    BY <1>2, <1>6
  <2> HIDE DEF i, j, n, o
  <2>2. i + n + 1 = o + 2 /\ o >= i
    BY <2>1
  <2> QED BY <2>2 DEF i, n, o
<1>9. ForLined(c, range, head, w, m)
  BY <1>7, <1>8 DEF ForLined, d, r, t
<1> QED BY <1>9

\* FOR_LOOP keeps the code right.
LEMMA ForSteady ==
    ASSUME NEW R, Steady(R), Names, NEW range \in Ranges, For(range)
    PROVE  Steady(R)'
<1>1. PICK T, ann, H : Compiled(R, T, ann, H)
  BY DEF Steady
<1>50. PICK h : h = H[Len(open) + 1]
  OBVIOUS
<1> DEFINE s0 == Label("for_start", label)
           e0 == Label("for_end", label + 1)
           w0 == <<<<"LABEL", s0>>, <<"JUMPIFEQ", e0, for_counter_reg, for_max_val>>>>
           x0 == <<"i", scope + 1>>
           m0 == IF range.names = {} THEN <<>> ELSE <<<<"MOVE", x0, for_counter_reg>>>>
           head0 == HeadOf(range)
<1>2. PICK s, e, w, m, x, head, p, b, l :
         /\ s = s0 /\ e = e0 /\ w = w0 /\ m = m0 /\ x = x0 /\ head = head0 /\ p = h.point
         /\ b = [what |-> "for", depth |-> 2, labels |-> <<range, Len(code) + Len(head) + 1>>]
         /\ l = OpenLoop(b)
  OBVIOUS
<1>3. /\ code' = code \o ((head \o w) \o m) /\ label' = label + 2 /\ loops' = loops /\ ~ended /\ ended' = FALSE
      /\ open' = Append(open, b) /\ scope' = scope + 2
      /\ cycle_type_stack' = Append(cycle_type_stack, current_loop_is_for)
      /\ current_loop_is_for' = TRUE
      /\ loop_label_stack' = loop_label_stack \o current_loop
      /\ current_loop' = <<s, e>>
      /\ UNCHANGED <<branch_label_stack, array_stack>>
  <2>1. UNCHANGED array_stack
    BY DEF For, gen_var_name, frame_vars
  <2> QED BY <2>1, <1>2 DEF For, Reads, Completes, gen_line, Block, Names, LoopStart, HeadOf
<1>4. /\ Sound(h, T, R) /\ Here(h) /\ p \in Point /\ p.frame = 1 /\ Labels(T, label, R)
      /\ scope \in Nat /\ ann[Len(code) + 1] = p /\ Owns(OwnPoint(p), h.loops)
      /\ Code(code, label, loops, h.loops, R, T, ann) /\ Chain(H, open, T, R) /\ IsSeq(open)
  BY <1>1, <1>2, <1>3, <1>50, Parts
<1>5. IsSeq(code) /\ Opened(h.loops, Len(code)) /\ Len(code) \in Nat
  BY <1>4 DEF Code, Typed, IsSeq
<1>6. IsSeq(w) /\ IsSeq(m)
  <2>1. IsSeq(w)
    <3>1. IsSeq(w0)
      BY PairIsSeq
    <3> QED BY <3>1, <1>2
  <2>2. IsSeq(<<>>)
    BY DEF IsSeq
  <2>3. m = <<>> \/ m = <<<<"MOVE", x0, for_counter_reg>>>>
    BY <1>2
  <2> QED BY <2>1, <2>2, <2>3, SingleSeq
<1>7. /\ b.what = "for" /\ b.depth = 2 /\ IsBlock(b) /\ b.labels[1] = range /\ b.labels[1] \in Ranges
      /\ b.labels[2] = Len(code) + Len(head) + 1
  BY <1>2 DEF IsBlock
<1>8. l.low = range.low /\ l.limit = LimitOf(range) /\ l.from = Len(code) + Len(head) + 1
  BY <1>2, <1>7 DEF OpenLoop
<1> DEFINE Lines == ((code \o ForHead(range)) \o <<<<"POPS", for_counter_reg>>>>) \o (w \o m)
<1>9. /\ code' = Lines /\ l.from = Len(code \o ForHead(range)) + 2 /\ Len(code \o ForHead(range)) >= Len(code)
  <2>1. ForLined(code, range, head, w, m)
    BY <1>2, <1>5, <1>6, ForLines
  <2>2. code \o ((head \o w) \o m) = Lines
    BY <2>1 DEF ForLined
  <2> HIDE DEF Lines
  <2> QED BY <2>1, <2>2, <1>3, <1>8 DEF ForLined
<1>10. l.from \in Nat /\ \A k \in h.loops : k.from < l.from
  <2>1. IsSeq(ForHead(range))
    BY ForHeadIs
  <2>2. Len(code \o ForHead(range)) \in Nat
    BY <2>1, <1>5, ConcatSeq
  <2>3. \A k \in h.loops : k.from \in Nat /\ k.from <= Len(code) + 1
    BY <1>5 DEF Opened
  <2> QED BY <2>2, <2>3, <1>5, <1>9
<1>11. RangeFields(l)
  BY <1>8, RangeFacts DEF RangeFields
<1> DEFINE q == Looping(p, l)
<1>12. q \in Point
  BY <1>4, <1>11, LoopPoints
<1>13. PICK U : Labels(U, label + 2, R) /\ Extends(T, U) /\ Is(s, q, U) /\ Is(e, q, U)
  <2> HIDE DEF q
  <2> QED BY <1>2, <1>4, <1>12, NewLabelPair DEF Names
<1>14. s \in Unique /\ e \in Unique
  <2>1. label \in Nat /\ label + 1 \in Nat
    BY DEF Names
  <2> QED BY <2>1, <1>2, UniqueLabel
<1>15. x \notin Ranged
  BY <1>2 DEF Ranged, for_counter_reg, for_max_val
<1> DEFINE os == h.loops \cup {l}
<1>16. PICK g : Reached(g, Body(p, l), os)
  BY ReachedContext
<1>17. /\ g.blocks = open' /\ g.scope = scope' /\ g.point = Body(p, l) /\ g.bl = branch_label_stack'
       /\ g.ll = loop_label_stack' /\ g.ct = cycle_type_stack' /\ g.cl = current_loop'
       /\ g.isfor = current_loop_is_for' /\ g.kept = array_stack' /\ g.loops = os /\ Here(g)'
  BY <1>16 DEF Reached
<1>18. /\ h.blocks = open /\ h.scope = scope /\ h.bl = branch_label_stack
       /\ h.ll = loop_label_stack /\ h.ct = cycle_type_stack /\ h.cl = current_loop
       /\ h.isfor = current_loop_is_for /\ h.kept = array_stack
  BY <1>4 DEF Here
<1>19. Grown(Lines, label', loops, os, R, U, Body(p, l))
  <2>1. Labels(U, label', R)
    BY <1>3, <1>13
  <2>2. /\ w = <<<<"LABEL", s>>, <<"JUMPIFEQ", e, for_counter_reg, for_max_val>>>>
        /\ m = IF range.names = {} THEN <<>> ELSE <<<<"MOVE", x, for_counter_reg>>>>
    BY <1>2
  <2>3. Grown(((code \o ForHead(range)) \o <<<<"POPS", for_counter_reg>>>>)
                 \o (<<<<"LABEL", s>>, <<"JUMPIFEQ", e, for_counter_reg, for_max_val>>>>
                     \o (IF range.names = {} THEN <<>> ELSE <<<<"MOVE", x, for_counter_reg>>>>)),
                 label', loops, os, R, U, Body(p, l))
    BY <2>1, <1>4, <1>8, <1>9, <1>13, <1>15, CodeFor
  <2> QED BY <2>2, <2>3
<1> HIDE DEF s0, e0, w0, x0, m0, head0, Lines
<1>20. PICK k : Code(code', label', loops', g.loops, R, U, k) /\ k[Len(code') + 1] = g.point
  BY <1>3, <1>9, <1>17, <1>19 DEF Grown
<1>21. /\ g.blocks = Append(h.blocks, b) /\ g.scope = h.scope + b.depth /\ g.bl = h.bl
       /\ g.kept = h.kept /\ g.ll = h.ll \o h.cl /\ g.ct = Append(h.ct, h.isfor)
       /\ g.cl = <<s, e>>
  BY <1>3, <1>7, <1>17, <1>18
<1>22. /\ g.cl \in Seq(Unique) /\ Len(g.cl) = 2 /\ g.cl[1] = s /\ g.cl[2] = e /\ g.cl # <<>>
  <2>1. <<>> \in Seq(Unique)
    OBVIOUS
  <2>2. /\ <<s, e>> \in Seq(Unique) /\ Len(<<s, e>>) = 2 /\ <<s, e>>[1] = s /\ <<s, e>>[2] = e
        /\ <<s, e>> # <<>>
    BY <2>1, <1>14, PairSeq
  <2> QED BY <2>2, <1>21
<1>23. NewLoop(h, g)
  BY <1>21, <1>22 DEF NewLoop
<1>24. Is(g.cl[1], q, U) /\ Is(g.cl[2], q, U)
  BY <1>13, <1>22
<1>25. Pushed(b, h, g, U)
  <2>1. g.loops = h.loops \cup {OpenLoop(b)} /\ g.point = Body(h.point, OpenLoop(b))
    BY <1>2, <1>17
  <2>2. \A j \in h.loops : j.from < OpenLoop(b).from
    BY <1>2, <1>10
  <2>3. Is(g.cl[1], Looping(h.point, OpenLoop(b)), U) /\ Is(g.cl[2], Looping(h.point, OpenLoop(b)), U)
    BY <1>2, <1>24
  <2> QED BY <2>1, <2>2, <2>3, <1>7, <1>21, <1>23 DEF Pushed
<1>26. Sound(h, U, R) /\ p = h.point
  BY <1>2, <1>4, <1>13, SoundExtends
<1>27. Sound(g, U, R)
  BY <1>7, <1>10, <1>11, <1>17, <1>21, <1>22, <1>23, <1>24, <1>26, SoundFor
<1>28. Chain(H, open, U, R)
  BY <1>4, <1>13, ChainExtends
<1>29. Pushed(b, H[Len(open) + 1], g, U)
  BY <1>25, <1>50
<1>30. PICK G : Chain(G, Append(open, b), U, R) /\ G[Len(Append(open, b)) + 1] = g
  BY <1>4, <1>27, <1>28, <1>29, ChainPush
<1>31. Chain(G, open', U, R) /\ G[Len(open') + 1] = g
  BY <1>3, <1>30
<1>32. k[Len(code') + 1] = IF ended' THEN Never ELSE g.point
  BY <1>3, <1>20
<1> QED BY <1>17, <1>20, <1>27, <1>31, <1>32, Install

\* The lines of a loop's end, up to and after the end.
EndLined(c, n, w, r) ==
    /\ c \o ((n \o w) \o r) = (c \o n) \o (w \o r)
    /\ Len(c \o n) = Len(c) + 2 /\ Len(w \o r) = 3 /\ Len(c) \in Nat

\* A line of two, one of one and one of two, behind the code
LEMMA EndLines ==
    ASSUME NEW c, IsSeq(c), NEW n, IsSeq(n), Len(n) = 2, NEW w, IsSeq(w), Len(w) = 1,
           NEW r, IsSeq(r), Len(r) = 2
    PROVE  EndLined(c, n, w, r)
<1>1. Regrouped(n, w, r) /\ IsSeq(w \o r) /\ Len(w \o r) = 3
  <2>1. Regrouped(n, w, r)
    BY Assoc
  <2>2. IsSeq(w \o r) /\ Len(w \o r) = Len(w) + Len(r)
    BY ConcatSeq
  <2> QED BY <2>1, <2>2
<1> DEFINE t == w \o r
<1>2. IsSeq(t)
  BY <1>1
<1> HIDE DEF t
<1>3. Regrouped(c, n, t)
  BY <1>2, Assoc
<1>4. Len(c \o n) = Len(c) + Len(n) /\ Len(c) \in Nat
  BY ConcatSeq
<1>5. (n \o w) \o r = n \o t /\ c \o (n \o t) = (c \o n) \o t
  BY <1>1, <1>3 DEF Regrouped, t
<1> QED BY <1>1, <1>4, <1>5 DEF t, EndLined

\* The code of a loop's end
LEMMA CodeForEnd ==
    ASSUME NEW c, NEW n, NEW ls, NEW os, NEW fs, NEW R, NEW T, NEW ann, NEW p, NEW k0, NEW l, NEW s, NEW e,
           NEW a, Code(c, n, ls, os, R, T, ann), ann[Len(c) + 1] = a,
           a = Body(p, k0) \/ a = Never, p \in Point, p.frame = 1,
           Owns(OwnPoint(Body(p, k0)), os), RangeFields(k0), os = fs \cup {k0},
           k0.from \in Nat, \A k \in fs : k.from < k0.from,
           l.from = k0.from, l.low = k0.low, l.limit = k0.limit, l.to = Len(c) + 3,
           Is(s, Looping(p, k0), T), Is(e, Looping(p, k0), T)
    PROVE  Grown(c \o ((<<<<"ADD", for_counter_reg>>, <<"JUMP", s>>>> \o <<<<"LABEL", e>>>>)
                       \o gen_for_range_restore), n, ls \cup {l}, fs, R, T, p)
<1> DEFINE d == <<<<"ADD", for_counter_reg>>, <<"JUMP", s>>>>
           w == <<<<"LABEL", e>>>>
           r == gen_for_range_restore
           b == Body(p, k0)
           o == OwnPoint(b)
<1>1. IsSeq(c) /\ Labels(T, n, R) /\ Extends(T, T)
  BY ExtendsRefl DEF Code, Typed
<1>2. IsSeq(d) /\ Len(d) = 2 /\ IsSeq(w) /\ Len(w) = 1 /\ IsSeq(r) /\ Len(r) = 2
  BY PairIsSeq, SingleSeq DEF gen_for_range_restore
<1>3. b \in Point /\ Never \in Point
  BY LoopPoints, NeverPoint
<1>4. InRange(a, o) /\ InRange(Added(a), o)
  <2>1. InRange(b, o) /\ InRange(Added(b), o) /\ InRange(Never, o)
    BY <1>3, OwnWithin
  <2>2. InRange(Added(Never), o)
    BY <2>1, AtFields DEF Added, Counting, Never, InRange
  <2> QED BY <2>1, <2>2
<1>5. Goes(s, Added(a), T)
  <2>1. Goes(s, Added(b), T)
    BY BodyGoes
  <2>2. Goes(s, Added(Never), T)
    <3>1. Added(Never).counter = {}
      BY AtFields DEF Added, Counting, Never
    <3> QED BY <3>1 DEF Goes, Is, Sub
  <2> QED BY <2>1, <2>2
<1>6. Chunk(d, ann[Len(c) + 1], Never, T, o)
  BY <1>3, <1>4, <1>5, ChunkNext
<1>7. Chunk(w \o r, Never, p, T, <<Int, Int>>)
  BY ChunkForEnd
<1>8. /\ c \o ((d \o w) \o r) = (c \o d) \o (w \o r)
      /\ Len(c \o d) = Len(c) + 2 /\ Len(w \o r) = 3 /\ Len(c) \in Nat
  <2> HIDE DEF d, w, r
  <2>1. EndLined(c, d, w, r)
    BY <1>1, <1>2, EndLines
  <2> QED BY <2>1 DEF EndLined
<1>9. os \ {k0} = fs /\ k0 \in os
  <2>1. k0 \notin fs
    OBVIOUS
  <2> QED BY <2>1
<1> DEFINE c1 == c \o d
           t == w \o r
<1>10. l.to = Len(c1) + 1 /\ Len(t) = 3
  BY <1>8
<1> HIDE DEF d, t, o
<1>11. Grown(c1, n, ls, os, R, T, Never)
  BY <1>1, <1>6, Grow DEF o
<1> HIDE DEF c1, b
<1>12. PICK k1 : Code(c1, n, ls, os, R, T, k1) /\ k1[Len(c1) + 1] = Never
  BY <1>11 DEF Grown
<1>13. Chunk(t, k1[Len(c1) + 1], p, T, <<Int, Int>>)
  BY <1>7, <1>12 DEF t
<1>14. Grown(c1 \o t, n, ls \cup {l}, os \ {k0}, R, T, p)
  BY <1>1, <1>9, <1>10, <1>12, <1>13, Leave
<1> QED BY <1>8, <1>9, <1>14 DEF c1, d, t

\* The end of a for loop keeps the code right.
LEMMA ForEndSteady ==
    ASSUME NEW R, Steady(R), ForEnd
    PROVE  Steady(R)'
<1>1. PICK T, ann, H : Compiled(R, T, ann, H)
  BY DEF Steady
<1>2. PICK h, f, b, a, l, s, e :
         /\ h = H[Len(open) + 1] /\ f = H[Len(open)] /\ b = Last(open) /\ a = ann[Len(code) + 1]
         /\ s = current_loop[1] /\ e = current_loop[2]
         /\ l = [from |-> b.labels[2], to |-> Len(code) + 3, low |-> b.labels[1].low,
                 limit |-> b.labels[1].high + IF b.labels[1].open THEN 0 ELSE 1]
  OBVIOUS
<1>3. PICK p, k0 : p = f.point /\ k0 = OpenLoop(b)
  OBVIOUS
<1>4. b.what = "for" /\ open # <<>>
  BY <1>2 DEF ForEnd, Closes
<1>5. /\ Here(h) /\ Labels(T, label, R) /\ Sound(h, T, R) /\ Owns(OwnPoint(h.point), h.loops)
      /\ a = (IF ended THEN Never ELSE h.point) /\ IsSeq(open)
      /\ Code(code, label, loops, h.loops, R, T, ann) /\ Chain(H, open, T, R)
  BY <1>1, <1>2, Parts
<1>6. /\ Pushed(b, f, h, T) /\ Sound(f, T, R) /\ Front(open) = f.blocks /\ scope - b.depth = f.scope
  BY <1>1, <1>2, <1>4, Under
<1>7. /\ NewLoop(f, h) /\ b.labels[1] \in Ranges
      /\ h.loops = f.loops \cup {k0} /\ \A k \in f.loops : k.from < k0.from
      /\ h.point = Body(p, k0) /\ Is(h.cl[1], Looping(p, k0), T) /\ Is(h.cl[2], Looping(p, k0), T)
      /\ h.kept = f.kept
  BY <1>3, <1>4, <1>6 DEF Pushed, IsFunction, NewLoop
<1>8. /\ code' = code \o ((<<<<"ADD", for_counter_reg>>, <<"JUMP", s>>>> \o <<<<"LABEL", e>>>>)
                          \o gen_for_range_restore)
      /\ label' = label /\ loops' = loops \cup {l} /\ ended' = FALSE
      /\ open' = Front(open) /\ scope' = scope - b.depth
      /\ LoopEnd /\ UNCHANGED array_stack
  BY <1>2 DEF ForEnd, gen_line, BlockEnd, frame_vars, gen_for_next
<1>9. Here(f)'
  <2>2. /\ f.ll = loop_label_stack' /\ f.ct = cycle_type_stack' /\ f.cl = current_loop'
        /\ f.isfor = current_loop_is_for' /\ f.bl = branch_label_stack'
    BY <1>5, <1>6, <1>7, <1>8, LoopBack
  <2>3. f.kept = array_stack'
    BY <1>5, <1>7, <1>8 DEF Here
  <2>4. f.blocks = open' /\ f.scope = scope'
    BY <1>6, <1>8
  <2> QED BY <2>2, <2>3, <2>4 DEF Here
<1>10. RangeFields(k0) /\ k0.from \in Nat /\ p \in Point /\ p.frame = 1
  <2>1. k0.low = b.labels[1].low /\ k0.limit = LimitOf(b.labels[1])
    BY <1>3 DEF OpenLoop
  <2>2. RangeFields(k0)
    BY <2>1, <1>7, RangeFacts DEF RangeFields
  <2>3. k0.from \in Nat
    BY <1>5, <1>7 DEF Sound, Inner
  <2> QED BY <2>2, <2>3, <1>3, <1>6 DEF Sound
<1>11. l.from = k0.from /\ l.low = k0.low /\ l.limit = k0.limit /\ l.to = Len(code) + 3
  BY <1>2, <1>3 DEF OpenLoop, LimitOf
<1>12. s = h.cl[1] /\ e = h.cl[2]
  BY <1>2, <1>5 DEF Here
<1>13. Grown(code', label, loops \cup {l}, f.loops, R, T, p)
  <2>1. Is(s, Looping(p, k0), T) /\ Is(e, Looping(p, k0), T) /\ Owns(OwnPoint(Body(p, k0)), h.loops)
    BY <1>5, <1>7, <1>12
  <2>2. ann[Len(code) + 1] = a /\ (a = Body(p, k0) \/ a = Never)
    BY <1>2, <1>5, <1>7
  <2>3. Grown(code \o ((<<<<"ADD", for_counter_reg>>, <<"JUMP", s>>>> \o <<<<"LABEL", e>>>>)
                       \o gen_for_range_restore), label, loops \cup {l}, f.loops, R, T, p)
    BY <2>1, <2>2, <1>5, <1>7, <1>10, <1>11, CodeForEnd
  <2> QED BY <2>3, <1>8
<1>14. PICK k : Code(code', label', loops', f.loops, R, T, k) /\ k[Len(code') + 1] = f.point
  BY <1>3, <1>8, <1>13 DEF Grown
<1>15. \E G : Chain(G, Front(open), T, R) /\ G[Len(Front(open)) + 1] = H[Len(open)]
  BY <1>4, <1>5, ChainPop
<1>16. PICK G : Chain(G, open', T, R) /\ G[Len(open') + 1] = f
  BY <1>2, <1>8, <1>15
<1>17. k[Len(code') + 1] = IF ended' THEN Never ELSE f.point
  BY <1>8, <1>14
<1> QED BY <1>6, <1>9, <1>14, <1>16, <1>17, Install

\* Outside all blocks a statement is one of main.
LEMMA SoundMain ==
    ASSUME NEW h, NEW T, NEW R, Sound(h, T, R), h.blocks = <<>>
    PROVE  /\ h.point = Inside(R, 0) /\ h.loops = {} /\ h.cl = <<>> /\ h.ll = <<>>
<1>1. \A i \in 1 .. Len(h.blocks) : h.blocks[i].what # "for"
  OBVIOUS
<1>2. Level(h.blocks) = 0
  BY DEF Level
<1> QED BY <1>1, <1>2 DEF Sound

\* The context in a function
LEMMA SoundFunc ==
    ASSUME NEW R \in Int \X Int, NEW T, NEW h, Sound(h, T, R), h.blocks = <<>>, NEW b, NEW g,
           IsFunction(b), b.depth = 2, g.blocks = Append(h.blocks, b), g.scope = h.scope + b.depth,
           SameLoop(h, g), g.bl = h.bl, g.point = Inside(R, 1),
           NEW u \in Seq(Variables), g.kept = Append(h.kept, u)
    PROVE  Sound(g, T, R)
<1>1. /\ h.point = Inside(R, 0) /\ h.loops = {} /\ h.cl = <<>> /\ h.ll = <<>>
  BY SoundMain
<1>2. /\ g.loops = {} /\ g.cl = <<>> /\ g.ll = <<>> /\ g.ct = h.ct
  BY <1>1 DEF SameLoop
<1>3. h.bl \in Seq(Unique) /\ IsSeq(h.ct) /\ h.kept \in Seq(Seq(Variables)) /\ h.scope \in Nat
  BY DEF Sound
<1>4. g.blocks = <<b>> /\ IsSeq(<<b>>) /\ Len(<<b>>) = 1 /\ <<b>>[1] = b /\ <<b>> # <<>>
  BY SingleSeq
<1>5. Level(<<b>>) = 1 /\ b.what \notin {"while", "for"}
  BY <1>4 DEF Level, IsFunction
<1>6. \A i \in 1 .. Len(g.blocks) : g.blocks[i].what \notin {"while", "for"}
  BY <1>4, <1>5
<1>7. Inside(R, 1) \in Point /\ Inside(R, 1).frame = 1
  BY PlainPoints
<1>8. <<>> \in Seq(Unique) /\ g.kept \in Seq(Seq(Variables)) /\ g.scope \in Nat /\ g.scope > 0
  BY <1>3
<1>9. g.blocks # <<>> /\ IsSeq(g.blocks) /\ Level(g.blocks) = 1
  BY <1>4, <1>5
<1> QED BY <1>2, <1>3, <1>6, <1>7, <1>8, <1>9 DEF Sound, Inner

\* The head of a function keeps the code right.
LEMMA FuncDeclSteady ==
    ASSUME NEW R \in Int \X Int, Steady(R), Names, NEW f \in Function,
           NEW what \in {"func", "value_func"}, FuncDecl(f, what)
    PROVE  Steady(R)'
<1>1. PICK T, ann, H : Compiled(R, T, ann, H)
  BY DEF Steady
<1> DEFINE skip0 == Label("skip", label)
           defvar0 == Label("defvar", label + 1)
           back0 == Label("defvar_back", label + 2)
<1>2. PICK h, skip, defvar, back, b, p, q, n :
         /\ h = H[Len(open) + 1] /\ skip = skip0 /\ defvar = defvar0 /\ back = back0
         /\ b = [what |-> what, depth |-> 2, labels |-> <<skip, defvar, back>>]
         /\ p = Inside(R, 0) /\ n = Arity(f) /\ q = Entered(R, n)
  OBVIOUS
<1> DEFINE d0 == <<<<"JUMP", skip>>, <<"LABEL", Entry(f)>>, <<"CREATEFRAME">>, <<"PUSHFRAME">>,
                   <<"JUMP", defvar>>, <<"LABEL", back>>>>
                 \o Reverse([i \in DOMAIN Params(f) |-> <<"POPS", Params(f)[i]>>])
<1>3. /\ code' = code \o d0 /\ label' = label + 3 /\ loops' = loops /\ ended' = ended /\ ~ended
      /\ open = <<>> /\ open' = Append(open, b) /\ scope' = scope + 2
      /\ array_stack' = Append(array_stack, used_vars)
      /\ UNCHANGED <<branch_label_stack, loop_label_stack, cycle_type_stack, current_loop, current_loop_is_for>>
  BY <1>2 DEF FuncDecl, gen_line, Block, Names, stacks
<1>4. /\ Sound(h, T, R) /\ Here(h) /\ Labels(T, label, R) /\ (ann[Len(code) + 1] = h.point)
      /\ scope \in Nat
  BY <1>1, <1>2, <1>3, Parts
<1>5. /\ h.blocks = open /\ h.scope = scope /\ h.bl = branch_label_stack
      /\ h.ll = loop_label_stack /\ h.ct = cycle_type_stack /\ h.cl = current_loop
      /\ h.isfor = current_loop_is_for /\ h.kept = array_stack
  BY <1>4 DEF Here
<1>6. h.blocks = <<>> /\ h.point = p /\ h.loops = {}
  BY <1>2, <1>3, <1>4, <1>5, SoundMain
<1>7. n \in Nat /\ p \in Point /\ q \in Point /\ Inside(R, 1) \in Point /\ SameFrame(q, Inside(R, 1))
  BY <1>2, ParamVariables, PlainPoints
<1>8. PICK U : /\ Labels(U, label + 3, R) /\ Extends(T, U) /\ Is(skip, p, U)
               /\ Is(defvar, q, U) /\ Is(back, q, U)
  BY <1>2, <1>4, <1>7, NewLabelTriple DEF Names
<1>9. PICK g : Reached(g, Inside(R, 1), h.loops)
  BY ReachedContext
<1>10. /\ g.blocks = open' /\ g.scope = scope' /\ g.point = Inside(R, 1) /\ g.bl = branch_label_stack'
       /\ g.ll = loop_label_stack' /\ g.ct = cycle_type_stack' /\ g.cl = current_loop'
       /\ g.isfor = current_loop_is_for' /\ g.kept = array_stack' /\ g.loops = h.loops /\ Here(g)'
  BY <1>9 DEF Reached
<1>11. /\ IsFunction(b) /\ IsBlock(b) /\ b.depth = 2 /\ b.labels[1] = skip /\ b.labels[2] = defvar
       /\ b.labels[3] = back
  BY <1>2 DEF IsFunction, IsBlock
<1>12. /\ g.blocks = Append(h.blocks, b) /\ g.scope = h.scope + b.depth /\ g.bl = h.bl
       /\ SameLoop(h, g) /\ g.kept = Append(h.kept, used_vars) /\ used_vars \in Seq(Variables)
  BY <1>3, <1>5, <1>10, <1>11 DEF SameLoop, Names
<1>13. Sound(h, U, R)
  BY <1>4, <1>8, SoundExtends
<1>14. Sound(g, U, R)
  BY <1>6, <1>10, <1>11, <1>12, <1>13, SoundFunc
<1>15. Pushed(b, h, g, U)
  <2>1. \E u \in Seq(Variables) : g.kept = Append(h.kept, u)
    BY <1>12
  <2>2. Is(b.labels[1], h.point, U)
    BY <1>6, <1>8, <1>11
  <2>3. \E r \in Point : /\ SameFrame(r, g.point)
                         /\ Is(b.labels[2], r, U) /\ Is(b.labels[3], r, U)
    BY <1>7, <1>8, <1>10, <1>11
  <2> QED BY <2>1, <2>2, <2>3, <1>6, <1>11, <1>12 DEF Pushed
<1>16. Chunk(d0, p, Inside(R, 1), U, OwnPoint(p))
  <2>1. Keeps(R, OwnPoint(p))
    BY <1>2, OwnKeeps
  <2>2. Is(Entry(f), Outside(R, 1, n), U)
    BY <1>2, <1>8 DEF Labels, Fixed, Is
  <2>3. Chunk(<<<<"JUMP", skip>>, <<"LABEL", Entry(f)>>, <<"CREATEFRAME">>, <<"PUSHFRAME">>,
                   <<"JUMP", defvar>>, <<"LABEL", back>>>>, p, q, U, OwnPoint(p))
    <3> DEFINE e == Entry(f)
               o == OwnPoint(p)
    <3>1. Is(e, Outside(R, 1, n), U) /\ Keeps(R, o)
      BY <2>1, <2>2
    <3>2. Is(skip, Inside(R, 0), U) /\ Is(defvar, Entered(R, n), U) /\ Is(back, Entered(R, n), U)
      BY <1>2, <1>8
    <3> HIDE DEF e, o
    <3>3. Chunk(<<<<"JUMP", skip>>, <<"LABEL", e>>, <<"CREATEFRAME">>, <<"PUSHFRAME">>,
                   <<"JUMP", defvar>>, <<"LABEL", back>>>>, Inside(R, 0), Entered(R, n), U, o)
      BY <3>1, <3>2, <1>7, ChunkFuncHead
    <3> QED BY <3>3, <1>2 DEF e, o
  <2>4. Chunk(Reverse([i \in DOMAIN Params(f) |-> <<"POPS", Params(f)[i]>>]), q, Inside(R, 1), U, OwnPoint(p))
    BY <2>1, <1>2, ChunkParams
  <2> QED BY <2>3, <2>4, ChunkJoin
<1> HIDE DEF d0, skip0, defvar0, back0
<1>17. Chunk(d0, ann[Len(code) + 1], g.point, U, OwnPoint(h.point))
  BY <1>4, <1>6, <1>10, <1>16
<1>18. Labels(U, label', R) /\ ended' = FALSE
  BY <1>3, <1>8 DEF Names
<1> QED BY <1>1, <1>2, <1>3, <1>8, <1>10, <1>14, <1>15, <1>17, <1>18, PushOn

\* What the end of a function finds
LEMMA UnderFunc ==
    ASSUME NEW R, NEW T, NEW ann, NEW H, Compiled(R, T, ann, H), open # <<>>, IsFunction(Last(open))
    PROVE  LET h == H[Len(open) + 1]
               f == H[Len(open)]
               b == Last(open)
           IN  /\ f.point = Inside(R, 0) /\ h.point = Inside(R, 1) /\ f.blocks = <<>>
               /\ h.loops = f.loops /\ h.bl = f.bl /\ SameLoop(f, h)
               /\ Front(array_stack) = f.kept /\ Last(array_stack) \in Seq(Variables)
               /\ Is(b.labels[1], Inside(R, 0), T)
               /\ \E q \in Point : /\ SameFrame(q, Inside(R, 1))
                                  /\ Is(b.labels[2], q, T) /\ Is(b.labels[3], q, T)
<1>1. PICK h, f, b : h = H[Len(open) + 1] /\ f = H[Len(open)] /\ b = Last(open)
  OBVIOUS
<1>2. Pushed(b, f, h, T) /\ Sound(f, T, R) /\ IsFunction(b)
  BY <1>1, Under
<1>3. Sound(h, T, R) /\ Here(h)
  BY <1>1, Parts
<1>4. /\ f.blocks = <<>> /\ SameLoop(f, h) /\ h.bl = f.bl
      /\ \E u \in Seq(Variables) : h.kept = Append(f.kept, u)
      /\ Is(b.labels[1], f.point, T)
      /\ \E q \in Point : /\ SameFrame(q, h.point)
                         /\ Is(b.labels[2], q, T) /\ Is(b.labels[3], q, T)
      /\ h.blocks = Append(f.blocks, b)
  BY <1>2 DEF Pushed, IsFunction
<1>5. f.point = Inside(R, 0)
  BY <1>2, <1>4, SoundMain
<1>6. h.point = Inside(R, 1)
  <2>1. h.blocks = <<b>> /\ Len(<<b>>) = 1 /\ <<b>>[1] = b /\ <<b>> # <<>>
    BY <1>4, SingleSeq
  <2>2. Level(<<b>>) = 1 /\ b.what # "for"
    BY <1>2, <2>1 DEF Level, IsFunction
  <2>3. \A i \in 1 .. Len(h.blocks) : h.blocks[i].what # "for"
    BY <2>1, <2>2
  <2> QED BY <2>1, <2>2, <2>3, <1>3 DEF Sound
<1>7. PICK u \in Seq(Variables) : h.kept = Append(f.kept, u)
  BY <1>4
<1>8. Front(array_stack) = f.kept /\ Last(array_stack) = u
  <2>1. f.kept \in Seq(Seq(Variables)) /\ array_stack = Append(f.kept, u)
    BY <1>2, <1>3, <1>7 DEF Sound, Here
  <2>2. Front(Append(f.kept, u)) = f.kept /\ Last(Append(f.kept, u)) = u
    BY <2>1, Unappend
  <2> QED BY <2>1, <2>2
<1>9. h.loops = f.loops
  BY <1>4 DEF SameLoop
<1> QED BY <1>1, <1>4, <1>5, <1>6, <1>8, <1>9

\* The end of a function keeps the code right.
LEMMA FuncEndSteady ==
    ASSUME NEW R \in Int \X Int, Steady(R), Names,
           NEW what \in {"func", "value_func"}, FuncEnd(what)
    PROVE  Steady(R)'
<1>1. PICK T, ann, H : Compiled(R, T, ann, H)
  BY DEF Steady
<1> DEFINE d == IF what = "func" THEN gen_return(TRUE) ELSE <<>>
           bp0 == IF what = "func" THEN Inside(R, 1) ELSE Inside(R, 0)
<1>2. PICK h, f, b, a, bp, def_skip :
         /\ h = H[Len(open) + 1] /\ f = H[Len(open)] /\ b = Last(open) /\ a = ann[Len(code) + 1]
         /\ bp = bp0 /\ def_skip = Label("def_skip", label)
  OBVIOUS
<1>3. b.what = what /\ open # <<>> /\ (what = "value_func" => ended) /\ IsFunction(b)
  BY <1>2 DEF FuncEnd, Closes, Names, IsFunction
<1>4. /\ Here(h) /\ Labels(T, label, R) /\ a = (IF ended THEN Never ELSE h.point)
  BY <1>1, <1>2, Parts
<1>5. /\ Front(open) = f.blocks /\ scope - b.depth = f.scope
  BY <1>1, <1>2, <1>3, Under
<1>6. /\ f.point = Inside(R, 0) /\ h.point = Inside(R, 1) /\ h.loops = f.loops /\ h.bl = f.bl
      /\ SameLoop(f, h) /\ Front(array_stack) = f.kept
      /\ Is(b.labels[1], Inside(R, 0), T)
      /\ \E q \in Point : /\ SameFrame(q, Inside(R, 1))
                         /\ Is(b.labels[2], q, T) /\ Is(b.labels[3], q, T)
  BY <1>1, <1>2, <1>3, UnderFunc
<1>7. PICK q \in Point : /\ SameFrame(q, Inside(R, 1))
                         /\ Is(b.labels[2], q, T) /\ Is(b.labels[3], q, T)
  BY <1>6
<1> DEFINE e == <<<<"JUMP", def_skip>>, <<"LABEL", b.labels[2]>>>> \o Defvars(used_vars)
                    \o <<<<"JUMP", b.labels[3]>>, <<"LABEL", def_skip>>>>
                    \o d \o <<<<"LABEL", b.labels[1]>>>>
<1>8. /\ code' = code \o e /\ label' = label + 1 /\ loops' = loops /\ ended' = FALSE
      /\ open' = Front(open) /\ scope' = scope - b.depth /\ array_stack' = Front(array_stack)
      /\ UNCHANGED stacks
  BY <1>2 DEF FuncEnd, gen_line, BlockEnd
<1>9. Here(f)'
  <2>1. /\ h.ll = loop_label_stack /\ h.ct = cycle_type_stack /\ h.cl = current_loop
        /\ h.isfor = current_loop_is_for /\ h.bl = branch_label_stack
    BY <1>4 DEF Here
  <2>2. /\ f.ll = loop_label_stack' /\ f.ct = cycle_type_stack' /\ f.cl = current_loop'
        /\ f.isfor = current_loop_is_for' /\ f.bl = branch_label_stack'
    BY <2>1, <1>6, <1>8 DEF SameLoop, stacks
  <2>3. f.kept = array_stack' /\ f.blocks = open' /\ f.scope = scope'
    BY <1>5, <1>6, <1>8
  <2> QED BY <2>2, <2>3 DEF Here
<1>10. bp \in Point /\ Inside(R, 0) \in Point /\ Inside(R, 1) \in Point
  BY <1>2, PlainPoints
<1>11. PICK U : Labels(U, label + 1, R) /\ Extends(T, U) /\ Is(def_skip, bp, U)
  BY <1>2, <1>4, <1>10, NewLabel DEF Names
<1>12. Is(b.labels[1], Inside(R, 0), U) /\ Is(b.labels[2], q, U) /\ Is(b.labels[3], q, U)
  BY <1>6, <1>7, <1>11 DEF Extends, Is
<1>13. PICK o : o = OwnPoint(Inside(R, 1))
  OBVIOUS
<1>14. Keeps(R, o) /\ InRange(bp, o)
  <2>1. Keeps(R, o)
    BY <1>13, OwnKeeps
  <2> QED BY <2>1, <1>2, PlainWithin
<1>15. Chunk(d, bp, Inside(R, 0), U, o)
  <2>1. CASE what = "func"
    <3>1. Is(Back, Outside(R, 1, 0), U)
      BY <1>11 DEF Labels, Fixed, Is
    <3>2. Chunk(<<<<"POPFRAME">>, <<"RETURN">>>>, Inside(R, 1), Inside(R, 0), U, o)
      BY <3>1, <1>10, <1>13, ChunkGoBack
    <3>3. d = <<<<"POPFRAME">>, <<"RETURN">>>>
      BY <2>1 DEF gen_return
    <3> QED BY <2>1, <3>2, <3>3, <1>2
  <2>2. CASE what = "value_func"
    <3>1. Chunk(<<>>, Inside(R, 0), Inside(R, 0), U, o)
      BY <1>10, ChunkEmpty
    <3>2. what # "func"
      BY <2>2
    <3> QED BY <3>1, <3>2, <1>2
  <2> QED BY <2>1, <2>2
<1>16. a = bp \/ a = Never
  BY <1>2, <1>3, <1>4, <1>6
<1> HIDE DEF d, bp0
<1>17. Chunk(e, a, Inside(R, 0), U, o)
  <2> DEFINE j == b.labels[1]
             k == b.labels[2]
             m == b.labels[3]
             xs == used_vars
  <2>1. /\ Is(j, Inside(R, 0), U) /\ Is(k, q, U) /\ Is(m, q, U) /\ xs \in Seq(Variables)
    BY <1>12 DEF Names
  <2> HIDE DEF j, k, m, xs
  <2>2. Chunk(<<<<"JUMP", def_skip>>, <<"LABEL", k>>>> \o Defvars(xs)
                    \o <<<<"JUMP", m>>, <<"LABEL", def_skip>>>>
                    \o d \o <<<<"LABEL", j>>>>, a, Inside(R, 0), U, o)
    BY <2>1, <1>7, <1>10, <1>11, <1>14, <1>15, <1>16, ChunkFuncTail
  <2> QED BY <2>2 DEF j, k, m, xs
<1> HIDE DEF e
<1>18. Chunk(e, ann[Len(code) + 1], f.point, U, OwnPoint(h.point))
  BY <1>2, <1>6, <1>13, <1>17
<1>19. Labels(U, label', R) /\ f.loops = h.loops
  BY <1>6, <1>8, <1>11
<1> QED BY <1>1, <1>2, <1>3, <1>8, <1>9, <1>11, <1>18, <1>19, PopOn

\* Before the first statement only the library and the head of main are there.
LEMMA InitSteady ==
    ASSUME NEW R \in Int \X Int, Init
    PROVE  Steady(R)
<1> DEFINE p == Inside(R, 0)
           h == Context(<<>>, 0, p, <<>>, <<>>, <<>>, NoLoop, FALSE, <<>>, {})
           H == [j \in 1 .. 1 |-> h]
           T == First(R)
           o == OwnPoint(p)
<1>1. /\ h.blocks = <<>> /\ h.scope = 0 /\ h.point = p /\ h.bl = <<>> /\ h.ll = <<>> /\ h.ct = <<>>
      /\ h.cl = <<>> /\ h.isfor = FALSE /\ h.kept = <<>> /\ h.loops = {}
  BY DEF Context, NoLoop
<1>2. p \in Point /\ p.frame = 1
  BY PlainPoints
<1>3. Labels(T, 2, R) /\ Fixed(T, R)
  BY FirstLabels DEF Labels
<1>4. Keeps(R, o)
  BY OwnKeeps
<1>5. Level(<<>>) = 0 /\ IsSeq(<<>>) /\ Len(<<>>) = 0
  BY DEF Level, IsSeq
<1>6. PICK g : g = h
  OBVIOUS
<1>7. p = Inside(R, 0)
  OBVIOUS
<1> HIDE DEF h, p, T, o
<1>8. Sound(g, T, R)
  <2>1. <<>> \in Seq(Unique) /\ <<>> \in Seq(Seq(Variables))
    OBVIOUS
  <2>2. /\ g.blocks = <<>> /\ g.scope = 0 /\ g.point = p /\ g.bl = <<>> /\ g.ll = <<>> /\ g.ct = <<>>
        /\ g.cl = <<>> /\ g.kept = <<>> /\ g.loops = {}
    BY <1>1, <1>6
  <2>3. \A i \in 1 .. Len(g.blocks) : g.blocks[i].what \notin {"while", "for"}
    BY <2>2
  <2>4. g.point = Inside(R, Level(g.blocks)) /\ IsSeq(g.blocks) /\ IsSeq(g.ct)
    BY <2>2, <1>5, <1>7
  <2> QED BY <2>1, <2>2, <2>3, <2>4, <1>2 DEF Sound, Inner
<1>9. /\ open = <<>> /\ scope = 0 /\ branch_label_stack = <<>> /\ loop_label_stack = <<>>
      /\ cycle_type_stack = <<>> /\ current_loop = <<>> /\ current_loop_is_for = FALSE
      /\ array_stack = <<>> /\ label = 2 /\ loops = {} /\ ended = FALSE
      /\ code = <<<<"JUMP", Entry("$$main")>>>> \o gen_std_functions
                 \o <<<<"CREATEFRAME">>, <<"PUSHFRAME">>, <<"JUMP", Label("main_defvar", 0)>>,
                      <<"LABEL", Label("main_defvar_back", 1)>>>>
  BY DEF Init, NoLoop
<1>10. Here(g)
  BY <1>1, <1>6, <1>9 DEF Here
<1>11. Chunk(code, Outside(R, 0, 0), p, T, o)
  <2>1. Chunk(<<<<"JUMP", Entry("$$main")>>>> \o gen_std_functions
                 \o <<<<"CREATEFRAME">>, <<"PUSHFRAME">>, <<"JUMP", Label("main_defvar", 0)>>,
                      <<"LABEL", Label("main_defvar_back", 1)>>>>,
              Outside(R, 0, 0), Inside(R, 0), T, o)
    BY <1>3, <1>4, ChunkFirst
  <2> QED BY <2>1, <1>7, <1>9
<1>12. PICK n : Typed(code, n, T) /\ n[1] = Outside(R, 0, 0) /\ n[Len(code) + 1] = p
  BY <1>11 DEF Chunk
<1>13. Code(code, label, loops, g.loops, R, T, n)
  <2>1. \A i, q : Owned(q, i, {}, {})
    BY DEF Owned
  <2>2. g.loops = {}
    BY <1>1, <1>6
  <2> QED BY <2>1, <2>2, <1>3, <1>9, <1>12 DEF Code, Closed, Opened
<1>14. H[1] = g /\ DOMAIN H = 1 .. 1
  BY <1>6
<1> HIDE DEF H
<1>15. Chain(H, open, T, R) /\ H[Len(open) + 1] = g
  <2>1. Len(open) = 0 /\ \A j \in 1 .. 1 : j = 1
    BY <1>5, <1>9
  <2>2. g.blocks = <<>>
    BY <1>1, <1>6
  <2> QED BY <2>1, <2>2, <1>8, <1>14 DEF Chain
<1>16. n[Len(code) + 1] = IF ended THEN Never ELSE g.point
  BY <1>1, <1>6, <1>9, <1>12
<1>17. Compiled(R, T, n, H)
  BY <1>5, <1>9, <1>10, <1>13, <1>15, <1>16 DEF Compiled
<1> QED BY <1>17 DEF Steady

\* Nothing is named before the first statement.
LEMMA NamesInit ==
    ASSUME Init, \A v \in Vocabulary : ~v.leaves_for /\ ~v.falls_through
    PROVE  Names
<1>1. <<>> \in Seq(Variables)
  OBVIOUS
<1>2. DOMAIN None = {}
  BY DEF None
<1> QED BY <1>1, <1>2 DEF Init, Names

\* The names of the variables a statement declares
LEMMA Named ==
    ASSUME NEW n \in Nat
    PROVE  /\ <<"x", n>> \in Variables /\ <<"i", n>> \in Variables
           /\ n > 0 => \A x \in Variables : <<x[1], n>> \in Variables
<1>1. <<"x", n>> \in Variables /\ <<"i", n>> \in Variables
  BY DEF Variables, Naming, registers, for_counter_reg, for_max_val, ret_reg, cond_reg, A
<1>2. ASSUME n > 0, NEW x \in Variables
      PROVE  <<x[1], n>> \in Variables
  <2>1. x[1] \in Naming
    BY DEF Variables
  <2>2. \A r \in registers : r[2] = 0
    BY DEF registers, for_counter_reg, for_max_val, ret_reg, cond_reg, A
  <2>3. <<x[1], n>>[2] # 0
    BY <1>2
  <2>4. <<x[1], n>> \notin registers
    BY <2>2, <2>3
  <2>5. <<x[1], n>> \in Naming \X Nat
    BY <2>1
  <2> QED BY <2>4, <2>5 DEF Variables
<1> QED BY <1>1, <1>2

\* gen_var_name adds a variable, or none.
LEMMA AddName ==
    ASSUME NEW x \in Variables, used_vars \in Seq(Variables), global_vars \in Seq(Variables), gen_var_name(x)
    PROVE  used_vars' \in Seq(Variables) /\ global_vars' \in Seq(Variables) /\ array_stack' = array_stack
<1>1. \A s \in Seq(Variables) : AddUnique(s, x) \in Seq(Variables)
  <2> TAKE s \in Seq(Variables)
  <2>1. Append(s, x) \in Seq(Variables)
    OBVIOUS
  <2> QED BY <2>1 DEF AddUnique
<1> QED BY <1>1 DEF gen_var_name

\* The names that are in scope.
LEMMA Scopes ==
    ASSUME NEW f, NEW g, NEW d
    PROVE  /\ DOMAIN Over(f, g) = DOMAIN f \cup DOMAIN g
           /\ DOMAIN Within(d) \subseteq DOMAIN declared
           /\ \A xs, kind : DOMAIN All(xs, kind) = xs
           /\ DOMAIN None = {}
  BY DEF Over, Within, Restrict, All, None

\* The step keeps what the names say, and opens or closes no block by mistake.
NamesNext ==
    /\ used_vars' \in Seq(Variables) /\ global_vars' \in Seq(Variables)
    /\ DOMAIN declared' \subseteq Variables

\* The step changes the flags as Names wants it.
Flagged ==
    /\ label' \in Nat /\ ended' \in BOOLEAN /\ (open' = <<>> => ~ended')
    /\ vocabulary' = vocabulary

\* Together that is all of Names.
LEMMA NamesFrom ==
    ASSUME Names, NamesNext, Flagged
    PROVE  Names'
  BY DEF Names, NamesNext, Flagged

\* What Names needs to know of the blocks
Around == IsSeq(open) /\ scope \in Nat /\ (open # <<>> => scope > 0)

\* The contexts show it.
LEMMA SteadyAround ==
    ASSUME NEW R, Steady(R)
    PROVE  Around
<1>1. PICK T, ann, H : Compiled(R, T, ann, H)
  BY DEF Steady
<1> QED BY <1>1, Parts DEF Around

\* A block is open in the stack it was put on.
LEMMA OpensBlock ==
    ASSUME NEW s, IsSeq(s), NEW b
    PROVE  Append(s, b) # <<>>
<1>1. Len(Append(s, b)) = Len(s) + 1 /\ Len(s) \in Nat
  BY AppendIsSeq
<1>2. Len(<<>>) = 0
  OBVIOUS
<1> QED BY <1>1, <1>2

\* Where a block begins.
LEMMA BlockFlags ==
    ASSUME Names, Around, NEW what, NEW depth, NEW variables, NEW labels,
           Block(what, depth, variables, labels), label' \in Nat, ended' = ended,
           vocabulary' = vocabulary
    PROVE  Flagged
<1>1. open' # <<>>
  BY OpensBlock DEF Around, Block
<1> QED BY <1>1 DEF Flagged, Names

\* Where a block ends.
LEMMA EndFlags ==
    ASSUME Names, BlockEnd, label' \in Nat
    PROVE  Flagged
  BY DEF Flagged, BlockEnd, Names

\* A block begins with variables.
LEMMA BlockNames ==
    ASSUME Names, NEW what, NEW depth, NEW variables, NEW labels,
           Block(what, depth, variables, labels), DOMAIN variables \subseteq Variables,
           used_vars' \in Seq(Variables), global_vars' \in Seq(Variables)
    PROVE  NamesNext
<1>1. declared' = Over(variables, declared)
  BY DEF Block
<1>2. DOMAIN Over(variables, declared) = DOMAIN variables \cup DOMAIN declared
  BY Scopes
<1> QED BY <1>1, <1>2 DEF NamesNext, Names

\* The variables of a block go when it ends.
LEMMA EndNames ==
    ASSUME Names, BlockEnd, used_vars' \in Seq(Variables), global_vars' \in Seq(Variables)
    PROVE  NamesNext
<1>1. declared' = Within(scope')
  BY DEF BlockEnd
<1>2. PICK d : d = scope'
  OBVIOUS
<1>3. DOMAIN Within(d) \subseteq DOMAIN declared
  BY Scopes
<1> QED BY <1>1, <1>2, <1>3 DEF NamesNext, Names

\* A declaration names a variable.
LEMMA DeclaresNames ==
    ASSUME Names, NEW x \in Variables, NEW kind, Declares(x, kind), ~ended, vocabulary' = vocabulary
    PROVE  NamesNext /\ Flagged
<1>1. used_vars' \in Seq(Variables) /\ global_vars' \in Seq(Variables)
  BY AddName DEF Declares, Names
<1>2. DOMAIN declared' \subseteq Variables
  <2>1. PICK k : declared' = Over(All({x}, k), declared)
    BY DEF Declares
  <2>2. DOMAIN Over(All({x}, k), declared) = DOMAIN All({x}, k) \cup DOMAIN declared
    BY Scopes
  <2>3. DOMAIN All({x}, k) = {x}
    BY Scopes
  <2> QED BY <2>1, <2>2, <2>3 DEF Names
<1>3. Flagged
  BY DEF Declares, Flagged, Names
<1> QED BY <1>1, <1>2, <1>3 DEF NamesNext

\* "if let" names one.
LEMMA TestNames ==
    ASSUME Names, NEW test, test = NoLet \/ test \in Variables, NEW depth \in Nat, depth > 0,
           BR_EXPR(test, depth)
    PROVE  /\ used_vars' \in Seq(Variables) /\ global_vars' \in Seq(Variables)
           /\ DOMAIN Binds(test, depth) \subseteq Variables
<1>1. CASE test = NoLet
  <2>1. DOMAIN Binds(test, depth) = {}
    BY <1>1, Scopes DEF Binds
  <2> QED BY <2>1, <1>1 DEF BR_EXPR, frame_vars, Names
<1>2. CASE test # NoLet
  <2> DEFINE x == Unwrapped(test, depth)
  <2>1. x \in Variables
    BY <1>2, Named DEF Unwrapped
  <2>2. DOMAIN Binds(test, depth) = {x}
    BY <1>2, Scopes DEF Binds
  <2>3. gen_var_name(x)
    BY <1>2 DEF BR_EXPR
  <2> HIDE DEF x
  <2> QED BY <2>1, <2>2, <2>3, AddName DEF Names
<1> QED BY <1>1, <1>2

\* So do the parameters of a function.
LEMMA FunctionNames ==
    ASSUME Names, Around, NEW f \in Function, NEW what, FuncDecl(f, what)
    PROVE  NamesNext /\ Flagged
<1>1. used_vars' = Params(f) /\ UNCHANGED global_vars
  BY DEF FuncDecl
<1>2. Params(f) \in Seq(Variables)
  BY ParamVariables
<1> DEFINE v == All(ToSet(Params(f)), "plain")
           labels == <<Label("skip", label), Label("defvar", label + 1), Label("defvar_back", label + 2)>>
<1>3. Block(what, 2, v, labels)
  BY DEF FuncDecl
<1>4. DOMAIN v \subseteq Variables
  <2>1. DOMAIN v = ToSet(Params(f))
    BY Scopes
  <2>2. ToSet(Params(f)) \subseteq Variables
    BY <1>2 DEF ToSet
  <2> QED BY <2>1, <2>2
<1>5. label' = label + 3 /\ ended' = ended /\ vocabulary' = vocabulary
  BY DEF FuncDecl, Completes, Reads
<1> HIDE DEF v, labels
<1>6. NamesNext
  BY <1>1, <1>2, <1>3, <1>4, BlockNames DEF Names
<1>7. Flagged
  BY <1>3, <1>5, BlockFlags DEF Names
<1> QED BY <1>6, <1>7

\* The statements that are neither blocks nor declarations
LEMMA PlainNames ==
    ASSUME Names, NEW R, Steady(R),
           \/ \E f \in Function : Call(f)
           \/ \E x \in DOMAIN declared : Write(x)
           \/ Return \/ Break \/ Continue
    PROVE  NamesNext /\ Flagged
<1>1. ASSUME NEW f \in Function, Call(f)
      PROVE  NamesNext /\ Flagged
  BY <1>1 DEF Call, Reads, Completes, frame_vars, context, NamesNext, Flagged, Names
<1>2. ASSUME NEW x \in DOMAIN declared, Write(x)
      PROVE  NamesNext /\ Flagged
  <2>1. x \in Variables /\ gen_var_name(x) /\ UNCHANGED <<label, open, declared, ended, vocabulary>>
    BY <1>2 DEF Names, Write, Reads, Completes, context
  <2>2. used_vars' \in Seq(Variables) /\ global_vars' \in Seq(Variables)
    BY <2>1, AddName DEF Names
  <2> QED BY <2>1, <2>2 DEF NamesNext, Flagged, Names
<1>3. CASE Return
  <2>1. open # <<>> /\ UNCHANGED <<label, frame_vars, open, declared, vocabulary>> /\ ended' = TRUE
    BY <1>3 DEF Return, Completes, InFunction
  <2> QED BY <2>1 DEF NamesNext, Flagged, Names, frame_vars
<1>4. InLoop => open # <<>>
  BY DEF InLoop
<1>5. CASE Break
  <2>1. open # <<>> /\ UNCHANGED <<label, frame_vars, context, vocabulary>> /\ ended' = TRUE
    BY <1>4, <1>5 DEF Break, Reads, Completes
  <2> QED BY <2>1 DEF NamesNext, Flagged, Names, frame_vars, context
<1>6. CASE Continue
  <2>1. open # <<>> /\ UNCHANGED <<label, frame_vars, context, vocabulary>> /\ ended' = TRUE
    BY <1>4, <1>6 DEF Continue, Reads, Completes
  <2> QED BY <2>1 DEF NamesNext, Flagged, Names, frame_vars, context
<1> QED BY <1>1, <1>2, <1>3, <1>5, <1>6

\* The ends of blocks
LEMMA EndsNames ==
    ASSUME Names, NEW R, Steady(R),
           \/ \E what \in {"func", "value_func"} : FuncEnd(what)
           \/ IfEnd \/ ElseEnd \/ WhileEnd \/ ForEnd
    PROVE  NamesNext /\ Flagged
<1>1. ASSUME NEW what \in {"func", "value_func"}, FuncEnd(what)
      PROVE  NamesNext /\ Flagged
  <2>1. PICK T, ann, H : Compiled(R, T, ann, H)
    BY DEF Steady
  <2>2. open # <<>> /\ IsFunction(Last(open))
    BY <1>1 DEF FuncEnd, Closes, IsFunction
  <2>3. Last(array_stack) \in Seq(Variables)
    BY <2>1, <2>2, UnderFunc
  <2>4. used_vars' \in Seq(Variables) /\ global_vars' \in Seq(Variables) /\ BlockEnd /\ label' \in Nat
    BY <1>1, <2>3 DEF FuncEnd, DefinedVars, Names
  <2> QED BY <2>4, EndNames, EndFlags
<1>2. CASE IfEnd \/ ElseEnd \/ WhileEnd \/ ForEnd
  <2>1. BlockEnd /\ UNCHANGED frame_vars /\ label' = label
    BY <1>2 DEF IfEnd, ElseEnd, WhileEnd, ForEnd
  <2>2. used_vars' \in Seq(Variables) /\ global_vars' \in Seq(Variables) /\ label' \in Nat
    BY <2>1 DEF frame_vars, Names
  <2> QED BY <2>1, <2>2, EndNames, EndFlags
<1> QED BY <1>1, <1>2

\* The beginnings of branches and loops
LEMMA BlocksNames ==
    ASSUME Names, Around,
           \/ \E test \in Tests(DOMAIN declared) : If(test)
           \/ While
           \/ \E range \in Ranges : For(range)
    PROVE  NamesNext /\ Flagged
<1>1. ASSUME NEW test \in Tests(DOMAIN declared), If(test)
      PROVE  NamesNext /\ Flagged
  <2> DEFINE n == scope + 1
  <2>1. test = NoLet \/ test \in Variables
    BY TestVariables DEF Names
  <2>2. n \in Nat /\ n > 0
    BY DEF Around
  <2>3. BR_EXPR(test, n) /\ Block("if", 1, Binds(test, n), <<>>) /\ label' \in Nat
        /\ ended' = ended /\ vocabulary' = vocabulary
    BY <1>1 DEF If, Reads, Completes, Names
  <2> HIDE DEF n
  <2>4. /\ used_vars' \in Seq(Variables) /\ global_vars' \in Seq(Variables)
        /\ DOMAIN Binds(test, n) \subseteq Variables
    BY <2>1, <2>2, <2>3, TestNames
  <2> DEFINE v == Binds(test, n)
  <2> HIDE DEF v
  <2> QED BY <2>3, <2>4, BlockNames, BlockFlags DEF v
<1>2. CASE While
  <2>1. /\ Block("while", 1, None, <<>>) /\ UNCHANGED frame_vars /\ label' \in Nat
        /\ ended' = ended /\ vocabulary' = vocabulary
    BY <1>2 DEF While, Reads, Completes, LoopStart, Names
  <2>2. used_vars' \in Seq(Variables) /\ global_vars' \in Seq(Variables) /\ DOMAIN None \subseteq Variables
    BY <2>1, Scopes DEF frame_vars, Names
  <2> QED BY <2>1, <2>2, BlockNames, BlockFlags
<1>3. ASSUME NEW range \in Ranges, For(range)
      PROVE  NamesNext /\ Flagged
  <2> DEFINE x == <<"i", scope + 1>>
             v == All({<<n, scope + 1>> : n \in range.names}, "plain")
  <2>0. /\ Block("for", 2, v, <<range, Len(code) + Len(HeadOf(range)) + 1>>) /\ label' = label + 2
        /\ ended' = ended /\ vocabulary' = vocabulary
        /\ IF range.names = {} THEN UNCHANGED frame_vars ELSE gen_var_name(x)
    BY <1>3 DEF For, Reads, Completes, LoopStart, HeadOf
  <2>1. PICK labels : /\ Block("for", 2, v, labels) /\ label' \in Nat
                      /\ ended' = ended /\ vocabulary' = vocabulary
                      /\ IF range.names = {} THEN UNCHANGED frame_vars ELSE gen_var_name(x)
    <3>1. label' \in Nat
      BY <2>0 DEF Names
    <3> HIDE DEF v, x
    <3> QED BY <2>0, <3>1
  <2>2. x \in Variables
    <3>1. scope + 1 \in Nat
      BY DEF Around
    <3> QED BY <3>1, Named
  <2>3. DOMAIN v \subseteq Variables
    <3>1. range.names \in {{}, {"i"}}
      BY RangeFacts
    <3>2. \A n \in range.names : <<n, scope + 1>> \in Variables
      BY <2>2, <3>1
    <3>3. DOMAIN v = {<<n, scope + 1>> : n \in range.names}
      BY Scopes
    <3> QED BY <3>2, <3>3
  <2> HIDE DEF x, v
  <2>4. used_vars' \in Seq(Variables) /\ global_vars' \in Seq(Variables)
    BY <2>1, <2>2, AddName DEF frame_vars, Names
  <2> QED BY <2>1, <2>3, <2>4, BlockNames, BlockFlags
<1> QED BY <1>1, <1>2, <1>3

\* What stands between two branches
LEMMA ElsesNames ==
    ASSUME Names, Around,
           \/ Else \/ \E test \in Tests(DOMAIN Within(scope - 1)) : ElseIf(test)
    PROVE  NamesNext /\ Flagged
<1>1. PICK d : d = scope - 1
  OBVIOUS
<1>2. DOMAIN Within(d) \subseteq Variables
  BY Scopes DEF Names
<1>3. CASE Else
  <2>1. /\ UNCHANGED <<label, frame_vars, vocabulary>> /\ ended' = FALSE /\ declared' = Within(d)
    BY <1>1, <1>3 DEF Else
  <2> QED BY <1>2, <2>1 DEF frame_vars, NamesNext, Flagged, Names
<1>4. ASSUME NEW test \in Tests(DOMAIN Within(d)), ElseIf(test)
      PROVE  NamesNext /\ Flagged
  <2>1. test = NoLet \/ test \in Variables
    BY <1>2, TestVariables
  <2>2. scope \in Nat /\ scope > 0
    BY <1>4 DEF ElseIf, Closes, Around
  <2>3. /\ BR_EXPR(test, scope) /\ label' = label + 1 /\ ended' = FALSE /\ UNCHANGED vocabulary
        /\ declared' = Over(Binds(test, scope), Within(d))
    BY <1>1, <1>4 DEF ElseIf
  <2>4. /\ used_vars' \in Seq(Variables) /\ global_vars' \in Seq(Variables)
        /\ DOMAIN Binds(test, scope) \subseteq Variables
    BY <2>1, <2>2, <2>3, TestNames
  <2> DEFINE v == Binds(test, scope)
             w == Within(d)
  <2>5. DOMAIN v \subseteq Variables /\ DOMAIN w \subseteq Variables /\ declared' = Over(v, w)
    BY <1>2, <2>3, <2>4
  <2> HIDE DEF v, w
  <2>6. DOMAIN Over(v, w) = DOMAIN v \cup DOMAIN w
    BY Scopes
  <2>7. DOMAIN declared' \subseteq Variables
    BY <2>5, <2>6
  <2>8. label' \in Nat
    BY <2>3 DEF Names
  <2> QED BY <2>3, <2>4, <2>7, <2>8 DEF NamesNext, Flagged
<1> QED BY <1>1, <1>3, <1>4

\* Every statement keeps Names.
LEMMA StatementNames ==
    ASSUME Names, NEW R, Steady(R), Statements
    PROVE  Names'
<1>1. Around
  BY SteadyAround
<1>2. <<"x", scope>> \in Variables
  BY <1>1, Named DEF Around
<1>3. \/ \E f \in Function, what \in {"func", "value_func"} : FuncDecl(f, what)
      \/ \/ \E f \in Function : Call(f)
         \/ \E x \in DOMAIN declared : Write(x)
         \/ Return \/ Break \/ Continue
      \/ \/ \E what \in {"func", "value_func"} : FuncEnd(what)
         \/ IfEnd \/ ElseEnd \/ WhileEnd \/ ForEnd
      \/ \/ \E test \in Tests(DOMAIN declared) : If(test)
         \/ While
         \/ \E range \in Ranges : For(range)
      \/ Else \/ \E test \in Tests(DOMAIN Within(scope - 1)) : ElseIf(test)
      \/ Declare(<<"x", scope>>)
      \/ DeclareNillable(<<"x", scope>>)
  BY DEF Statements
<1>4. CASE Declare(<<"x", scope>>)
  <2>1. Declares(<<"x", scope>>, "plain") /\ ~ended /\ vocabulary' = vocabulary
    BY <1>4 DEF Declare, Reads, Completes
  <2> QED BY <1>2, <2>1, DeclaresNames, NamesFrom
<1>5. CASE DeclareNillable(<<"x", scope>>)
  <2>1. Declares(<<"x", scope>>, "nillable") /\ ~ended /\ vocabulary' = vocabulary
    BY <1>5 DEF DeclareNillable, Reads, Completes
  <2> QED BY <1>2, <2>1, DeclaresNames, NamesFrom
<1>6. CASE \E f \in Function, what \in {"func", "value_func"} : FuncDecl(f, what)
  BY <1>1, <1>6, FunctionNames, NamesFrom
<1>7. CASE \/ \E f \in Function : Call(f)
           \/ \E x \in DOMAIN declared : Write(x)
           \/ Return \/ Break \/ Continue
  BY <1>7, PlainNames, NamesFrom
<1>8. CASE \/ \E what \in {"func", "value_func"} : FuncEnd(what)
           \/ IfEnd \/ ElseEnd \/ WhileEnd \/ ForEnd
  BY <1>8, EndsNames, NamesFrom
<1>9. CASE \/ \E test \in Tests(DOMAIN declared) : If(test)
           \/ While
           \/ \E range \in Ranges : For(range)
  BY <1>1, <1>9, BlocksNames, NamesFrom
<1>10. CASE Else \/ \E test \in Tests(DOMAIN Within(scope - 1)) : ElseIf(test)
  BY <1>1, <1>10, ElsesNames, NamesFrom
<1> QED BY <1>3, <1>4, <1>5, <1>6, <1>7, <1>8, <1>9, <1>10

\* Every statement keeps the code of whatever range is around it.
THEOREM StatementSteady ==
    ASSUME Names, NEW R \in Int \X Int, Steady(R), Statements
    PROVE  Steady(R)'
<1>1. Around
  BY SteadyAround
<1>2. <<"x", scope>> \in Variables
  BY <1>1, Named DEF Around
<1>3. CASE \E f \in Function, what \in {"func", "value_func"} : FuncDecl(f, what)
  BY <1>3, FuncDeclSteady
<1>4. CASE \E f \in Function : Call(f)
  BY <1>4, CallSteady
<1>5. CASE \E what \in {"func", "value_func"} : FuncEnd(what)
  BY <1>5, FuncEndSteady
<1>6. CASE Return
  BY <1>6, ReturnSteady
<1>7. CASE Declare(<<"x", scope>>)
  BY <1>2, <1>7, DeclareSteady
<1>8. CASE DeclareNillable(<<"x", scope>>)
  BY <1>2, <1>8, DeclareNillableSteady
<1>9. CASE \E x \in DOMAIN declared : Write(x)
  BY <1>9, WriteSteady DEF Names
<1>10. CASE \E test \in Tests(DOMAIN declared) : If(test)
  BY <1>10, IfSteady
<1>11. CASE \E test \in Tests(DOMAIN Within(scope - 1)) : ElseIf(test)
  <2>1. PICK d : d = scope - 1
    OBVIOUS
  <2>2. PICK test \in Tests(DOMAIN Within(d)) : ElseIf(test)
    BY <1>11, <2>1
  <2>3. DOMAIN Within(d) \subseteq Variables
    BY Scopes DEF Names
  <2>4. test = NoLet \/ test \in Variables
    BY <2>3, TestVariables
  <2> QED BY <2>2, <2>4, ElseIfSteady
<1>12. CASE IfEnd
  BY <1>12, IfEndSteady
<1>13. CASE Else
  BY <1>13, ElseSteady
<1>14. CASE ElseEnd
  BY <1>14, ElseEndSteady
<1>15. CASE While
  BY <1>15, WhileSteady
<1>16. CASE WhileEnd
  BY <1>16, WhileEndSteady
<1>17. CASE \E range \in Ranges : For(range)
  BY <1>17, ForSteady
<1>18. CASE ForEnd
  BY <1>18, ForEndSteady
<1>19. CASE Break
  BY <1>19, BreakSteady
<1>20. CASE Continue
  BY <1>20, ContinueSteady
<1> QED BY <1>3, <1>4, <1>5, <1>6, <1>7, <1>8, <1>9, <1>10, <1>11, <1>12, <1>13, <1>14, <1>15,
           <1>16, <1>17, <1>18, <1>19, <1>20 DEF Statements

\* The whole program, for a range around it
Whole(R, T, ann) ==
    /\ Code(code, label, loops, {}, R, T, ann)
    /\ ann[Len(code) + 1] = Outside(R, 0, 0)

\* The program is right, for the range R.
Program(R) == \E T, ann : Whole(R, T, ann)

\* The end of the file makes a whole program.
LEMMA FileEndProgram ==
    ASSUME Names, NEW R \in Int \X Int, Steady(R), FileEnd
    PROVE  Program(R)'
<1>1. PICK T, ann, H : Compiled(R, T, ann, H)
  BY DEF Steady
<1>2. PICK h, s : h = H[Len(open) + 1] /\ s = Label("main_def_skip", label)
  OBVIOUS
<1> DEFINE d == <<<<"POPFRAME">>, <<"JUMP", s>>, <<"LABEL", Label("main_defvar", 0)>>>>
                    \o Defvars(used_vars) \o Defvars(global_vars)
                    \o <<<<"JUMP", Label("main_defvar_back", 1)>>, <<"LABEL", s>>>>
<1>3. open = <<>> /\ code' = code \o d /\ label' = label + 1 /\ loops' = loops /\ ~ended
  BY <1>2 DEF FileEnd, gen_line, Names
<1>4. /\ Sound(h, T, R) /\ Here(h) /\ Labels(T, label, R) /\ ann[Len(code) + 1] = h.point
      /\ Code(code, label, loops, h.loops, R, T, ann) /\ Owns(OwnPoint(h.point), h.loops)
  BY <1>1, <1>2, <1>3, Parts
<1>5. h.point = Inside(R, 0) /\ h.loops = {}
  BY <1>3, <1>4, SoundMain DEF Here
<1>6. Outside(R, 0, 0) \in Point
  BY PlainPoints
<1>7. PICK U : Labels(U, label + 1, R) /\ Extends(T, U) /\ Is(s, Outside(R, 0, 0), U)
  BY <1>2, <1>4, <1>6, NewLabel DEF Names
<1>8. Chunk(d, Inside(R, 0), Outside(R, 0, 0), U, OwnPoint(Inside(R, 0)))
  <2>1. Is(Label("main_defvar", 0), Inside(R, 0), U) /\ Is(Label("main_defvar_back", 1), Inside(R, 0), U)
    BY <1>7 DEF Labels, Fixed, Is
  <2> DEFINE j == Label("main_defvar", 0)
             k == Label("main_defvar_back", 1)
             o == OwnPoint(Inside(R, 0))
             xs == used_vars
             ys == global_vars
  <2>2. Is(j, Inside(R, 0), U) /\ Is(k, Inside(R, 0), U) /\ Keeps(R, o) /\ xs \in Seq(Variables)
        /\ ys \in Seq(Variables)
    BY <2>1, OwnKeeps DEF Names
  <2> HIDE DEF j, k, o, xs, ys
  <2>3. Chunk(<<<<"POPFRAME">>, <<"JUMP", s>>, <<"LABEL", j>>>>
                 \o Defvars(xs) \o Defvars(ys)
                 \o <<<<"JUMP", k>>, <<"LABEL", s>>>>, Inside(R, 0), Outside(R, 0, 0), U, o)
    BY <2>2, <1>7, ChunkFileEnd
  <2> QED BY <2>3 DEF j, k, o, xs, ys
<1> HIDE DEF d
<1>9. Chunk(d, ann[Len(code) + 1], Outside(R, 0, 0), U, OwnPoint(h.point))
  BY <1>4, <1>5, <1>8
<1>10. Grown(code \o d, label + 1, loops, {}, R, U, Outside(R, 0, 0))
  BY <1>4, <1>5, <1>7, <1>9, Grow
<1>11. PICK n : /\ Code(code \o d, label + 1, loops, {}, R, U, n)
                /\ n[Len(code \o d) + 1] = Outside(R, 0, 0)
  BY <1>10 DEF Grown
<1>12. Whole(R, U, n)'
  BY <1>3, <1>11 DEF Whole
<1> QED BY <1>12 DEF Program
=============================================================================
