----------------------------- MODULE CodeProofs -----------------------------
(***************************************************************************)
(* Facts about the code that codegen.c writes, one piece at a time: where  *)
(* each piece leads from what it finds.                                    *)
(*                                                                         *)
(* The programs use one data stack, one stack of frames and two registers  *)
(* that all for loops share. What is known of them at an instruction is a  *)
(* point: how many values are on the data stack and in which sets they     *)
(* are, whether there is a frame, and in which sets the registers are. All *)
(* of it is relative to what the activation found that the instruction     *)
(* belongs to, a call or the main program. Flow says of an instruction     *)
(* that it is right at a point, and where it leads; labels are at fixed    *)
(* points, so a jump is right where its label's point holds, wherever the  *)
(* label is. Code is right if its instructions can be annotated with       *)
(* points like that, as a bytecode verifier does; what the program does    *)
(* when it runs then follows instruction by instruction, whatever its      *)
(* loops and calls.                                                        *)
(*                                                                         *)
(* The registers make it a matter of a range R around the program: a       *)
(* function may be called from any loop, and must leave the registers in   *)
(* any R as it found them. So what is shown of code is shown for every R,  *)
(* the programs' own loops being annotated with theirs.                    *)
(***************************************************************************)
EXTENDS Codegen, TLAPS

\* What is known where an instruction is, relative to what the activation it belongs
\* to found: whether that is a call (level 1) or the main program (level 0), whether it
\* has a frame, the sets its values on the data stack are in, and those the counter and
\* the limit of the for loops are in.
Point == [level : {0, 1}, frame : {0, 1}, data : Seq(SUBSET Int),
          counter : SUBSET Int, max : SUBSET Int]

\* The point with these fields.
At(level, frame, data, counter, max) ==
    [level |-> level, frame |-> frame, data |-> data, counter |-> counter, max |-> max]

\* Behind a jump: nothing gets here.
Never == At(0, 0, <<>>, {}, {})

\* Any n integers.
Ints(n) == [i \in 1 .. n |-> Int]

\* Before its frame is pushed and after it is popped, an activation for the range R has n
\* values on the data stack; the registers hold R.
Outside(R, level, n) == At(level, 0, Ints(n), {R[1]}, {R[2]})

\* Outside of the for loops an activation has a frame and nothing on the data stack.
Inside(R, level) == At(level, 1, <<>>, {R[1]}, {R[2]})

\* Whatever is so at a is so at b: a jump from a may arrive at b.
Sub(a, b) ==
    \/ a.counter = {}
    \/ /\ a.level = b.level /\ a.frame = b.frame
       /\ Len(a.data) = Len(b.data)
       /\ \A i \in 1 .. Len(a.data) : a.data[i] \subseteq b.data[i]
       /\ a.counter \subseteq b.counter /\ a.max \subseteq b.max

-----------------------------------------------------------------------------
\* What may be read; a constant is an integer.
Source(x) == x[1] = "int" => x[2] \in Int

\* A variable of LF is written only where there is a frame.
Writable(x, a) == x[2] = 0 \/ a.frame = 1

\* The registers that all for loops share (codegen.c:24-31).
Ranged == {for_counter_reg, for_max_val}

\* What x may be where a is.
Val(x, a) ==
    IF x = for_counter_reg THEN a.counter
    ELSE IF x = for_max_val THEN a.max
    ELSE IF x[1] = "int" THEN {x[2]} ELSE Int

\* A value of v is pushed.
Push(a, v) == At(a.level, a.frame, Append(a.data, v), a.counter, a.max)

\* n values are popped.
Drop(a, n) == At(a.level, a.frame, SubSeq(a.data, 1, Len(a.data) - n), a.counter, a.max)

\* What the value n from the top may be.
Item(a, n) == a.data[Len(a.data) + 1 - n]

\* There are n frames of the activation's own.
Framed(a, n) == At(a.level, n, a.data, a.counter, a.max)

\* The counter is in c.
Counting(a, c) == At(a.level, a.frame, a.data, c, a.max)

\* The limit is in m.
Limited(a, m) == At(a.level, a.frame, a.data, a.counter, m)

\* x becomes one of v.
Store(a, x, v) ==
    IF x = for_counter_reg THEN Counting(a, v)
    ELSE IF x = for_max_val THEN Limited(a, v) ELSE a

\* The counter is one more.
Added(a) == Counting(a, {c + 1 : c \in a.counter})

\* The sums of what is in v and what is in w.
Sums(v, w) == {p[1] + p[2] : p \in v \X w}

\* JUMPIFEQ of the counter and the limit did not jump.
Unlike(a, x, y) ==
    IF x = for_counter_reg /\ y = for_max_val
    THEN Counting(a, {c \in a.counter : a.max # {c}}) ELSE a

\* Where RETURN goes, as if it were a label.
Back == <<"return", -2>>

\* The label l is there, and what is so at a is so there; T gives each label its point.
Goes(l, a, T) == l \in DOMAIN T /\ Sub(a, T[l])

\* The functions of the program and the one of the library are called.
Callable(l) == l = Entry("write") \/ \E f \in Function : l = Entry(f)

\* How many arguments a call takes from the data stack.
Taken(l) == IF l = Entry("write") THEN 1 ELSE Arity(l[1])

\* The instruction x is right at the point a, in a program whose labels are at the points of
\* T, and leads to b.  Behind a jump b may be any point.
Flow(x, a, b, T) ==
    \/ x[1] = "PUSHS" /\ Source(x[2]) /\ b = Push(a, Val(x[2], a))
    \/ /\ x[1] = "POPS" /\ Len(a.data) > 0 /\ Writable(x[2], a)
       /\ b = Store(Drop(a, 1), x[2], Item(a, 1))
    \/ /\ x[1] = "ADDS" /\ Len(a.data) > 1
       /\ b = Push(Drop(a, 2), Sums(Item(a, 1), Item(a, 2)))
    \/ x[1] = "ADD" /\ x[2] = for_counter_reg /\ b = Added(a)
    \/ /\ x[1] = "MOVE" /\ x[2] \notin Ranged /\ Writable(x[2], a) /\ Source(x[3])
       /\ b = a
    \/ x[1] = "DEFVAR" /\ x[2] \notin Ranged /\ Writable(x[2], a) /\ b = a
    \/ x[1] = "CREATEFRAME" /\ b = a
    \/ x[1] = "PUSHFRAME" /\ a.frame = 0 /\ b = Framed(a, 1)
    \/ x[1] = "POPFRAME" /\ a.frame = 1 /\ b = Framed(a, 0)
    \/ x[1] = "LABEL" /\ Goes(x[2], a, T) /\ b = T[x[2]]
    \/ x[1] = "JUMP" /\ Goes(x[2], a, T)
    \/ x[1] = "JUMPIFEQ" /\ Goes(x[2], a, T) /\ b = Unlike(a, x[3], x[4])
    \/ /\ x[1] = "JUMPIFNEQS" /\ Len(a.data) > 1 /\ Goes(x[2], Drop(a, 2), T)
       /\ b = Drop(a, 2)
    \/ /\ x[1] = "CALL" /\ Callable(x[2]) /\ Len(a.data) >= Taken(x[2])
       /\ b = Drop(a, Taken(x[2]))
    \/ x[1] = "RETURN" /\ Goes(Back, a, T)

\* A label is reached from everywhere.
Arrival(x, a, T) == IF x[1] = "LABEL" THEN T[x[2]] ELSE a

\* The registers are in o.
InRange(p, o) == p.counter \subseteq o[1] /\ p.max \subseteq o[2]

\* s is a sequence, of whatever it holds.
IsSeq(s) == s \in Seq({s[i] : i \in DOMAIN s})

\* n gives each instruction of d a point, and one to the end.
Typed(d, n, T) ==
    /\ IsSeq(d)
    /\ n \in [1 .. Len(d) + 1 -> Point]
    /\ \A i \in 1 .. Len(d) : Flow(d[i], n[i], n[i + 1], T)

\* The piece d of code leads from a to b, and the registers are in o all along.
Chunk(d, a, b, T, o) ==
    \E n :
       /\ Typed(d, n, T) /\ n[1] = a /\ n[Len(d) + 1] = b
       /\ \A i \in 1 .. Len(d) : InRange(Arrival(d[i], n[i], T), o)

\* U has the labels of T and more.
Extends(T, U) == DOMAIN T \subseteq DOMAIN U /\ \A l \in DOMAIN T : U[l] = T[l]
-----------------------------------------------------------------------------
\* The fields of a point, and where they are from.
LEMMA AtFields ==
    ASSUME NEW l, NEW f, NEW d, NEW c, NEW m
    PROVE  /\ At(l, f, d, c, m).level = l /\ At(l, f, d, c, m).frame = f
           /\ At(l, f, d, c, m).data = d /\ At(l, f, d, c, m).counter = c
           /\ At(l, f, d, c, m).max = m
  BY DEF At

\* At makes a point of fields that are right.
LEMMA AtPoint ==
    ASSUME NEW l \in {0, 1}, NEW f \in {0, 1}, NEW d \in Seq(SUBSET Int),
           NEW c \in SUBSET Int, NEW m \in SUBSET Int
    PROVE  At(l, f, d, c, m) \in Point
  BY DEF At, Point

\* What the fields of a point are, and that they make it up.
LEMMA PointFields ==
    ASSUME NEW a \in Point
    PROVE  /\ a.level \in {0, 1} /\ a.frame \in {0, 1} /\ a.data \in Seq(SUBSET Int)
           /\ a.counter \in SUBSET Int /\ a.max \in SUBSET Int
           /\ a = At(a.level, a.frame, a.data, a.counter, a.max)
  BY DEF At, Point

\* What nothing gets to goes on anywhere.
LEMMA NeverPoint == Never \in Point /\ \A b : Sub(Never, b)
<1>1. <<>> \in Seq(SUBSET Int)
  OBVIOUS
<1>2. Never \in Point
  BY <1>1, AtPoint DEF Never
<1>3. Never.counter = {}
  BY AtFields DEF Never
<1> QED BY <1>2, <1>3 DEF Sub

\* A point goes on at itself.
LEMMA SubRefl ==
    ASSUME NEW a \in Point
    PROVE  Sub(a, a)
  BY PointFields DEF Sub

\* Two pieces of code put together, instruction by instruction.
LEMMA ConcatSeq ==
    ASSUME NEW c, NEW d, IsSeq(c), IsSeq(d)
    PROVE  /\ IsSeq(c \o d) /\ Len(c \o d) = Len(c) + Len(d)
           /\ Len(c) \in Nat /\ Len(d) \in Nat
           /\ \A i \in 1 .. Len(c) : (c \o d)[i] = c[i]
           /\ \A i \in 1 .. Len(d) : (c \o d)[Len(c) + i] = d[i]
<1> DEFINE C == {c[i] : i \in DOMAIN c}
           D == {d[i] : i \in DOMAIN d}
           S == C \cup D
           e == c \o d
           E == {e[i] : i \in DOMAIN e}
<1>1. c \in Seq(C) /\ d \in Seq(D)
  BY DEF IsSeq
<1>2. c \in Seq(S) /\ d \in Seq(S)
  <2> HIDE DEF C, D
  <2> QED BY <1>1
<1> HIDE DEF C, D, S
<1>3. /\ e \in Seq(S) /\ Len(e) = Len(c) + Len(d)
      /\ Len(c) \in Nat /\ Len(d) \in Nat
      /\ \A i \in 1 .. Len(c) : e[i] = c[i]
  BY <1>2
<1>4. \A i \in 1 .. Len(d) : e[Len(c) + i] = d[i]
  <2> TAKE i \in 1 .. Len(d)
  <2>1. Len(c) + i \in 1 .. Len(c) + Len(d) /\ Len(c) + i > Len(c)
    BY <1>3
  <2> QED BY <2>1, <1>2, <1>3
<1> HIDE DEF e
<1>5. e \in Seq(E)
  <2>1. e \in [1 .. Len(e) -> S]
    BY <1>3
  <2>2. e \in [1 .. Len(e) -> E]
    BY <2>1
  <2> QED BY <2>2, <1>3
<1> QED BY <1>3, <1>4, <1>5 DEF IsSeq, e

\* The first n elements of a sequence.
LEMMA SliceSeq ==
    ASSUME NEW S, NEW s \in Seq(S), NEW n \in Nat, n <= Len(s)
    PROVE  /\ SubSeq(s, 1, n) \in Seq(S) /\ Len(SubSeq(s, 1, n)) = n
           /\ \A i \in 1 .. n : SubSeq(s, 1, n)[i] = s[i]
<1>1. SubSeq(s, 1, n) \in Seq(S)
  OBVIOUS
<1>2. Len(SubSeq(s, 1, n)) = n
  OBVIOUS
<1>3. \A i \in 1 .. n : SubSeq(s, 1, n)[i] = s[i]
  OBVIOUS
<1> QED BY <1>1, <1>2, <1>3

\* A sequence with one more element.
LEMMA AppendSeq ==
    ASSUME NEW S, NEW s \in Seq(S), NEW x \in S
    PROVE  /\ Append(s, x) \in Seq(S) /\ Len(Append(s, x)) = Len(s) + 1 /\ Len(s) \in Nat
           /\ \A i \in 1 .. Len(s) : Append(s, x)[i] = s[i]
           /\ Append(s, x)[Len(s) + 1] = x
<1>1. Append(s, x) \in Seq(S) /\ Len(Append(s, x)) = Len(s) + 1 /\ Len(s) \in Nat
  OBVIOUS
<1>2. \A i \in 1 .. Len(s) : Append(s, x)[i] = s[i]
  OBVIOUS
<1>3. Append(s, x)[Len(s) + 1] = x
  OBVIOUS
<1> QED BY <1>1, <1>2, <1>3

\* A sequence without its last element.
LEMMA FrontSeq ==
    ASSUME NEW S, NEW s \in Seq(S), s # <<>>
    PROVE  /\ Len(s) \in Nat /\ Len(s) > 0
           /\ Front(s) \in Seq(S) /\ Len(Front(s)) = Len(s) - 1
           /\ \A i \in 1 .. Len(s) - 1 : Front(s)[i] = s[i]
<1>1. Len(s) \in Nat /\ Len(s) > 0
  OBVIOUS
<1> DEFINE n == Len(s) - 1
<1>2. n \in Nat /\ n <= Len(s)
  BY <1>1
<1>3. Front(s) = SubSeq(s, 1, n)
  BY DEF Front
<1> HIDE DEF n
<1>4. Front(s) \in Seq(S) /\ Len(Front(s)) = n /\ \A i \in 1 .. n : Front(s)[i] = s[i]
  BY <1>2, <1>3, SliceSeq
<1> QED BY <1>1, <1>4 DEF n

\* A sequence of one.
LEMMA SingleSeq ==
    ASSUME NEW x
    PROVE  IsSeq(<<x>>) /\ Len(<<x>>) = 1 /\ <<x>>[1] = x
  BY DEF IsSeq

\* One instruction is a piece of code if it is right where it is.
LEMMA ChunkOne ==
    ASSUME NEW x, NEW a \in Point, NEW b \in Point, NEW T, NEW o,
           Flow(x, a, b, T), InRange(Arrival(x, a, T), o)
    PROVE  Chunk(<<x>>, a, b, T, o)
<1> DEFINE n == [i \in 1 .. 2 |-> IF i = 1 THEN a ELSE b]
<1>1. n \in [1 .. 2 -> Point] /\ n[1] = a /\ n[2] = b
  OBVIOUS
<1> HIDE DEF n
<1>2. Typed(<<x>>, n, T)
  BY <1>1, SingleSeq DEF Typed
<1> QED BY <1>1, <1>2, SingleSeq DEF Chunk

\* No code leads from a point to itself.
LEMMA ChunkEmpty ==
    ASSUME NEW a \in Point, NEW T, NEW o
    PROVE  Chunk(<<>>, a, a, T, o)
<1> DEFINE n == [i \in 1 .. 1 |-> a]
<1>1. IsSeq(<<>>) /\ Len(<<>>) = 0
  BY DEF IsSeq
<1>2. n \in [1 .. 1 -> Point] /\ n[1] = a
  OBVIOUS
<1> HIDE DEF n
<1> QED BY <1>1, <1>2 DEF Chunk, Typed

\* A piece of code is a sequence, from a point to a point.
LEMMA ChunkSeq ==
    ASSUME NEW d, NEW a, NEW b, NEW T, NEW o, Chunk(d, a, b, T, o)
    PROVE  IsSeq(d) /\ Len(d) \in Nat /\ a \in Point /\ b \in Point
  BY DEF Chunk, Typed, IsSeq

\* Where one piece ends as another begins they are annotated as one.
LEMMA JoinTyped ==
    ASSUME NEW d, NEW e, NEW n, NEW m, NEW T,
           Typed(d, n, T), Typed(e, m, T), n[Len(d) + 1] = m[1]
    PROVE  \E k : /\ Typed(d \o e, k, T)
                  /\ \A i \in 1 .. Len(d) + 1 : k[i] = n[i]
                  /\ \A i \in 1 .. Len(e) + 1 : k[Len(d) + i] = m[i]
<1>3. IsSeq(d) /\ IsSeq(e)
  BY DEF Typed
<1> DEFINE f == d \o e
           D == Len(d)
           E == Len(e)
           k == [i \in 1 .. D + E + 1 |-> IF i \in 1 .. D + 1 THEN n[i] ELSE m[i - D]]
<1>4. /\ IsSeq(f) /\ Len(f) = D + E /\ D \in Nat /\ E \in Nat
      /\ \A i \in 1 .. D : f[i] = d[i]
      /\ \A i \in 1 .. E : f[D + i] = e[i]
  BY <1>3, ConcatSeq
<1>5. /\ n \in [1 .. D + 1 -> Point] /\ m \in [1 .. E + 1 -> Point]
      /\ \A i \in 1 .. D : Flow(d[i], n[i], n[i + 1], T)
      /\ \A i \in 1 .. E : Flow(e[i], m[i], m[i + 1], T)
      /\ n[D + 1] = m[1]
  BY DEF Typed
<1> HIDE DEF f, D, E
<1>6. k \in [1 .. D + E + 1 -> Point]
  BY <1>4, <1>5
<1>7. \A i \in 1 .. D + 1 : k[i] = n[i]
  BY <1>4
<1>8. \A i \in 1 .. E + 1 : k[D + i] = m[i]
  <2> TAKE i \in 1 .. E + 1
  <2>1. CASE i = 1
    <3>1. D + i \in 1 .. D + 1 /\ D + i = D + 1
      BY <2>1, <1>4
    <3> QED BY <3>1, <2>1, <1>5, <1>7
  <2>2. CASE i # 1
    BY <2>2, <1>4
  <2> QED BY <2>1, <2>2
<1> HIDE DEF k
<1>9. ASSUME NEW i \in 1 .. D + E
      PROVE  Flow(f[i], k[i], k[i + 1], T)
  <2>1. CASE i \in 1 .. D
    <3>1. i \in 1 .. D + 1 /\ i + 1 \in 1 .. D + 1
      BY <2>1, <1>4
    <3> QED BY <3>1, <2>1, <1>4, <1>5, <1>7
  <2>2. CASE i \notin 1 .. D
    <3> DEFINE j == i - D
    <3>1. j \in 1 .. E /\ j \in 1 .. E + 1 /\ j + 1 \in 1 .. E + 1 /\ i = D + j /\ i + 1 = D + (j + 1)
      BY <2>2, <1>4
    <3> HIDE DEF j
    <3>2. f[i] = e[j] /\ k[i] = m[j] /\ k[i + 1] = m[j + 1]
      BY <3>1, <1>4, <1>8
    <3> QED BY <3>1, <3>2, <1>5
  <2> QED BY <2>1, <2>2
<1>11. Typed(f, k, T)
  BY <1>4, <1>6, <1>9 DEF Typed
<1> QED BY <1>11, <1>7, <1>8 DEF f, D, E

\* Two pieces of code, of which one ends where the other begins, make one.
LEMMA ChunkJoin ==
    ASSUME NEW d, NEW e, NEW a, NEW b, NEW c, NEW T, NEW o,
           Chunk(d, a, b, T, o), Chunk(e, b, c, T, o)
    PROVE  Chunk(d \o e, a, c, T, o)
<1>1. PICK n : /\ Typed(d, n, T) /\ n[1] = a /\ n[Len(d) + 1] = b
               /\ \A i \in 1 .. Len(d) : InRange(Arrival(d[i], n[i], T), o)
  BY DEF Chunk
<1>2. PICK m : /\ Typed(e, m, T) /\ m[1] = b /\ m[Len(e) + 1] = c
               /\ \A i \in 1 .. Len(e) : InRange(Arrival(e[i], m[i], T), o)
  BY DEF Chunk
<1>3. PICK k : /\ Typed(d \o e, k, T)
               /\ \A i \in 1 .. Len(d) + 1 : k[i] = n[i]
               /\ \A i \in 1 .. Len(e) + 1 : k[Len(d) + i] = m[i]
  <2>1. n[Len(d) + 1] = m[1]
    BY <1>1, <1>2
  <2> QED BY <1>1, <1>2, <2>1, JoinTyped
<1> DEFINE f == d \o e
           D == Len(d)
           E == Len(e)
<1>4. /\ Len(f) = D + E /\ D \in Nat /\ E \in Nat
      /\ \A i \in 1 .. D : f[i] = d[i]
      /\ \A i \in 1 .. E : f[D + i] = e[i]
  BY <1>1, <1>2, ConcatSeq DEF Typed
<1> HIDE DEF f, D, E
<1>5. ASSUME NEW i \in 1 .. D + E
      PROVE  InRange(Arrival(f[i], k[i], T), o)
  <2>1. CASE i \in 1 .. D
    <3>1. i \in 1 .. D + 1
      BY <2>1, <1>4
    <3> QED BY <3>1, <2>1, <1>1, <1>3, <1>4 DEF D
  <2>2. CASE i \notin 1 .. D
    <3> DEFINE j == i - D
    <3>1. j \in 1 .. E /\ j \in 1 .. E + 1 /\ i = D + j
      BY <2>2, <1>4
    <3> HIDE DEF j
    <3>2. f[i] = e[j] /\ k[i] = m[j]
      BY <3>1, <1>3, <1>4 DEF D, E
    <3> QED BY <3>1, <3>2, <1>2 DEF E
  <2> QED BY <2>1, <2>2
<1>6. k[1] = a /\ k[D + E + 1] = c
  <2>1. k[1] = n[1] /\ k[D + (E + 1)] = m[E + 1]
    BY <1>3, <1>4 DEF D, E
  <2> QED BY <2>1, <1>1, <1>2, <1>4 DEF E
<1>7. Chunk(f, a, c, T, o)
  BY <1>3, <1>4, <1>5, <1>6 DEF Chunk, f
<1> QED BY <1>7 DEF f

\* Two instructions, the first and the other.
LEMMA ChunkTwo ==
    ASSUME NEW x, NEW y, NEW a, NEW b, NEW c, NEW T, NEW o,
           Chunk(<<x>>, a, b, T, o), Chunk(<<y>>, b, c, T, o)
    PROVE  Chunk(<<x, y>>, a, c, T, o)
<1>1. <<x, y>> = <<x>> \o <<y>>
  <2> DEFINE S == {x, y}
             e == <<x>> \o <<y>>
  <2>1. <<x>> \in Seq(S) /\ <<y>> \in Seq(S)
    OBVIOUS
  <2>2. e \in Seq(S) /\ Len(e) = 2 /\ e[1] = x /\ e[2] = y
    BY <2>1
  <2> HIDE DEF e, S
  <2>3. e = <<x, y>>
    BY <2>2
  <2> QED BY <2>3 DEF e
<1> QED BY ONLY <1>1, ChunkJoin, Chunk(<<x>>, a, b, T, o), Chunk(<<y>>, b, c, T, o)

\* Three instructions, the first and the others.
LEMMA ChunkThree ==
    ASSUME NEW x, NEW y, NEW z, NEW a, NEW b, NEW c, NEW T, NEW o,
           Chunk(<<x>>, a, b, T, o), Chunk(<<y, z>>, b, c, T, o)
    PROVE  Chunk(<<x, y, z>>, a, c, T, o)
<1>1. <<x, y, z>> = <<x>> \o <<y, z>>
  OBVIOUS
<1> QED BY ONLY <1>1, ChunkJoin, Chunk(<<x>>, a, b, T, o), Chunk(<<y, z>>, b, c, T, o)

\* Four instructions, the first and the others.
LEMMA ChunkFour ==
    ASSUME NEW x, NEW y, NEW z, NEW w, NEW a, NEW b, NEW c, NEW T, NEW o,
           Chunk(<<x>>, a, b, T, o), Chunk(<<y, z, w>>, b, c, T, o)
    PROVE  Chunk(<<x, y, z, w>>, a, c, T, o)
<1>1. <<x, y, z, w>> = <<x>> \o <<y, z, w>>
  OBVIOUS
<1> QED BY ONLY <1>1, ChunkJoin, Chunk(<<x>>, a, b, T, o), Chunk(<<y, z, w>>, b, c, T, o)

\* Five instructions, the first and the others.
LEMMA ChunkFive ==
    ASSUME NEW x, NEW y, NEW z, NEW w, NEW u, NEW a, NEW b, NEW c, NEW T, NEW o,
           Chunk(<<x>>, a, b, T, o), Chunk(<<y, z, w, u>>, b, c, T, o)
    PROVE  Chunk(<<x, y, z, w, u>>, a, c, T, o)
<1>1. <<x, y, z, w, u>> = <<x>> \o <<y, z, w, u>>
  OBVIOUS
<1> QED BY ONLY <1>1, ChunkJoin, Chunk(<<x>>, a, b, T, o), Chunk(<<y, z, w, u>>, b, c, T, o)

\* Six instructions, the first and the others.
LEMMA ChunkSix ==
    ASSUME NEW x, NEW y, NEW z, NEW w, NEW u, NEW v, NEW a, NEW b, NEW c, NEW T, NEW o,
           Chunk(<<x>>, a, b, T, o), Chunk(<<y, z, w, u, v>>, b, c, T, o)
    PROVE  Chunk(<<x, y, z, w, u, v>>, a, c, T, o)
<1>1. <<x, y, z, w, u, v>> = <<x>> \o <<y, z, w, u, v>>
  OBVIOUS
<1> QED BY ONLY <1>1, ChunkJoin, Chunk(<<x>>, a, b, T, o), Chunk(<<y, z, w, u, v>>, b, c, T, o)

-----------------------------------------------------------------------------
\* What is read is an integer.
LEMMA ValInt ==
    ASSUME NEW a \in Point, NEW x, Source(x)
    PROVE  Val(x, a) \in SUBSET Int
  BY PointFields DEF Val, Source

\* There is a point where a value was pushed.
LEMMA PushPoint ==
    ASSUME NEW a \in Point, NEW v \in SUBSET Int
    PROVE  Push(a, v) \in Point
<1>1. Append(a.data, v) \in Seq(SUBSET Int)
  BY PointFields
<1> QED BY <1>1, PointFields, AtPoint DEF Push

\* There is a point where values were popped that were there.
LEMMA DropPoint ==
    ASSUME NEW a \in Point, NEW n \in Nat, Len(a.data) >= n
    PROVE  Drop(a, n) \in Point
<1>1. SubSeq(a.data, 1, Len(a.data) - n) \in Seq(SUBSET Int)
  BY PointFields
<1> QED BY <1>1, PointFields, AtPoint DEF Drop

\* What is on the data stack are integers.
LEMMA ItemInt ==
    ASSUME NEW a \in Point, NEW n \in Nat, n > 0, Len(a.data) >= n
    PROVE  Item(a, n) \in SUBSET Int
<1>1. Len(a.data) + 1 - n \in 1 .. Len(a.data)
  BY PointFields
<1> QED BY <1>1, PointFields DEF Item

\* There is a point where integers were stored.
LEMMA StorePoint ==
    ASSUME NEW a \in Point, NEW x, NEW v \in SUBSET Int
    PROVE  Store(a, x, v) \in Point
  BY PointFields, AtPoint DEF Store, Counting, Limited

\* PUSHS of what may be read is right everywhere.
LEMMA ChunkPUSHS ==
    ASSUME NEW a \in Point, NEW x, NEW T, NEW o, Source(x), InRange(a, o)
    PROVE  Chunk(<<<<"PUSHS", x>>>>, a, Push(a, Val(x, a)), T, o)
<1> DEFINE b == Push(a, Val(x, a))
<1>1. b \in Point
  BY ValInt, PushPoint
<1>2. Flow(<<"PUSHS", x>>, a, b, T)
  BY DEF Flow
<1>3. InRange(Arrival(<<"PUSHS", x>>, a, T), o)
  BY DEF Arrival
<1> HIDE DEF b
<1>4. Chunk(<<<<"PUSHS", x>>>>, a, b, T, o)
  BY <1>1, <1>2, <1>3, ChunkOne
<1> QED BY <1>4 DEF b

\* POPS is right where there is a value, and a frame for a variable of LF.
LEMMA ChunkPOPS ==
    ASSUME NEW a \in Point, NEW x, NEW T, NEW o,
           Len(a.data) > 0, Writable(x, a), InRange(a, o)
    PROVE  Chunk(<<<<"POPS", x>>>>, a, Store(Drop(a, 1), x, Item(a, 1)), T, o)
<1> DEFINE b == Store(Drop(a, 1), x, Item(a, 1))
<1>0. Len(a.data) \in Nat
  BY PointFields
<1>1. b \in Point
  BY <1>0, ItemInt, DropPoint, StorePoint
<1>2. Flow(<<"POPS", x>>, a, b, T)
  BY DEF Flow
<1>3. InRange(Arrival(<<"POPS", x>>, a, T), o)
  BY DEF Arrival
<1> HIDE DEF b
<1>4. Chunk(<<<<"POPS", x>>>>, a, b, T, o)
  BY <1>1, <1>2, <1>3, ChunkOne
<1> QED BY <1>4 DEF b

\* The instructions that change nothing a point tells.
LEMMA ChunkMOVE ==
    ASSUME NEW a \in Point, NEW x, NEW y, NEW T, NEW o,
           x \notin Ranged, Writable(x, a), Source(y), InRange(a, o)
    PROVE  Chunk(<<<<"MOVE", x, y>>>>, a, a, T, o)
<1>1. Flow(<<"MOVE", x, y>>, a, a, T)
  BY DEF Flow
<1>2. InRange(Arrival(<<"MOVE", x, y>>, a, T), o)
  BY DEF Arrival
<1> QED BY <1>1, <1>2, ChunkOne

\* CREATEFRAME changes nothing a point tells.
LEMMA ChunkCREATEFRAME ==
    ASSUME NEW a \in Point, NEW T, NEW o, InRange(a, o)
    PROVE  Chunk(<<<<"CREATEFRAME">>>>, a, a, T, o)
<1>1. Flow(<<"CREATEFRAME">>, a, a, T)
  BY DEF Flow
<1>2. InRange(Arrival(<<"CREATEFRAME">>, a, T), o)
  BY DEF Arrival
<1> QED BY <1>1, <1>2, ChunkOne

\* PUSHFRAME gives the activation its frame.
LEMMA ChunkPUSHFRAME ==
    ASSUME NEW a \in Point, NEW T, NEW o, InRange(a, o), a.frame = 0
    PROVE  Chunk(<<<<"PUSHFRAME">>>>, a, Framed(a, 1), T, o)
<1>1. Flow(<<"PUSHFRAME">>, a, Framed(a, 1), T)
  BY DEF Flow
<1>2. InRange(Arrival(<<"PUSHFRAME">>, a, T), o)
  BY DEF Arrival
<1>3. Framed(a, 1) \in Point
  BY PointFields, AtPoint DEF Framed
<1> QED BY <1>1, <1>2, <1>3, ChunkOne

\* POPFRAME takes the activation's own frame.
LEMMA ChunkPOPFRAME ==
    ASSUME NEW a \in Point, NEW T, NEW o, InRange(a, o), a.frame = 1
    PROVE  Chunk(<<<<"POPFRAME">>>>, a, Framed(a, 0), T, o)
<1>1. Flow(<<"POPFRAME">>, a, Framed(a, 0), T)
  BY DEF Flow
<1>2. InRange(Arrival(<<"POPFRAME">>, a, T), o)
  BY DEF Arrival
<1>3. Framed(a, 0) \in Point
  BY PointFields, AtPoint DEF Framed
<1> QED BY <1>1, <1>2, <1>3, ChunkOne

\* ADD counts.
LEMMA ChunkADD ==
    ASSUME NEW a \in Point, NEW T, NEW o, InRange(a, o)
    PROVE  Chunk(<<<<"ADD", for_counter_reg>>>>, a, Added(a), T, o)
<1>1. Flow(<<"ADD", for_counter_reg>>, a, Added(a), T)
  BY DEF Flow
<1>2. InRange(Arrival(<<"ADD", for_counter_reg>>, a, T), o)
  BY DEF Arrival
<1>3. Added(a) \in Point
  BY PointFields, AtPoint DEF Added, Counting
<1> QED BY <1>1, <1>2, <1>3, ChunkOne

\* ADDS is right where two values are.
LEMMA ChunkADDS ==
    ASSUME NEW a \in Point, NEW T, NEW o, InRange(a, o), Len(a.data) > 1
    PROVE  Chunk(<<<<"ADDS">>>>, a, Push(Drop(a, 2), Sums(Item(a, 1), Item(a, 2))), T, o)
<1> DEFINE b == Push(Drop(a, 2), Sums(Item(a, 1), Item(a, 2)))
<1>0. Len(a.data) \in Nat
  BY PointFields
<1>1. Item(a, 1) \in SUBSET Int /\ Item(a, 2) \in SUBSET Int /\ Drop(a, 2) \in Point
  BY <1>0, ItemInt, DropPoint
<1>2. Sums(Item(a, 1), Item(a, 2)) \in SUBSET Int
  BY <1>1 DEF Sums
<1>3. b \in Point
  BY <1>1, <1>2, PushPoint
<1>4. Flow(<<"ADDS">>, a, b, T)
  BY DEF Flow
<1>5. InRange(Arrival(<<"ADDS">>, a, T), o)
  BY DEF Arrival
<1> HIDE DEF b
<1>6. Chunk(<<<<"ADDS">>>>, a, b, T, o)
  BY <1>3, <1>4, <1>5, ChunkOne
<1> QED BY <1>6 DEF b

\* A label may be run into where a jump to it is right.
LEMMA ChunkLABEL ==
    ASSUME NEW a \in Point, NEW l, NEW T, NEW o, Goes(l, a, T), T[l] \in Point, InRange(T[l], o)
    PROVE  Chunk(<<<<"LABEL", l>>>>, a, T[l], T, o)
<1> DEFINE b == T[l]
<1>1. Flow(<<"LABEL", l>>, a, b, T)
  BY DEF Flow
<1>2. InRange(Arrival(<<"LABEL", l>>, a, T), o)
  BY DEF Arrival
<1> HIDE DEF b
<1>3. Chunk(<<<<"LABEL", l>>>>, a, b, T, o)
  BY <1>1, <1>2, ChunkOne DEF b
<1> QED BY <1>3 DEF b

\* Behind a jump there may be any point.
LEMMA ChunkJUMP ==
    ASSUME NEW a \in Point, NEW b \in Point, NEW l, NEW T, NEW o, Goes(l, a, T), InRange(a, o)
    PROVE  Chunk(<<<<"JUMP", l>>>>, a, b, T, o)
<1>1. Flow(<<"JUMP", l>>, a, b, T)
  BY DEF Flow
<1>2. InRange(Arrival(<<"JUMP", l>>, a, T), o)
  BY DEF Arrival
<1> QED BY <1>1, <1>2, ChunkOne

\* RETURN is right where what is left is what a call found.
LEMMA ChunkRETURN ==
    ASSUME NEW a \in Point, NEW b \in Point, NEW T, NEW o, Goes(Back, a, T), InRange(a, o)
    PROVE  Chunk(<<<<"RETURN">>>>, a, b, T, o)
<1>1. Flow(<<"RETURN">>, a, b, T)
  BY DEF Flow
<1>2. InRange(Arrival(<<"RETURN">>, a, T), o)
  BY DEF Arrival
<1> QED BY <1>1, <1>2, ChunkOne

\* JUMPIFEQ is right where a jump to its label is.
LEMMA ChunkJUMPIFEQ ==
    ASSUME NEW a \in Point, NEW l, NEW x, NEW y, NEW T, NEW o, Goes(l, a, T), InRange(a, o)
    PROVE  Chunk(<<<<"JUMPIFEQ", l, x, y>>>>, a, Unlike(a, x, y), T, o)
<1>1. Flow(<<"JUMPIFEQ", l, x, y>>, a, Unlike(a, x, y), T)
  BY DEF Flow
<1>2. InRange(Arrival(<<"JUMPIFEQ", l, x, y>>, a, T), o)
  BY DEF Arrival
<1>3. Unlike(a, x, y) \in Point
  BY PointFields, AtPoint DEF Unlike, Counting
<1> QED BY <1>1, <1>2, <1>3, ChunkOne

\* JUMPIFNEQS takes two values, whether it jumps or not.
LEMMA ChunkJUMPIFNEQS ==
    ASSUME NEW a \in Point, NEW l, NEW T, NEW o, Len(a.data) > 1, Goes(l, Drop(a, 2), T),
           InRange(a, o)
    PROVE  Chunk(<<<<"JUMPIFNEQS", l>>>>, a, Drop(a, 2), T, o)
<1>0. Len(a.data) \in Nat
  BY PointFields
<1>1. Flow(<<"JUMPIFNEQS", l>>, a, Drop(a, 2), T)
  BY DEF Flow
<1>2. InRange(Arrival(<<"JUMPIFNEQS", l>>, a, T), o)
  BY DEF Arrival
<1>3. Drop(a, 2) \in Point
  BY <1>0, DropPoint
<1> QED BY <1>1, <1>2, <1>3, ChunkOne

\* CALL is right where its arguments are, and comes back without them.
LEMMA ChunkCALL ==
    ASSUME NEW a \in Point, NEW l, NEW T, NEW o, Callable(l), Taken(l) \in Nat,
           Len(a.data) >= Taken(l), InRange(a, o)
    PROVE  Chunk(<<<<"CALL", l>>>>, a, Drop(a, Taken(l)), T, o)
<1>1. Flow(<<"CALL", l>>, a, Drop(a, Taken(l)), T)
  BY DEF Flow
<1>2. InRange(Arrival(<<"CALL", l>>, a, T), o)
  BY DEF Arrival
<1>3. Drop(a, Taken(l)) \in Point
  BY DropPoint
<1> QED BY <1>1, <1>2, <1>3, ChunkOne

\* The parts of RangeIsOwn
Between(l) == {l.from - 1} \cup l.to .. l.to + 2

\* Line i is none of them, of the loops ls that are done and os that are open.
Quiet(i, ls, os) == (\A l \in ls : i \notin Between(l)) /\ \A l \in os : i # l.from - 1

\* Line i is in the code of the loop l, which is done.
Covers(l, i) == i \in l.from .. l.to

\* Line i is in the code of the loop l, which is open.
OpensAt(l, i) == l.from <= i

\* No other loop around line i starts behind l.
Nearest(l, i, ls, os) ==
    /\ \A k \in ls : Covers(k, i) => k.from <= l.from
    /\ \A k \in os : OpensAt(k, i) => k.from <= l.from

\* What the counter and the limit may be in a loop.
RangeOf(l) == <<l.low .. l.limit, {l.limit}>>

\* The property RangeIsOwn of one line, where p is its point.
Owned(p, i, ls, os) ==
    Quiet(i, ls, os) =>
       /\ \A l \in ls : Covers(l, i) /\ Nearest(l, i, ls, os) => InRange(p, RangeOf(l))
       /\ \A l \in os : OpensAt(l, i) /\ Nearest(l, i, ls, os) => InRange(p, RangeOf(l))

\* The points of the labels that do not depend on the statements: a function is entered as
\* a call of it leaves things, and RETURN goes back with no argument left.
Fixed(T, R) ==
    /\ Back \in DOMAIN T /\ T[Back] = Outside(R, 1, 0)
    /\ \A f \in Function : Entry(f) \in DOMAIN T /\ T[Entry(f)] = Outside(R, 1, Arity(f))
    /\ Entry("write") \in DOMAIN T /\ T[Entry("write")] = Outside(R, 1, 1)
    /\ Entry("$$main") \in DOMAIN T /\ T[Entry("$$main")] = Outside(R, 0, 0)
    /\ Label("main_defvar", 0) \in DOMAIN T /\ T[Label("main_defvar", 0)] = Inside(R, 0)
    /\ Label("main_defvar_back", 1) \in DOMAIN T
    /\ T[Label("main_defvar_back", 1)] = Inside(R, 0)

\* T is about labels with numbers below n, among them the fixed ones.
Labels(T, n, R) ==
    /\ T \in [DOMAIN T -> Point]
    /\ Fixed(T, R)
    /\ \A l \in DOMAIN T : l[2] \in Int /\ l[2] < n

\* The loops that are done are in the n lines there are.
Closed(ls, n) == \A l \in ls : l.from \in Nat /\ l.to \in Nat /\ l.to + 2 <= n

\* The loops that are open start in the n lines there are, or behind them.
Opened(os, n) == \A l \in os : l.from \in Nat /\ l.from <= n + 1

\* c is code so far, for a range R around it: with the annotation ann it is right from the
\* first instruction on, and each line is in the range of the loop it is in.
Code(c, n, ls, os, R, T, ann) ==
    /\ Labels(T, n, R)
    /\ Typed(c, ann, T)
    /\ ann[1] = Outside(R, 0, 0)
    /\ \A i \in 1 .. Len(c) : Owned(Arrival(c[i], ann[i], T), i, ls, os)
    /\ Closed(ls, Len(c)) /\ Opened(os, Len(c))

\* o is within the range of the innermost loop of os
Owns(o, os) ==
    \A l \in os : (\A k \in os : k.from <= l.from) =>
        o[1] \subseteq RangeOf(l)[1] /\ o[2] \subseteq RangeOf(l)[2]
-----------------------------------------------------------------------------
\* A jump stays right when there are more labels.
LEMMA GoesExtends ==
    ASSUME NEW T, NEW U, Extends(T, U), NEW l, NEW a, Goes(l, a, T)
    PROVE  Goes(l, a, U)
  BY DEF Goes, Extends

\* An instruction stays right when there are more labels.
LEMMA FlowExtends ==
    ASSUME NEW T, NEW U, Extends(T, U), NEW x, NEW a, NEW b, Flow(x, a, b, T)
    PROVE  Flow(x, a, b, U) /\ Arrival(x, a, U) = Arrival(x, a, T)
<1>1. \A l, p : Goes(l, p, T) => Goes(l, p, U) /\ U[l] = T[l]
  BY GoesExtends DEF Goes, Extends
<1>2. Flow(x, a, b, U)
  BY <1>1 DEF Flow
<1>3. Arrival(x, a, U) = Arrival(x, a, T)
  <2>1. x[1] = "LABEL" => Goes(x[2], a, T)
    BY DEF Flow
  <2> QED BY <1>1, <2>1 DEF Arrival
<1> QED BY <1>2, <1>3

\* Code stays right when there are more labels.
LEMMA TypedExtends ==
    ASSUME NEW T, NEW U, Extends(T, U), NEW c, NEW n, Typed(c, n, T)
    PROVE  /\ Typed(c, n, U)
           /\ \A i \in 1 .. Len(c) : Arrival(c[i], n[i], U) = Arrival(c[i], n[i], T)
  BY FlowExtends DEF Typed

\* k annotates c as ann does, with d behind it, which ends at b.
Attached(c, d, T, U, ann, b, o, k) ==
    /\ Typed(c \o d, k, U) /\ k[Len(c \o d) + 1] = b /\ k[1] = ann[1]
    /\ \A i \in 1 .. Len(c) :
          Arrival((c \o d)[i], k[i], U) = Arrival(c[i], ann[i], T)
    /\ \A i \in 1 .. Len(d) :
          InRange(Arrival((c \o d)[Len(c) + i], k[Len(c) + i], U), o)

\* A piece that begins where the code ends can be put behind it.
LEMMA Attach ==
    ASSUME NEW c, NEW d, NEW T, NEW U, NEW ann, NEW b, NEW o,
           Typed(c, ann, T), Extends(T, U), Chunk(d, ann[Len(c) + 1], b, U, o)
    PROVE  /\ Len(c) \in Nat /\ Len(d) \in Nat /\ Len(c \o d) = Len(c) + Len(d)
           /\ \E k : Attached(c, d, T, U, ann, b, o, k)
<1>1. PICK m : /\ Typed(d, m, U) /\ m[1] = ann[Len(c) + 1] /\ m[Len(d) + 1] = b
               /\ \A i \in 1 .. Len(d) : InRange(Arrival(d[i], m[i], U), o)
  BY DEF Chunk
<1>2. /\ Typed(c, ann, U)
      /\ \A i \in 1 .. Len(c) : Arrival(c[i], ann[i], U) = Arrival(c[i], ann[i], T)
  BY TypedExtends
<1>3. PICK k : /\ Typed(c \o d, k, U)
               /\ \A i \in 1 .. Len(c) + 1 : k[i] = ann[i]
               /\ \A i \in 1 .. Len(d) + 1 : k[Len(c) + i] = m[i]
  BY <1>1, <1>2, JoinTyped
<1>4. /\ Len(c \o d) = Len(c) + Len(d) /\ Len(c) \in Nat /\ Len(d) \in Nat
      /\ \A i \in 1 .. Len(c) : (c \o d)[i] = c[i]
      /\ \A i \in 1 .. Len(d) : (c \o d)[Len(c) + i] = d[i]
  BY <1>1, ConcatSeq DEF Typed
<1> DEFINE f == c \o d
           C == Len(c)
           D == Len(d)
<1> HIDE DEF f, C, D
<1>5. k[C + D + 1] = b /\ k[1] = ann[1]
  <2>1. k[C + (D + 1)] = m[D + 1]
    BY <1>3, <1>4 DEF C, D
  <2>2. C + (D + 1) = C + D + 1 /\ 1 \in 1 .. C + 1
    BY <1>4 DEF C, D
  <2> QED BY <2>1, <2>2, <1>1, <1>3 DEF C, D
<1>6. \A i \in 1 .. C : Arrival(f[i], k[i], U) = Arrival(c[i], ann[i], T)
  <2> TAKE i \in 1 .. C
  <2>1. i \in 1 .. C + 1
    BY <1>4 DEF C
  <2> QED BY <2>1, <1>2, <1>3, <1>4 DEF f, C
<1>7. \A i \in 1 .. D : InRange(Arrival(f[C + i], k[C + i], U), o)
  <2> TAKE i \in 1 .. D
  <2>1. i \in 1 .. D + 1
    BY <1>4 DEF D
  <2> QED BY <2>1, <1>1, <1>3, <1>4 DEF f, C, D
<1> QED BY <1>3, <1>4, <1>5, <1>6, <1>7 DEF f, C, D, Attached

\* f is code that ends at b.
Grown(f, m, ls, os, R, U, b) ==
    \E k : Code(f, m, ls, os, R, U, k) /\ k[Len(f) + 1] = b

\* gen_line: a piece in the range of the innermost loop keeps the code right.
LEMMA Grow ==
    ASSUME NEW c, NEW d, NEW n, NEW m, NEW ls, NEW os, NEW R, NEW T, NEW U, NEW ann,
           NEW b, NEW o,
           Code(c, n, ls, os, R, T, ann), Extends(T, U), Labels(U, m, R),
           Chunk(d, ann[Len(c) + 1], b, U, o), Owns(o, os)
    PROVE  Grown(c \o d, m, ls, os, R, U, b)
<1>0. Typed(c, ann, T) /\ ann[1] = Outside(R, 0, 0)
  BY DEF Code
<1>1. Len(c) \in Nat /\ Len(d) \in Nat /\ Len(c \o d) = Len(c) + Len(d)
  BY <1>0, Attach
<1>10. PICK k : Attached(c, d, T, U, ann, b, o, k)
  BY <1>0, Attach
<1>2. /\ Typed(c \o d, k, U) /\ k[Len(c \o d) + 1] = b /\ k[1] = ann[1]
      /\ \A i \in 1 .. Len(c) :
            Arrival((c \o d)[i], k[i], U) = Arrival(c[i], ann[i], T)
      /\ \A i \in 1 .. Len(d) :
            InRange(Arrival((c \o d)[Len(c) + i], k[Len(c) + i], U), o)
  BY <1>10 DEF Attached
<1> DEFINE f == c \o d
           C == Len(c)
           D == Len(d)
           p(i) == Arrival(f[i], k[i], U)
<1>3. /\ C \in Nat /\ D \in Nat
      /\ \A i \in 1 .. C : Owned(p(i), i, ls, os)
      /\ \A i \in 1 .. D : InRange(p(C + i), o)
      /\ Closed(ls, C) /\ Opened(os, C)
  BY <1>1, <1>2 DEF Code
<1> HIDE DEF f, C, D, p
<1>4. Closed(ls, C + D) /\ Opened(os, C + D)
  BY <1>3 DEF Closed, Opened
<1>5. ASSUME NEW i \in 1 .. C + D
      PROVE  Owned(p(i), i, ls, os)
  <2>1. CASE i \in 1 .. C
    BY <2>1, <1>3
  <2>2. CASE i \notin 1 .. C
    <3> DEFINE j == i - C
    <3>1. j \in 1 .. D /\ i = C + j /\ i > C
      BY <2>2, <1>3
    <3> HIDE DEF j
    <3>2. InRange(p(i), o)
      BY <3>1, <1>3
    <3>3. \A l \in ls : ~Covers(l, i)
      BY <3>1, <1>3 DEF Closed, Covers
    <3>4. \A l \in os : OpensAt(l, i)
      BY <3>1, <1>3 DEF Opened, OpensAt
    <3>5. \A l \in os : Nearest(l, i, ls, os) => \A k2 \in os : k2.from <= l.from
      BY <3>4 DEF Nearest
    <3>6. \A l \in os : Nearest(l, i, ls, os) => InRange(p(i), RangeOf(l))
      BY <3>5, <3>2 DEF Owns, InRange
    <3> QED BY <3>3, <3>6 DEF Owned
  <2> QED BY <2>1, <2>2
<1>6. Code(f, m, ls, os, R, U, k)
  BY <1>0, <1>1, <1>2, <1>4, <1>5 DEF Code, f, C, D, p
<1> QED BY <1>2, <1>6 DEF f, Grown

\* The line in front of a loop's start is in between.
LEMMA Enter ==
    ASSUME NEW c, NEW d, NEW n, NEW m, NEW ls, NEW os, NEW R, NEW T, NEW U, NEW ann,
           NEW b, NEW o, NEW l,
           Code(c, n, ls, os, R, T, ann), Extends(T, U), Labels(U, m, R),
           Chunk(d, ann[Len(c) + 1], b, U, o), Len(d) = 1,
           l.from = Len(c) + 2
    PROVE  Grown(c \o d, m, ls, os \cup {l}, R, U, b)
<1>0. Typed(c, ann, T) /\ ann[1] = Outside(R, 0, 0)
  BY DEF Code
<1>1. Len(c) \in Nat /\ Len(d) \in Nat /\ Len(c \o d) = Len(c) + Len(d)
  BY <1>0, Attach
<1>10. PICK k : Attached(c, d, T, U, ann, b, o, k)
  BY <1>0, Attach
<1>2. /\ Typed(c \o d, k, U) /\ k[Len(c \o d) + 1] = b /\ k[1] = ann[1]
      /\ \A i \in 1 .. Len(c) :
            Arrival((c \o d)[i], k[i], U) = Arrival(c[i], ann[i], T)
      /\ \A i \in 1 .. Len(d) :
            InRange(Arrival((c \o d)[Len(c) + i], k[Len(c) + i], U), o)
  BY <1>10 DEF Attached
<1> DEFINE f == c \o d
           C == Len(c)
           p(i) == Arrival(f[i], k[i], U)
           os2 == os \cup {l}
<1>3. /\ C \in Nat /\ l.from = C + 2
      /\ \A i \in 1 .. C : Owned(p(i), i, ls, os)
      /\ Closed(ls, C) /\ Opened(os, C)
  BY <1>1, <1>2 DEF Code
<1>30. Len(f) = C + 1
  BY <1>1
<1> HIDE DEF f, C, p
<1>4. Closed(ls, C + 1) /\ Opened(os2, C + 1)
  BY <1>3 DEF Closed, Opened
<1>5. ASSUME NEW i \in 1 .. C + 1
      PROVE  Owned(p(i), i, ls, os2)
  <2>1. CASE i \in 1 .. C
    <3>1. Owned(p(i), i, ls, os)
      BY <2>1, <1>3
    <3>2. Quiet(i, ls, os2) => Quiet(i, ls, os)
      BY DEF Quiet
    <3>3. ~OpensAt(l, i)
      BY <1>3, <2>1 DEF OpensAt
    <3>4. \A k2 : Nearest(k2, i, ls, os2) => Nearest(k2, i, ls, os)
      BY DEF Nearest
    <3> QED BY <3>1, <3>2, <3>3, <3>4 DEF Owned
  <2>2. CASE i \notin 1 .. C
    <3>1. i = l.from - 1
      BY <2>2, <1>3
    <3> QED BY <3>1 DEF Owned, Quiet
  <2> QED BY <2>1, <2>2
<1>6. Code(f, m, ls, os2, R, U, k)
  BY <1>0, <1>1, <1>2, <1>4, <1>5, <1>30 DEF Code, f, C, p
<1> QED BY <1>2, <1>6 DEF f, Grown

\* The lines behind a loop's last jump are in between.
LEMMA Leave ==
    ASSUME NEW c, NEW d, NEW n, NEW m, NEW ls, NEW os, NEW R, NEW T, NEW U, NEW ann,
           NEW b, NEW o, NEW l, NEW k0,
           Code(c, n, ls, os, R, T, ann), Extends(T, U), Labels(U, m, R),
           Chunk(d, ann[Len(c) + 1], b, U, o), Len(d) = 3,
           k0 \in os, l.from = k0.from, l.low = k0.low, l.limit = k0.limit, l.to = Len(c) + 1
    PROVE  Grown(c \o d, m, ls \cup {l}, os \ {k0}, R, U, b)
<1>0. Typed(c, ann, T) /\ ann[1] = Outside(R, 0, 0)
  BY DEF Code
<1>1. Len(c) \in Nat /\ Len(d) \in Nat /\ Len(c \o d) = Len(c) + Len(d)
  BY <1>0, Attach
<1>10. PICK k : Attached(c, d, T, U, ann, b, o, k)
  BY <1>0, Attach
<1>2. /\ Typed(c \o d, k, U) /\ k[Len(c \o d) + 1] = b /\ k[1] = ann[1]
      /\ \A i \in 1 .. Len(c) :
            Arrival((c \o d)[i], k[i], U) = Arrival(c[i], ann[i], T)
      /\ \A i \in 1 .. Len(d) :
            InRange(Arrival((c \o d)[Len(c) + i], k[Len(c) + i], U), o)
  BY <1>10 DEF Attached
<1> DEFINE f == c \o d
           C == Len(c)
           p(i) == Arrival(f[i], k[i], U)
           ls2 == ls \cup {l}
           os2 == os \ {k0}
<1>3. /\ C \in Nat /\ l.to = C + 1 /\ l.from = k0.from /\ RangeOf(l) = RangeOf(k0)
      /\ \A i \in 1 .. C : Owned(p(i), i, ls, os)
      /\ Closed(ls, C) /\ Opened(os, C)
  BY <1>1, <1>2 DEF Code, RangeOf
<1>30. Len(f) = C + 3
  BY <1>1
<1>31. l.from \in Nat /\ l.from <= C + 1
  BY <1>3 DEF Opened
<1> HIDE DEF f, C, p
<1>4. Closed(ls2, C + 3) /\ Opened(os2, C + 3)
  BY <1>3, <1>31 DEF Closed, Opened
<1>5. ASSUME NEW i \in 1 .. C + 3
      PROVE  Owned(p(i), i, ls2, os2)
  <2>1. CASE i \in 1 .. C
    <3>1. Owned(p(i), i, ls, os)
      BY <2>1, <1>3
    <3>3. Covers(l, i) <=> OpensAt(k0, i)
      BY <1>3, <1>31, <2>1 DEF OpensAt, Covers
    <3>2. Quiet(i, ls2, os2) => Quiet(i, ls, os)
      BY <1>3 DEF Quiet, Between
    <3>4. \A k2 : Nearest(k2, i, ls2, os2) => Nearest(k2, i, ls, os)
      BY <3>3, <1>3 DEF Nearest
    <3>5. Nearest(l, i, ls2, os2) => Nearest(k0, i, ls, os)
      BY <3>4, <1>3 DEF Nearest
    <3> HIDE DEF ls2, os2
    <3>6. ASSUME Quiet(i, ls2, os2), NEW l2 \in ls2, Covers(l2, i), Nearest(l2, i, ls2, os2)
          PROVE  InRange(p(i), RangeOf(l2))
      <4>1. CASE l2 = l
        BY <4>1, <3>1, <3>2, <3>3, <3>5, <3>6, <1>3 DEF Owned
      <4>2. CASE l2 # l
        BY <4>2, <3>1, <3>2, <3>4, <3>6 DEF Owned, ls2
      <4> QED BY <4>1, <4>2
    <3>7. ASSUME Quiet(i, ls2, os2), NEW l2 \in os2, OpensAt(l2, i), Nearest(l2, i, ls2, os2)
          PROVE  InRange(p(i), RangeOf(l2))
      BY <3>1, <3>2, <3>4, <3>7 DEF Owned, os2
    <3> QED BY <3>6, <3>7 DEF Owned
  <2>2. CASE i \notin 1 .. C
    <3>1. i \in Between(l)
      BY <2>2, <1>3 DEF Between
    <3> QED BY <3>1 DEF Owned, Quiet
  <2> QED BY <2>1, <2>2
<1>6. Code(f, m, ls2, os2, R, U, k)
  BY <1>0, <1>1, <1>2, <1>4, <1>5, <1>30 DEF Code, f, C, p
<1> QED BY <1>2, <1>6 DEF f, Grown

\* The names of variables.
Naming == STRING \cup {"x", "i"}

\* Variables are no registers.
Variables == {x \in Naming \X Nat : x \notin registers}

\* The names of the labels on the stacks.
LabelNames == {"branch_end", "branch_skip", "while_start", "while_end", "for_start", "for_end"}

\* The unique labels on the stacks.
Unique == LabelNames \X Int

\* b is the block of a function.
IsFunction(b) == b.what \in {"func", "value_func"}

\* Whether the blocks are those of a function.
Level(bs) == IF bs # <<>> /\ IsFunction(bs[1]) THEN 1 ELSE 0

\* Jumps to the start and to the end of the loop around
LoopJumps(h, T) ==
    /\ Goes(h.cl[2], h.point, T)
    /\ Goes(h.cl[1], IF h.isfor THEN Added(h.point) ELSE h.point, T)

\* l starts behind the others of os.
Latest(l, os) == \A k \in os : k.from <= l.from

\* In the body of the latest loop that is open the counter is below the limit.
Inner(p, os) ==
    \A l \in os :
       /\ l.from \in Nat /\ l.low \in Int /\ l.limit \in Int
       /\ Latest(l, os) => p.counter \subseteq l.low .. l.limit - 1 /\ p.max \subseteq {l.limit}

\* The context h of a statement is right: what the blocks around it and the stacks of
\* codegen.c have to do with its point.  Its fields are named in Context.
Sound(h, T, R) ==
    /\ h.point \in Point /\ h.point.frame = 1
    /\ h.scope \in Nat /\ (h.blocks # <<>> => h.scope > 0)
    /\ IsSeq(h.blocks)
    /\ (\A i \in 1 .. Len(h.blocks) : h.blocks[i].what # "for") =>
          h.point = Inside(R, Level(h.blocks))
    /\ h.cl = <<>> =>
          h.ll = <<>> /\ \A i \in 1 .. Len(h.blocks) : h.blocks[i].what \notin {"while", "for"}
    /\ h.bl \in Seq(Unique) /\ h.ll \in Seq(Unique) /\ IsSeq(h.ct)
    /\ h.cl \in Seq(Unique) /\ (h.cl # <<>> => Len(h.cl) = 2 /\ LoopJumps(h, T))
    /\ h.kept \in Seq(Seq(Variables))
    /\ h.blocks = <<>> => h.loops = {} /\ h.cl = <<>>
    /\ Inner(h.point, h.loops)

\* The value the counter does not reach.
LimitOf(range) == range.high + IF range.open THEN 0 ELSE 1

\* The loop of an open block of a for.
OpenLoop(b) == [from |-> b.labels[2], low |-> b.labels[1].low, limit |-> LimitOf(b.labels[1])]

\* gen_for_range_save puts the range of the loop around on the data stack.
Saved(p) == Append(Append(p.data, p.counter), p.max)

\* At the start and at the end of the loop l in a context at p.
Looping(p, l) == At(p.level, 1, Saved(p), l.low .. l.limit, {l.limit})

\* In the body of the loop l in a context at p.
Body(p, l) == At(p.level, 1, Saved(p), l.low .. l.limit - 1, {l.limit})

\* The label l is at p.
Is(l, p, T) == l \in DOMAIN T /\ T[l] = p

\* No loop begins between the contexts h and g.
SameLoop(h, g) ==
    /\ g.ll = h.ll /\ g.ct = h.ct /\ g.cl = h.cl /\ g.isfor = h.isfor
    /\ g.loops = h.loops

\* A loop begins between the contexts h and g: LoopStart has put what was before on the
\* stacks.
NewLoop(h, g) ==
    /\ g.bl = h.bl /\ g.kept = h.kept
    /\ g.ll = h.ll \o h.cl /\ g.ct = Append(h.ct, h.isfor)
    /\ Len(g.cl) = 2

\* q is p but for the data stack.
SameFrame(q, p) ==
    /\ q.level = p.level /\ q.frame = p.frame /\ q.counter = p.counter /\ q.max = p.max

\* b has the fields of a block, and no others.
IsBlock(b) == b = [what |-> b.what, depth |-> b.depth, labels |-> b.labels]

\* The context g is h with the block b begun: for each kind of block, what was put on which
\* stack, and where its labels are.
Pushed(b, h, g, T) ==
    /\ g.blocks = Append(h.blocks, b) /\ IsBlock(b)
    /\ b.depth \in {1, 2} /\ g.scope = h.scope + b.depth
    /\ \/ /\ b.what = "if" /\ SameLoop(h, g) /\ g.kept = h.kept /\ g.point = h.point
          /\ \E e \in Unique, s \in Unique :
                g.bl = h.bl \o <<e, s>> /\ Is(e, h.point, T) /\ Is(s, h.point, T)
       \/ /\ b.what = "else" /\ SameLoop(h, g) /\ g.kept = h.kept /\ g.point = h.point
          /\ \E e \in Unique : g.bl = Append(h.bl, e) /\ Is(e, h.point, T)
       \/ /\ b.what = "while" /\ NewLoop(h, g) /\ g.loops = h.loops /\ g.point = h.point
          /\ Is(g.cl[1], h.point, T) /\ Is(g.cl[2], h.point, T)
       \/ /\ b.what = "for" /\ NewLoop(h, g) /\ b.labels[1] \in Ranges
          /\ g.loops = h.loops \cup {OpenLoop(b)}
          /\ \A k \in h.loops : k.from < OpenLoop(b).from
          /\ g.point = Body(h.point, OpenLoop(b))
          /\ Is(g.cl[1], Looping(h.point, OpenLoop(b)), T)
          /\ Is(g.cl[2], Looping(h.point, OpenLoop(b)), T)
       \/ /\ IsFunction(b) /\ h.blocks = <<>> /\ SameLoop(h, g) /\ g.bl = h.bl
          /\ \E u \in Seq(Variables) : g.kept = Append(h.kept, u)
          /\ Is(b.labels[1], h.point, T)
          /\ \E q \in Point : /\ SameFrame(q, g.point)
                             /\ Is(b.labels[2], q, T) /\ Is(b.labels[3], q, T)

\* H are the contexts of the blocks bs, one in the other, from the main program to the
\* innermost.
Chain(H, bs, T, R) ==
    /\ DOMAIN H = 1 .. Len(bs) + 1
    /\ \A j \in 1 .. Len(bs) + 1 : Sound(H[j], T, R)
    /\ \A j \in 1 .. Len(bs) : Pushed(bs[j], H[j], H[j + 1], T)
    /\ H[1].blocks = <<>>

\* The registers are those of p, or the counter is one more.
OwnPoint(p) == <<p.counter \cup {c + 1 : c \in p.counter}, p.max>>
-----------------------------------------------------------------------------
\* A context stays right when there are more labels.
LEMMA SoundExtends ==
    ASSUME NEW T, NEW U, Extends(T, U), NEW h, NEW R, Sound(h, T, R)
    PROVE  Sound(h, U, R)
<1>1. LoopJumps(h, T) => LoopJumps(h, U)
  <2>1. \A l, p : Goes(l, p, T) => Goes(l, p, U)
    BY GoesExtends
  <2> QED BY <2>1 DEF LoopJumps
<1> QED BY <1>1 DEF Sound

\* So does a block.
LEMMA PushedExtends ==
    ASSUME NEW T, NEW U, Extends(T, U), NEW b, NEW h, NEW g, Pushed(b, h, g, T)
    PROVE  Pushed(b, h, g, U)
<1>1. \A l, p : Is(l, p, T) => Is(l, p, U)
  BY DEF Is, Extends
<1> QED BY <1>1 DEF Pushed

\* So do all the blocks.
LEMMA ChainExtends ==
    ASSUME NEW T, NEW U, Extends(T, U), NEW H, NEW bs, NEW R, Chain(H, bs, T, R)
    PROVE  Chain(H, bs, U, R)
  BY SoundExtends, PushedExtends DEF Chain

\* A block begins inside the others.
LEMMA ChainPush ==
    ASSUME NEW T, NEW H, NEW bs, NEW R, Chain(H, bs, T, R), IsSeq(bs), NEW b, NEW g,
           Pushed(b, H[Len(bs) + 1], g, T), Sound(g, T, R)
    PROVE  \E G : Chain(G, Append(bs, b), T, R) /\ G[Len(Append(bs, b)) + 1] = g
<1> DEFINE n == Len(bs)
           c == Append(bs, b)
           G == [j \in 1 .. n + 2 |-> IF j = n + 2 THEN g ELSE H[j]]
<1>1. n \in Nat /\ Len(c) = n + 1 /\ (\A j \in 1 .. n : c[j] = bs[j]) /\ c[n + 1] = b
  <2> DEFINE S == {bs[i] : i \in DOMAIN bs} \cup {b}
  <2>1. bs \in Seq(S)
    <3> DEFINE B == {bs[i] : i \in DOMAIN bs}
    <3>1. bs \in Seq(B)
      BY DEF IsSeq
    <3> HIDE DEF B
    <3>2. bs \in Seq(B \cup {b})
      BY <3>1
    <3> QED BY <3>2 DEF B
  <2>2. b \in S
    OBVIOUS
  <2> HIDE DEF S
  <2> QED BY <2>1, <2>2
<1> HIDE DEF n, c
<1>2. /\ DOMAIN H = 1 .. n + 1
      /\ \A j \in 1 .. n + 1 : Sound(H[j], T, R)
      /\ \A j \in 1 .. n : Pushed(bs[j], H[j], H[j + 1], T)
      /\ H[1].blocks = <<>>
      /\ Pushed(b, H[n + 1], g, T)
  BY DEF Chain, n
<1>3. /\ DOMAIN G = 1 .. n + 2 /\ G[n + 2] = g
      /\ \A j \in 1 .. n + 1 : G[j] = H[j]
  BY <1>1
<1> HIDE DEF G
<1>4. \A j \in 1 .. n + 2 : Sound(G[j], T, R)
  <2> TAKE j \in 1 .. n + 2
  <2>1. j = n + 2 \/ j \in 1 .. n + 1
    BY <1>1
  <2> QED BY <2>1, <1>2, <1>3
<1>5. \A j \in 1 .. n + 1 : Pushed(c[j], G[j], G[j + 1], T)
  <2> TAKE j \in 1 .. n + 1
  <2>1. CASE j = n + 1
    <3>1. j + 1 = n + 2 /\ j \in 1 .. n + 1
      BY <2>1, <1>1
    <3> QED BY <3>1, <2>1, <1>1, <1>2, <1>3
  <2>2. CASE j # n + 1
    <3>1. j \in 1 .. n /\ j + 1 \in 1 .. n + 1
      BY <2>2, <1>1
    <3> QED BY <3>1, <1>1, <1>2, <1>3
  <2> QED BY <2>1, <2>2
<1>6. Chain(G, c, T, R) /\ G[Len(c) + 1] = g
  <2>1. Len(c) + 1 = n + 2
    BY <1>1
  <2>2. G[1] = H[1]
    BY <1>1, <1>3
  <2> QED BY <2>1, <2>2, <1>1, <1>2, <1>3, <1>4, <1>5 DEF Chain
<1> QED BY <1>6 DEF c

\* When a block ends the contexts of those around it are left.
LEMMA ChainPop ==
    ASSUME NEW T, NEW H, NEW bs, NEW R, Chain(H, bs, T, R), IsSeq(bs), bs # <<>>
    PROVE  /\ Len(bs) \in Nat /\ Len(bs) > 0 /\ Len(Front(bs)) = Len(bs) - 1 /\ IsSeq(Front(bs))
           /\ Pushed(Last(bs), H[Len(bs)], H[Len(bs) + 1], T)
           /\ Sound(H[Len(bs)], T, R) /\ Sound(H[Len(bs) + 1], T, R)
           /\ \E G : Chain(G, Front(bs), T, R) /\ G[Len(Front(bs)) + 1] = H[Len(bs)]
<1> DEFINE n == Len(bs)
           c == Front(bs)
           G == [j \in 1 .. n |-> H[j]]
<1>1. n \in Nat /\ n > 0 /\ Len(c) = n - 1 /\ (\A j \in 1 .. n - 1 : c[j] = bs[j]) /\ IsSeq(c)
  <2> DEFINE B == {bs[i] : i \in DOMAIN bs}
  <2>1. bs \in Seq(B)
    BY DEF IsSeq
  <2> HIDE DEF B
  <2>2. c \in Seq(B) /\ n \in Nat /\ n > 0 /\ Len(c) = n - 1 /\ (\A j \in 1 .. n - 1 : c[j] = bs[j])
    BY <2>1, FrontSeq
  <2> HIDE DEF c
  <2>3. c \in Seq({c[i] : i \in DOMAIN c})
    <3> DEFINE D == {c[i] : i \in DOMAIN c}
    <3>1. c \in [1 .. Len(c) -> D] /\ Len(c) \in Nat
      BY <2>2
    <3> QED BY <3>1, <2>2
  <2> QED BY <2>2, <2>3 DEF IsSeq
<1> HIDE DEF n, c
<1>2. /\ DOMAIN H = 1 .. n + 1
      /\ \A j \in 1 .. n + 1 : Sound(H[j], T, R)
      /\ \A j \in 1 .. n : Pushed(bs[j], H[j], H[j + 1], T)
      /\ H[1].blocks = <<>>
  BY DEF Chain, n
<1>3. DOMAIN G = 1 .. n /\ \A j \in 1 .. n : G[j] = H[j]
  OBVIOUS
<1> HIDE DEF G
<1>4. \A j \in 1 .. n : Sound(G[j], T, R)
  <2> TAKE j \in 1 .. n
  <2>1. j \in 1 .. n + 1
    BY <1>1
  <2> QED BY <2>1, <1>2, <1>3
<1>5. \A j \in 1 .. n - 1 : Pushed(c[j], G[j], G[j + 1], T)
  <2> TAKE j \in 1 .. n - 1
  <2>1. j \in 1 .. n /\ j + 1 \in 1 .. n
    BY <1>1
  <2> QED BY <2>1, <1>1, <1>2, <1>3
<1>6. Chain(G, c, T, R) /\ G[Len(c) + 1] = H[n]
  <2>1. Len(c) + 1 = n /\ 1 \in 1 .. n /\ n \in 1 .. n
    BY <1>1
  <2> QED BY <2>1, <1>1, <1>2, <1>3, <1>4, <1>5 DEF Chain
<1>7. /\ Pushed(bs[n], H[n], H[n + 1], T)
      /\ Sound(H[n], T, R) /\ Sound(H[n + 1], T, R)
  <2>1. n \in 1 .. n /\ n \in 1 .. n + 1 /\ n + 1 \in 1 .. n + 1
    BY <1>1
  <2> QED BY <2>1, <1>2
<1> QED BY <1>1, <1>6, <1>7 DEF c, n, Last

\* The point of a context is in the range of the innermost loop.
LEMMA SoundOwns ==
    ASSUME NEW h, NEW T, NEW R, Sound(h, T, R)
    PROVE  Owns(OwnPoint(h.point), h.loops)
<1> DEFINE p == h.point
<1>1. p \in Point /\ Inner(p, h.loops)
  BY DEF Sound
<1>2. p.counter \in SUBSET Int
  BY <1>1, PointFields
<1> HIDE DEF p
<1> SUFFICES ASSUME NEW l \in h.loops, \A k \in h.loops : k.from <= l.from
             PROVE  /\ OwnPoint(p)[1] \subseteq RangeOf(l)[1]
                    /\ OwnPoint(p)[2] \subseteq RangeOf(l)[2]
  BY DEF Owns, p
<1>3. /\ p.counter \subseteq l.low .. l.limit - 1 /\ p.max \subseteq {l.limit}
      /\ l.low \in Int /\ l.limit \in Int
  BY <1>1 DEF Inner, Latest
<1>4. \A c \in p.counter : c \in l.low .. l.limit /\ c + 1 \in l.low .. l.limit
  BY <1>2, <1>3
<1> QED BY <1>3, <1>4 DEF OwnPoint, RangeOf

\* The registers of p, and the counter's next value, are in OwnPoint(p).
LEMMA OwnWithin ==
    ASSUME NEW p \in Point
    PROVE  InRange(p, OwnPoint(p)) /\ InRange(Added(p), OwnPoint(p)) /\ InRange(Never, OwnPoint(p))
<1>1. /\ Added(p).counter = {c + 1 : c \in p.counter} /\ Added(p).max = p.max
      /\ Never.counter = {} /\ Never.max = {}
  BY AtFields DEF Added, Counting, Never
<1> QED BY <1>1 DEF InRange, OwnPoint

\* A label at p may be jumped to at p, and run into behind a jump.
LEMMA GoesIs ==
    ASSUME NEW p \in Point, NEW a, a = p \/ a = Never, NEW l, NEW T, Is(l, p, T)
    PROVE  Goes(l, a, T) /\ a \in Point /\ InRange(a, OwnPoint(p)) /\ T[l] = p
  BY NeverPoint, SubRefl, OwnWithin DEF Goes, Is

\* What is pushed is on top, and popping it leaves the point as it was.
LEMMA PushPop ==
    ASSUME NEW p \in Point, NEW v
    PROVE  /\ Len(Push(p, v).data) = Len(p.data) + 1 /\ Len(p.data) \in Nat
           /\ Drop(Push(p, v), 1) = p /\ Item(Push(p, v), 1) = v
           /\ Push(p, v).frame = p.frame
           /\ Push(p, v).counter = p.counter /\ Push(p, v).max = p.max
<1> DEFINE d == p.data
           e == Append(d, v)
           S == (SUBSET Int) \cup {v}
<1>1. d \in Seq(S)
  <2>1. d \in Seq(SUBSET Int)
    BY PointFields
  <2> QED BY <2>1
<1>2. v \in S
  OBVIOUS
<1> HIDE DEF d, S
<1>3. e \in Seq(S) /\ Len(e) = Len(d) + 1 /\ Len(d) \in Nat /\ e[Len(d) + 1] = v
      /\ \A i \in 1 .. Len(d) : e[i] = d[i]
  BY <1>1, <1>2
<1> HIDE DEF e
<1>4. SubSeq(e, 1, Len(d)) = d
  BY <1>1, <1>3, SliceSeq
<1>5. /\ Push(p, v).data = e /\ Push(p, v).frame = p.frame /\ Push(p, v).level = p.level
      /\ Push(p, v).counter = p.counter /\ Push(p, v).max = p.max
  BY DEF Push, At, e, d
<1>6. Drop(Push(p, v), 1) = At(p.level, p.frame, d, p.counter, p.max)
  <2>1. Len(e) - 1 = Len(d)
    BY <1>3
  <2> QED BY <1>4, <1>5, <2>1 DEF Drop
<1>7. Item(Push(p, v), 1) = v
  <2>1. Len(e) + 1 - 1 = Len(d) + 1
    BY <1>3
  <2> QED BY <2>1, <1>3, <1>5 DEF Item
<1>8. p = At(p.level, p.frame, d, p.counter, p.max)
  BY PointFields DEF d
<1> QED BY <1>3, <1>5, <1>6, <1>7, <1>8 DEF d

\* So it is with two values.
LEMMA PushPopTwice ==
    ASSUME NEW p \in Point, NEW v \in SUBSET Int, NEW w \in SUBSET Int
    PROVE  LET q == Push(Push(p, v), w)
           IN  /\ q \in Point /\ Len(q.data) > 1 /\ Len(q.data) \in Nat /\ Drop(q, 2) = p
               /\ Item(q, 1) = w /\ Item(q, 2) = v
<1> DEFINE r == Push(p, v)
           q == Push(r, w)
<1>1. r \in Point /\ q \in Point
  BY PushPoint
<1>2. Len(r.data) = Len(p.data) + 1 /\ Len(p.data) \in Nat /\ Drop(r, 1) = p /\ Item(r, 1) = v
  BY PushPop
<1> HIDE DEF r
<1>3. Len(q.data) = Len(r.data) + 1 /\ Drop(q, 1) = r /\ Item(q, 1) = w
  BY <1>1, PushPop
<1> HIDE DEF q
<1> DEFINE d == q.data
           n == Len(p.data)
<1>4. d \in Seq(SUBSET Int) /\ Len(d) = n + 2 /\ n \in Nat
  BY <1>1, <1>2, <1>3, PointFields
<1>5. SubSeq(d, 1, n + 1) = r.data /\ q.level = r.level /\ q.frame = r.frame
      /\ q.counter = r.counter /\ q.max = r.max
  <2>1. r = At(q.level, q.frame, SubSeq(d, 1, n + 1), q.counter, q.max)
    BY <1>3, <1>4 DEF Drop
  <2> HIDE DEF d, n
  <2> QED BY ONLY <2>1 DEF At
<1>6. SubSeq(r.data, 1, n) = p.data /\ r.level = p.level /\ r.frame = p.frame
      /\ r.counter = p.counter /\ r.max = p.max
  <2>0. Len(r.data) - 1 = n
    BY <1>2
  <2>1. p = At(r.level, r.frame, SubSeq(r.data, 1, n), r.counter, r.max)
    BY <1>2, <2>0 DEF Drop
  <2> HIDE DEF n
  <2> QED BY ONLY <2>1 DEF At
<1>7. SubSeq(d, 1, n) = p.data
  <2> HIDE DEF d, n
  <2> DEFINE e == SubSeq(d, 1, n + 1)
  <2>1. e \in Seq(SUBSET Int) /\ Len(e) = n + 1 /\ \A i \in 1 .. n + 1 : e[i] = d[i]
    BY <1>4, SliceSeq
  <2> HIDE DEF e
  <2>2. SubSeq(e, 1, n) \in Seq(SUBSET Int) /\ Len(SubSeq(e, 1, n)) = n /\ \A i \in 1 .. n : SubSeq(e, 1, n)[i] = e[i]
    BY <2>1, <1>4, SliceSeq
  <2>3. SubSeq(d, 1, n) \in Seq(SUBSET Int) /\ Len(SubSeq(d, 1, n)) = n /\ \A i \in 1 .. n : SubSeq(d, 1, n)[i] = d[i]
    BY <1>4, SliceSeq
  <2>4. SubSeq(d, 1, n) = SubSeq(e, 1, n)
    BY <2>1, <2>2, <2>3, <1>4
  <2> QED BY <2>4, <1>5, <1>6 DEF e
<1>8. Drop(q, 2) = p
  <2>1. Len(d) - 2 = n
    BY <1>4
  <2>2. Drop(q, 2) = At(q.level, q.frame, SubSeq(d, 1, n), q.counter, q.max)
    BY <2>1 DEF Drop
  <2>3. p = At(p.level, p.frame, p.data, p.counter, p.max)
    BY PointFields
  <2> HIDE DEF d
  <2> QED BY <2>2, <2>3, <1>5, <1>6, <1>7
<1>9. Item(q, 2) = v
  <2>1. Len(d) + 1 - 2 = n + 1 /\ Len(r.data) + 1 - 1 = n + 1 /\ n + 1 \in 1 .. n + 1
        /\ n + 1 \in Nat /\ n + 1 <= Len(d)
    BY <1>2, <1>4
  <2>2. d[n + 1] = r.data[n + 1]
    <3> HIDE DEF d, n
    <3> QED BY <1>4, <1>5, <2>1, SliceSeq
  <2>3. Item(q, 2) = d[n + 1]
    BY <2>1 DEF Item
  <2>4. Item(r, 1) = r.data[n + 1]
    BY <2>1 DEF Item
  <2> QED BY <2>2, <2>3, <2>4, <1>2
<1> QED BY <1>1, <1>3, <1>4, <1>8, <1>9 DEF r, q

\* The constants, the registers and the variables can be read; the variables are no
\* registers of the ranges.
LEMMA SourceFacts ==
    /\ Source(Condition) /\ Source(Maybe) /\ Source(nil) /\ Source(for_counter_reg)
    /\ Source(for_max_val)
    /\ \A n \in Int : Source(Constant(n))
    /\ Source(true)
    /\ \A x \in Variables : Source(x) /\ x \notin Ranged
    /\ cond_reg \notin Ranged /\ cond_reg[2] = 0 /\ ret_reg \notin Ranged /\ ret_reg[2] = 0
    /\ A \notin Ranged /\ A[2] = 0
    /\ for_counter_reg[2] = 0 /\ for_max_val[2] = 0 /\ for_counter_reg # for_max_val
<1>1. \A x \in Variables : Source(x) /\ x \notin Ranged
  BY DEF Variables, Source, Ranged, registers
<1> QED BY <1>1 DEF Source, Condition, Maybe, nil, for_counter_reg, for_max_val, Constant, true,
            cond_reg, ret_reg, A, Ranged

\* x, which is no register of the ranges, takes what is pushed.
LEMMA ChunkAssign ==
    ASSUME NEW p \in Point, NEW x, NEW y, NEW T, Source(y), x \notin Ranged, Writable(x, p)
    PROVE  Chunk(<<<<"PUSHS", y>>, <<"POPS", x>>>>, p, p, T, OwnPoint(p))
<1> DEFINE o == OwnPoint(p)
           q == Push(p, Val(y, p))
<1>1. Chunk(<<<<"PUSHS", y>>>>, p, q, T, o) /\ q \in Point
  BY ChunkPUSHS, OwnWithin, ValInt, PushPoint
<1>2. /\ Len(q.data) > 0 /\ Writable(x, q) /\ InRange(q, o)
      /\ Drop(q, 1) = p
  BY PushPop, OwnWithin DEF Writable, InRange
<1>3. Store(Drop(q, 1), x, Item(q, 1)) = p
  BY <1>2 DEF Store, Ranged
<1> HIDE DEF o, q
<1>4. Chunk(<<<<"POPS", x>>>>, q, p, T, o)
  BY <1>1, <1>2, <1>3, ChunkPOPS
<1>5. Chunk(<<<<"PUSHS", y>>, <<"POPS", x>>>>, p, p, T, o)
  BY <1>1, <1>4, ChunkTwo
<1> QED BY <1>5 DEF o

\* Branch: the test leaves nothing on the data stack, whether it jumps or not.
LEMMA ChunkBranch ==
    ASSUME NEW p \in Point, NEW l, NEW T, Goes(l, p, T)
    PROVE  Chunk(Branch(l), p, p, T, OwnPoint(p))
<1> DEFINE o == OwnPoint(p)
           q == Push(p, Val(Condition, p))
           r == Push(q, Val(true, q))
<1>0. Source(Condition) /\ Source(true)
  BY SourceFacts
<1>1. Chunk(<<<<"PUSHS", Condition>>>>, p, q, T, o) /\ q \in Point /\ Val(Condition, p) \in SUBSET Int
  BY <1>0, ChunkPUSHS, OwnWithin, ValInt, PushPoint
<1>2. InRange(q, o)
  BY PushPop, OwnWithin DEF InRange
<1>20. Val(true, q) \in SUBSET Int
  BY <1>0, <1>1, ValInt
<1>3. r \in Point /\ Drop(r, 2) = p /\ Len(r.data) > 1
  BY <1>1, <1>20, PushPopTwice
<1>4. r.counter = q.counter /\ r.max = q.max
  <2> HIDE DEF q
  <2> QED BY <1>1, PushPop
<1>40. InRange(r, o)
  BY <1>2, <1>4 DEF InRange
<1> HIDE DEF q, o
<1>5. Chunk(<<<<"PUSHS", true>>>>, q, r, T, o)
  BY <1>0, <1>1, <1>2, ChunkPUSHS
<1> HIDE DEF r
<1>6. Chunk(<<<<"JUMPIFNEQS", l>>>>, r, p, T, o)
  <2>1. Goes(l, Drop(r, 2), T)
    BY <1>3
  <2>2. Chunk(<<<<"JUMPIFNEQS", l>>>>, r, Drop(r, 2), T, o)
    BY <1>3, <1>40, <2>1, ChunkJUMPIFNEQS
  <2> QED BY <2>2, <1>3
<1>7. Chunk(<<<<"PUSHS", true>>, <<"JUMPIFNEQS", l>>>>, q, p, T, o)
  BY <1>5, <1>6, ChunkTwo
<1>8. Chunk(Branch(l), p, p, T, o)
  BY <1>1, <1>7, ChunkThree DEF Branch
<1> QED BY <1>8 DEF o

\* So does the test of an "if let".
LEMMA ChunkTest ==
    ASSUME NEW p \in Point, p.frame = 1, NEW l, NEW T, Goes(l, p, T), NEW n \in Nat, n > 0,
           NEW test, test = NoLet \/ test \in Variables
    PROVE  Chunk(TestCode(test, n, l), p, p, T, OwnPoint(p))
<1>1. CASE test = NoLet
  BY <1>1, ChunkBranch DEF TestCode
<1>2. CASE test # NoLet
  <2> DEFINE o == OwnPoint(p)
             q == Push(p, Val(test, p))
             x == Unwrapped(test, n)
  <2>0. test \in Variables /\ Source(test)
    BY <1>2, SourceFacts
  <2>1. x \notin Ranged
    BY DEF Unwrapped, Ranged, for_counter_reg, for_max_val
  <2>2. Chunk(<<<<"PUSHS", test>>>>, p, q, T, o) /\ q \in Point
    BY <2>0, ChunkPUSHS, OwnWithin, ValInt, PushPoint
  <2>3. /\ Len(q.data) > 0 /\ InRange(q, o) /\ q.frame = 1
        /\ Drop(q, 1) = p
    BY PushPop, OwnWithin DEF InRange
  <2> HIDE DEF q, o
  <2>4. Chunk(<<<<"MOVE", x, test>>>>, q, q, T, o)
    BY <2>0, <2>1, <2>2, <2>3, ChunkMOVE DEF Writable
  <2>5. Chunk(<<<<"POPS", cond_reg>>>>, q, p, T, o)
    <3>1. Store(Drop(q, 1), cond_reg, Item(q, 1)) = p /\ Writable(cond_reg, q)
      BY <2>3, SourceFacts DEF Store, Ranged, Writable
    <3> QED BY <3>1, <2>2, <2>3, ChunkPOPS
  <2>6. Chunk(<<<<"JUMPIFEQ", l, cond_reg, nil>>>>, p, p, T, o)
    <3>1. Unlike(p, cond_reg, nil) = p
      BY SourceFacts DEF Unlike, Ranged
    <3>2. InRange(p, o)
      BY OwnWithin DEF o
    <3>3. Chunk(<<<<"JUMPIFEQ", l, cond_reg, nil>>>>, p, Unlike(p, cond_reg, nil), T, o)
      BY <3>2, ChunkJUMPIFEQ
    <3> QED BY <3>1, <3>3
  <2>7. Chunk(<<<<"PUSHS", test>>, <<"MOVE", x, test>>>>, p, q, T, o)
    BY <2>2, <2>4, ChunkTwo
  <2>8. Chunk(<<<<"POPS", cond_reg>>, <<"JUMPIFEQ", l, cond_reg, nil>>>>, q, p, T, o)
    BY <2>5, <2>6, ChunkTwo
  <2>9. Chunk(<<<<"MOVE", x, test>>, <<"POPS", cond_reg>>, <<"JUMPIFEQ", l, cond_reg, nil>>>>, q, p, T, o)
    BY <2>4, <2>8, ChunkThree
  <2>10. TestCode(test, n, l) = <<<<"PUSHS", test>>, <<"MOVE", x, test>>, <<"POPS", cond_reg>>, <<"JUMPIFEQ", l, cond_reg, nil>>>>
    BY <1>2 DEF TestCode
  <2> QED BY <2>2, <2>9, <2>10, ChunkFour DEF o
<1> QED BY <1>1, <1>2

\* Any n integers are a piece of the data stack.
LEMMA IntsSeq ==
    ASSUME NEW n \in Nat
    PROVE  Ints(n) \in Seq(SUBSET Int) /\ Len(Ints(n)) = n /\ \A i \in 1 .. n : Ints(n)[i] = Int
<1> DEFINE s == Ints(n)
<1>1. s \in [1 .. n -> SUBSET Int] /\ \A i \in 1 .. n : s[i] = Int
  BY DEF Ints
<1> HIDE DEF s
<1> QED BY <1>1 DEF s

\* No integers.
LEMMA IntsZero == Ints(0) = <<>>
<1>1. Ints(0) \in Seq(SUBSET Int) /\ Len(Ints(0)) = 0
  BY IntsSeq
<1> QED BY <1>1

\* The places outside of the loops are points.
LEMMA PlacePoint ==
    ASSUME NEW R \in Int \X Int, NEW l \in {0, 1}, NEW n \in Nat
    PROVE  Outside(R, l, n) \in Point /\ Inside(R, l) \in Point
<1>1. <<>> \in Seq(SUBSET Int) /\ {R[1]} \in SUBSET Int /\ {R[2]} \in SUBSET Int
  OBVIOUS
<1> QED BY <1>1, IntsSeq, AtPoint DEF Outside, Inside

\* What is at the places outside of the loops.
LEMMA PlaceFields ==
    ASSUME NEW R, NEW l, NEW n
    PROVE  /\ Outside(R, l, n).level = l /\ Outside(R, l, n).frame = 0
           /\ Outside(R, l, n).data = Ints(n) /\ Outside(R, l, n).counter = {R[1]}
           /\ Outside(R, l, n).max = {R[2]}
           /\ Inside(R, l).level = l /\ Inside(R, l).frame = 1
           /\ Inside(R, l).data = <<>> /\ Inside(R, l).counter = {R[1]}
           /\ Inside(R, l).max = {R[2]}
  BY DEF Outside, Inside, At

\* Popping the parameters
LEMMA ChunkPops ==
    ASSUME NEW d, IsSeq(d), \A i \in 1 .. Len(d) : \E x \in Variables : d[i] = <<"POPS", x>>,
           NEW p \in Point, p.data = Ints(Len(d)), p.frame = 1, NEW T, NEW o, InRange(p, o)
    PROVE  Chunk(d, p, At(p.level, 1, <<>>, p.counter, p.max), T, o)
<1> DEFINE n == Len(d)
           q(k) == At(p.level, 1, Ints(k), p.counter, p.max)
           a == [i \in 1 .. n + 1 |-> q(n + 1 - i)]
<1>1. n \in Nat
  BY DEF IsSeq
<1> HIDE DEF n
<1>2. \A k \in Nat : /\ q(k) \in Point /\ q(k).data = Ints(k) /\ q(k).frame = 1
                     /\ q(k).level = p.level /\ q(k).counter = p.counter /\ q(k).max = p.max
                     /\ InRange(q(k), o)
  <2> TAKE k \in Nat
  <2>1. q(k) \in Point
    BY PointFields, IntsSeq, AtPoint
  <2>2. /\ q(k).data = Ints(k) /\ q(k).frame = 1
        /\ q(k).level = p.level /\ q(k).counter = p.counter /\ q(k).max = p.max
    BY DEF At
  <2> HIDE DEF q
  <2> QED BY <2>1, <2>2 DEF InRange
<1>3. \A k \in Nat : k > 0 => Drop(q(k), 1) = q(k - 1)
  <2> SUFFICES ASSUME NEW k \in Nat, k > 0
               PROVE  Drop(q(k), 1) = q(k - 1)
    OBVIOUS
  <2>1. SubSeq(Ints(k), 1, k - 1) = Ints(k - 1)
    <3>1. Ints(k) \in Seq(SUBSET Int) /\ Len(Ints(k)) = k /\ \A i \in 1 .. k : Ints(k)[i] = Int
      BY IntsSeq
    <3>2. k - 1 \in Nat /\ k - 1 <= Len(Ints(k))
      BY <3>1
    <3>3. Ints(k - 1) \in Seq(SUBSET Int) /\ Len(Ints(k - 1)) = k - 1 /\ \A i \in 1 .. k - 1 : Ints(k - 1)[i] = Int
      BY <3>2, IntsSeq
    <3> DEFINE e == SubSeq(Ints(k), 1, k - 1)
               f == Ints(k - 1)
    <3>4. e \in Seq(SUBSET Int) /\ Len(e) = k - 1 /\ \A i \in 1 .. k - 1 : e[i] = Ints(k)[i]
      BY <3>1, <3>2, SliceSeq
    <3> HIDE DEF e
    <3>5. \A i \in 1 .. k - 1 : e[i] = f[i]
      BY <3>1, <3>3, <3>4
    <3> HIDE DEF f
    <3>6. e = f
      BY <3>3, <3>4, <3>5 DEF f
    <3> QED BY <3>6 DEF e, f
  <2>2. Len(Ints(k)) = k
    BY IntsSeq
  <2>3. Drop(q(k), 1) = At(p.level, 1, SubSeq(Ints(k), 1, k - 1), p.counter, p.max)
    <3> HIDE DEF q
    <3> QED BY <1>2, <2>2 DEF Drop
  <2> QED BY <2>1, <2>3
<1>4. p = q(n)
  BY PointFields DEF n
<1>5. a \in [1 .. n + 1 -> Point] /\ \A i \in 1 .. n + 1 : a[i] = q(n + 1 - i)
  <2>1. \A i \in 1 .. n + 1 : n + 1 - i \in Nat
    BY <1>1
  <2> HIDE DEF q
  <2> QED BY <2>1, <1>2
<1> HIDE DEF a
<1>6. ASSUME NEW i \in 1 .. n
      PROVE  Flow(d[i], a[i], a[i + 1], T) /\ InRange(Arrival(d[i], a[i], T), o)
  <2> DEFINE k == n + 1 - i
  <2>1. k \in Nat /\ k > 0 /\ i \in 1 .. n + 1 /\ i + 1 \in 1 .. n + 1 /\ n + 1 - (i + 1) = k - 1
    BY <1>1
  <2>2. a[i] = q(k) /\ a[i + 1] = q(k - 1)
    BY <2>1, <1>5
  <2> HIDE DEF k, q
  <2>3. PICK x \in Variables : d[i] = <<"POPS", x>>
    BY DEF n
  <2>4. x \notin Ranged
    BY SourceFacts
  <2>5. Store(Drop(a[i], 1), x, Item(a[i], 1)) = a[i + 1]
    BY <2>1, <2>2, <2>4, <1>3 DEF Store, Ranged
  <2>6. Len(a[i].data) > 0 /\ Writable(x, a[i]) /\ InRange(a[i], o)
    BY <2>1, <2>2, <1>2, IntsSeq DEF Writable
  <2>7. Flow(d[i], a[i], a[i + 1], T)
    BY <2>3, <2>5, <2>6 DEF Flow
  <2>8. Arrival(d[i], a[i], T) = a[i]
    BY <2>3 DEF Arrival
  <2> QED BY <2>6, <2>7, <2>8
<1>7. a[1] = p /\ a[n + 1] = At(p.level, 1, <<>>, p.counter, p.max)
  <2>1. 1 \in 1 .. n + 1 /\ n + 1 \in 1 .. n + 1 /\ n + 1 - 1 = n /\ n + 1 - (n + 1) = 0
    BY <1>1
  <2>2. a[1] = q(n) /\ a[n + 1] = q(0)
    BY <2>1, <1>5
  <2> QED BY <2>2, <1>4, IntsZero
<1>8. Typed(d, a, T)
  BY <1>5, <1>6 DEF Typed, n
<1> QED BY <1>6, <1>7, <1>8 DEF Chunk, n

\* gen_used_vars: the definitions of variables, in a frame.
LEMMA ChunkDefvars ==
    ASSUME NEW xs \in Seq(Variables), NEW p \in Point, p.frame = 1, NEW T, NEW o, InRange(p, o)
    PROVE  Chunk(Defvars(xs), p, p, T, o)
<1> DEFINE d == Defvars(xs)
           n == Len(xs)
           a == [i \in 1 .. n + 1 |-> p]
<1>1. n \in Nat /\ DOMAIN xs = 1 .. n /\ \A i \in 1 .. n : xs[i] \in Variables
  OBVIOUS
<1> HIDE DEF n
<1>2. d = [i \in 1 .. n |-> <<"DEFVAR", xs[i]>>]
  BY <1>1 DEF Defvars
<1> HIDE DEF d
<1>3. IsSeq(d) /\ Len(d) = n /\ \A i \in 1 .. n : d[i] = <<"DEFVAR", xs[i]>>
  <2>1. d \in Seq({d[i] : i \in DOMAIN d})
    BY <1>1, <1>2
  <2> QED BY <2>1, <1>1, <1>2 DEF IsSeq
<1>4. a \in [1 .. n + 1 -> Point] /\ \A i \in 1 .. n + 1 : a[i] = p
  OBVIOUS
<1> HIDE DEF a
<1>5. ASSUME NEW i \in 1 .. n
      PROVE  Flow(d[i], a[i], a[i + 1], T) /\ InRange(Arrival(d[i], a[i], T), o)
  <2>1. a[i] = p /\ a[i + 1] = p
    BY <1>1, <1>4
  <2>2. xs[i] \notin Ranged /\ Writable(xs[i], p)
    BY <1>1, SourceFacts DEF Writable
  <2>3. Flow(d[i], a[i], a[i + 1], T)
    BY <1>3, <2>1, <2>2 DEF Flow
  <2>4. Arrival(d[i], a[i], T) = p
    BY <1>3, <2>1 DEF Arrival
  <2> QED BY <2>3, <2>4
<1>6. Typed(d, a, T) /\ a[1] = p /\ a[Len(d) + 1] = p
  BY <1>1, <1>3, <1>4, <1>5 DEF Typed
<1>7. Chunk(d, p, p, T, o)
  BY <1>3, <1>5, <1>6 DEF Chunk
<1> QED BY <1>7 DEF d

\* Pushing arguments
LEMMA ChunkArguments ==
    ASSUME NEW n \in Nat, NEW p \in Point, NEW T, NEW o, InRange(p, o)
    PROVE  \E q \in Point :
              /\ Chunk([i \in 1 .. n |-> <<"PUSHS", Constant(0)>>], p, q, T, o)
              /\ Len(q.data) >= n /\ Len(q.data) \in Nat /\ Drop(q, n) = p /\ InRange(q, o)
<1> DEFINE d == [i \in 1 .. n |-> <<"PUSHS", Constant(0)>>]
           m == Len(p.data)
           s(k) == [i \in 1 .. m + k |-> IF i <= m THEN p.data[i] ELSE {0}]
           q(k) == At(p.level, p.frame, s(k), p.counter, p.max)
           a == [i \in 1 .. n + 1 |-> q(i - 1)]
<1>1. p.data \in Seq(SUBSET Int) /\ m \in Nat /\ \A i \in 1 .. m : p.data[i] \in SUBSET Int
  BY PointFields
<1> HIDE DEF m
<1>2. \A k \in Nat : /\ s(k) \in Seq(SUBSET Int) /\ Len(s(k)) = m + k
                     /\ \A i \in 1 .. m + k : s(k)[i] = IF i <= m THEN p.data[i] ELSE {0}
  <2> TAKE k \in Nat
  <2>1. s(k) \in [1 .. m + k -> SUBSET Int]
    BY <1>1
  <2> DEFINE t == s(k)
  <2>2. \A i \in 1 .. m + k : t[i] = IF i <= m THEN p.data[i] ELSE {0}
    BY <1>1
  <2> HIDE DEF t
  <2>3. t \in Seq(SUBSET Int) /\ Len(t) = m + k
    BY <2>1, <1>1 DEF t
  <2> QED BY <2>2, <2>3 DEF t
<1>3. \A k \in Nat : Append(s(k), {0}) = s(k + 1)
  <2> TAKE k \in Nat
  <2> DEFINE t == s(k)
             u == s(k + 1)
             v == Append(t, {0})
  <2>1. t \in Seq(SUBSET Int) /\ Len(t) = m + k /\ \A i \in 1 .. m + k : t[i] = IF i <= m THEN p.data[i] ELSE {0}
    BY <1>2
  <2>2. k + 1 \in Nat
    OBVIOUS
  <2>3. u \in Seq(SUBSET Int) /\ Len(u) = m + (k + 1) /\ \A i \in 1 .. m + (k + 1) : u[i] = IF i <= m THEN p.data[i] ELSE {0}
    <3> HIDE DEF s
    <3> QED BY <2>2, <1>2
  <2> HIDE DEF t, u
  <2>4. {0} \in SUBSET Int
    OBVIOUS
  <2>5. v \in Seq(SUBSET Int) /\ Len(v) = m + k + 1
    BY <2>1, <2>4, <1>1
  <2>51. /\ \A i \in 1 .. Len(t) : v[i] = t[i]
         /\ v[Len(t) + 1] = {0}
    BY <2>1, <2>4, AppendSeq
  <2>6. \A i \in 1 .. m + k + 1 : v[i] = u[i]
    <3> HIDE DEF v
    <3> TAKE i \in 1 .. m + k + 1
    <3>0. i \in 1 .. m + (k + 1)
      BY <1>1
    <3>1. CASE i \in 1 .. m + k
      BY <3>0, <3>1, <2>1, <2>3, <2>51
    <3>2. CASE i = m + k + 1
      <4>1. v[i] = {0}
        BY <3>2, <2>1, <2>51
      <4>2. ~(i <= m)
        BY <3>2, <1>1
      <4> QED BY <4>1, <4>2, <3>0, <2>3
    <3> QED BY <3>1, <3>2, <1>1
  <2> HIDE DEF v
  <2>7. v = u
    BY <2>3, <2>5, <2>6, <1>1
  <2> QED BY <2>7 DEF t, u, v
<1>4. s(0) = p.data
  <2> DEFINE t == s(0)
  <2>1. t \in Seq(SUBSET Int) /\ Len(t) = m + 0 /\ \A i \in 1 .. m + 0 : t[i] = IF i <= m THEN p.data[i] ELSE {0}
    <3> HIDE DEF s
    <3> QED BY <1>2
  <2> HIDE DEF t
  <2> DEFINE e == p.data
  <2>2. e \in Seq(SUBSET Int) /\ Len(e) = m
    BY <1>1 DEF m
  <2>3. \A i \in 1 .. m : t[i] = e[i]
    BY <2>1, <1>1
  <2> HIDE DEF e
  <2>4. t = e
    BY <2>1, <2>2, <2>3, <1>1
  <2> QED BY <2>4 DEF t, e
<1> HIDE DEF s
<1>5. \A k \in Nat : /\ q(k) \in Point /\ q(k).data = s(k) /\ q(k).frame = p.frame
                     /\ q(k).level = p.level /\ q(k).counter = p.counter /\ q(k).max = p.max
                     /\ InRange(q(k), o)
  <2> TAKE k \in Nat
  <2>1. q(k) \in Point
    BY PointFields, AtPoint, <1>2
  <2>2. /\ q(k).data = s(k) /\ q(k).frame = p.frame
        /\ q(k).level = p.level /\ q(k).counter = p.counter /\ q(k).max = p.max
    BY DEF At
  <2> HIDE DEF q
  <2> QED BY <2>1, <2>2 DEF InRange
<1>6. q(0) = p
  BY <1>4, PointFields
<1>7. \A k \in Nat : Push(q(k), {0}) = q(k + 1)
  <2> TAKE k \in Nat
  <2>1. Push(q(k), {0}) = At(p.level, p.frame, Append(s(k), {0}), p.counter, p.max)
    <3> HIDE DEF q
    <3> QED BY <1>5 DEF Push
  <2> QED BY <2>1, <1>3
<1>8. Drop(q(n), n) = p
  <2>1. SubSeq(s(n), 1, m) = p.data
    <3> DEFINE e == SubSeq(s(n), 1, m)
    <3>1. s(n) \in Seq(SUBSET Int) /\ Len(s(n)) = m + n /\ \A i \in 1 .. m + n : s(n)[i] = IF i <= m THEN p.data[i] ELSE {0}
      BY <1>2
    <3>2. m <= Len(s(n))
      BY <3>1, <1>1
    <3>3. e \in Seq(SUBSET Int) /\ Len(e) = m /\ \A i \in 1 .. m : e[i] = s(n)[i]
      BY <3>1, <3>2, <1>1, SliceSeq
    <3> HIDE DEF e
    <3>4. \A i \in 1 .. m : e[i] = p.data[i]
      BY <3>1, <3>3, <1>1
    <3>5. e = p.data
      BY <3>3, <3>4, <1>1 DEF m
    <3> QED BY <3>5 DEF e
  <2>2. Len(s(n)) - n = m
    BY <1>1, <1>2
  <2>3. Drop(q(n), n) = At(p.level, p.frame, SubSeq(s(n), 1, m), p.counter, p.max)
    <3> HIDE DEF q
    <3> QED BY <1>5, <2>2 DEF Drop
  <2> QED BY <2>1, <2>3, PointFields
<1>9. a \in [1 .. n + 1 -> Point] /\ \A i \in 1 .. n + 1 : a[i] = q(i - 1)
  <2>1. \A i \in 1 .. n + 1 : i - 1 \in Nat
    OBVIOUS
  <2> HIDE DEF q
  <2> QED BY <2>1, <1>5
<1> HIDE DEF a
<1>10. ASSUME NEW i \in 1 .. n
       PROVE  Flow(d[i], a[i], a[i + 1], T) /\ InRange(Arrival(d[i], a[i], T), o)
  <2> DEFINE k == i - 1
  <2>1. k \in Nat /\ i \in 1 .. n + 1 /\ i + 1 \in 1 .. n + 1 /\ (i + 1) - 1 = k + 1
    OBVIOUS
  <2>2. a[i] = q(k) /\ a[i + 1] = q(k + 1)
    BY <2>1, <1>9
  <2> HIDE DEF k, q
  <2>3. d[i] = <<"PUSHS", Constant(0)>>
    OBVIOUS
  <2>4. Val(Constant(0), a[i]) = {0} /\ Source(Constant(0))
    BY DEF Val, Constant, Source, for_counter_reg, for_max_val
  <2>5. a[i + 1] = Push(a[i], Val(Constant(0), a[i]))
    BY <2>1, <2>2, <2>4, <1>7
  <2> HIDE DEF d
  <2>6. Flow(d[i], a[i], a[i + 1], T)
    BY <2>3, <2>4, <2>5 DEF Flow
  <2>7. Arrival(d[i], a[i], T) = a[i]
    BY <2>3 DEF Arrival
  <2> QED BY <2>1, <2>2, <2>6, <2>7, <1>5
<1>11. IsSeq(d) /\ Len(d) = n
  <2>1. d \in Seq({d[i] : i \in DOMAIN d})
    OBVIOUS
  <2>2. Len(d) = n
    OBVIOUS
  <2> QED BY <2>1, <2>2 DEF IsSeq
<1> HIDE DEF d
<1>12. Typed(d, a, T)
  BY <1>9, <1>10, <1>11 DEF Typed
<1>13. a[1] = p /\ a[n + 1] = q(n)
  <2>1. 1 \in 1 .. n + 1 /\ n + 1 \in 1 .. n + 1 /\ 1 - 1 = 0 /\ n + 1 - 1 = n
    OBVIOUS
  <2> HIDE DEF q
  <2> QED BY <2>1, <1>6, <1>9
<1>14. Chunk(d, p, q(n), T, o)
  <2> HIDE DEF q
  <2> QED BY <1>10, <1>11, <1>12, <1>13 DEF Chunk
<1>15. q(n) \in Point /\ Len(q(n).data) >= n /\ Len(q(n).data) \in Nat /\ InRange(q(n), o)
  <2>1. q(n) \in Point /\ q(n).data = s(n) /\ InRange(q(n), o)
    BY ONLY <1>5, n \in Nat
  <2> HIDE DEF q
  <2>2. Len(s(n)) = m + n
    BY <1>2
  <2>3. Len(s(n)) >= n /\ Len(s(n)) \in Nat
    BY <2>2, <1>1
  <2> QED BY <2>1, <2>3
<1> QED BY <1>8, <1>14, <1>15 DEF d

\* A value is put on the data stack of a point.
LEMMA PushAt ==
    ASSUME NEW l \in {0, 1}, NEW f \in {0, 1}, NEW d \in Seq(SUBSET Int), NEW x \in SUBSET Int,
           NEW c \in SUBSET Int, NEW m \in SUBSET Int
    PROVE  LET q == At(l, f, Append(d, x), c, m)
           IN  /\ q \in Point /\ Len(q.data) > 0
               /\ Drop(q, 1) = At(l, f, d, c, m) /\ Item(q, 1) = x
               /\ q = Push(At(l, f, d, c, m), x)
<1> DEFINE p == At(l, f, d, c, m)
           q == At(l, f, Append(d, x), c, m)
<1>1. p \in Point
  BY AtPoint
<1>2. q = Push(p, x)
  BY DEF Push, At
<1>3. Len(Push(p, x).data) = Len(p.data) + 1 /\ Len(p.data) \in Nat
      /\ Drop(Push(p, x), 1) = p /\ Item(Push(p, x), 1) = x
  <2> HIDE DEF p
  <2> QED BY <1>1, PushPop
<1>4. Push(p, x) \in Point
  <2> HIDE DEF p
  <2> QED BY <1>1, PushPoint
<1> HIDE DEF p, q
<1>5. /\ q \in Point /\ Len(q.data) > 0
      /\ Drop(q, 1) = p /\ Item(q, 1) = x /\ q = Push(p, x)
  BY <1>2, <1>3, <1>4
<1> QED BY <1>5 DEF p, q

\* gen_return: the frame is left and the function returns.
LEMMA ChunkGoBack ==
    ASSUME NEW R \in Int \X Int, NEW T, Is(Back, Outside(R, 1, 0), T), NEW b \in Point
    PROVE  Chunk(<<<<"POPFRAME">>, <<"RETURN">>>>, Inside(R, 1), b, T, OwnPoint(Inside(R, 1)))
<1> DEFINE p == Inside(R, 1)
           q == Outside(R, 1, 0)
           o == OwnPoint(p)
<1>1. p \in Point /\ q \in Point
  BY PlacePoint
<1>2. p.frame = 1 /\ Framed(p, 0) = q
  BY IntsZero DEF Framed, Outside, Inside, At
<1>3. InRange(p, o) /\ InRange(q, o)
  <2>1. p.counter = q.counter /\ p.max = q.max
    BY DEF Outside, Inside, At
  <2>2. InRange(p, o)
    BY <1>1, OwnWithin
  <2> QED BY <2>1, <2>2 DEF InRange
<1>4. Goes(Back, q, T)
  BY <1>1, SubRefl DEF Goes, Is
<1> HIDE DEF p, q, o
<1>5. Chunk(<<<<"POPFRAME">>>>, p, q, T, o)
  BY <1>1, <1>2, <1>3, ChunkPOPFRAME
<1>6. Chunk(<<<<"RETURN">>>>, q, b, T, o)
  BY <1>1, <1>3, <1>4, ChunkRETURN
<1>7. Chunk(<<<<"POPFRAME">>, <<"RETURN">>>>, p, b, T, o)
  BY <1>5, <1>6, ChunkTwo
<1> QED BY <1>7 DEF p, o

\* gen_return with a value, which goes to the register.
LEMMA ChunkReturnValue ==
    ASSUME NEW R \in Int \X Int, NEW T, Is(Back, Outside(R, 1, 0), T), NEW b \in Point
    PROVE  Chunk(<<<<"PUSHS", Constant(0)>>>> \o (<<<<"POPS", ret_reg>>>> \o <<<<"POPFRAME">>, <<"RETURN">>>>),
                 Inside(R, 1), b, T, OwnPoint(Inside(R, 1)))
<1> DEFINE p == Inside(R, 1)
           o == OwnPoint(p)
           q == Push(p, Val(Constant(0), p))
           d == <<<<"POPFRAME">>, <<"RETURN">>>>
<1>1. p \in Point /\ p.frame = 1
  BY PlacePoint, PlaceFields
<1>2. Chunk(d, p, b, T, o)
  BY ChunkGoBack
<1> HIDE DEF p, o, d
<1>3. Source(Constant(0)) /\ ret_reg \notin Ranged /\ ret_reg[2] = 0
  BY SourceFacts
<1>4. Chunk(<<<<"PUSHS", Constant(0)>>>>, p, q, T, o) /\ q \in Point
  BY <1>1, <1>3, ChunkPUSHS, OwnWithin, ValInt, PushPoint DEF o
<1>5. /\ Len(q.data) > 0 /\ Writable(ret_reg, q) /\ InRange(q, o)
      /\ Drop(q, 1) = p
  BY <1>1, <1>3, PushPop, OwnWithin DEF Writable, InRange, o
<1>6. Store(Drop(q, 1), ret_reg, Item(q, 1)) = p
  BY <1>3, <1>5 DEF Store, Ranged
<1> HIDE DEF q
<1>7. Chunk(<<<<"POPS", ret_reg>>>>, q, p, T, o)
  BY <1>4, <1>5, <1>6, ChunkPOPS
<1>8. Chunk(<<<<"POPS", ret_reg>>>> \o d, q, b, T, o)
  BY <1>2, <1>7, ChunkJoin
<1>9. Chunk(<<<<"PUSHS", Constant(0)>>>> \o (<<<<"POPS", ret_reg>>>> \o d), p, b, T, o)
  BY <1>4, <1>8, ChunkJoin
<1> QED BY <1>9 DEF p, o, d

\* A jump to one label of a block, and the other label
LEMMA ChunkJumpLabel ==
    ASSUME NEW p \in Point, NEW a, a = p \/ a = Never, NEW T, NEW l, NEW k,
           Is(l, p, T), Is(k, p, T)
    PROVE  Chunk(<<<<"JUMP", l>>, <<"LABEL", k>>>>, a, p, T, OwnPoint(p))
<1>1. a \in Point /\ Goes(l, a, T) /\ InRange(a, OwnPoint(p))
  BY GoesIs
<1>2. Chunk(<<<<"JUMP", l>>>>, a, p, T, OwnPoint(p))
  BY <1>1, ChunkJUMP
<1>3. Goes(k, p, T) /\ T[k] = p /\ InRange(p, OwnPoint(p))
  BY GoesIs
<1>4. Chunk(<<<<"LABEL", k>>>>, p, T[k], T, OwnPoint(p))
  BY <1>3, ChunkLABEL
<1> QED BY <1>2, <1>3, <1>4, ChunkTwo

\* A label of a block that is run into, or not reached from above.
LEMMA ChunkLabel ==
    ASSUME NEW p \in Point, NEW a, a = p \/ a = Never, NEW T, NEW k, Is(k, p, T)
    PROVE  Chunk(<<<<"LABEL", k>>>>, a, p, T, OwnPoint(p))
<1>1. a \in Point /\ Goes(k, a, T) /\ T[k] = p /\ InRange(p, OwnPoint(p))
  BY GoesIs, OwnWithin
<1>2. Chunk(<<<<"LABEL", k>>>>, a, T[k], T, OwnPoint(p))
  BY <1>1, ChunkLABEL
<1> QED BY <1>1, <1>2

\* The step of a for loop
LEMMA ChunkNext ==
    ASSUME NEW a \in Point, NEW b \in Point, NEW l, NEW T, NEW o, Goes(l, Added(a), T),
           InRange(a, o), InRange(Added(a), o)
    PROVE  Chunk(<<<<"ADD", for_counter_reg>>, <<"JUMP", l>>>>, a, b, T, o)
<1>1. Chunk(<<<<"ADD", for_counter_reg>>>>, a, Added(a), T, o)
  BY ChunkADD
<1>2. Added(a) \in Point
  BY <1>1, ChunkSeq
<1>3. Chunk(<<<<"JUMP", l>>>>, Added(a), b, T, o)
  BY <1>2, ChunkJUMP
<1> QED BY <1>1, <1>3, ChunkTwo

\* A range of integers, from its first value to its limit.
RangeFields(l) == l.low \in Int /\ l.limit \in Int /\ l.low <= l.limit

\* The points of a loop; the counter stays in its range when it counts in the body.
LEMMA LoopPoints ==
    ASSUME NEW p \in Point, NEW l, RangeFields(l)
    PROVE  /\ Looping(p, l) \in Point /\ Body(p, l) \in Point
           /\ Body(p, l).frame = 1 /\ Body(p, l).counter = l.low .. l.limit - 1
           /\ Body(p, l).max = {l.limit}
           /\ InRange(Looping(p, l), RangeOf(l)) /\ InRange(Body(p, l), RangeOf(l))
           /\ InRange(Added(Body(p, l)), RangeOf(l))
           /\ Sub(Added(Body(p, l)), Looping(p, l))
           /\ Sub(At(p.level, 1, Saved(p), {l.low}, {l.limit}), Looping(p, l))
           /\ Unlike(Looping(p, l), for_counter_reg, for_max_val) = Body(p, l)
<1> DEFINE q == Looping(p, l)
           b == Body(p, l)
           C == l.low .. l.limit
           D == l.low .. l.limit - 1
           s == Saved(p)
<1>1. /\ l.low \in Int /\ l.limit \in Int /\ l.low <= l.limit
      /\ C \in SUBSET Int /\ D \in SUBSET Int /\ {l.limit} \in SUBSET Int
      /\ D \subseteq C /\ {l.low} \subseteq C
  BY DEF RangeFields
<1>2. s \in Seq(SUBSET Int) /\ p.level \in {0, 1}
  BY PointFields DEF Saved
<1>3. q = At(p.level, 1, s, C, {l.limit}) /\ b = At(p.level, 1, s, D, {l.limit})
  BY DEF Looping, Body
<1>30. {c + 1 : c \in D} \subseteq C
  BY <1>1
<1>31. {c \in C : {l.limit} # {c}} = D
  BY <1>1
<1>32. RangeOf(l) = <<C, {l.limit}>>
  BY DEF RangeOf
<1> HIDE DEF s, C, D
<1>4. q \in Point /\ b \in Point
  BY <1>1, <1>2, <1>3, AtPoint
<1>5. /\ q.level = p.level /\ q.frame = 1 /\ q.data = s /\ q.counter = C /\ q.max = {l.limit}
      /\ b.level = p.level /\ b.frame = 1 /\ b.data = s /\ b.counter = D /\ b.max = {l.limit}
  BY <1>3 DEF At
<1>6. /\ Added(b).level = p.level /\ Added(b).frame = 1 /\ Added(b).data = s
      /\ Added(b).counter = {c + 1 : c \in D} /\ Added(b).max = {l.limit}
  <2> HIDE DEF b
  <2> QED BY <1>5 DEF Added, Counting, At
<1>7. Sub(Added(b), q)
  <2> DEFINE e == Added(b)
  <2> HIDE DEF e, q, b
  <2>1. e.counter \subseteq q.counter /\ e.max = q.max /\ e.data = q.data /\ e.level = q.level /\ e.frame = q.frame
    BY <1>5, <1>6, <1>30 DEF e
  <2> QED BY <2>1 DEF Sub, e
<1>8. Sub(At(p.level, 1, s, {l.low}, {l.limit}), q)
  <2> DEFINE e == At(p.level, 1, s, {l.low}, {l.limit})
  <2>0. e.counter = {l.low} /\ e.max = {l.limit} /\ e.data = s /\ e.level = p.level /\ e.frame = 1
    BY DEF At
  <2> HIDE DEF e, q, b
  <2>1. e.counter \subseteq q.counter /\ e.max = q.max /\ e.data = q.data /\ e.level = q.level /\ e.frame = q.frame
    BY <1>5, <2>0, <1>1
  <2> QED BY <2>1 DEF Sub, e
<1>9. Unlike(q, for_counter_reg, for_max_val) = b
  <2>1. Unlike(q, for_counter_reg, for_max_val) = Counting(q, {c \in q.counter : q.max # {c}})
    BY DEF Unlike
  <2>2. {c \in q.counter : q.max # {c}} = D
    <3> HIDE DEF q
    <3> QED BY <1>5, <1>31
  <2>3. Counting(q, D) = At(p.level, 1, s, D, {l.limit})
    <3> HIDE DEF q
    <3> QED BY <1>5 DEF Counting
  <2> HIDE DEF q, b
  <2> QED BY <2>1, <2>2, <2>3, <1>3
<1>10. InRange(q, RangeOf(l)) /\ InRange(b, RangeOf(l)) /\ InRange(Added(b), RangeOf(l))
  <2> HIDE DEF q, b
  <2> QED BY <1>5, <1>6, <1>1, <1>30, <1>32 DEF InRange
<1> HIDE DEF q, b
<1>11. b.counter = l.low .. l.limit - 1
  BY <1>5 DEF D
<1> QED BY <1>4, <1>5, <1>7, <1>8, <1>9, <1>10, <1>11 DEF q, b, s

\* The head of a for loop, up to what gives the counter its first value
ForHead(range) ==
    gen_for_range_save \o <<<<"PUSHS", Constant(range.low)>>, <<"PUSHS", Constant(range.high)>>>>
    \o (IF range.open THEN <<>> ELSE <<<<"PUSHS", Constant(1)>>, <<"ADDS">>>>)
    \o <<<<"POPS", for_max_val>>>>

\* The ranges of the model, parser.c's RANGE.
LEMMA RangeFacts ==
    ASSUME NEW range \in Ranges
    PROVE  /\ range.low \in Int /\ range.high \in Int /\ LimitOf(range) \in Int
           /\ range.low <= LimitOf(range) /\ range.open \in BOOLEAN
           /\ range.names \in {{}, {"i"}}
           /\ range.open => LimitOf(range) = range.high
           /\ ~range.open => LimitOf(range) = range.high + 1
<1> DEFINE r == [names |-> {"i"}, low |-> 0, high |-> 1, open |-> TRUE]
           s == [names |-> {}, low |-> 1, high |-> 2, open |-> FALSE]
<1>1. range = r \/ range = s
  BY DEF Ranges
<1>2. CASE range = r
  BY <1>2 DEF LimitOf
<1>3. CASE range = s
  BY <1>3 DEF LimitOf
<1> QED BY <1>1, <1>2, <1>3

\* What a for loop starts from
Starting(p, l) == At(p.level, 1, Saved(p), {l.low}, {l.limit})

\* The limit is set and the first value of the counter is on the data stack.
Setting(p, l) == At(p.level, 1, Append(Saved(p), {l.low}), p.counter, {l.limit})

\* The head of a for loop saves the range around, then sets the limit.
LEMMA ChunkForHead ==
    ASSUME NEW p \in Point, p.frame = 1, NEW range \in Ranges, NEW T, NEW l,
           l.low = range.low, l.limit = LimitOf(range)
    PROVE  /\ Chunk(ForHead(range), p, Setting(p, l), T, <<Int, Int>>)
           /\ Chunk(ForHead(range), p, Setting(p, l), T, OwnPoint(p))
<1> SUFFICES ASSUME NEW o, InRange(p, o)
             PROVE  Chunk(ForHead(range), p, Setting(p, l), T, o)
  <2>1. InRange(p, OwnPoint(p)) /\ InRange(p, <<Int, Int>>)
    BY OwnWithin, PointFields DEF InRange
  <2> QED BY <2>1
<1> DEFINE q1 == Push(p, p.counter)
           q2 == Push(q1, p.max)
           q3 == Push(q2, {range.low})
           q4 == Push(q3, {range.high})
           q5 == Push(q3, {l.limit})
<1>0. /\ range.low \in Int /\ range.high \in Int /\ l.limit \in Int /\ range.open \in BOOLEAN
      /\ {range.low} \in SUBSET Int /\ {range.high} \in SUBSET Int /\ {l.limit} \in SUBSET Int
      /\ p.counter \in SUBSET Int /\ p.max \in SUBSET Int
      /\ range.open => l.limit = range.high
      /\ ~range.open => l.limit = range.high + 1
  BY RangeFacts, PointFields
<1>1. q1 \in Point /\ q2 \in Point /\ q3 \in Point /\ q4 \in Point /\ q5 \in Point
  BY <1>0, PushPoint
<1>2. /\ Val(for_counter_reg, p) = p.counter
      /\ Val(for_max_val, q1) = p.max
      /\ Val(Constant(range.low), q2) = {range.low} /\ Val(Constant(range.high), q3) = {range.high}
      /\ Val(Constant(1), q4) = {1}
  <2>1. q1.max = p.max
    BY PushPop
  <2> HIDE DEF q1, q2, q3, q4
  <2> QED BY <2>1, SourceFacts DEF Val, Constant, for_counter_reg, for_max_val
<1>3. /\ Source(for_counter_reg) /\ Source(for_max_val) /\ Source(Constant(range.low))
      /\ Source(Constant(range.high)) /\ Source(Constant(1))
  BY <1>0, SourceFacts
<1>4. InRange(q1, o) /\ InRange(q2, o) /\ InRange(q3, o) /\ InRange(q4, o) /\ InRange(q5, o)
  BY DEF InRange, Push, At
<1> HIDE DEF q1
<1>5. Chunk(<<<<"PUSHS", for_counter_reg>>>>, p, q1, T, o)
  BY <1>2, <1>3, ChunkPUSHS DEF q1
<1> HIDE DEF q2
<1>6. Chunk(<<<<"PUSHS", for_max_val>>>>, q1, q2, T, o)
  BY <1>1, <1>2, <1>3, <1>4, ChunkPUSHS DEF q2
<1> HIDE DEF q3
<1>7. Chunk(<<<<"PUSHS", Constant(range.low)>>>>, q2, q3, T, o)
  BY <1>1, <1>2, <1>3, <1>4, ChunkPUSHS DEF q3
<1> HIDE DEF q4, q5
<1>8. Chunk(<<<<"PUSHS", Constant(range.high)>>>>, q3, q4, T, o)
  BY <1>1, <1>2, <1>3, <1>4, ChunkPUSHS DEF q4
<1> DEFINE add == IF range.open THEN <<>> ELSE <<<<"PUSHS", Constant(1)>>, <<"ADDS">>>>
<1>9. Chunk(add, q4, q5, T, o)
  <2>1. CASE range.open
    <3>1. q4 = q5
      BY <1>0, <2>1 DEF q4, q5
    <3> QED BY <2>1, <3>1, <1>1, ChunkEmpty
  <2>2. CASE ~range.open
    <3> DEFINE r == Push(q4, {1})
    <3>1. /\ r \in Point /\ Len(r.data) > 1 /\ Len(r.data) \in Nat /\ Drop(r, 2) = q3
          /\ Item(r, 1) = {1} /\ Item(r, 2) = {range.high}
      BY <1>0, <1>1, PushPopTwice DEF q4
    <3>2. InRange(r, o)
      BY <1>4 DEF InRange, Push, At
    <3>3. Chunk(<<<<"PUSHS", Constant(1)>>>>, q4, r, T, o)
      BY <1>1, <1>2, <1>3, <1>4, ChunkPUSHS
    <3> HIDE DEF r
    <3>4. Sums(Item(r, 1), Item(r, 2)) = {l.limit}
      <4> DEFINE v == Item(r, 1)
                 w == Item(r, 2)
      <4>1. v = {1} /\ w = {range.high} /\ l.limit = 1 + range.high
        BY <3>1, <1>0, <2>2
      <4> HIDE DEF v, w
      <4>2. \A y \in v \X w : y[1] + y[2] = l.limit
        BY <4>1
      <4>3. <<1, range.high>> \in v \X w
        BY <4>1
      <4>4. Sums(v, w) = {l.limit}
        BY <4>2, <4>3 DEF Sums
      <4> QED BY <4>4 DEF v, w
    <3>5. Chunk(<<<<"ADDS">>>>, r, Push(Drop(r, 2), Sums(Item(r, 1), Item(r, 2))), T, o)
      BY <3>1, <3>2, ChunkADDS
    <3>6. Chunk(<<<<"ADDS">>>>, r, q5, T, o)
      BY <3>1, <3>4, <3>5 DEF q5
    <3>7. Chunk(<<<<"PUSHS", Constant(1)>>, <<"ADDS">>>>, q4, q5, T, o)
      BY <3>3, <3>6, ChunkTwo
    <3> QED BY <3>7, <2>2
  <2> QED BY <2>1, <2>2
<1>10. Chunk(<<<<"POPS", for_max_val>>>>, q5, Setting(p, l), T, o)
  <2>1. /\ Len(q5.data) > 0 /\ Writable(for_max_val, q5)
        /\ Drop(q5, 1) = q3 /\ Item(q5, 1) = {l.limit}
    <3>1. Len(q5.data) = Len(q3.data) + 1 /\ Len(q3.data) \in Nat /\ Drop(q5, 1) = q3 /\ Item(q5, 1) = {l.limit}
      BY <1>1, PushPop DEF q5
    <3> QED BY <3>1, SourceFacts DEF Writable
  <2>2. Store(Drop(q5, 1), for_max_val, Item(q5, 1)) = Limited(q3, {l.limit})
    BY <2>1, SourceFacts DEF Store
  <2>3. Limited(q3, {l.limit}) = Setting(p, l)
    BY DEF Limited, Setting, q3, q2, q1, Push, At, Saved
  <2>4. Chunk(<<<<"POPS", for_max_val>>>>, q5, Store(Drop(q5, 1), for_max_val, Item(q5, 1)), T, o)
    BY <1>1, <1>4, <2>1, ChunkPOPS
  <2> QED BY <2>2, <2>3, <2>4
<1> HIDE DEF add
<1>11. Chunk(gen_for_range_save, p, q2, T, o)
  BY <1>5, <1>6, ChunkTwo DEF gen_for_range_save
<1>12. Chunk(<<<<"PUSHS", Constant(range.low)>>, <<"PUSHS", Constant(range.high)>>>>, q2, q4, T, o)
  BY <1>7, <1>8, ChunkTwo
<1> DEFINE d1 == gen_for_range_save
           d2 == <<<<"PUSHS", Constant(range.low)>>, <<"PUSHS", Constant(range.high)>>>>
           d4 == <<<<"POPS", for_max_val>>>>
<1>13. ForHead(range) = ((d1 \o d2) \o add) \o d4
  BY DEF ForHead, add
<1> HIDE DEF d1, d2, d4
<1>14. Chunk(d1 \o d2, p, q4, T, o)
  BY <1>11, <1>12, ChunkJoin DEF d1, d2
<1>15. Chunk((d1 \o d2) \o add, p, q5, T, o)
  BY <1>14, <1>9, ChunkJoin
<1>16. Chunk(((d1 \o d2) \o add) \o d4, p, Setting(p, l), T, o)
  BY <1>15, <1>10, ChunkJoin DEF d4
<1> QED BY <1>13, <1>16

\* The last line of the head gives the counter its first value.
LEMMA ChunkForFirst ==
    ASSUME NEW p \in Point, NEW l, RangeFields(l), NEW T
    PROVE  /\ Setting(p, l) \in Point /\ Starting(p, l) \in Point
           /\ Chunk(<<<<"POPS", for_counter_reg>>>>, Setting(p, l), Starting(p, l), T, <<Int, Int>>)
<1> DEFINE q == Setting(p, l)
           r == At(p.level, 1, Saved(p), p.counter, {l.limit})
<1>0. /\ Saved(p) \in Seq(SUBSET Int) /\ {l.low} \in SUBSET Int /\ {l.limit} \in SUBSET Int
      /\ p.counter \in SUBSET Int /\ p.level \in {0, 1}
  BY PointFields DEF RangeFields, Saved
<1>1. /\ q \in Point /\ Len(q.data) > 0 /\ Drop(q, 1) = r /\ Item(q, 1) = {l.low}
  BY <1>0, PushAt DEF Setting
<1>2. Starting(p, l) \in Point /\ Counting(r, {l.low}) = Starting(p, l)
  BY <1>0, AtPoint DEF Starting, Counting, At
<1>3. InRange(q, <<Int, Int>>)
  BY <1>1, PointFields DEF InRange
<1>4. Writable(for_counter_reg, q)
  BY SourceFacts DEF Writable
<1> HIDE DEF q, r
<1>5. Store(Drop(q, 1), for_counter_reg, Item(q, 1)) = Starting(p, l)
  BY <1>1, <1>2 DEF Store
<1>6. Chunk(<<<<"POPS", for_counter_reg>>>>, q, Starting(p, l), T, <<Int, Int>>)
  BY <1>1, <1>3, <1>4, <1>5, ChunkPOPS
<1> QED BY <1>1, <1>2, <1>6 DEF q

\* The start of a loop leads to its body with the counter below the limit.
LEMMA ChunkForStart ==
    ASSUME NEW p \in Point, NEW l, RangeFields(l), NEW T, NEW s, NEW e, NEW x, NEW names,
           Is(s, Looping(p, l), T), Is(e, Looping(p, l), T), names # {} => x \notin Ranged
    PROVE  Chunk(<<<<"LABEL", s>>, <<"JUMPIFEQ", e, for_counter_reg, for_max_val>>>>
                 \o (IF names = {} THEN <<>> ELSE <<<<"MOVE", x, for_counter_reg>>>>),
                 Starting(p, l), Body(p, l), T, RangeOf(l))
<1> DEFINE q == Looping(p, l)
           b == Body(p, l)
           a == Starting(p, l)
           o == RangeOf(l)
           d == IF names = {} THEN <<>> ELSE <<<<"MOVE", x, for_counter_reg>>>>
           h == <<<<"LABEL", s>>, <<"JUMPIFEQ", e, for_counter_reg, for_max_val>>>>
<1>1. /\ q \in Point /\ b \in Point /\ b.frame = 1
      /\ InRange(q, o) /\ InRange(b, o) /\ Sub(a, q)
      /\ Unlike(q, for_counter_reg, for_max_val) = b
      /\ a \in Point
  BY LoopPoints, ChunkForFirst DEF Starting
<1>2. /\ Goes(s, a, T) /\ T[s] = q /\ Goes(e, q, T)
  BY <1>1, SubRefl DEF Is, Goes
<1> HIDE DEF q, b, a, o, d
<1>3. Chunk(<<<<"LABEL", s>>>>, a, T[s], T, o)
  BY <1>1, <1>2, ChunkLABEL
<1>4. Chunk(<<<<"JUMPIFEQ", e, for_counter_reg, for_max_val>>>>, q, Unlike(q, for_counter_reg, for_max_val), T, o)
  BY <1>1, <1>2, ChunkJUMPIFEQ
<1>5. Chunk(h, a, b, T, o)
  BY <1>1, <1>2, <1>3, <1>4, ChunkTwo
<1>6. Chunk(d, b, b, T, o)
  <2>1. CASE names = {}
    BY <2>1, <1>1, ChunkEmpty DEF d
  <2>2. CASE names # {}
    <3>1. Source(for_counter_reg) /\ Writable(x, b)
      BY <1>1, SourceFacts DEF Writable
    <3> QED BY <2>2, <3>1, <1>1, ChunkMOVE DEF d
  <2> QED BY <2>1, <2>2
<1>7. Chunk(h \o d, a, b, T, o)
  BY <1>5, <1>6, ChunkJoin
<1> QED BY <1>7 DEF q, b, a, o, d

\* gen_for_range_restore: behind its end a loop leaves everything as it was.
LEMMA ChunkForEnd ==
    ASSUME NEW p \in Point, p.frame = 1, NEW l, RangeFields(l), NEW T, NEW e, Is(e, Looping(p, l), T)
    PROVE  Chunk(<<<<"LABEL", e>>>> \o gen_for_range_restore, Never, p, T, <<Int, Int>>)
<1> DEFINE q == Looping(p, l)
           o == <<Int, Int>>
           C == l.low .. l.limit
           r == At(p.level, 1, Append(p.data, p.counter), C, p.max)
           t == At(p.level, 1, Append(p.data, p.counter), C, {l.limit})
           u == At(p.level, 1, p.data, C, p.max)
<1>0. /\ p.data \in Seq(SUBSET Int) /\ {l.limit} \in SUBSET Int /\ p.max \in SUBSET Int
      /\ p.counter \in SUBSET Int /\ p.level \in {0, 1} /\ C \in SUBSET Int
      /\ p = At(p.level, p.frame, p.data, p.counter, p.max)
      /\ Append(p.data, p.counter) \in Seq(SUBSET Int)
  BY PointFields DEF RangeFields
<1>1. q = At(p.level, 1, Append(Append(p.data, p.counter), p.max), C, {l.limit})
  BY DEF Looping, Saved
<1> HIDE DEF C
<1>2. q \in Point /\ Len(q.data) > 0 /\ Drop(q, 1) = t /\ Item(q, 1) = p.max
  <2> DEFINE d1 == Append(p.data, p.counter)
             q1 == At(p.level, 1, Append(d1, p.max), C, {l.limit})
  <2>1. d1 \in Seq(SUBSET Int)
    BY <1>0
  <2>2. t = At(p.level, 1, d1, C, {l.limit}) /\ q = q1
    BY <1>1
  <2> HIDE DEF d1, q, t
  <2>3. q1 \in Point /\ Len(q1.data) > 0 /\ Drop(q1, 1) = At(p.level, 1, d1, C, {l.limit}) /\ Item(q1, 1) = p.max
    BY ONLY <1>0, <2>1, PushAt
  <2> QED BY <2>2, <2>3
<1>3. r \in Point /\ Len(r.data) > 0 /\ Drop(r, 1) = u /\ Item(r, 1) = p.counter
  BY <1>0, PushAt
<1>4. Limited(t, p.max) = r /\ Counting(u, p.counter) = p
  <2>1. Limited(t, p.max) = r
    BY DEF Limited, At
  <2>2. Counting(u, p.counter) = At(p.level, 1, p.data, p.counter, p.max)
    BY DEF Counting, At
  <2> HIDE DEF u
  <2> QED BY <2>1, <2>2, <1>0
<1>5. Goes(e, Never, T) /\ T[e] = q
  BY NeverPoint DEF Goes, Is
<1> HIDE DEF q, r, t, u
<1>6. InRange(q, o) /\ InRange(r, o)
  BY <1>2, <1>3, PointFields DEF InRange
<1>7. Chunk(<<<<"LABEL", e>>>>, Never, T[e], T, o)
  BY <1>2, <1>5, <1>6, NeverPoint, ChunkLABEL
<1>8. Chunk(<<<<"POPS", for_max_val>>>>, q, r, T, o)
  <2>1. Store(Drop(q, 1), for_max_val, Item(q, 1)) = r /\ Writable(for_max_val, q)
    BY <1>2, <1>4, SourceFacts DEF Store, Writable
  <2> QED BY <2>1, <1>2, <1>6, ChunkPOPS
<1>9. Chunk(<<<<"POPS", for_counter_reg>>>>, r, p, T, o)
  <2>1. Store(Drop(r, 1), for_counter_reg, Item(r, 1)) = p /\ Writable(for_counter_reg, r)
    BY <1>3, <1>4, SourceFacts DEF Store, Writable
  <2> QED BY <2>1, <1>3, <1>6, ChunkPOPS
<1>10. Chunk(gen_for_range_restore, q, p, T, o)
  BY <1>8, <1>9, ChunkTwo DEF gen_for_range_restore
<1> QED BY <1>5, <1>7, <1>10, ChunkJoin

\* A function has its frame, and its arguments are on the data stack.
Entered(R, n) == At(1, 1, Ints(n), {R[1]}, {R[2]})

\* The points outside of all loops
LEMMA PlainPoints ==
    ASSUME NEW R \in Int \X Int, NEW n \in Nat
    PROVE  /\ Inside(R, 0) \in Point /\ Inside(R, 1) \in Point /\ Entered(R, n) \in Point
           /\ Outside(R, 0, 0) \in Point /\ Outside(R, 1, n) \in Point
           /\ Inside(R, 0).frame = 1 /\ Inside(R, 1).frame = 1 /\ Entered(R, n).frame = 1
           /\ Entered(R, n).data = Ints(n) /\ Entered(R, n).level = 1
           /\ At(1, 1, <<>>, {R[1]}, {R[2]}) = Inside(R, 1)
           /\ Entered(R, n).counter = {R[1]} /\ Entered(R, n).max = {R[2]}
           /\ Framed(Outside(R, 1, n), 1) = Entered(R, n) /\ Outside(R, 1, n).frame = 0
           /\ Framed(Outside(R, 0, 0), 1) = Inside(R, 0) /\ Outside(R, 0, 0).frame = 0
           /\ Framed(Inside(R, 0), 0) = Outside(R, 0, 0)
           /\ SameFrame(Entered(R, n), Inside(R, 1))
<1>1. /\ {R[1]} \in SUBSET Int /\ {R[2]} \in SUBSET Int
      /\ Ints(n) \in Seq(SUBSET Int) /\ <<>> \in Seq(SUBSET Int) /\ Ints(0) = <<>>
  BY IntsSeq, IntsZero
<1>2. /\ Inside(R, 0) \in Point /\ Inside(R, 1) \in Point /\ Entered(R, n) \in Point
      /\ Outside(R, 0, 0) \in Point /\ Outside(R, 1, n) \in Point
  BY <1>1, AtPoint DEF Inside, Entered, Outside
<1> HIDE DEF Ints
<1>3. /\ Inside(R, 0).frame = 1 /\ Inside(R, 1).frame = 1 /\ Entered(R, n).frame = 1
      /\ Entered(R, n).data = Ints(n) /\ Entered(R, n).level = 1
      /\ At(1, 1, <<>>, {R[1]}, {R[2]}) = Inside(R, 1)
      /\ Entered(R, n).counter = {R[1]} /\ Entered(R, n).max = {R[2]}
      /\ Outside(R, 1, n).frame = 0 /\ Outside(R, 0, 0).frame = 0
      /\ SameFrame(Entered(R, n), Inside(R, 1))
  BY DEF Inside, Outside, Entered, At, SameFrame
<1>4. /\ Framed(Outside(R, 1, n), 1) = Entered(R, n)
      /\ Framed(Outside(R, 0, 0), 1) = Inside(R, 0)
      /\ Framed(Inside(R, 0), 0) = Outside(R, 0, 0)
  BY <1>1 DEF Inside, Outside, Entered, At, Framed
<1> QED BY <1>2, <1>3, <1>4

\* o keeps to the range R
Keeps(R, o) == R[1] \in o[1] /\ R[2] \in o[2]

\* The points outside of the loops are in the range R.
LEMMA PlainWithin ==
    ASSUME NEW R \in Int \X Int, NEW n \in Nat, NEW o, Keeps(R, o)
    PROVE  /\ InRange(Inside(R, 0), o) /\ InRange(Inside(R, 1), o) /\ InRange(Entered(R, n), o)
           /\ InRange(Outside(R, 0, 0), o) /\ InRange(Outside(R, 1, n), o)
           /\ InRange(Never, o)
  BY DEF Keeps, InRange, Inside, Outside, Entered, Never, At

\* The range around is among the registers' values outside of the loops.
LEMMA OwnKeeps ==
    ASSUME NEW R
    PROVE  Keeps(R, OwnPoint(Inside(R, 0))) /\ Keeps(R, OwnPoint(Inside(R, 1)))
  BY DEF Keeps, OwnPoint, Inside, At

\* A jump over what is elsewhere, and the label of that.
LEMMA ChunkJumps ==
    ASSUME NEW p \in Point, NEW q \in Point, NEW a, a = p \/ a = Never, NEW T, NEW l, NEW k, NEW o,
           Is(l, p, T), Is(k, q, T), InRange(p, o), InRange(q, o)
    PROVE  Chunk(<<<<"JUMP", l>>, <<"LABEL", k>>>>, a, q, T, o)
<1>1. a \in Point /\ Goes(l, a, T)
  BY GoesIs
<1>2. InRange(a, o)
  BY DEF InRange, Never, At
<1>3. Chunk(<<<<"JUMP", l>>>>, a, q, T, o)
  BY <1>1, <1>2, ChunkJUMP
<1>4. Goes(k, q, T) /\ T[k] = q
  BY GoesIs
<1>5. Chunk(<<<<"LABEL", k>>>>, q, T[k], T, o)
  BY <1>4, ChunkLABEL
<1> QED BY <1>3, <1>4, <1>5, ChunkTwo

\* FUNC_DECL: the head of a function is jumped over by main, and entered by a call.
LEMMA ChunkFuncHead ==
    ASSUME NEW R \in Int \X Int, NEW n \in Nat, NEW T, NEW o, Keeps(R, o),
           NEW skip, NEW entry, NEW defvar, NEW back,
           Is(skip, Inside(R, 0), T), Is(entry, Outside(R, 1, n), T),
           Is(defvar, Entered(R, n), T), Is(back, Entered(R, n), T)
    PROVE  Chunk(<<<<"JUMP", skip>>, <<"LABEL", entry>>, <<"CREATEFRAME">>, <<"PUSHFRAME">>,
                   <<"JUMP", defvar>>, <<"LABEL", back>>>>,
                 Inside(R, 0), Entered(R, n), T, o)
<1> DEFINE p == Inside(R, 0)
           e == Outside(R, 1, n)
           q == Entered(R, n)
<1>1. /\ p \in Point /\ e \in Point /\ q \in Point /\ Framed(e, 1) = q /\ e.frame = 0
      /\ InRange(p, o) /\ InRange(e, o) /\ InRange(q, o)
  BY PlainPoints, PlainWithin
<1> HIDE DEF p, e, q
<1>2. Goes(skip, p, T) /\ Goes(entry, e, T) /\ T[entry] = e
  BY <1>1, GoesIs DEF p, e
<1>3. Chunk(<<<<"JUMP", skip>>>>, p, e, T, o)
  BY <1>1, <1>2, ChunkJUMP
<1>4. Chunk(<<<<"LABEL", entry>>>>, e, e, T, o)
  <2>1. Chunk(<<<<"LABEL", entry>>>>, e, T[entry], T, o)
    BY <1>1, <1>2, ChunkLABEL
  <2> QED BY <2>1, <1>2
<1>5. Chunk(<<<<"CREATEFRAME">>>>, e, e, T, o)
  BY <1>1, ChunkCREATEFRAME
<1>6. Chunk(<<<<"PUSHFRAME">>>>, e, q, T, o)
  BY <1>1, ChunkPUSHFRAME
<1>7. Chunk(<<<<"JUMP", defvar>>, <<"LABEL", back>>>>, q, q, T, o)
  BY <1>1, ChunkJumps DEF q
<1>8. Chunk(<<<<"PUSHFRAME">>, <<"JUMP", defvar>>, <<"LABEL", back>>>>, e, q, T, o)
  BY <1>6, <1>7, ChunkThree
<1>9. Chunk(<<<<"CREATEFRAME">>, <<"PUSHFRAME">>, <<"JUMP", defvar>>, <<"LABEL", back>>>>, e, q, T, o)
  BY <1>5, <1>8, ChunkFour
<1>10. Chunk(<<<<"LABEL", entry>>, <<"CREATEFRAME">>, <<"PUSHFRAME">>, <<"JUMP", defvar>>, <<"LABEL", back>>>>, e, q, T, o)
  BY <1>4, <1>9, ChunkFive
<1>11. Chunk(<<<<"JUMP", skip>>, <<"LABEL", entry>>, <<"CREATEFRAME">>, <<"PUSHFRAME">>,
               <<"JUMP", defvar>>, <<"LABEL", back>>>>, p, q, T, o)
  BY <1>3, <1>10, ChunkSix
<1> QED BY <1>11 DEF p, q

\* The parameters of a function are as many variables as a call takes values.
LEMMA ParamVariables ==
    ASSUME NEW f \in Function
    PROVE  /\ Arity(f) \in Nat /\ Params(f) \in Seq(Variables) /\ Len(Params(f)) = Arity(f)
<1>1. Parameters[f] \in Seq(STRING)
  BY CodegenAssumption
<1>2. Arity(f) \in Nat /\ \A i \in 1 .. Arity(f) : Parameters[f][i] \in STRING
  BY <1>1 DEF Arity
<1>3. \A i \in 1 .. Arity(f) : <<Parameters[f][i], 1>> \in Variables
  BY <1>2 DEF Variables, Naming, registers, for_counter_reg, for_max_val, ret_reg, cond_reg, A
<1> QED BY <1>2, <1>3 DEF Params

\* gen_pop_params: the parameters take all the arguments.
LEMMA ChunkParams ==
    ASSUME NEW R \in Int \X Int, NEW f \in Function, NEW T, NEW o, Keeps(R, o)
    PROVE  Chunk(Reverse([i \in DOMAIN Params(f) |-> <<"POPS", Params(f)[i]>>]),
                 Entered(R, Arity(f)), Inside(R, 1), T, o)
<1> DEFINE n == Arity(f)
           xs == Params(f)
           c == [i \in DOMAIN xs |-> <<"POPS", xs[i]>>]
           d == Reverse(c)
           p == Entered(R, n)
<1>1. n \in Nat /\ DOMAIN xs = 1 .. n /\ \A i \in 1 .. n : xs[i] \in Variables
  BY ParamVariables
<1>2. p \in Point /\ p.data = Ints(n) /\ p.frame = 1 /\ InRange(p, o)
      /\ At(p.level, 1, <<>>, p.counter, p.max) = Inside(R, 1)
  <2>1. n \in Nat
    BY <1>1
  <2> HIDE DEF n
  <2>2. p \in Point /\ p.data = Ints(n) /\ p.frame = 1 /\ InRange(p, o)
    BY <2>1, PlainPoints, PlainWithin
  <2>3. p.level = 1 /\ p.counter = {R[1]} /\ p.max = {R[2]}
    BY DEF Entered, At
  <2> HIDE DEF p
  <2> QED BY <2>2, <2>3 DEF Inside
<1> HIDE DEF n, xs, p
<1>3. c \in [1 .. n -> {c[i] : i \in 1 .. n}] /\ Len(c) = n
  BY <1>1
<1>4. d = [i \in 1 .. n |-> c[(n - i) + 1]]
  BY <1>1, <1>3 DEF Reverse
<1> HIDE DEF d
<1>5. ASSUME NEW i \in 1 .. n
      PROVE  \E x \in Variables : d[i] = <<"POPS", x>>
  <2>1. (n - i) + 1 \in 1 .. n
    BY <1>1
  <2>2. c[(n - i) + 1] = <<"POPS", xs[(n - i) + 1]>>
    BY <2>1, <1>1
  <2> QED BY <2>1, <2>2, <1>1, <1>4
<1>6. IsSeq(d) /\ Len(d) = n
  <2> DEFINE D == {d[i] : i \in DOMAIN d}
  <2>1. d \in [1 .. n -> D] /\ DOMAIN d = 1 .. n
    BY <1>4
  <2> HIDE DEF D
  <2>2. d \in Seq(D) /\ Len(d) = n
    BY <2>1, <1>1
  <2> QED BY <2>2 DEF IsSeq, D
<1>7. Chunk(d, p, At(p.level, 1, <<>>, p.counter, p.max), T, o)
  BY <1>2, <1>5, <1>6, ChunkPops
<1> QED BY <1>2, <1>7 DEF d, p, n, xs

\* FUNC_DECL: behind a function its variables are defined, and main goes on.
LEMMA ChunkFuncTail ==
    ASSUME NEW R \in Int \X Int, NEW q \in Point, SameFrame(q, Inside(R, 1)), NEW T, NEW o, Keeps(R, o),
           NEW skip, NEW defvar, NEW back, NEW def_skip, NEW xs \in Seq(Variables),
           NEW a, NEW b \in Point, NEW d,
           Is(skip, Inside(R, 0), T), Is(defvar, q, T), Is(back, q, T),
           Is(def_skip, b, T), InRange(b, o), a = b \/ a = Never,
           Chunk(d, b, Inside(R, 0), T, o)
    PROVE  Chunk(<<<<"JUMP", def_skip>>, <<"LABEL", defvar>>>> \o Defvars(xs)
                 \o <<<<"JUMP", back>>, <<"LABEL", def_skip>>>>
                 \o d \o <<<<"LABEL", skip>>>>, a, Inside(R, 0), T, o)
<1> DEFINE p == Inside(R, 0)
<1>1. p \in Point /\ InRange(p, o) /\ InRange(q, o) /\ q.frame = 1
  <2>1. p \in Point /\ InRange(p, o) /\ InRange(Inside(R, 1), o)
    BY PlainPoints, PlainWithin
  <2>2. Inside(R, 1).frame = 1
    BY PlainPoints
  <2> HIDE DEF p
  <2> QED BY <2>1, <2>2 DEF SameFrame, InRange
<1> HIDE DEF p
<1>2. Chunk(<<<<"JUMP", def_skip>>, <<"LABEL", defvar>>>>, a, q, T, o)
  BY <1>1, ChunkJumps
<1>3. Chunk(Defvars(xs), q, q, T, o)
  BY <1>1, ChunkDefvars
<1>4. Chunk(<<<<"JUMP", back>>, <<"LABEL", def_skip>>>>, q, b, T, o)
  BY <1>1, ChunkJumps
<1>5. Chunk(<<<<"LABEL", skip>>>>, p, p, T, o)
  <2>1. Goes(skip, p, T) /\ T[skip] = p
    BY <1>1, GoesIs DEF p
  <2>2. Chunk(<<<<"LABEL", skip>>>>, p, T[skip], T, o)
    BY <1>1, <2>1, ChunkLABEL
  <2> QED BY <2>1, <2>2
<1>6. Chunk(<<<<"JUMP", def_skip>>, <<"LABEL", defvar>>>> \o Defvars(xs), a, q, T, o)
  BY <1>2, <1>3, ChunkJoin
<1>7. Chunk(<<<<"JUMP", def_skip>>, <<"LABEL", defvar>>>> \o Defvars(xs)
            \o <<<<"JUMP", back>>, <<"LABEL", def_skip>>>>, a, b, T, o)
  BY <1>4, <1>6, ChunkJoin
<1>8. Chunk(<<<<"JUMP", def_skip>>, <<"LABEL", defvar>>>> \o Defvars(xs)
            \o <<<<"JUMP", back>>, <<"LABEL", def_skip>>>> \o d, a, p, T, o)
  BY <1>7, ChunkJoin DEF p
<1>9. Chunk(<<<<"JUMP", def_skip>>, <<"LABEL", defvar>>>> \o Defvars(xs)
            \o <<<<"JUMP", back>>, <<"LABEL", def_skip>>>> \o d \o <<<<"LABEL", skip>>>>, a, p, T, o)
  BY <1>5, <1>8, ChunkJoin
<1> QED BY <1>9 DEF p

\* S: at the end of the file main leaves its frame; its variables are defined behind it.
LEMMA ChunkFileEnd ==
    ASSUME NEW R \in Int \X Int, NEW T, NEW o, Keeps(R, o),
           NEW skip, NEW defvar, NEW back, NEW xs \in Seq(Variables), NEW ys \in Seq(Variables),
           Is(skip, Outside(R, 0, 0), T), Is(defvar, Inside(R, 0), T), Is(back, Inside(R, 0), T)
    PROVE  Chunk(<<<<"POPFRAME">>, <<"JUMP", skip>>, <<"LABEL", defvar>>>>
                 \o Defvars(xs) \o Defvars(ys)
                 \o <<<<"JUMP", back>>, <<"LABEL", skip>>>>, Inside(R, 0), Outside(R, 0, 0), T, o)
<1> DEFINE p == Inside(R, 0)
           q == Outside(R, 0, 0)
<1>1. p \in Point /\ q \in Point /\ InRange(p, o) /\ InRange(q, o) /\ p.frame = 1 /\ Framed(p, 0) = q
  BY PlainPoints, PlainWithin
<1> HIDE DEF p, q
<1>2. Chunk(<<<<"POPFRAME">>>>, p, q, T, o)
  BY <1>1, ChunkPOPFRAME
<1>3. Chunk(<<<<"JUMP", skip>>, <<"LABEL", defvar>>>>, q, p, T, o)
  BY <1>1, ChunkJumps DEF p, q
<1>4. Chunk(<<<<"POPFRAME">>, <<"JUMP", skip>>, <<"LABEL", defvar>>>>, p, p, T, o)
  BY <1>2, <1>3, ChunkThree
<1>5. Chunk(Defvars(xs), p, p, T, o) /\ Chunk(Defvars(ys), p, p, T, o)
  BY <1>1, ChunkDefvars
<1>6. Chunk(<<<<"JUMP", back>>, <<"LABEL", skip>>>>, p, q, T, o)
  BY <1>1, ChunkJumps DEF p, q
<1>7. Chunk(<<<<"POPFRAME">>, <<"JUMP", skip>>, <<"LABEL", defvar>>>> \o Defvars(xs), p, p, T, o)
  BY <1>4, <1>5, ChunkJoin
<1>8. Chunk(<<<<"POPFRAME">>, <<"JUMP", skip>>, <<"LABEL", defvar>>>> \o Defvars(xs) \o Defvars(ys), p, p, T, o)
  BY <1>5, <1>7, ChunkJoin
<1>9. Chunk(<<<<"POPFRAME">>, <<"JUMP", skip>>, <<"LABEL", defvar>>>> \o Defvars(xs) \o Defvars(ys)
            \o <<<<"JUMP", back>>, <<"LABEL", skip>>>>, p, q, T, o)
  BY <1>6, <1>8, ChunkJoin
<1> QED BY <1>9 DEF p, q

\* New labels may be given any points.
LEMMA NewLabels ==
    ASSUME NEW T, NEW n \in Nat, NEW m \in Nat, n <= m, NEW R, Labels(T, n, R),
           NEW S, NEW N, \A l \in S : N[l] \in Point /\ l[2] \in n .. m - 1
    PROVE  \E U : Labels(U, m, R) /\ Extends(T, U) /\ \A l \in S : Is(l, N[l], U)
<1> DEFINE U == [l \in DOMAIN T \cup S |-> IF l \in DOMAIN T THEN T[l] ELSE N[l]]
<1>1. /\ T \in [DOMAIN T -> Point] /\ Fixed(T, R)
      /\ \A l \in DOMAIN T : l[2] \in Int /\ l[2] < n
  BY DEF Labels
<1>2. \A l \in S : l \notin DOMAIN T /\ l[2] \in Int /\ l[2] < m
  BY <1>1
<1>3. /\ DOMAIN U = DOMAIN T \cup S
      /\ \A l \in DOMAIN T : U[l] = T[l]
      /\ \A l \in S : U[l] = N[l]
  BY <1>2
<1>4. U \in [DOMAIN U -> Point]
  BY <1>1
<1> HIDE DEF U
<1>5. Fixed(U, R)
  BY <1>1, <1>3 DEF Fixed
<1>6. \A l \in DOMAIN U : l[2] \in Int /\ l[2] < m
  BY <1>1, <1>2, <1>3
<1>7. Labels(U, m, R)
  BY <1>4, <1>5, <1>6 DEF Labels
<1> QED BY <1>3, <1>7 DEF Extends, Is

\* A new label
LEMMA NewLabel ==
    ASSUME NEW T, NEW n \in Nat, NEW R, Labels(T, n, R), NEW k, NEW q \in Point
    PROVE  \E U : Labels(U, n + 1, R) /\ Extends(T, U) /\ Is(Label(k, n), q, U)
<1> DEFINE S == {Label(k, n)}
           N == [l \in S |-> q]
<1> DEFINE m == n + 1
<1>0. m \in Nat /\ n <= m
  OBVIOUS
<1>1. \A l \in S : N[l] \in Point /\ l[2] \in n .. m - 1
  BY DEF Label
<1>2. Label(k, n) \in S /\ N[Label(k, n)] = q
  OBVIOUS
<1> HIDE DEF S, N, m
<1>3. PICK U : Labels(U, m, R) /\ Extends(T, U) /\ \A l \in S : Is(l, N[l], U)
  BY <1>0, <1>1, NewLabels
<1> QED BY <1>2, <1>3 DEF m

\* Two new labels.
LEMMA NewLabelPair ==
    ASSUME NEW T, NEW n \in Nat, NEW R, Labels(T, n, R), NEW k, NEW j, NEW q \in Point
    PROVE  \E U : /\ Labels(U, n + 2, R) /\ Extends(T, U)
                  /\ Is(Label(k, n), q, U) /\ Is(Label(j, n + 1), q, U)
<1> DEFINE S == {Label(k, n), Label(j, n + 1)}
           N == [l \in S |-> q]
<1> DEFINE m == n + 2
<1>0. m \in Nat /\ n <= m
  OBVIOUS
<1>1. \A l \in S : N[l] \in Point /\ l[2] \in n .. m - 1
  BY DEF Label
<1>2. /\ Label(k, n) \in S /\ N[Label(k, n)] = q
      /\ Label(j, n + 1) \in S /\ N[Label(j, n + 1)] = q
  OBVIOUS
<1> HIDE DEF S, N, m
<1>3. PICK U : Labels(U, m, R) /\ Extends(T, U) /\ \A l \in S : Is(l, N[l], U)
  BY <1>0, <1>1, NewLabels
<1> QED BY <1>2, <1>3 DEF m

\* Three new labels.
LEMMA NewLabelTriple ==
    ASSUME NEW T, NEW n \in Nat, NEW R, Labels(T, n, R), NEW k, NEW j, NEW i,
           NEW p \in Point, NEW q \in Point
    PROVE  \E U : /\ Labels(U, n + 3, R) /\ Extends(T, U)
                  /\ Is(Label(k, n), p, U)
                  /\ Is(Label(j, n + 1), q, U) /\ Is(Label(i, n + 2), q, U)
<1> DEFINE S == {Label(k, n), Label(j, n + 1), Label(i, n + 2)}
           N == [l \in S |-> IF l[2] = n THEN p ELSE q]
<1> DEFINE m == n + 3
<1>0. m \in Nat /\ n <= m
  OBVIOUS
<1>1. \A l \in S : N[l] \in Point /\ l[2] \in n .. m - 1
  BY DEF Label
<1>2. /\ Label(k, n) \in S /\ N[Label(k, n)] = p
      /\ Label(j, n + 1) \in S /\ N[Label(j, n + 1)] = q
      /\ Label(i, n + 2) \in S /\ N[Label(i, n + 2)] = q
  BY DEF Label
<1> HIDE DEF S, N, m
<1>3. PICK U : Labels(U, m, R) /\ Extends(T, U) /\ \A l \in S : Is(l, N[l], U)
  BY <1>0, <1>1, NewLabels
<1> QED BY <1>2, <1>3 DEF m

\* A call of write takes its argument.
LEMMA ChunkWrite ==
    ASSUME NEW p \in Point, NEW x, Source(x), NEW T
    PROVE  Chunk(<<<<"PUSHS", x>>, <<"CALL", Entry("write")>>>>, p, p, T, OwnPoint(p))
<1> DEFINE q == Push(p, Val(x, p))
           o == OwnPoint(p)
           w == Entry("write")
<1>1. InRange(p, o) /\ Val(x, p) \in SUBSET Int
  BY OwnWithin, ValInt
<1>2. q \in Point /\ Len(q.data) = Len(p.data) + 1 /\ Len(p.data) \in Nat
      /\ Drop(q, 1) = p /\ q.counter = p.counter /\ q.max = p.max
  BY <1>1, PushPoint, PushPop
<1>3. Chunk(<<<<"PUSHS", x>>>>, p, q, T, o)
  BY <1>1, ChunkPUSHS
<1> HIDE DEF q, o
<1>4. InRange(q, o)
  BY <1>1, <1>2 DEF InRange
<1>5. Callable(w) /\ Taken(w) = 1
  BY DEF Callable, Taken
<1> HIDE DEF w
<1>6. Len(q.data) >= Taken(w) /\ Taken(w) \in Nat
  BY <1>2, <1>5
<1>7. Chunk(<<<<"CALL", w>>>>, q, Drop(q, Taken(w)), T, o)
  BY <1>2, <1>4, <1>5, <1>6, ChunkCALL
<1>8. Chunk(<<<<"CALL", w>>>>, q, p, T, o)
  BY <1>2, <1>5, <1>7
<1> QED BY <1>3, <1>8, ChunkTwo DEF w, o

\* A call of a function takes its arguments and leaves the range as it was.
LEMMA ChunkCallOf ==
    ASSUME NEW p \in Point, NEW f \in Function, NEW T
    PROVE  Chunk([i \in 1 .. Arity(f) |-> <<"PUSHS", Constant(0)>>] \o <<<<"CALL", Entry(f)>>>>,
                 p, p, T, OwnPoint(p))
<1> DEFINE o == OwnPoint(p)
           w == Entry(f)
           n == Arity(f)
           d == [i \in 1 .. n |-> <<"PUSHS", Constant(0)>>]
<1>1. InRange(p, o) /\ n \in Nat
  BY OwnWithin, ParamVariables
<1>2. Callable(w) /\ Taken(w) = n
  BY CodegenAssumption DEF Callable, Taken, Entry
<1> HIDE DEF n, o, w
<1>3. PICK q \in Point :
         Chunk(d, p, q, T, o)
         /\ Len(q.data) >= n /\ Len(q.data) \in Nat /\ Drop(q, n) = p /\ InRange(q, o)
  BY <1>1, ChunkArguments
<1> HIDE DEF d
<1>4. Chunk(<<<<"CALL", w>>>>, q, Drop(q, Taken(w)), T, o)
  BY <1>1, <1>2, <1>3, ChunkCALL
<1>5. Chunk(<<<<"CALL", w>>>>, q, p, T, o)
  BY <1>2, <1>3, <1>4
<1>6. Chunk(d \o <<<<"CALL", w>>>>, p, p, T, o)
  BY <1>3, <1>5, ChunkJoin
<1> QED BY <1>6 DEF d, n, o, w

\* The labels there are from the start.
First(R) ==
    [l \in {Back, Entry("write"), Entry("$$main"), Label("main_defvar", 0), Label("main_defvar_back", 1)}
           \cup {Entry(f) : f \in Function} |->
        IF l = Back THEN Outside(R, 1, 0)
        ELSE IF l = Entry("write") THEN Outside(R, 1, 1)
        ELSE IF l = Entry("$$main") THEN Outside(R, 0, 0)
        ELSE IF l[2] >= 0 THEN Inside(R, 0)
        ELSE Outside(R, 1, Arity(l[1]))]

\* They are as they should be.
LEMMA FirstLabels ==
    ASSUME NEW R \in Int \X Int
    PROVE  Labels(First(R), 2, R)
<1> DEFINE T == First(R)
           w == Entry("write")
           z == Entry("$$main")
           j == Label("main_defvar", 0)
           k == Label("main_defvar_back", 1)
           F == {Entry(f) : f \in Function}
<1>1. /\ w # Back /\ z # Back /\ w # z /\ j \notin {Back, w, z} /\ k \notin {Back, w, z}
      /\ Back[2] = -2 /\ w[2] = -1 /\ z[2] = -1 /\ j[2] = 0 /\ k[2] = 1
  BY DEF Back, Entry, Label
<1>2. \A f \in Function : /\ Entry(f) \in F /\ Entry(f)[1] = f /\ Entry(f)[2] = -1
                          /\ Entry(f) \notin {Back, w, z}
  BY CodegenAssumption DEF Back, Entry
<1>3. \A f \in Function : Arity(f) \in Nat
  BY ParamVariables
<1>4. /\ Outside(R, 1, 0) \in Point /\ Outside(R, 1, 1) \in Point /\ Outside(R, 0, 0) \in Point
      /\ Inside(R, 0) \in Point /\ \A f \in Function : Outside(R, 1, Arity(f)) \in Point
  BY <1>3, PlacePoint
<1>5. \A l \in F : \E f \in Function : l = Entry(f)
  OBVIOUS
<1> HIDE DEF w, z, j, k, F
<1>6. DOMAIN T = {Back, w, z, j, k} \cup F
  BY DEF First, w, z, j, k, F
<1>7. /\ T[Back] = Outside(R, 1, 0) /\ T[w] = Outside(R, 1, 1) /\ T[z] = Outside(R, 0, 0)
  BY <1>1 DEF First, w, z, j, k
<1>8. T[j] = Inside(R, 0) /\ T[k] = Inside(R, 0)
  BY <1>1 DEF First, w, z, j, k
<1>9. ASSUME NEW f \in Function
      PROVE  Entry(f) \in DOMAIN T /\ T[Entry(f)] = Outside(R, 1, Arity(f))
  <2>1. Entry(f) \in F /\ Entry(f)[1] = f /\ ~(Entry(f)[2] >= 0) /\ Entry(f) \notin {Back, w, z}
    BY <1>2
  <2> QED BY <2>1 DEF First, w, z, j, k, F
<1> HIDE DEF T
<1>10. Fixed(T, R)
  BY <1>6, <1>7, <1>8, <1>9 DEF Fixed, w, z, j, k
<1>11. \A l \in DOMAIN T : T[l] \in Point /\ l[2] \in Int /\ l[2] < 2
  <2> TAKE l \in DOMAIN T
  <2>1. CASE l \in {Back, w, z, j, k}
    BY <2>1, <1>1, <1>4, <1>7, <1>8
  <2>2. CASE l \in F
    <3>1. PICK f \in Function : l = Entry(f)
      BY <2>2, <1>5
    <3> QED BY <3>1, <1>2, <1>4, <1>9
  <2> QED BY <2>1, <2>2, <1>6
<1>12. T \in [DOMAIN T -> Point]
  <2>1. T = [l \in DOMAIN T |-> T[l]]
    BY DEF T, First
  <2> QED BY <2>1, <1>11
<1> QED BY <1>10, <1>11, <1>12 DEF Labels, T

\* gen_header: the library is jumped over, and main gets its frame.
LEMMA ChunkFirst ==
    ASSUME NEW R \in Int \X Int, NEW T, Fixed(T, R), NEW o, Keeps(R, o)
    PROVE  Chunk(<<<<"JUMP", Entry("$$main")>>>> \o gen_std_functions
                 \o <<<<"CREATEFRAME">>, <<"PUSHFRAME">>, <<"JUMP", Label("main_defvar", 0)>>,
                      <<"LABEL", Label("main_defvar_back", 1)>>>>,
                 Outside(R, 0, 0), Inside(R, 0), T, o)
<1> DEFINE p == Outside(R, 0, 0)
           q == Inside(R, 0)
           w == Outside(R, 1, 1)
           v == Outside(R, 1, 0)
           j == Label("main_defvar", 0)
           k == Label("main_defvar_back", 1)
           s == Entry("$$main")
           e == Entry("write")
<1>1. /\ p \in Point /\ q \in Point /\ w \in Point /\ v \in Point
      /\ InRange(p, o) /\ InRange(q, o) /\ InRange(w, o) /\ InRange(v, o)
      /\ p.frame = 0 /\ Framed(p, 1) = q
  BY PlainPoints, PlainWithin
<1>2. Drop(w, 1) = v /\ Len(w.data) = 1
  <2>1. /\ w.level = 1 /\ w.frame = 0 /\ w.data = Ints(1) /\ w.counter = {R[1]} /\ w.max = {R[2]}
    BY PlaceFields
  <2>2. Ints(1) \in Seq(SUBSET Int) /\ Len(Ints(1)) = 1 /\ Ints(0) = <<>>
    BY IntsSeq, IntsZero
  <2> HIDE DEF w
  <2>3. SubSeq(Ints(1), 1, 0) = <<>>
    <3> HIDE DEF Ints
    <3>1. SubSeq(Ints(1), 1, 0) \in Seq(SUBSET Int) /\ Len(SubSeq(Ints(1), 1, 0)) = 0
      BY <2>2, SliceSeq
    <3> QED BY <3>1
  <2> HIDE DEF Ints
  <2>4. SubSeq(w.data, 1, Len(w.data) - 1) = <<>>
    <3>1. w.data = Ints(1) /\ Len(w.data) - 1 = 0
      BY <2>1, <2>2
    <3> QED BY <3>1, <2>3
  <2> QED BY <2>1, <2>2, <2>4 DEF Drop, Outside
<1>3. /\ Is(Back, v, T) /\ Is(e, w, T) /\ Is(s, p, T) /\ Is(j, q, T) /\ Is(k, q, T)
  BY DEF Fixed, Is
<1> HIDE DEF p, q, w, v, j, k, s, e
<1>4. /\ Goes(Back, v, T) /\ Goes(e, w, T) /\ T[e] = w /\ Goes(s, p, T) /\ T[s] = p
  BY <1>1, <1>3, GoesIs
<1>5. Chunk(<<<<"JUMP", s>>>>, p, w, T, o)
  BY <1>1, <1>4, ChunkJUMP
<1>6. Chunk(<<<<"LABEL", e>>>>, w, w, T, o)
  <2>1. Chunk(<<<<"LABEL", e>>>>, w, T[e], T, o)
    BY <1>1, <1>4, ChunkLABEL
  <2> QED BY <2>1, <1>4
<1>7. Chunk(<<<<"POPS", A>>>>, w, v, T, o)
  <2>1. Writable(A, w) /\ Len(w.data) > 0 /\ A # for_counter_reg /\ A # for_max_val
    BY <1>2 DEF Writable, A, for_counter_reg, for_max_val
  <2>2. Chunk(<<<<"POPS", A>>>>, w, Store(Drop(w, 1), A, Item(w, 1)), T, o)
    BY <1>1, <2>1, ChunkPOPS
  <2>3. Store(Drop(w, 1), A, Item(w, 1)) = v
    BY <2>1, <1>2 DEF Store
  <2> QED BY <2>2, <2>3
<1>8. Chunk(<<<<"RETURN">>>>, v, p, T, o)
  BY <1>1, <1>4, ChunkRETURN
<1>9. Chunk(<<<<"LABEL", s>>>>, p, p, T, o)
  <2>1. Chunk(<<<<"LABEL", s>>>>, p, T[s], T, o)
    BY <1>1, <1>4, ChunkLABEL
  <2> QED BY <2>1, <1>4
<1>10. Chunk(<<<<"LABEL", e>>, <<"POPS", A>>, <<"RETURN">>, <<"LABEL", s>>>>, w, p, T, o)
  <2>1. Chunk(<<<<"RETURN">>, <<"LABEL", s>>>>, v, p, T, o)
    BY <1>8, <1>9, ChunkTwo
  <2>2. Chunk(<<<<"POPS", A>>, <<"RETURN">>, <<"LABEL", s>>>>, w, p, T, o)
    BY <1>7, <2>1, ChunkThree
  <2> QED BY <1>6, <2>2, ChunkFour
<1>11. Chunk(<<<<"CREATEFRAME">>, <<"PUSHFRAME">>, <<"JUMP", j>>, <<"LABEL", k>>>>, p, q, T, o)
  <2>1. Chunk(<<<<"CREATEFRAME">>>>, p, p, T, o)
    BY <1>1, ChunkCREATEFRAME
  <2>2. Chunk(<<<<"PUSHFRAME">>>>, p, q, T, o)
    BY <1>1, ChunkPUSHFRAME
  <2>3. Chunk(<<<<"JUMP", j>>, <<"LABEL", k>>>>, q, q, T, o)
    BY <1>1, <1>3, ChunkJumps
  <2>4. Chunk(<<<<"PUSHFRAME">>, <<"JUMP", j>>, <<"LABEL", k>>>>, p, q, T, o)
    BY <2>2, <2>3, ChunkThree
  <2> QED BY <2>1, <2>4, ChunkFour
<1>12. Chunk(<<<<"JUMP", s>>>> \o <<<<"LABEL", e>>, <<"POPS", A>>, <<"RETURN">>, <<"LABEL", s>>>>, p, p, T, o)
  BY <1>5, <1>10, ChunkJoin
<1>13. Chunk(<<<<"JUMP", s>>>> \o <<<<"LABEL", e>>, <<"POPS", A>>, <<"RETURN">>, <<"LABEL", s>>>>
             \o <<<<"CREATEFRAME">>, <<"PUSHFRAME">>, <<"JUMP", j>>, <<"LABEL", k>>>>, p, q, T, o)
  BY <1>11, <1>12, ChunkJoin
<1> QED BY <1>13 DEF p, q, j, k, s, e, gen_std_functions
=============================================================================
