--------------------------- MODULE MachineProofs ----------------------------
(***************************************************************************)
(* Theorems about the machine that runs the programs of module Codegen,    *)
(* for every vocabulary, any functions and parameters, programs of any     *)
(* length and any number of calls in progress.                             *)
(*                                                                         *)
(* The invariant says of every activation, the one that is executed and    *)
(* those that wait for a call to return, that what it has on the stacks    *)
(* and in the registers is as the point of its instruction says, on top of *)
(* what it found. The range around the program is the one the activation   *)
(* found in the registers: this is why module StatementProofs shows the    *)
(* code right for every range. CALL begins an activation with the range of *)
(* its caller, and RETURN is where everything is as it was found, so the   *)
(* caller's point, which says nothing of the callee, holds again.          *)
(*                                                                         *)
(* The programs are those where no return leaves a for loop and every      *)
(* function with a value ends by a return. Of the others the theorems are  *)
(* false: a return out of a for loop leaves its range in the registers and *)
(* two values on the data stack.                                           *)
(***************************************************************************)
EXTENDS MachineProperties, StatementProofs

\* The point of instruction i of c, or of the end.
PointOf(c, i, T, ann) == IF i \in 1 .. Len(c) THEN Arrival(c[i], ann[i], T) ELSE ann[i]

\* The point of instruction i of the program, or of its end.
PointAt(i, T, ann) == PointOf(code, i, T, ann)

\* d, f and r are a data stack, frames and a range at the point p of an activation that
\* found those of base.
Holds(p, base, d, f, r, level) ==
    /\ p.level = level
    /\ Len(d) = Len(base.kept) + Len(p.data)
    /\ \A i \in 1 .. Len(base.kept) : d[i] = base.kept[i]
    /\ \A i \in 1 .. Len(p.data) : d[Len(base.kept) + i] \in p.data[i]
    /\ Len(f) = Len(base.frames) + p.frame
    /\ \A i \in 1 .. Len(base.frames) : f[i] = base.frames[i]
    /\ r[1] \in p.counter /\ r[2] \in p.max

\* base is what an activation found, as CALL records it: the data stack below its
\* arguments, the frames and the range.
IsBase(base) == base.kept \in Seq(Int) /\ IsSeq(base.frames) /\ base.range \in Int \X Int

\* A frame holds integers; Undefined and Nil are integers here.
Env(e) == \A x \in DOMAIN e : e[x] \in Int

\* The types of what the instructions change.
MTypes ==
    /\ data \in Seq(Int)
    /\ registers \subseteq DOMAIN global /\ Env(global)
    /\ IsSeq(frames) /\ \A i \in 1 .. Len(frames) : Env(frames[i])

-----------------------------------------------------------------------------
\* What holds at a point holds wherever that goes on.
LEMMA HoldsSub ==
    ASSUME NEW p, NEW q, Sub(p, q), NEW base, NEW d, NEW f, NEW r, NEW level,
           Holds(p, base, d, f, r, level)
    PROVE  Holds(q, base, d, f, r, level)
<1>1. r[1] \in p.counter
  BY DEF Holds
<1>2. /\ p.level = q.level /\ p.frame = q.frame
      /\ Len(p.data) = Len(q.data)
      /\ \A i \in 1 .. Len(p.data) : p.data[i] \subseteq q.data[i]
      /\ p.counter \subseteq q.counter /\ p.max \subseteq q.max
  BY <1>1 DEF Sub
<1> QED BY <1>2 DEF Holds

\* A value is pushed.
LEMMA HoldsPush ==
    ASSUME NEW p \in Point, NEW base, IsBase(base), NEW d \in Seq(Int), NEW f, NEW r, NEW level,
           Holds(p, base, d, f, r, level), NEW V \in SUBSET Int, NEW v \in V
    PROVE  Holds(Push(p, V), base, Append(d, v), f, r, level)
<1> DEFINE D == p.data
           E == Append(D, V)
           e == Append(d, v)
           n == Len(base.kept)
           q == Push(p, V)
<1>1. D \in Seq(SUBSET Int) /\ n \in Nat /\ v \in Int
  BY PointFields DEF IsBase
<1>2. /\ Len(E) = Len(D) + 1 /\ Len(D) \in Nat /\ (\A i \in 1 .. Len(D) : E[i] = D[i]) /\ E[Len(D) + 1] = V
  BY <1>1, AppendSeq
<1>3. /\ Len(e) = Len(d) + 1 /\ Len(d) \in Nat /\ (\A i \in 1 .. Len(d) : e[i] = d[i]) /\ e[Len(d) + 1] = v
  BY <1>1, AppendSeq
<1>4. /\ q.level = p.level /\ q.frame = p.frame /\ q.data = E /\ q.counter = p.counter /\ q.max = p.max
  BY DEF Push, At
<1>5. /\ p.level = level
      /\ Len(d) = n + Len(D)
      /\ \A i \in 1 .. n : d[i] = base.kept[i]
      /\ \A i \in 1 .. Len(D) : d[n + i] \in D[i]
      /\ Len(f) = Len(base.frames) + p.frame
      /\ \A i \in 1 .. Len(base.frames) : f[i] = base.frames[i]
      /\ r[1] \in p.counter /\ r[2] \in p.max
  BY DEF Holds
<1> HIDE DEF D, E, e, q, n
<1>6. Len(e) = n + Len(E) /\ \A i \in 1 .. n : e[i] = base.kept[i]
  <2>1. Len(e) = n + Len(E) /\ n <= Len(d)
    BY <1>1, <1>2, <1>3, <1>5
  <2>2. ASSUME NEW i \in 1 .. n PROVE e[i] = base.kept[i]
    <3>1. i \in 1 .. Len(d)
      BY <1>1, <1>3, <2>1
    <3>2. e[i] = d[i] /\ d[i] = base.kept[i]
      BY <1>3, <1>5, <3>1
    <3> QED BY <3>2
  <2> QED BY <2>1, <2>2
<1>7. \A i \in 1 .. Len(E) : e[n + i] \in E[i]
  <2> TAKE i \in 1 .. Len(E)
  <2>1. CASE i = Len(D) + 1
    <3>1. n + i = Len(d) + 1
      BY <2>1, <1>1, <1>2, <1>5
    <3> QED BY <3>1, <2>1, <1>2, <1>3
  <2>2. CASE i # Len(D) + 1
    <3>1. i \in 1 .. Len(D) /\ n + i \in 1 .. Len(d)
      BY <2>2, <1>1, <1>2, <1>5
    <3> QED BY <3>1, <1>2, <1>3, <1>5
  <2> QED BY <2>1, <2>2
<1>8. Holds(q, base, e, f, r, level)
  BY <1>4, <1>5, <1>6, <1>7 DEF Holds, n
<1> QED BY <1>8 DEF q, e

\* Values are popped; they were as the point says.
LEMMA HoldsDrop ==
    ASSUME NEW p \in Point, NEW base, IsBase(base), NEW d \in Seq(Int), NEW f, NEW r, NEW level,
           Holds(p, base, d, f, r, level), NEW n \in Nat, n <= Len(p.data)
    PROVE  /\ Holds(Drop(p, n), base, SubSeq(d, 1, Len(d) - n), f, r, level)
           /\ SubSeq(d, 1, Len(d) - n) \in Seq(Int)
           /\ Drop(p, n) \in Point
           /\ \A m \in 1 .. n : d[Len(d) + 1 - m] \in Item(p, m) /\ d[Len(d) + 1 - m] \in Int
<1> DEFINE D == p.data
           j == Len(D) - n
           k == Len(d) - n
           E == SubSeq(D, 1, j)
           e == SubSeq(d, 1, k)
           b == Len(base.kept)
           q == Drop(p, n)
<1>1. D \in Seq(SUBSET Int) /\ b \in Nat /\ Len(D) \in Nat /\ Len(d) \in Nat
  BY PointFields DEF IsBase
<1>2. /\ p.level = level
      /\ Len(d) = b + Len(D)
      /\ \A i \in 1 .. b : d[i] = base.kept[i]
      /\ \A i \in 1 .. Len(D) : d[b + i] \in D[i]
      /\ Len(f) = Len(base.frames) + p.frame
      /\ \A i \in 1 .. Len(base.frames) : f[i] = base.frames[i]
      /\ r[1] \in p.counter /\ r[2] \in p.max
  BY DEF Holds
<1>3. /\ q.level = p.level /\ q.frame = p.frame /\ q.data = E /\ q.counter = p.counter /\ q.max = p.max
  BY DEF Drop, At
<1>4. j \in Nat /\ j <= Len(D) /\ k \in Nat /\ k <= Len(d) /\ k = b + j
  <2>1. n <= Len(D)
    OBVIOUS
  <2> HIDE DEF b, D
  <2> QED BY <2>1, <1>1, <1>2
<1>40. \A m \in 1 .. n : Item(p, m) = D[Len(D) + 1 - m]
  BY DEF Item
<1>41. n <= Len(D)
  OBVIOUS
<1> HIDE DEF b, j, k, D
<1>5. E \in Seq(SUBSET Int) /\ Len(E) = j /\ \A i \in 1 .. j : E[i] = D[i]
  BY <1>1, <1>4, SliceSeq
<1>6. e \in Seq(Int) /\ Len(e) = k /\ \A i \in 1 .. k : e[i] = d[i]
  BY <1>4, SliceSeq
<1>7. q \in Point
  <2>1. q = At(p.level, p.frame, E, p.counter, p.max)
    BY DEF Drop, D, j
  <2> HIDE DEF E, q
  <2>2. p.level \in {0, 1} /\ p.frame \in {0, 1} /\ p.counter \in SUBSET Int /\ p.max \in SUBSET Int
    BY PointFields
  <2> QED BY <2>1, <2>2, <1>5, AtPoint
<1>8. \A m \in 1 .. n : d[Len(d) + 1 - m] \in Item(p, m) /\ d[Len(d) + 1 - m] \in Int
  <2> TAKE m \in 1 .. n
  <2>1. Len(d) + 1 - m = b + (Len(D) + 1 - m) /\ Len(D) + 1 - m \in 1 .. Len(D) /\ Len(d) + 1 - m \in 1 .. Len(d)
    BY <1>1, <1>2, <1>41
  <2>2. d[Len(d) + 1 - m] \in D[Len(D) + 1 - m]
    BY <2>1, <1>2
  <2>3. d[Len(d) + 1 - m] \in Int
    BY <2>1
  <2> QED BY <2>2, <2>3, <1>40
<1> HIDE DEF E, e, q
<1>9. \A i \in 1 .. b : e[i] = base.kept[i]
  BY <1>1, <1>2, <1>4, <1>6
<1>10. \A i \in 1 .. j : e[b + i] \in E[i]
  <2> TAKE i \in 1 .. j
  <2>1. b + i \in 1 .. k /\ i \in 1 .. Len(D)
    BY <1>1, <1>4
  <2> QED BY <2>1, <1>2, <1>5, <1>6
<1>11. Holds(q, base, e, f, r, level)
  BY <1>2, <1>3, <1>4, <1>5, <1>6, <1>9, <1>10 DEF Holds, b
<1> QED BY <1>6, <1>7, <1>8, <1>11 DEF q, e, k

\* The registers change.
LEMMA HoldsRange ==
    ASSUME NEW p, NEW q, NEW base, NEW d, NEW f, NEW r, NEW s, NEW level,
           Holds(p, base, d, f, r, level),
           q.level = p.level, q.frame = p.frame, q.data = p.data,
           s[1] \in q.counter, s[2] \in q.max
    PROVE  Holds(q, base, d, f, s, level)
  BY DEF Holds

\* The frames change, those around excepted.
LEMMA HoldsFrames ==
    ASSUME NEW p, NEW q, NEW base, NEW d, NEW f, NEW g, NEW r, NEW level,
           Holds(p, base, d, f, r, level),
           q.level = p.level, q.data = p.data, q.counter = p.counter, q.max = p.max,
           Len(g) = Len(base.frames) + q.frame,
           \A i \in 1 .. Len(base.frames) : g[i] = base.frames[i]
    PROVE  Holds(q, base, d, g, r, level)
  BY DEF Holds

\* The program is at an instruction, where the activation is as its point says.
Active(T, ann, base, level) ==
    /\ pc \in 1 .. Len(code) /\ Typed(code, ann, T) /\ IsBase(base) /\ MTypes
    /\ T \in [DOMAIN T -> Point]
    /\ Holds(PointAt(pc, T, ann), base, data, frames, CurrentRange, level)

\* The step leads to an instruction where the activation is as its point says.
Moved(T, ann, base, level) ==
    /\ pc' \in 1 .. Len(code) + 1 /\ MTypes'
    /\ Holds(PointAt(pc', T, ann), base, data', frames', CurrentRange', level)

\* Going on from an instruction needs no more than its annotation.
LEMMA HoldsNextIn ==
    ASSUME NEW c, NEW T, NEW ann, Typed(c, ann, T), NEW i, i \in 1 .. Len(c) + 1,
           NEW base, NEW d, NEW f, NEW r, NEW level, Holds(ann[i], base, d, f, r, level)
    PROVE  Holds(PointOf(c, i, T, ann), base, d, f, r, level)
<1>1. CASE i \in 1 .. Len(c) /\ c[i][1] = "LABEL"
  <2>1. Flow(c[i], ann[i], ann[i + 1], T)
    BY <1>1 DEF Typed
  <2>2. Goes(c[i][2], ann[i], T)
    BY <2>1, <1>1 DEF Flow
  <2>3. Sub(ann[i], T[c[i][2]])
    BY <2>2 DEF Goes
  <2>4. PointOf(c, i, T, ann) = T[c[i][2]]
    BY <1>1 DEF PointOf, Arrival
  <2> QED BY <2>3, <2>4, HoldsSub
<1>2. CASE ~(i \in 1 .. Len(c) /\ c[i][1] = "LABEL")
  BY <1>2 DEF PointOf, Arrival
<1> QED BY <1>1, <1>2

\* So it is in the program.
LEMMA HoldsNext ==
    ASSUME NEW T, NEW ann, Typed(code, ann, T), NEW i, i \in 1 .. Len(code) + 1,
           NEW base, NEW d, NEW f, NEW r, NEW level, Holds(ann[i], base, d, f, r, level)
    PROVE  Holds(PointAt(i, T, ann), base, d, f, r, level)
  BY HoldsNextIn DEF PointAt

\* An instruction that goes on with the next one.
LEMMA Falls ==
    ASSUME NEW T, NEW ann, Typed(code, ann, T), NEW base, NEW level, pc \in 1 .. Len(code),
           pc' = pc + 1, MTypes', Holds(ann[pc + 1], base, data', frames', CurrentRange', level)
    PROVE  Moved(T, ann, base, level)
<1>1. Len(code) \in Nat
  BY DEF Typed, IsSeq
<1>2. pc' \in 1 .. Len(code) + 1 /\ Holds(ann[pc'], base, data', frames', CurrentRange', level)
  BY <1>1
<1>3. Holds(PointAt(pc', T, ann), base, data', frames', CurrentRange', level)
  BY <1>2, HoldsNext
<1> QED BY <1>2, <1>3 DEF Moved

\* A label that is there is at the point T gives it.
LEMMA PlaceOf ==
    ASSUME NEW T, NEW ann, Typed(code, ann, T), NEW l, Places(l) # {}
    PROVE  Place(l) \in 1 .. Len(code) /\ PointAt(Place(l), T, ann) = T[l]
<1>1. Place(l) \in Places(l)
  BY DEF Place
<1>2. Place(l) \in DOMAIN code /\ code[Place(l)] = <<"LABEL", l>>
  BY <1>1 DEF Places
<1>3. DOMAIN code = 1 .. Len(code)
  BY DEF Typed, IsSeq
<1> QED BY <1>2, <1>3 DEF PointAt, PointOf, Arrival

\* An instruction that jumps.
LEMMA Jumps ==
    ASSUME NEW T, NEW ann, Typed(code, ann, T), NEW base, NEW level, NEW l, NEW a, Goes(l, a, T),
           Places(l) # {}, pc' = Place(l), MTypes', Holds(a, base, data', frames', CurrentRange', level)
    PROVE  Moved(T, ann, base, level)
<1>1. pc' \in 1 .. Len(code) /\ PointAt(pc', T, ann) = T[l]
  BY PlaceOf
<1>2. Len(code) \in Nat
  BY DEF Typed, IsSeq
<1>3. Sub(a, T[l])
  BY DEF Goes
<1>4. Holds(T[l], base, data', frames', CurrentRange', level)
  BY <1>3, HoldsSub
<1> QED BY <1>1, <1>2, <1>4 DEF Moved

\* What the point of an instruction that is no label says
LEMMA ActiveAt ==
    ASSUME NEW T, NEW ann, NEW base, NEW level, Active(T, ann, base, level), Operation # "LABEL"
    PROVE  /\ Flow(code[pc], ann[pc], ann[pc + 1], T)
           /\ ann[pc] \in Point /\ ann[pc + 1] \in Point
           /\ Holds(ann[pc], base, data, frames, CurrentRange, level)
           /\ IsBase(base) /\ MTypes /\ Typed(code, ann, T) /\ pc \in 1 .. Len(code)
<1>1. /\ pc \in 1 .. Len(code) /\ Typed(code, ann, T) /\ IsBase(base) /\ MTypes
      /\ Holds(PointAt(pc, T, ann), base, data, frames, CurrentRange, level)
  BY DEF Active
<1>2. Flow(code[pc], ann[pc], ann[pc + 1], T)
  BY <1>1 DEF Typed
<1>3. PointAt(pc, T, ann) = ann[pc]
  BY <1>1 DEF PointAt, PointOf, Arrival, Operation
<1>4. ann[pc] \in Point /\ ann[pc + 1] \in Point
  <2>1. ann \in [1 .. Len(code) + 1 -> Point] /\ Len(code) \in Nat
    BY <1>1 DEF Typed, IsSeq
  <2>2. pc \in 1 .. Len(code) + 1 /\ pc + 1 \in 1 .. Len(code) + 1
    BY <1>1, <2>1
  <2> QED BY <2>1, <2>2
<1> QED BY <1>1, <1>2, <1>3, <1>4

\* g is e but for x, which is v.
GlobalSet(g, x, v, e) ==
    /\ registers \subseteq DOMAIN g /\ Env(g)
    /\ g[for_counter_reg] = IF x = for_counter_reg THEN v ELSE e[for_counter_reg]
    /\ g[for_max_val] = IF x = for_max_val THEN v ELSE e[for_max_val]

\* GF has the registers, and integers only.
LEMMA SetGlobal ==
    ASSUME NEW x, NEW v \in Int, NEW e, registers \subseteq DOMAIN e, Env(e)
    PROVE  GlobalSet(Over(All({x}, v), e), x, v, e)
<1> DEFINE f == All({x}, v)
           g == Over(f, e)
<1>1. DOMAIN f = {x} /\ f[x] = v
  BY DEF All
<1> HIDE DEF f
<1>2. /\ DOMAIN g = DOMAIN f \cup DOMAIN e
      /\ \A y \in DOMAIN g : g[y] = IF y \in DOMAIN f THEN f[y] ELSE e[y]
  BY DEF Over
<1> HIDE DEF g
<1>3. DOMAIN g = {x} \cup DOMAIN e /\ \A y \in DOMAIN g : g[y] = IF y = x THEN v ELSE e[y]
  BY <1>1, <1>2
<1>4. for_counter_reg \in DOMAIN g /\ for_max_val \in DOMAIN g
  BY <1>3 DEF registers
<1>5. Env(g)
  BY <1>3 DEF Env
<1>6. registers \subseteq DOMAIN g
  BY <1>3
<1>7. GlobalSet(g, x, v, e)
  BY <1>3, <1>4, <1>5, <1>6 DEF GlobalSet
<1> QED BY <1>7 DEF f, g

\* LF holds integers only.
LEMMA SetLocal ==
    ASSUME NEW x, NEW v \in Int, NEW e, Env(e)
    PROVE  Env(Over(All({x}, v), e))
  BY DEF Env, Over, All

\* What Set does to the frames and the range
LEMMA SetFacts ==
    ASSUME MTypes, NEW x, NEW v \in Int, Set(x, v), x[2] = 0 \/ Len(frames) > 0, data' \in Seq(Int)
    PROVE  /\ MTypes' /\ Len(frames') = Len(frames)
           /\ \A i \in 1 .. Len(frames) - 1 : frames'[i] = frames[i]
           /\ x[2] = 0 => frames' = frames
           /\ CurrentRange'[1] = IF x = for_counter_reg THEN v ELSE CurrentRange[1]
           /\ CurrentRange'[2] = IF x = for_max_val THEN v ELSE CurrentRange[2]
<1>1. CASE x[2] = 0
  <2>1. global' = Over(All({x}, v), global) /\ frames' = frames
    BY <1>1 DEF Set
  <2>2. /\ registers \subseteq DOMAIN global' /\ Env(global')
        /\ global'[for_counter_reg] = IF x = for_counter_reg THEN v ELSE global[for_counter_reg]
        /\ global'[for_max_val] = IF x = for_max_val THEN v ELSE global[for_max_val]
    <3>1. PICK e : e = global
      OBVIOUS
    <3>2. registers \subseteq DOMAIN e /\ Env(e)
      BY <3>1 DEF MTypes
    <3>3. GlobalSet(Over(All({x}, v), e), x, v, e)
      BY <3>2, SetGlobal
    <3>4. GlobalSet(global', x, v, e)
      BY <2>1, <3>1, <3>3
    <3> QED BY <3>1, <3>4 DEF GlobalSet
  <2>3. MTypes'
    BY <2>1, <2>2 DEF MTypes
  <2> QED BY <2>1, <2>2, <2>3 DEF CurrentRange
<1>2. CASE x[2] # 0
  <2> DEFINE n == Len(frames)
             e == Over(All({x}, v), frames[n])
             S == {frames[i] : i \in DOMAIN frames}
             g == [frames EXCEPT ![n] = e]
  <2>1. frames' = g /\ global' = global
    BY <1>2 DEF Set
  <2>2. frames \in Seq(S) /\ n \in Nat /\ n > 0
    BY <1>2 DEF MTypes, IsSeq
  <2>3. Env(e)
    <3>1. Env(frames[n])
      BY <2>2 DEF MTypes
    <3> QED BY <3>1, SetLocal
  <2> HIDE DEF S, e
  <2>4. g \in Seq(S \cup {e}) /\ Len(g) = n /\ g[n] = e /\ \A i \in 1 .. n - 1 : g[i] = frames[i]
    <3>1. frames \in Seq(S \cup {e}) /\ e \in S \cup {e} /\ n \in 1 .. Len(frames)
      BY <2>2
    <3> DEFINE Q == S \cup {e}
    <3> HIDE DEF Q
    <3>2. frames \in Seq(Q) /\ e \in Q
      BY <3>1 DEF Q
    <3>3. g \in Seq(Q) /\ Len(g) = n
      BY <3>2, <2>2
    <3>4. g[n] = e /\ \A i \in 1 .. n - 1 : g[i] = frames[i]
      BY <3>2, <2>2
    <3> QED BY <3>3, <3>4 DEF Q
  <2> HIDE DEF g
  <2>5. IsSeq(g)
    <3> DEFINE D == {g[i] : i \in DOMAIN g}
    <3>1. g \in [1 .. Len(g) -> D] /\ Len(g) \in Nat
      BY <2>2, <2>4
    <3>2. g \in Seq(D)
      <4> HIDE DEF D
      <4> QED BY <3>1
    <3> QED BY <3>2 DEF IsSeq
  <2>6. \A i \in 1 .. Len(g) : Env(g[i])
    <3> TAKE i \in 1 .. Len(g)
    <3>1. \A j \in 1 .. n : Env(frames[j])
      BY DEF MTypes
    <3>2. i = n \/ i \in 1 .. n - 1
      BY <2>2, <2>4
    <3> QED BY <3>1, <3>2, <2>2, <2>3, <2>4
  <2>7. MTypes'
    BY <2>1, <2>5, <2>6 DEF MTypes
  <2>8. x # for_counter_reg /\ x # for_max_val
    BY <1>2 DEF for_counter_reg, for_max_val
  <2>9. CurrentRange' = CurrentRange
    BY <2>1 DEF CurrentRange
  <2>10. /\ CurrentRange'[1] = IF x = for_counter_reg THEN v ELSE CurrentRange[1]
         /\ CurrentRange'[2] = IF x = for_max_val THEN v ELSE CurrentRange[2]
    BY <2>8, <2>9
  <2>11. Len(frames') = n /\ \A i \in 1 .. n - 1 : frames'[i] = frames[i]
    BY <2>1, <2>4
  <2> QED BY <1>2, <2>7, <2>10, <2>11
<1> QED BY <1>1, <1>2

\* What a variable holds
LEMMA VariableIn ==
    ASSUME MTypes, NEW x, Exists(x)
    PROVE  /\ FrameOf(x)[x] \in Int
           /\ x = for_counter_reg => FrameOf(x)[x] = CurrentRange[1]
           /\ x = for_max_val => FrameOf(x)[x] = CurrentRange[2]
<1>1. CASE x[2] = 0
  <2>1. FrameOf(x) = global /\ x \in DOMAIN global
    BY <1>1 DEF FrameOf, Exists
  <2>2. global[x] \in Int
    BY <2>1 DEF MTypes, Env
  <2> QED BY <2>1, <2>2 DEF CurrentRange
<1>2. CASE x[2] # 0
  <2>1. FrameOf(x) = frames[Len(frames)] /\ x \in DOMAIN FrameOf(x) /\ frames # <<>>
    BY <1>2 DEF FrameOf, Exists, Last
  <2>2. Len(frames) \in 1 .. Len(frames)
    <3> DEFINE S == {frames[i] : i \in DOMAIN frames}
    <3>1. frames \in Seq(S)
      BY DEF MTypes, IsSeq
    <3> HIDE DEF S
    <3> QED BY <3>1, <2>1
  <2>3. Env(frames[Len(frames)])
    BY <2>2 DEF MTypes
  <2>4. x # for_counter_reg /\ x # for_max_val
    BY <1>2 DEF for_counter_reg, for_max_val
  <2> QED BY <2>1, <2>3, <2>4 DEF Env
<1> QED BY <1>1, <1>2

\* What is read is among the values of the point.
LEMMA ValuesIn ==
    ASSUME MTypes, NEW x, Source(x), NEW a \in Point, NEW base, NEW level,
           Holds(a, base, data, frames, CurrentRange, level), NEW v \in Values(x)
    PROVE  v \in Val(x, a) /\ Val(x, a) \in SUBSET Int /\ v \in Int
<1>1. a.counter \in SUBSET Int /\ a.max \in SUBSET Int
  BY PointFields
<1>2. CurrentRange[1] \in a.counter /\ CurrentRange[2] \in a.max
  BY DEF Holds
<1>0. nil[1] = "nil" /\ Condition[1] = "condition" /\ Maybe[1] = "maybe"
  BY DEF nil, Condition, Maybe
<1>3. CASE x[1] = "int"
  <2>0. x # nil /\ x # Condition /\ x # Maybe
    BY <1>0, <1>3
  <2>1. Values(x) = {x[2]} /\ x[2] \in Int
    BY <1>3, <2>0 DEF Values, Source
  <2>2. x # for_counter_reg /\ x # for_max_val
    BY <1>3 DEF for_counter_reg, for_max_val
  <2>3. Val(x, a) = {x[2]}
    BY <1>3, <2>2 DEF Val
  <2> QED BY <2>1, <2>3
<1>4. CASE x[1] # "int" /\ x \in {nil, Condition, Maybe}
  <2>1. Values(x) \subseteq Int
    <3>2. nil # Condition /\ nil # Maybe /\ Condition # Maybe
      BY <1>0
    <3>3. CASE x = nil
      <4>1. x[1] # "int" /\ x # Condition /\ x # Maybe
        BY <1>4, <3>2, <3>3
      <4>2. Values(x) = {Nil}
        BY <3>3, <4>1 DEF Values
      <4> QED BY <4>2 DEF Nil
    <3>4. CASE x = Condition
      <4>1. x[1] # "int" /\ x # nil /\ x # Maybe
        BY <1>4, <3>2, <3>4
      <4>2. Values(x) = {0, 1}
        BY <3>4, <4>1 DEF Values
      <4> QED BY <4>2
    <3>5. CASE x = Maybe
      <4>1. x[1] # "int" /\ x # Condition /\ x # nil
        BY <1>4, <3>2, <3>5
      <4>2. Values(x) = {0, Nil}
        BY <3>5, <4>1 DEF Values
      <4> QED BY <4>2 DEF Nil
    <3> QED BY <1>4, <3>3, <3>4, <3>5
  <2>2. Val(x, a) = Int
    <3>1. nil \notin Ranged /\ Condition \notin Ranged /\ Maybe \notin Ranged
      BY DEF nil, Condition, Maybe, Ranged, for_counter_reg, for_max_val
    <3>2. x \notin Ranged
      BY <1>4, <3>1
    <3> QED BY <1>4, <3>2 DEF Val, Ranged
  <2> QED BY <2>1, <2>2
<1>5. CASE x[1] # "int" /\ x \notin {nil, Condition, Maybe}
  <2>1. Values(x) = IF Exists(x) THEN {FrameOf(x)[x]} \ {Undefined} ELSE {}
    BY <1>5 DEF Values
  <2>2. Exists(x) /\ v = FrameOf(x)[x]
    BY <2>1
  <2>3. /\ v \in Int /\ (x = for_counter_reg => v = CurrentRange[1])
        /\ (x = for_max_val => v = CurrentRange[2])
    BY <2>2, VariableIn
  <2> QED BY <1>1, <1>2, <1>5, <2>3 DEF Val
<1> QED BY <1>3, <1>4, <1>5

\* PUSHS puts a value on the data stack that is as the point says.
LEMMA PushsMoved ==
    ASSUME NEW T, NEW ann, NEW base, NEW level, Active(T, ann, base, level), PUSHS
    PROVE  Moved(T, ann, base, level)
<1>1. PICK x, v : x = Operand /\ v \in Values(x) /\ data' = Append(data, v)
  BY DEF PUSHS
<1>2. Operation = "PUSHS" /\ pc' = pc + 1 /\ UNCHANGED <<global, frames>>
  BY DEF PUSHS, Does, Step
<1>3. PICK a, b : a = ann[pc] /\ b = ann[pc + 1]
  OBVIOUS
<1>4. /\ Flow(code[pc], a, b, T) /\ a \in Point /\ b \in Point
      /\ Holds(a, base, data, frames, CurrentRange, level)
      /\ IsBase(base) /\ MTypes /\ Typed(code, ann, T) /\ pc \in 1 .. Len(code)
  BY <1>2, <1>3, ActiveAt
<1>5. Source(x) /\ b = Push(a, Val(x, a))
  BY <1>1, <1>2, <1>4 DEF Flow, Operation, Operand
<1>6. v \in Val(x, a) /\ Val(x, a) \in SUBSET Int /\ v \in Int
  BY <1>1, <1>4, <1>5, ValuesIn
<1>7. data \in Seq(Int)
  BY <1>4 DEF MTypes
<1>8. PICK V : V = Val(x, a)
  OBVIOUS
<1>9. Holds(Push(a, V), base, Append(data, v), frames, CurrentRange, level)
  BY <1>4, <1>6, <1>7, <1>8, HoldsPush
<1>10. CurrentRange' = CurrentRange
  BY <1>2 DEF CurrentRange
<1>11. Holds(ann[pc + 1], base, data', frames', CurrentRange', level)
  BY <1>1, <1>2, <1>3, <1>5, <1>8, <1>9, <1>10
<1>12. MTypes'
  <2>1. data' \in Seq(Int)
    BY <1>1, <1>6, <1>7
  <2> QED BY <2>1, <1>2, <1>4 DEF MTypes
<1> QED BY <1>2, <1>4, <1>11, <1>12, Falls

\* The stack a point says is there is there.
LEMMA Popped ==
    ASSUME NEW a \in Point, NEW base, IsBase(base), NEW level, MTypes,
           Holds(a, base, data, frames, CurrentRange, level), NEW n \in Nat, n <= Len(a.data)
    PROVE  /\ Holds(Drop(a, n), base, Without(n), frames, CurrentRange, level)
           /\ Without(n) \in Seq(Int) /\ Drop(a, n) \in Point
           /\ \A m \in 1 .. n : Top(m) \in Item(a, m) /\ Top(m) \in Int
<1>1. data \in Seq(Int)
  BY DEF MTypes
<1> QED BY <1>1, HoldsDrop DEF Without, Top

\* An assignment of the registers and variables keeps the rest.
LEMMA Stored ==
    ASSUME NEW a \in Point, NEW base, IsBase(base), NEW level, MTypes,
           NEW d, Holds(a, base, d, frames, CurrentRange, level), NEW x, NEW v \in Int, NEW V, v \in V,
           Set(x, v), Writable(x, a), data' \in Seq(Int)
    PROVE  MTypes' /\ Holds(Store(a, x, V), base, d, frames', CurrentRange', level)
<1>1. Len(frames) = Len(base.frames) + a.frame /\ a.frame \in {0, 1} /\ Len(base.frames) \in Nat
  BY PointFields DEF Holds, IsBase, IsSeq
<1>2. x[2] = 0 \/ a.frame = 1
  BY DEF Writable
<1>3. x[2] = 0 \/ Len(frames) > 0
  BY <1>1, <1>2
<1>4. /\ MTypes' /\ Len(frames') = Len(frames)
      /\ \A i \in 1 .. Len(frames) - 1 : frames'[i] = frames[i]
      /\ x[2] = 0 => frames' = frames
      /\ CurrentRange'[1] = IF x = for_counter_reg THEN v ELSE CurrentRange[1]
      /\ CurrentRange'[2] = IF x = for_max_val THEN v ELSE CurrentRange[2]
  BY <1>3, SetFacts
<1>5. \A i \in 1 .. Len(base.frames) : frames[i] = base.frames[i]
  BY DEF Holds
<1>6. \A i \in 1 .. Len(base.frames) : frames'[i] = base.frames[i]
  <2>1. CASE x[2] = 0
    BY <1>4, <1>5, <2>1
  <2>2. CASE a.frame = 1
    <3>1. \A i \in 1 .. Len(base.frames) : i \in 1 .. Len(frames) - 1
      BY <1>1, <2>2
    <3> QED BY <3>1, <1>4, <1>5
  <2> QED BY <1>2, <2>1, <2>2
<1>7. Holds(a, base, d, frames', CurrentRange, level)
  <2>1. Len(frames') = Len(base.frames) + a.frame
    BY <1>1, <1>4
  <2> QED BY <2>1, <1>6, HoldsFrames
<1> DEFINE q == Store(a, x, V)
<1>8. /\ q.level = a.level /\ q.frame = a.frame /\ q.data = a.data
      /\ q.counter = IF x = for_counter_reg THEN V ELSE a.counter
      /\ q.max = IF x = for_max_val THEN V ELSE a.max
  <2>1. for_counter_reg # for_max_val
    BY DEF for_counter_reg, for_max_val
  <2> QED BY <2>1 DEF Store, Counting, Limited, At
<1>9. CurrentRange[1] \in a.counter /\ CurrentRange[2] \in a.max
  BY DEF Holds
<1> HIDE DEF q
<1>10. CurrentRange'[1] \in q.counter /\ CurrentRange'[2] \in q.max
  BY <1>4, <1>8, <1>9
<1>11. PICK r : r = CurrentRange'
  OBVIOUS
<1>12. Holds(q, base, d, frames', r, level)
  BY <1>7, <1>8, <1>10, <1>11, HoldsRange
<1> QED BY <1>4, <1>11, <1>12 DEF q

\* POPS takes the top of the stack to where it is stored.
LEMMA PopsMoved ==
    ASSUME NEW T, NEW ann, NEW base, NEW level, Active(T, ann, base, level), POPS
    PROVE  Moved(T, ann, base, level)
<1>1. PICK x, v, d : x = Operand /\ v = Top(1) /\ d = Without(1)
  OBVIOUS
<1>2. Operation = "POPS" /\ pc' = pc + 1 /\ Set(x, v) /\ data' = d
  BY <1>1 DEF POPS, Does, Step
<1>3. PICK a, b : a = ann[pc] /\ b = ann[pc + 1]
  OBVIOUS
<1>4. /\ Flow(code[pc], a, b, T) /\ a \in Point /\ b \in Point
      /\ Holds(a, base, data, frames, CurrentRange, level)
      /\ IsBase(base) /\ MTypes /\ Typed(code, ann, T) /\ pc \in 1 .. Len(code)
  BY <1>2, <1>3, ActiveAt
<1>5. Len(a.data) > 0 /\ Writable(x, a) /\ b = Store(Drop(a, 1), x, Item(a, 1))
  BY <1>1, <1>2, <1>4 DEF Flow, Operation, Operand
<1>6. 1 \in Nat /\ 1 <= Len(a.data) /\ 1 \in 1 .. 1
  BY <1>4, <1>5, PointFields
<1>7. PICK q, V : q = Drop(a, 1) /\ V = Item(a, 1)
  OBVIOUS
<1>8. Holds(q, base, d, frames, CurrentRange, level) /\ d \in Seq(Int) /\ q \in Point /\ v \in V /\ v \in Int
  BY <1>1, <1>4, <1>6, <1>7, Popped
<1>9. Writable(x, q)
  BY <1>5, <1>7 DEF Drop, At, Writable
<1>10. MTypes' /\ Holds(Store(q, x, V), base, d, frames', CurrentRange', level)
  BY <1>2, <1>4, <1>8, <1>9, Stored
<1>11. Holds(ann[pc + 1], base, data', frames', CurrentRange', level)
  BY <1>2, <1>3, <1>5, <1>7, <1>10
<1> QED BY <1>2, <1>4, <1>10, <1>11, Falls

\* ADDS puts a sum of the two at the top in their place.
LEMMA AddsMoved ==
    ASSUME NEW T, NEW ann, NEW base, NEW level, Active(T, ann, base, level), ADDS
    PROVE  Moved(T, ann, base, level)
<1>1. PICK v, w, d : v = Top(1) /\ w = Top(2) /\ d = Without(2)
  OBVIOUS
<1>2. Operation = "ADDS" /\ pc' = pc + 1 /\ data' = Append(d, v + w) /\ UNCHANGED <<global, frames>>
  BY <1>1 DEF ADDS, Does, Step
<1>3. PICK a, b : a = ann[pc] /\ b = ann[pc + 1]
  OBVIOUS
<1>4. /\ Flow(code[pc], a, b, T) /\ a \in Point /\ b \in Point
      /\ Holds(a, base, data, frames, CurrentRange, level)
      /\ IsBase(base) /\ MTypes /\ Typed(code, ann, T) /\ pc \in 1 .. Len(code)
  BY <1>2, <1>3, ActiveAt
<1>5. Len(a.data) > 1 /\ b = Push(Drop(a, 2), Sums(Item(a, 1), Item(a, 2)))
  BY <1>2, <1>4 DEF Flow, Operation
<1>6. 2 \in Nat /\ 2 <= Len(a.data) /\ 1 \in 1 .. 2 /\ 2 \in 1 .. 2
  BY <1>4, <1>5, PointFields
<1>7. PICK q, V, W : q = Drop(a, 2) /\ V = Item(a, 1) /\ W = Item(a, 2)
  OBVIOUS
<1>8. /\ Holds(q, base, d, frames, CurrentRange, level) /\ d \in Seq(Int) /\ q \in Point
      /\ v \in V /\ v \in Int /\ w \in W /\ w \in Int
  BY <1>1, <1>4, <1>6, <1>7, Popped
<1>9. V \in SUBSET Int /\ W \in SUBSET Int
  <2>1. /\ a.data \in Seq(SUBSET Int)
        /\ Len(a.data) + 1 - 1 \in 1 .. Len(a.data) /\ Len(a.data) + 1 - 2 \in 1 .. Len(a.data)
    BY <1>4, <1>5, PointFields
  <2>2. V = a.data[Len(a.data) + 1 - 1] /\ W = a.data[Len(a.data) + 1 - 2]
    BY <1>7 DEF Item
  <2> QED BY <2>1, <2>2
<1>10. PICK S, s : S = Sums(V, W) /\ s = v + w
  OBVIOUS
<1>11. S \in SUBSET Int /\ s \in S /\ s \in Int
  <2>1. <<v, w>> \in V \X W /\ s = <<v, w>>[1] + <<v, w>>[2]
    BY <1>8, <1>10
  <2>2. s \in S
    BY <2>1, <1>10 DEF Sums
  <2>3. \A p \in V \X W : p[1] + p[2] \in Int
    <3> TAKE p \in V \X W
    <3>1. p[1] \in V /\ p[2] \in W
      OBVIOUS
    <3>2. p[1] \in Int /\ p[2] \in Int
      BY <3>1, <1>9
    <3> QED BY <3>2
  <2>4. S = {p[1] + p[2] : p \in V \X W}
    BY <1>10 DEF Sums
  <2>5. S \in SUBSET Int
    BY <2>3, <2>4
  <2>6. s \in Int
    BY <1>8, <1>10
  <2> QED BY <2>2, <2>5, <2>6
<1>12. Holds(Push(q, S), base, Append(d, s), frames, CurrentRange, level)
  BY <1>4, <1>8, <1>11, HoldsPush
<1>13. CurrentRange' = CurrentRange
  BY <1>2 DEF CurrentRange
<1>14. Holds(ann[pc + 1], base, data', frames', CurrentRange', level)
  BY <1>2, <1>3, <1>5, <1>7, <1>10, <1>12, <1>13
<1>15. MTypes'
  <2>1. data' \in Seq(Int)
    BY <1>2, <1>8, <1>10, <1>11
  <2> QED BY <2>1, <1>2, <1>4 DEF MTypes
<1> QED BY <1>2, <1>4, <1>14, <1>15, Falls

\* ADD counts.
LEMMA AddMoved ==
    ASSUME NEW T, NEW ann, NEW base, NEW level, Active(T, ann, base, level), ADD
    PROVE  Moved(T, ann, base, level)
<1>1. PICK x, v, d : x = Operand /\ v \in Values(x) /\ Set(x, v + 1) /\ d = data
  BY DEF ADD
<1>2. Operation = "ADD" /\ pc' = pc + 1 /\ data' = d
  BY <1>1 DEF ADD, Does, Step
<1>3. PICK a, b : a = ann[pc] /\ b = ann[pc + 1]
  OBVIOUS
<1>4. /\ Flow(code[pc], a, b, T) /\ a \in Point /\ b \in Point
      /\ Holds(a, base, data, frames, CurrentRange, level)
      /\ IsBase(base) /\ MTypes /\ Typed(code, ann, T) /\ pc \in 1 .. Len(code)
  BY <1>2, <1>3, ActiveAt
<1>5. x = for_counter_reg /\ b = Added(a)
  BY <1>1, <1>2, <1>4 DEF Flow, Operation, Operand
<1>6. v \in a.counter /\ v \in Int
  <2>1. Source(x)
    BY <1>5 DEF Source, for_counter_reg
  <2>2. v \in Val(x, a) /\ v \in Int
    BY <1>1, <1>4, <2>1, ValuesIn
  <2> QED BY <2>2, <1>5 DEF Val
<1>7. PICK w, V : w = v + 1 /\ V = {c + 1 : c \in a.counter}
  OBVIOUS
<1>8. w \in Int /\ w \in V /\ Set(x, w)
  BY <1>1, <1>6, <1>7
<1>9. Writable(x, a)
  BY <1>5 DEF Writable, for_counter_reg
<1>10. data' \in Seq(Int) /\ Holds(a, base, d, frames, CurrentRange, level)
  BY <1>1, <1>2, <1>4 DEF MTypes
<1>11. MTypes' /\ Holds(Store(a, x, V), base, d, frames', CurrentRange', level)
  BY <1>4, <1>8, <1>9, <1>10, Stored
<1>12. b = Store(a, x, V)
  BY <1>5, <1>7 DEF Store, Added
<1>13. Holds(ann[pc + 1], base, data', frames', CurrentRange', level)
  BY <1>2, <1>3, <1>11, <1>12
<1> QED BY <1>2, <1>4, <1>11, <1>13, Falls

\* What is no register of a range is stored, and the point stays.
LEMMA SetMoved ==
    ASSUME NEW T, NEW ann, NEW base, NEW level, NEW a \in Point, NEW x, NEW v \in Int,
           Typed(code, ann, T), IsBase(base), MTypes, pc \in 1 .. Len(code),
           Holds(a, base, data, frames, CurrentRange, level), ann[pc + 1] = a,
           x \notin Ranged, Writable(x, a), Set(x, v), UNCHANGED data, pc' = pc + 1
    PROVE  Moved(T, ann, base, level)
<1>1. PICK d : d = data
  OBVIOUS
<1>2. data' \in Seq(Int) /\ data' = d /\ Holds(a, base, d, frames, CurrentRange, level)
  BY <1>1 DEF MTypes
<1>3. v \in Int /\ v \in Int
  OBVIOUS
<1>4. PICK V : V = Int
  OBVIOUS
<1>5. v \in V
  BY <1>4
<1>6. MTypes' /\ Holds(Store(a, x, V), base, d, frames', CurrentRange', level)
  BY <1>2, <1>5, Stored
<1>7. Store(a, x, V) = a
  BY DEF Store, Ranged
<1>8. Holds(ann[pc + 1], base, data', frames', CurrentRange', level)
  BY <1>2, <1>6, <1>7
<1> QED BY <1>6, <1>8, Falls

\* MOVE stores what it reads.
LEMMA MoveMoved ==
    ASSUME NEW T, NEW ann, NEW base, NEW level, Active(T, ann, base, level), MOVE
    PROVE  Moved(T, ann, base, level)
<1>1. PICK x, y, v : x = Operand /\ y = code[pc][3] /\ v \in Values(y) /\ Set(x, v)
  BY DEF MOVE
<1>2. Operation = "MOVE" /\ pc' = pc + 1 /\ UNCHANGED data
  BY DEF MOVE, Does, Step
<1>3. PICK a, b : a = ann[pc] /\ b = ann[pc + 1]
  OBVIOUS
<1>4. /\ Flow(code[pc], a, b, T) /\ a \in Point /\ b \in Point
      /\ Holds(a, base, data, frames, CurrentRange, level)
      /\ IsBase(base) /\ MTypes /\ Typed(code, ann, T) /\ pc \in 1 .. Len(code)
  BY <1>2, <1>3, ActiveAt
<1>5. x \notin Ranged /\ Writable(x, a) /\ Source(y) /\ b = a
  BY <1>1, <1>2, <1>4 DEF Flow, Operation, Operand
<1>6. v \in Int
  BY <1>1, <1>4, <1>5, ValuesIn
<1> QED BY <1>1, <1>2, <1>3, <1>4, <1>5, <1>6, SetMoved

\* DEFVAR defines a variable, of no value yet.
LEMMA DefvarMoved ==
    ASSUME NEW T, NEW ann, NEW base, NEW level, Active(T, ann, base, level), DEFVAR
    PROVE  Moved(T, ann, base, level)
<1>1. PICK x, v : x = Operand /\ v = Undefined /\ Set(x, v)
  BY DEF DEFVAR
<1>2. Operation = "DEFVAR" /\ pc' = pc + 1 /\ UNCHANGED data
  BY DEF DEFVAR, Does, Step
<1>3. PICK a, b : a = ann[pc] /\ b = ann[pc + 1]
  OBVIOUS
<1>4. /\ Flow(code[pc], a, b, T) /\ a \in Point /\ b \in Point
      /\ Holds(a, base, data, frames, CurrentRange, level)
      /\ IsBase(base) /\ MTypes /\ Typed(code, ann, T) /\ pc \in 1 .. Len(code)
  BY <1>2, <1>3, ActiveAt
<1>5. x \notin Ranged /\ Writable(x, a) /\ b = a
  BY <1>1, <1>2, <1>4 DEF Flow, Operation, Operand
<1>6. v \in Int
  BY <1>1 DEF Undefined
<1> QED BY <1>1, <1>2, <1>3, <1>4, <1>5, <1>6, SetMoved

\* A sequence, of whatever it holds, without its last element.
LEMMA FrontIsSeq ==
    ASSUME NEW s, IsSeq(s), s # <<>>
    PROVE  /\ Len(s) \in Nat /\ Len(s) > 0 /\ IsSeq(Front(s)) /\ Len(Front(s)) = Len(s) - 1
           /\ \A i \in 1 .. Len(s) - 1 : Front(s)[i] = s[i]
<1> DEFINE S == {s[i] : i \in DOMAIN s}
           g == Front(s)
           D == {g[i] : i \in DOMAIN g}
<1>1. s \in Seq(S)
  BY DEF IsSeq
<1> HIDE DEF S
<1>2. /\ Len(s) \in Nat /\ Len(s) > 0 /\ g \in Seq(S) /\ Len(g) = Len(s) - 1
      /\ \A i \in 1 .. Len(s) - 1 : g[i] = s[i]
  BY <1>1, FrontSeq
<1> HIDE DEF g
<1>3. g \in [1 .. Len(g) -> D] /\ Len(g) \in Nat
  BY <1>2
<1>4. g \in Seq(D)
  <2> HIDE DEF D
  <2> QED BY <1>3
<1>5. IsSeq(g)
  BY <1>4 DEF IsSeq
<1> QED BY <1>2, <1>5 DEF g

\* A frame is put on the others, or taken away.
LEMMA FrameMoved ==
    ASSUME NEW T, NEW ann, NEW base, NEW level, Active(T, ann, base, level), Frame
    PROVE  Moved(T, ann, base, level)
<1>0. pc' = pc + 1 /\ UNCHANGED <<data, global>>
  BY DEF Frame, Step
<1>1. CurrentRange' = CurrentRange
  BY <1>0 DEF CurrentRange
<1>2. PICK a, b : a = ann[pc] /\ b = ann[pc + 1]
  OBVIOUS
<1>3. Operation # "LABEL"
  BY DEF Frame, Does
<1>4. /\ Flow(code[pc], a, b, T) /\ a \in Point /\ b \in Point
      /\ Holds(a, base, data, frames, CurrentRange, level)
      /\ IsBase(base) /\ MTypes /\ Typed(code, ann, T) /\ pc \in 1 .. Len(code)
  BY <1>2, <1>3, ActiveAt
<1>5. PICK f, n : f = frames /\ n = Len(base.frames)
  OBVIOUS
<1>6. /\ IsSeq(f) /\ (\A i \in 1 .. Len(f) : Env(f[i])) /\ n \in Nat
      /\ Len(f) = n + a.frame /\ \A i \in 1 .. n : f[i] = base.frames[i]
  BY <1>4, <1>5 DEF MTypes, Holds, IsBase, IsSeq
<1>7. CASE Does("CREATEFRAME") /\ UNCHANGED frames
  <2>1. b = a
    BY <1>4, <1>7 DEF Flow, Does, Operation
  <2>2. Holds(ann[pc + 1], base, data', frames', CurrentRange', level)
    BY <1>0, <1>1, <1>2, <1>4, <1>7, <2>1
  <2>3. MTypes'
    BY <1>0, <1>4, <1>7 DEF MTypes
  <2> QED BY <1>0, <1>4, <2>2, <2>3, Falls
<1>8. CASE Does("PUSHFRAME") /\ frames' = Append(frames, [x \in {} |-> Undefined])
  <2>1. a.frame = 0 /\ b = Framed(a, 1)
    BY <1>4, <1>8 DEF Flow, Does, Operation
  <2>2. PICK e, g : e = [x \in {} |-> Undefined] /\ g = Append(f, e)
    OBVIOUS
  <2>3. Env(e)
    BY <2>2 DEF Env
  <2>4. /\ IsSeq(g) /\ Len(g) = Len(f) + 1 /\ Len(f) \in Nat
        /\ (\A j \in 1 .. Len(f) : g[j] = f[j]) /\ g[Len(f) + 1] = e
    BY <1>6, <2>2, AppendIsSeq
  <2>5. \A i \in 1 .. Len(g) : Env(g[i])
    BY <1>6, <2>3, <2>4
  <2>6. b.level = a.level /\ b.data = a.data /\ b.counter = a.counter /\ b.max = a.max /\ b.frame = 1
    BY <2>1 DEF Framed, At
  <2>7. Len(g) = n + b.frame /\ \A i \in 1 .. n : g[i] = base.frames[i]
    BY <1>6, <2>1, <2>4, <2>6
  <2>8. Holds(b, base, data, g, CurrentRange, level)
    BY <1>4, <1>5, <2>6, <2>7, HoldsFrames
  <2>9. frames' = g
    BY <1>5, <1>8, <2>2
  <2>10. Holds(ann[pc + 1], base, data', frames', CurrentRange', level)
    BY <1>0, <1>1, <1>2, <2>8, <2>9
  <2>11. MTypes'
    BY <1>0, <1>4, <2>4, <2>5, <2>9 DEF MTypes
  <2> QED BY <1>0, <1>4, <2>10, <2>11, Falls
<1>9. CASE Does("POPFRAME") /\ frames # <<>> /\ frames' = Front(frames)
  <2>1. a.frame = 1 /\ b = Framed(a, 0)
    BY <1>4, <1>9 DEF Flow, Does, Operation
  <2>2. PICK g : g = Front(f)
    OBVIOUS
  <2>4. /\ IsSeq(g) /\ Len(g) = Len(f) - 1 /\ Len(f) \in Nat
        /\ \A j \in 1 .. Len(f) - 1 : g[j] = f[j]
    BY <1>5, <1>6, <1>9, <2>2, FrontIsSeq
  <2>5. \A i \in 1 .. Len(g) : Env(g[i])
    BY <1>6, <2>4
  <2>6. b.level = a.level /\ b.data = a.data /\ b.counter = a.counter /\ b.max = a.max /\ b.frame = 0
    BY <2>1 DEF Framed, At
  <2>7. Len(g) = n + b.frame /\ \A i \in 1 .. n : g[i] = base.frames[i]
    BY <1>6, <2>1, <2>4, <2>6
  <2>8. Holds(b, base, data, g, CurrentRange, level)
    BY <1>4, <1>5, <2>6, <2>7, HoldsFrames
  <2>9. frames' = g
    BY <1>5, <1>9, <2>2
  <2>10. Holds(ann[pc + 1], base, data', frames', CurrentRange', level)
    BY <1>0, <1>1, <1>2, <2>8, <2>9
  <2>11. MTypes'
    BY <1>0, <1>4, <2>4, <2>5, <2>9 DEF MTypes
  <2> QED BY <1>0, <1>4, <2>10, <2>11, Falls
<1> QED BY <1>7, <1>8, <1>9 DEF Frame

\* LABEL goes on.
LEMMA LabelMoved ==
    ASSUME NEW T, NEW ann, NEW base, NEW level, Active(T, ann, base, level), LABEL
    PROVE  Moved(T, ann, base, level)
<1>0. pc' = pc + 1 /\ UNCHANGED <<data, global, frames>> /\ Operation = "LABEL"
  BY DEF LABEL, Does, Step
<1>1. CurrentRange' = CurrentRange
  BY <1>0 DEF CurrentRange
<1>2. /\ pc \in 1 .. Len(code) /\ Typed(code, ann, T) /\ MTypes
      /\ Holds(PointAt(pc, T, ann), base, data, frames, CurrentRange, level)
  BY DEF Active
<1>3. Flow(code[pc], ann[pc], ann[pc + 1], T)
  BY <1>2 DEF Typed
<1>4. ann[pc + 1] = T[code[pc][2]]
  BY <1>0, <1>3 DEF Flow, Operation
<1>5. PointAt(pc, T, ann) = T[code[pc][2]]
  BY <1>0, <1>2 DEF PointAt, PointOf, Arrival, Operation
<1>6. Holds(ann[pc + 1], base, data', frames', CurrentRange', level)
  BY <1>0, <1>1, <1>2, <1>4, <1>5
<1>7. MTypes'
  BY <1>0, <1>2 DEF MTypes
<1> QED BY <1>0, <1>2, <1>6, <1>7, Falls

\* JUMP goes to its label.
LEMMA JumpMoved ==
    ASSUME NEW T, NEW ann, NEW base, NEW level, Active(T, ann, base, level), JUMP
    PROVE  Moved(T, ann, base, level)
<1>0. PICK l : l = Operand
  OBVIOUS
<1>1. /\ pc' = Place(l) /\ Places(l) # {} /\ UNCHANGED <<data, global, frames>> /\ Operation = "JUMP"
  BY <1>0 DEF JUMP, JumpIf, Does
<1>2. CurrentRange' = CurrentRange
  BY <1>1 DEF CurrentRange
<1>3. PICK a, b : a = ann[pc] /\ b = ann[pc + 1]
  OBVIOUS
<1>4. /\ Flow(code[pc], a, b, T) /\ Holds(a, base, data, frames, CurrentRange, level)
      /\ IsBase(base) /\ MTypes /\ Typed(code, ann, T) /\ pc \in 1 .. Len(code)
  BY <1>1, <1>3, ActiveAt
<1>5. Goes(l, a, T)
  BY <1>0, <1>1, <1>4 DEF Flow, Operation, Operand
<1>6. Holds(a, base, data', frames', CurrentRange', level)
  BY <1>1, <1>2, <1>4
<1>7. MTypes'
  BY <1>1, <1>4 DEF MTypes
<1> QED BY <1>1, <1>4, <1>5, <1>6, <1>7, Jumps

\* The counter and the limit are read as they are.
LEMMA CounterValue ==
    ASSUME MTypes
    PROVE  /\ Values(for_counter_reg) \subseteq {CurrentRange[1]}
           /\ Values(for_max_val) \subseteq {CurrentRange[2]}
<1>1. /\ for_counter_reg \notin {nil, Condition, Maybe} /\ for_counter_reg[1] # "int"
      /\ for_max_val \notin {nil, Condition, Maybe} /\ for_max_val[1] # "int"
  BY DEF for_counter_reg, for_max_val, nil, Condition, Maybe
<1>2. ASSUME NEW x \in {for_counter_reg, for_max_val}, NEW v \in Values(x)
      PROVE  Exists(x) /\ v = FrameOf(x)[x]
  <2>1. Values(x) = IF Exists(x) THEN {FrameOf(x)[x]} \ {Undefined} ELSE {}
    BY <1>1 DEF Values
  <2> QED BY <2>1
<1> QED BY <1>2, VariableIn

\* JUMPIFEQ goes on only where the counter is not yet the limit.
LEMMA JumpIfEqMoved ==
    ASSUME NEW T, NEW ann, NEW base, NEW level, Active(T, ann, base, level), JUMPIFEQ
    PROVE  Moved(T, ann, base, level)
<1>0. PICK l, x, y : l = Operand /\ x = code[pc][3] /\ y = code[pc][4]
  OBVIOUS
<1>1. PICK v \in Values(x), w \in Values(y) : JumpIf(v = w)
  BY <1>0 DEF JUMPIFEQ
<1>2. /\ pc' = IF v = w THEN Place(l) ELSE pc + 1
      /\ Places(l) # {} /\ UNCHANGED <<data, global, frames>> /\ Operation = "JUMPIFEQ"
  BY <1>0, <1>1 DEF JUMPIFEQ, JumpIf, Does
<1>3. CurrentRange' = CurrentRange
  BY <1>2 DEF CurrentRange
<1>4. PICK a, b : a = ann[pc] /\ b = ann[pc + 1]
  OBVIOUS
<1>5. /\ Flow(code[pc], a, b, T) /\ Holds(a, base, data, frames, CurrentRange, level)
      /\ IsBase(base) /\ MTypes /\ Typed(code, ann, T) /\ pc \in 1 .. Len(code)
  BY <1>2, <1>4, ActiveAt
<1>6. Goes(l, a, T) /\ b = Unlike(a, x, y)
  BY <1>0, <1>2, <1>5 DEF Flow, Operation, Operand
<1>7. MTypes'
  BY <1>2, <1>5 DEF MTypes
<1>8. CASE v = w
  <2>1. Holds(a, base, data', frames', CurrentRange', level)
    BY <1>2, <1>3, <1>5
  <2>2. pc' = Place(l)
    BY <1>2, <1>8
  <2> QED BY <1>2, <1>5, <1>6, <1>7, <2>1, <2>2, Jumps
<1>9. CASE v # w
  <2>1. pc' = pc + 1
    BY <1>2, <1>9
  <2>2. Holds(b, base, data, frames, CurrentRange, level)
    <3>1. CASE x = for_counter_reg /\ y = for_max_val
      <4>1. v = CurrentRange[1] /\ w = CurrentRange[2]
        BY <1>1, <1>5, <3>1, CounterValue
      <4>2. CurrentRange[1] \in a.counter /\ CurrentRange[2] \in a.max
        BY <1>5 DEF Holds
      <4>3. a.max # {CurrentRange[1]}
        BY <1>9, <4>1, <4>2
      <4>4. b = Counting(a, {c \in a.counter : a.max # {c}})
        BY <1>6, <3>1 DEF Unlike
      <4>5. /\ b.level = a.level /\ b.frame = a.frame /\ b.data = a.data /\ b.max = a.max
            /\ b.counter = {c \in a.counter : a.max # {c}}
        BY <4>4 DEF Counting, At
      <4>6. CurrentRange[1] \in b.counter /\ CurrentRange[2] \in b.max
        BY <4>2, <4>3, <4>5
      <4>7. PICK r : r = CurrentRange
        OBVIOUS
      <4> QED BY <1>5, <4>5, <4>6, <4>7, HoldsRange
    <3>2. CASE ~(x = for_counter_reg /\ y = for_max_val)
      BY <1>5, <1>6, <3>2 DEF Unlike
    <3> QED BY <3>1, <3>2
  <2>3. Holds(ann[pc + 1], base, data', frames', CurrentRange', level)
    BY <1>2, <1>3, <1>4, <2>2
  <2> QED BY <1>5, <1>7, <2>1, <2>3, Falls
<1> QED BY <1>8, <1>9

\* JUMPIFNEQS takes two values, whether it jumps or not.
LEMMA JumpIfNeqsMoved ==
    ASSUME NEW T, NEW ann, NEW base, NEW level, Active(T, ann, base, level), JUMPIFNEQS
    PROVE  Moved(T, ann, base, level)
<1>0. PICK l, d : l = Operand /\ d = Without(2)
  OBVIOUS
<1>1. /\ pc' = (IF Top(1) # Top(2) THEN Place(l) ELSE pc + 1)
      /\ Places(l) # {} /\ UNCHANGED <<global, frames>> /\ Operation = "JUMPIFNEQS" /\ data' = d
  BY <1>0 DEF JUMPIFNEQS, JumpIf, Does
<1>2. CurrentRange' = CurrentRange
  BY <1>1 DEF CurrentRange
<1>3. PICK a, b : a = ann[pc] /\ b = ann[pc + 1]
  OBVIOUS
<1>4. /\ Flow(code[pc], a, b, T) /\ a \in Point /\ Holds(a, base, data, frames, CurrentRange, level)
      /\ IsBase(base) /\ MTypes /\ Typed(code, ann, T) /\ pc \in 1 .. Len(code)
  BY <1>1, <1>3, ActiveAt
<1>5. Len(a.data) > 1 /\ Goes(l, Drop(a, 2), T) /\ b = Drop(a, 2)
  BY <1>0, <1>1, <1>4 DEF Flow, Operation, Operand
<1>6. 2 \in Nat /\ 2 <= Len(a.data)
  BY <1>4, <1>5, PointFields
<1>7. PICK q : q = Drop(a, 2)
  OBVIOUS
<1>8. Holds(q, base, d, frames, CurrentRange, level) /\ d \in Seq(Int)
  BY <1>0, <1>4, <1>6, <1>7, Popped
<1>9. MTypes'
  BY <1>1, <1>4, <1>8 DEF MTypes
<1>10. Holds(q, base, data', frames', CurrentRange', level)
  BY <1>1, <1>2, <1>8
<1>11. CASE Top(1) # Top(2)
  <2>1. pc' = Place(l) /\ Goes(l, q, T)
    BY <1>1, <1>5, <1>7, <1>11
  <2> QED BY <1>1, <1>4, <1>9, <1>10, <2>1, Jumps
<1>12. CASE Top(1) = Top(2)
  <2>1. pc' = pc + 1 /\ Holds(ann[pc + 1], base, data', frames', CurrentRange', level)
    BY <1>1, <1>3, <1>5, <1>7, <1>10, <1>12
  <2> QED BY <1>4, <1>9, <2>1, Falls
<1> QED BY <1>11, <1>12

\* Every instruction but CALL and RETURN stays in its activation.
LEMMA TopMoved ==
    ASSUME NEW T, NEW ann, NEW base, NEW level, Active(T, ann, base, level),
           \/ PUSHS \/ POPS \/ ADDS \/ ADD \/ MOVE \/ DEFVAR \/ Frame \/ LABEL
           \/ JUMP \/ JUMPIFEQ \/ JUMPIFNEQS
    PROVE  Moved(T, ann, base, level)
  BY PushsMoved, PopsMoved, AddsMoved, AddMoved, MoveMoved, DefvarMoved, FrameMoved, LabelMoved,
     JumpMoved, JumpIfEqMoved, JumpIfNeqsMoved

-----------------------------------------------------------------------------
\* What the main program found, as what a call found is in calls
Main == [kept |-> <<>>, frames |-> <<>>, range |-> <<0, 0>>]

\* What the activation with k calls below it found.
Bottom(k) == IF k = 0 THEN Main ELSE calls[k]

\* Its level.
LevelOf(k) == IF k = 0 THEN 0 ELSE 1

\* The activation that found base is as the point says where it goes on.
Fits(base, back, d, f, r, level) ==
    /\ IsBase(base) /\ back \in 1 .. Len(code) + 1
    /\ \E T, ann : Whole(base.range, T, ann) /\ Holds(PointAt(back, T, ann), base, d, f, r, level)

\* While the program is compiled the machine is as it was made, and the code is right for
\* every range.
Waiting ==
    /\ Names /\ \A R \in Int \X Int : Steady(R)
    /\ data = <<>> /\ frames = <<>> /\ calls = <<>> /\ CurrentRange = <<0, 0>>

\* What a call left behind
Suspended(base, c, level) == Fits(base, c.back, c.kept, c.frames, c.range, level)

\* While the program is executed each activation, whatever range it found, is as its point
\* says: the one at the top where it is, the others where they go on.
Executing ==
    /\ \A R \in Int \X Int : Program(R)
    /\ IsSeq(calls)
    /\ Fits(Bottom(Len(calls)), pc, data, frames, CurrentRange, LevelOf(Len(calls)))
    /\ \A k \in 1 .. Len(calls) : Suspended(Bottom(k - 1), calls[k], LevelOf(k - 1))

\* The inductive invariant.
MachineInv ==
    /\ MTypes
    /\ pc = 0 => Waiting
    /\ pc # 0 => Executing
    /\ exit = "success" => pc # 0 /\ pc = Len(code) + 1

-----------------------------------------------------------------------------
\* The registers hold integers.
LEMMA RangeTyped ==
    ASSUME MTypes
    PROVE  CurrentRange \in Int \X Int
  BY DEF MTypes, Env, CurrentRange, registers

\* What a whole program has.
LEMMA WholeTyped ==
    ASSUME NEW R, NEW T, NEW ann, Whole(R, T, ann)
    PROVE  Typed(code, ann, T) /\ T \in [DOMAIN T -> Point] /\ Fixed(T, R)
  BY DEF Whole, Code, Labels

\* What depends on the program only is as it was.
LEMMA FitsSame ==
    ASSUME NEW base, NEW back, NEW d, NEW f, NEW r, NEW level,
           UNCHANGED <<code, label, loops>>, Fits(base, back, d, f, r, level)
    PROVE  Fits(base, back, d, f, r, level)'
  BY DEF Fits, IsBase, Whole, PointAt

\* So does the program.
LEMMA ProgramSame ==
    ASSUME UNCHANGED <<code, label, loops>>, NEW R, Program(R)
    PROVE  Program(R)'
  BY DEF Program, Whole

\* So does an activation that waits for a call to return.
LEMMA SuspendedSame ==
    ASSUME NEW base, NEW c, NEW level, UNCHANGED <<code, label, loops>>, Suspended(base, c, level)
    PROVE  Suspended(base, c, level)'
  BY FitsSame DEF Suspended

\* A step of the activation at the top leaves the others alone.
LEMMA TopExecuting ==
    ASSUME MTypes, Executing, pc \in DOMAIN code, UNCHANGED <<code, label, loops, calls>>,
           \/ PUSHS \/ POPS \/ ADDS \/ ADD \/ MOVE \/ DEFVAR \/ Frame \/ LABEL
           \/ JUMP \/ JUMPIFEQ \/ JUMPIFNEQS
    PROVE  MTypes' /\ Executing' /\ pc' # 0
<1>1. PICK n, base, level : n = Len(calls) /\ base = Bottom(n) /\ level = LevelOf(n)
  OBVIOUS
<1>2. Fits(base, pc, data, frames, CurrentRange, level)
  BY <1>1 DEF Executing
<1>3. PICK T, ann : Whole(base.range, T, ann) /\ Holds(PointAt(pc, T, ann), base, data, frames, CurrentRange, level)
  BY <1>2 DEF Fits
<1>4. Typed(code, ann, T) /\ T \in [DOMAIN T -> Point]
  BY <1>3, WholeTyped
<1>5. pc \in 1 .. Len(code)
  BY <1>4 DEF Typed, IsSeq
<1>6. IsBase(base)
  BY <1>2 DEF Fits
<1>7. Active(T, ann, base, level)
  BY <1>3, <1>4, <1>5, <1>6 DEF Active
<1>8. Moved(T, ann, base, level)
  BY <1>7, TopMoved
<1>9. /\ pc' \in 1 .. Len(code) + 1 /\ MTypes'
      /\ Holds(PointAt(pc', T, ann), base, data', frames', CurrentRange', level)
  BY <1>8 DEF Moved
<1>10. PICK q, d, f, r : q = pc' /\ d = data' /\ f = frames' /\ r = CurrentRange'
  OBVIOUS
<1>11. Fits(base, q, d, f, r, level)
  BY <1>3, <1>6, <1>9, <1>10 DEF Fits
<1>12. Fits(base, q, d, f, r, level)'
  BY <1>11, FitsSame
<1>13. Bottom(n)' = base /\ LevelOf(n)' = level
  BY <1>1 DEF Bottom, LevelOf
<1>14. Fits(Bottom(Len(calls)), pc, data, frames, CurrentRange, LevelOf(Len(calls)))'
  BY <1>1, <1>10, <1>12, <1>13 DEF LevelOf, Bottom
<1>15. (\A R \in Int \X Int : Program(R))'
  <2>1. \A R \in Int \X Int : Program(R)'
    BY ProgramSame DEF Executing
  <2> QED BY <2>1
<1>16. (\A k \in 1 .. Len(calls) : Suspended(Bottom(k - 1), calls[k], LevelOf(k - 1)))'
  <2>1. ASSUME NEW k \in 1 .. Len(calls)'
        PROVE  Suspended(Bottom(k - 1), calls[k], LevelOf(k - 1))'
    <3>1. PICK b, c, l : b = Bottom(k - 1) /\ c = calls[k] /\ l = LevelOf(k - 1)
      OBVIOUS
    <3>2. Suspended(b, c, l)
      BY <3>1 DEF Executing
    <3>3. Suspended(b, c, l)'
      BY <3>2, SuspendedSame
    <3>4. Bottom(k - 1)' = b /\ calls[k]' = c /\ LevelOf(k - 1)' = l
      BY <3>1 DEF Bottom, LevelOf
    <3> QED BY <3>3, <3>4 DEF LevelOf, Bottom
  <2> QED BY <2>1
<1>17. IsSeq(calls)'
  BY DEF Executing
<1>18. Executing'
  BY <1>14, <1>15, <1>16, <1>17 DEF Executing
<1> QED BY <1>9, <1>18

\* The activation at the top, and its program
LEMMA TopActive ==
    ASSUME MTypes, Executing, pc \in DOMAIN code, NEW base, NEW level,
           base = Bottom(Len(calls)), level = LevelOf(Len(calls))
    PROVE  \E T, ann : Whole(base.range, T, ann) /\ Active(T, ann, base, level)
<1>1. Fits(base, pc, data, frames, CurrentRange, level)
  BY DEF Executing
<1>2. PICK T, ann : Whole(base.range, T, ann) /\ Holds(PointAt(pc, T, ann), base, data, frames, CurrentRange, level)
  BY <1>1 DEF Fits
<1>3. Typed(code, ann, T) /\ T \in [DOMAIN T -> Point]
  BY <1>2, WholeTyped
<1>4. pc \in 1 .. Len(code)
  BY <1>3 DEF Typed, IsSeq
<1>5. IsBase(base)
  BY <1>1 DEF Fits
<1>6. Active(T, ann, base, level)
  BY <1>2, <1>3, <1>4, <1>5 DEF Active
<1> QED BY <1>2, <1>6

\* The entry of a function finds what its call found, and its arguments.
LEMMA CalledHolds ==
    ASSUME NEW d \in Seq(Int), NEW f, IsSeq(f), NEW R \in Int \X Int, NEW m \in Nat, m <= Len(d),
           NEW c, c.kept = SubSeq(d, 1, Len(d) - m), c.frames = f, c.range = R
    PROVE  IsBase(c) /\ Holds(Outside(R, 1, m), c, d, f, R, 1)
<1> DEFINE k == Len(d) - m
           e == SubSeq(d, 1, k)
           p == Outside(R, 1, m)
<1>1. k \in Nat /\ k <= Len(d) /\ Len(d) = k + m
  OBVIOUS
<1> HIDE DEF k
<1>2. e \in Seq(Int) /\ Len(e) = k /\ \A i \in 1 .. k : e[i] = d[i]
  BY <1>1, SliceSeq
<1>3. c.kept = e
  BY DEF k
<1> HIDE DEF e
<1>4. /\ p.level = 1 /\ p.frame = 0 /\ p.data = Ints(m) /\ p.counter = {R[1]} /\ p.max = {R[2]}
  BY DEF Outside, At
<1>5. Len(Ints(m)) = m /\ \A i \in 1 .. m : Ints(m)[i] = Int
  BY IntsSeq
<1> HIDE DEF p
<1>6. \A i \in 1 .. m : d[k + i] \in Ints(m)[i]
  <2> TAKE i \in 1 .. m
  <2>1. k + i \in 1 .. Len(d)
    BY <1>1
  <2>2. d[k + i] \in Int
    BY <2>1
  <2> QED BY <2>2, <1>5
<1>7. Len(f) \in Nat
  BY DEF IsSeq
<1>8. IsBase(c)
  BY <1>2, <1>3 DEF IsBase
<1>9. Holds(p, c, d, f, R, 1)
  <2>1. p.level = 1 /\ Len(d) = Len(c.kept) + Len(p.data) /\ Len(f) = Len(c.frames) + p.frame
    BY <1>1, <1>2, <1>3, <1>4, <1>5, <1>7
  <2>2. /\ \A i \in 1 .. Len(c.kept) : d[i] = c.kept[i]
        /\ \A i \in 1 .. Len(c.frames) : f[i] = c.frames[i]
    BY <1>1, <1>2, <1>3, <1>4, <1>5, <1>7
  <2>3. \A i \in 1 .. Len(p.data) : d[Len(c.kept) + i] \in p.data[i]
    BY <1>1, <1>2, <1>3, <1>4, <1>5, <1>6
  <2>4. R[1] \in p.counter /\ R[2] \in p.max
    BY <1>4
  <2> QED BY <2>1, <2>2, <2>3, <2>4 DEF Holds
<1> QED BY <1>8, <1>9 DEF p

\* A function is entered with its arguments on the data stack.
LEMMA EntryPoint ==
    ASSUME NEW R, NEW T, Fixed(T, R), NEW l, Callable(l)
    PROVE  T[l] = Outside(R, 1, Taken(l))
<1>1. CASE l = Entry("write")
  BY <1>1 DEF Fixed, Taken
<1>2. CASE l # Entry("write")
  <2>1. PICK f \in Function : l = Entry(f)
    BY <1>2 DEF Callable
  <2>2. l[1] = f
    BY <2>1 DEF Entry
  <2> QED BY <1>2, <2>1, <2>2 DEF Fixed, Taken
<1> QED BY <1>1, <1>2

\* A call takes a number of values.
LEMMA TakenNat ==
    ASSUME NEW l, Callable(l)
    PROVE  Taken(l) \in Nat
<1>1. CASE l = Entry("write")
  BY <1>1 DEF Taken
<1>2. CASE l # Entry("write")
  <2>1. PICK f \in Function : l = Entry(f)
    BY <1>2 DEF Callable
  <2>2. l[1] = f
    BY <2>1 DEF Entry
  <2>3. Parameters[f] \in Seq(STRING)
    BY CodegenAssumption
  <2> QED BY <1>2, <2>2, <2>3 DEF Taken, Arity
<1> QED BY <1>1, <1>2

\* CALL begins an activation, for the range there is, and leaves another to wait.
LEMMA CallExecuting ==
    ASSUME MTypes, Executing, pc \in DOMAIN code, UNCHANGED <<code, label, loops>>, CALL
    PROVE  MTypes' /\ Executing' /\ pc' # 0
<1>1. PICK n, base, level, l, r : n = Len(calls) /\ base = Bottom(n) /\ level = LevelOf(n) /\ l = Operand
                                  /\ r = CurrentRange
  OBVIOUS
<1>2. PICK T, ann : Whole(base.range, T, ann) /\ Active(T, ann, base, level)
  BY <1>1, TopActive
<1>3. UNCHANGED <<data, global, frames>> /\ Operation = "CALL" /\ Places(l) # {}
  BY <1>1 DEF CALL, Does
<1>4. PICK a, b : a = ann[pc] /\ b = ann[pc + 1]
  OBVIOUS
<1>5. /\ Flow(code[pc], a, b, T) /\ a \in Point /\ Holds(a, base, data, frames, CurrentRange, level)
      /\ IsBase(base) /\ Typed(code, ann, T) /\ pc \in 1 .. Len(code)
  BY <1>2, <1>3, <1>4, ActiveAt
<1>6. PICK m : m = Taken(l)
  OBVIOUS
<1>7. Callable(l) /\ Len(a.data) >= m /\ b = Drop(a, m)
  BY <1>1, <1>3, <1>5, <1>6 DEF Flow, Operation, Operand
<1>8. m \in Nat
  BY <1>6, <1>7, TakenNat
<1>9. CASE Len(calls) >= MaxCalls
  <2>1. UNCHANGED <<pc, calls>>
    <3>1. ~(Len(calls) < MaxCalls)
      <4>1. Len(calls) \in Nat /\ MaxCalls \in Nat
        BY MachineAssumption DEF Executing, IsSeq
      <4> QED BY <4>1, <1>9
    <3> QED BY <3>1 DEF CALL
  <2>2. MTypes'
    BY <1>3 DEF MTypes
  <2>3. Executing'
    BY <1>3, <2>1 DEF Executing, Program, Whole, Fits, Suspended, IsBase, PointAt, Bottom, LevelOf, CurrentRange
  <2>4. pc # 0
    BY <1>5
  <2> QED BY <2>1, <2>2, <2>3, <2>4
<1>10. CASE Len(calls) < MaxCalls
  <2>1. PICK c, d, f, k : /\ c = [back |-> pc + 1, frames |-> frames, range |-> CurrentRange, kept |-> Without(m)]
                          /\ d = data /\ f = frames /\ k = Without(m)
    OBVIOUS
  <2>2. calls' = Append(calls, c) /\ pc' = Place(l)
    BY <1>1, <1>6, <1>10, <2>1 DEF CALL, Taken
  <2>3. d \in Seq(Int) /\ IsSeq(f) /\ r \in Int \X Int
    BY <1>1, <2>1, RangeTyped DEF MTypes
  <2>4. Holds(b, base, k, f, r, level)
    <3>1. Holds(Drop(a, m), base, Without(m), frames, CurrentRange, level)
      BY <1>5, <1>7, <1>8, Popped
    <3> QED BY <1>1, <1>7, <2>1, <3>1
  <2>5. c.back = pc + 1 /\ c.frames = f /\ c.range = r /\ c.kept = k /\ k = SubSeq(d, 1, Len(d) - m)
    BY <1>1, <2>1 DEF Without
  <2>6. pc + 1 \in 1 .. Len(code) + 1 /\ Len(code) \in Nat
    BY <1>5 DEF Typed, IsSeq
  <2>7. Suspended(base, c, level)
    <3>1. Holds(PointAt(pc + 1, T, ann), base, k, f, r, level)
      BY <1>4, <1>5, <2>4, <2>6, HoldsNext
    <3>2. Fits(base, pc + 1, k, f, r, level)
      BY <1>2, <1>5, <2>6, <3>1 DEF Fits
    <3> QED BY <2>5, <3>2 DEF Suspended
  <2>8. m <= Len(d)
    <3>1. PICK x, y : x = Len(base.kept) /\ y = Len(a.data)
      OBVIOUS
    <3>2. Len(d) = x + y
      BY <1>5, <2>1, <3>1 DEF Holds
    <3>3. x \in Nat
      BY <1>5, <3>1 DEF IsBase
    <3>4. y \in Nat
      <4>1. a.data \in Seq(SUBSET Int)
        BY <1>5, PointFields
      <4> QED BY <3>1, <4>1
    <3>5. y >= m
      BY <1>7, <3>1
    <3> QED BY ONLY <3>2, <3>3, <3>4, <3>5, <1>8
  <2>9. IsBase(c) /\ Holds(Outside(r, 1, m), c, d, f, r, 1)
    BY <1>8, <2>3, <2>5, <2>8, CalledHolds
  <2>10. PICK U, ann2 : Whole(r, U, ann2)
    BY <2>3 DEF Executing, Program
  <2>11. Place(l) \in 1 .. Len(code) /\ PointAt(Place(l), U, ann2) = Outside(r, 1, m)
    <3>1. Typed(code, ann2, U) /\ Fixed(U, r)
      BY <2>10, WholeTyped
    <3>2. U[l] = Outside(r, 1, m)
      BY <1>6, <1>7, <3>1, EntryPoint
    <3> QED BY <1>3, <3>1, <3>2, PlaceOf
  <2>12. PICK i : i = Place(l)
    OBVIOUS
  <2>13. Fits(c, i, d, f, r, 1)
    BY <2>5, <2>6, <2>9, <2>10, <2>11, <2>12 DEF Fits
  <2>14. PICK s, t : s = calls /\ t = Append(s, c)
    OBVIOUS
  <2>15. /\ IsSeq(t) /\ n \in Nat /\ Len(t) = n + 1 /\ n = Len(s)
         /\ (\A j \in 1 .. n : t[j] = s[j]) /\ t[n + 1] = c
    BY <1>1, <2>14, AppendIsSeq DEF Executing
  <2>16. calls' = t
    BY <2>2, <2>14
  <2>17. MTypes'
    BY <1>3 DEF MTypes
  <2>18. CurrentRange' = r /\ data' = d /\ frames' = f /\ pc' = i
    BY <1>1, <1>3, <2>1, <2>2, <2>12 DEF CurrentRange
  <2>19. Fits(Bottom(Len(calls)), pc, data, frames, CurrentRange, LevelOf(Len(calls)))'
    <3>1. Len(calls)' = n + 1 /\ n + 1 # 0
      BY <2>15, <2>16
    <3>2. Bottom(Len(calls))' = c /\ LevelOf(Len(calls))' = 1
      BY <2>15, <2>16, <3>1 DEF Bottom, LevelOf
    <3>3. Fits(c, i, d, f, r, 1)'
      BY <2>13, FitsSame
    <3> QED BY <2>18, <3>2, <3>3
  <2>20. (\A R \in Int \X Int : Program(R))'
    <3>1. \A R \in Int \X Int : Program(R)'
      BY ProgramSame DEF Executing
    <3> QED BY <3>1
  <2>21. (\A j \in 1 .. Len(calls) : Suspended(Bottom(j - 1), calls[j], LevelOf(j - 1)))'
    <3>1. ASSUME NEW j \in 1 .. Len(t)
          PROVE  Suspended(Bottom(j - 1), calls[j], LevelOf(j - 1))'
      <4>1. PICK x, y, z : x = Bottom(j - 1) /\ y = t[j] /\ z = LevelOf(j - 1)
        OBVIOUS
      <4>2. Suspended(x, y, z)
        <5>1. CASE j = n + 1
          <6>1. j - 1 = n
            BY <2>15, <5>1
          <6>2. x = base /\ y = c /\ z = level
            BY <1>1, <2>15, <4>1, <5>1, <6>1
          <6> QED BY <2>7, <6>2
        <5>2. CASE j # n + 1
          <6>1. j \in 1 .. n
            BY <2>15, <5>2
          <6>2. y = calls[j] /\ j \in 1 .. Len(calls)
            BY <2>14, <2>15, <4>1, <6>1
          <6> QED BY <4>1, <6>2 DEF Executing
        <5> QED BY <5>1, <5>2
      <4>3. Suspended(x, y, z)'
        BY <4>2, SuspendedSame
      <4>4. Bottom(j - 1)' = x
        <5>1. CASE j - 1 = 0
          BY <4>1, <5>1 DEF Bottom
        <5>2. CASE j - 1 # 0
          <6>1. j - 1 \in 1 .. n
            BY <2>15, <5>2
          <6>2. Bottom(j - 1)' = t[j - 1]
            BY <2>16, <5>2 DEF Bottom
          <6>3. x = s[j - 1]
            BY <2>14, <4>1, <5>2 DEF Bottom
          <6> QED BY <2>15, <6>1, <6>2, <6>3
        <5> QED BY <5>1, <5>2
      <4>5. LevelOf(j - 1)' = z /\ calls[j]' = y
        BY <2>16, <4>1 DEF LevelOf
      <4> QED BY <4>3, <4>4, <4>5
    <3> QED BY <2>16, <3>1
  <2>22. IsSeq(calls)'
    BY <2>15, <2>16
  <2>23. Executing'
    BY <2>19, <2>20, <2>21, <2>22 DEF Executing
  <2>24. pc' # 0
    BY <2>11, <2>2
  <2> QED BY <2>17, <2>23, <2>24
<1>11. Len(calls) \in Nat /\ MaxCalls \in Nat
  BY MachineAssumption DEF Executing, IsSeq
<1> QED BY <1>9, <1>10, <1>11

\* Two sequences are the same if they have the same elements.
LEMMA SameIsSeq ==
    ASSUME NEW s, IsSeq(s), NEW t, IsSeq(t), Len(s) = Len(t), \A i \in 1 .. Len(s) : s[i] = t[i]
    PROVE  s = t
<1> DEFINE S == {s[i] : i \in DOMAIN s}
           U == {t[i] : i \in DOMAIN t}
           V == S \cup U
<1>1. s \in Seq(S) /\ t \in Seq(U)
  BY DEF IsSeq
<1> HIDE DEF S, U
<1>2. s \in Seq(V) /\ t \in Seq(V)
  BY <1>1
<1> HIDE DEF V
<1> QED BY <1>2, SameSeq

\* A point outside of all functions' and loops' code holds only as its activation began.
LEMMA OutsideHolds ==
    ASSUME NEW R \in Int \X Int, NEW base, IsBase(base), base.range = R, NEW l, NEW level,
           MTypes, Holds(Outside(R, l, 0), base, data, frames, CurrentRange, level)
    PROVE  data = base.kept /\ frames = base.frames /\ CurrentRange = base.range /\ level = l
<1> DEFINE p == Outside(R, l, 0)
<1>1. /\ p.level = l /\ p.frame = 0 /\ p.data = Ints(0) /\ p.counter = {R[1]} /\ p.max = {R[2]}
  BY DEF Outside, At
<1>2. Len(Ints(0)) = 0
  BY IntsSeq
<1> HIDE DEF p
<1>3. /\ p.level = level
      /\ Len(data) = Len(base.kept) + Len(p.data)
      /\ \A i \in 1 .. Len(base.kept) : data[i] = base.kept[i]
      /\ Len(frames) = Len(base.frames) + p.frame
      /\ \A i \in 1 .. Len(base.frames) : frames[i] = base.frames[i]
      /\ CurrentRange[1] \in p.counter /\ CurrentRange[2] \in p.max
  BY DEF Holds, p
<1>4. base.kept \in Seq(Int) /\ data \in Seq(Int) /\ IsSeq(base.frames) /\ IsSeq(frames)
  BY DEF IsBase, MTypes
<1>5. data = base.kept
  <2>1. Len(data) = Len(base.kept) /\ \A i \in 1 .. Len(data) : data[i] = base.kept[i]
    BY <1>1, <1>2, <1>3, <1>4
  <2> QED BY <2>1, <1>4, SameSeq
<1>6. frames = base.frames
  <2>1. Len(base.frames) \in Nat
    BY <1>4 DEF IsSeq
  <2>2. Len(frames) = Len(base.frames) /\ \A i \in 1 .. Len(frames) : frames[i] = base.frames[i]
    BY <1>1, <1>3, <2>1
  <2> QED BY <2>2, <1>4, SameIsSeq
<1>7. CurrentRange = R
  <2>1. CurrentRange[1] = R[1] /\ CurrentRange[2] = R[2]
    BY <1>1, <1>3
  <2>2. CurrentRange \in Int \X Int
    BY RangeTyped
  <2> QED BY <2>1, <2>2
<1> QED BY <1>1, <1>3, <1>5, <1>6, <1>7

\* A function returns with everything as its call found it.
LEMMA ReturnRestores ==
    ASSUME MTypes, Executing, RETURN
    PROVE  /\ data = Last(calls).kept /\ frames = Last(calls).frames
           /\ CurrentRange = Last(calls).range
<1>1. pc \in DOMAIN code /\ Operation = "RETURN" /\ calls # <<>>
  BY DEF RETURN, Does, Running
<1>2. PICK n, base, level : n = Len(calls) /\ base = Bottom(n) /\ level = LevelOf(n)
  OBVIOUS
<1>3. PICK T, ann : Whole(base.range, T, ann) /\ Active(T, ann, base, level)
  BY <1>1, <1>2, TopActive
<1>4. PICK a, b : a = ann[pc] /\ b = ann[pc + 1]
  OBVIOUS
<1>5. /\ Flow(code[pc], a, b, T) /\ Holds(a, base, data, frames, CurrentRange, level)
      /\ IsBase(base)
  BY <1>1, <1>3, <1>4, ActiveAt
<1>6. Goes(Back, a, T)
  BY <1>1, <1>5 DEF Flow, Operation
<1>7. T[Back] = Outside(base.range, 1, 0)
  <2>1. Fixed(T, base.range)
    BY <1>3, WholeTyped
  <2> QED BY <2>1 DEF Fixed
<1>8. Holds(Outside(base.range, 1, 0), base, data, frames, CurrentRange, level)
  <2>1. Sub(a, Outside(base.range, 1, 0))
    BY <1>6, <1>7 DEF Goes
  <2> QED BY <2>1, <1>5, HoldsSub
<1>9. base.range \in Int \X Int
  BY <1>5 DEF IsBase
<1>10. data = base.kept /\ frames = base.frames /\ CurrentRange = base.range
  BY <1>5, <1>8, <1>9, OutsideHolds
<1>11. base = Last(calls)
  <2>1. IsSeq(calls)
    BY DEF Executing
  <2>2. n # 0
    BY <1>1, <1>2, <2>1, FrontIsSeq
  <2> QED BY <1>2, <2>2 DEF Bottom, Last
<1> QED BY <1>10, <1>11

\* RETURN goes on with the activation that waited for it.
LEMMA ReturnExecuting ==
    ASSUME MTypes, Executing, UNCHANGED <<code, label, loops>>, RETURN
    PROVE  MTypes' /\ Executing' /\ pc' # 0
<1>1. /\ calls # <<>> /\ pc' = Last(calls).back /\ calls' = Front(calls)
      /\ UNCHANGED <<data, global, frames>>
  BY DEF RETURN
<1>2. PICK s, t, n, c : s = calls /\ t = Front(s) /\ n = Len(s) /\ c = s[n]
  OBVIOUS
<1>3. /\ n \in Nat /\ n > 0 /\ IsSeq(t) /\ Len(t) = n - 1 /\ \A i \in 1 .. n - 1 : t[i] = s[i]
  BY <1>1, <1>2, FrontIsSeq DEF Executing
<1>4. c = Last(calls)
  BY <1>2 DEF Last
<1>5. data = c.kept /\ frames = c.frames /\ CurrentRange = c.range
  BY <1>4, ReturnRestores
<1>6. PICK base, level : base = Bottom(n - 1) /\ level = LevelOf(n - 1)
  OBVIOUS
<1>7. Suspended(base, c, level)
  <2>1. n \in 1 .. Len(calls)
    BY <1>2, <1>3
  <2> QED BY <2>1, <1>2, <1>6 DEF Executing
<1>8. Fits(base, c.back, c.kept, c.frames, c.range, level)'
  <2>1. Fits(base, c.back, c.kept, c.frames, c.range, level)
    BY <1>7 DEF Suspended
  <2> QED BY <2>1, FitsSame
<1>9. calls' = t
  BY <1>1, <1>2
<1>10. \A k \in 0 .. n - 1 : Bottom(k)' = Bottom(k)
  <2> TAKE k \in 0 .. n - 1
  <2>1. CASE k = 0
    BY <2>1 DEF Bottom
  <2>2. CASE k # 0
    <3>1. k \in 1 .. n - 1
      BY <1>3, <2>2
    <3>2. Bottom(k)' = t[k] /\ Bottom(k) = s[k]
      BY <1>2, <1>9, <2>2 DEF Bottom
    <3> QED BY <3>1, <3>2, <1>3
  <2> QED BY <2>1, <2>2
<1>11. Fits(Bottom(Len(calls)), pc, data, frames, CurrentRange, LevelOf(Len(calls)))'
  <2>1. Len(calls)' = n - 1 /\ n - 1 \in 0 .. n - 1
    BY <1>3, <1>9
  <2>2. Bottom(Len(calls))' = base /\ LevelOf(Len(calls))' = level
    <3>1. Bottom(n - 1)' = base
      BY <1>6, <1>10, <2>1
    <3> QED BY <1>6, <2>1, <3>1 DEF LevelOf, Bottom
  <2>3. pc' = c.back /\ data' = c.kept /\ frames' = c.frames /\ CurrentRange' = c.range
    BY <1>1, <1>4, <1>5 DEF CurrentRange
  <2> QED BY <1>8, <2>2, <2>3
<1>12. (\A R \in Int \X Int : Program(R))'
  <2>1. \A R \in Int \X Int : Program(R)'
    BY ProgramSame DEF Executing
  <2> QED BY <2>1
<1>13. (\A j \in 1 .. Len(calls) : Suspended(Bottom(j - 1), calls[j], LevelOf(j - 1)))'
  <2>1. ASSUME NEW j \in 1 .. Len(t)
        PROVE  Suspended(Bottom(j - 1), calls[j], LevelOf(j - 1))'
    <3>1. PICK x, y, z : x = Bottom(j - 1) /\ y = s[j] /\ z = LevelOf(j - 1)
      OBVIOUS
    <3>2. j \in 1 .. n - 1 /\ j \in 1 .. Len(s) /\ j - 1 \in 0 .. n - 1
      BY <1>2, <1>3
    <3>3. Suspended(x, y, z)
      BY <1>2, <3>1, <3>2 DEF Executing
    <3>4. Suspended(x, y, z)'
      BY <3>3, SuspendedSame
    <3>5. Bottom(j - 1)' = x /\ LevelOf(j - 1)' = z /\ calls[j]' = y
      <4>1. Bottom(j - 1)' = x
        BY <1>10, <3>1, <3>2
      <4>2. calls[j]' = y
        BY <1>3, <1>9, <3>1, <3>2
      <4> QED BY <3>1, <4>1, <4>2 DEF LevelOf
    <3> QED BY <3>4, <3>5
  <2> QED BY <1>9, <2>1
<1>14. IsSeq(calls)'
  BY <1>3, <1>9
<1>15. Executing'
  BY <1>11, <1>12, <1>13, <1>14 DEF Executing
<1>16. MTypes'
  BY <1>1 DEF MTypes
<1>17. pc' # 0
  <2>1. c.back \in 1 .. Len(code) + 1
    BY <1>7 DEF Suspended, Fits
  <2> QED BY <2>1, <1>1, <1>4
<1> QED BY <1>15, <1>16, <1>17

\* Only if leaves_for, a return leaves a for loop; only if falls_through, a function
\* with a value ends without one.
Returning == \A v \in Vocabulary : ~v.leaves_for /\ ~v.falls_through

\* The invariant holds before the first statement.
LEMMA MInitInv ==
    ASSUME Returning, MInit
    PROVE  MachineInv
<1>1. Init /\ pc = 0 /\ data = <<>> /\ frames = <<>> /\ calls = <<>> /\ exit = "none"
  BY DEF MInit
<1>2. /\ registers \subseteq DOMAIN global /\ Env(global) /\ CurrentRange = <<0, 0>>
  <2>1. /\ DOMAIN global = registers
        /\ \A r \in registers : global[r] = IF r \in {for_counter_reg, for_max_val} THEN 0 ELSE Undefined
    BY DEF MInit
  <2>2. for_counter_reg \in registers /\ for_max_val \in registers
    BY DEF registers
  <2>3. Undefined \in Int
    BY DEF Undefined
  <2>4. Env(global)
    BY <2>1, <2>3 DEF Env
  <2>5. global[for_counter_reg] = 0 /\ global[for_max_val] = 0
    BY <2>1, <2>2
  <2> QED BY <2>1, <2>4, <2>5 DEF CurrentRange
<1>3. MTypes
  <2>1. IsSeq(<<>>) /\ <<>> \in Seq(Int) /\ Len(<<>>) = 0
    BY DEF IsSeq
  <2>2. \A i \in 1 .. Len(frames) : Env(frames[i])
    BY <1>1, <2>1
  <2> QED BY <1>1, <1>2, <2>1, <2>2 DEF MTypes
<1>4. Waiting
  <2>1. Names
    BY <1>1, NamesInit DEF Returning
  <2>2. \A R \in Int \X Int : Steady(R)
    BY <1>1, InitSteady
  <2> QED BY <1>1, <1>2, <2>1, <2>2 DEF Waiting
<1> QED BY <1>1, <1>3, <1>4 DEF MachineInv

\* The code is a sequence.
LEMMA CodeIsSeq ==
    ASSUME MachineInv
    PROVE  IsSeq(code) /\ DOMAIN code = 1 .. Len(code) /\ Len(code) \in Nat
<1>1. IsSeq(code)
  <2>0. <<0, 0>> \in Int \X Int
    OBVIOUS
  <2>1. PICK R : R = <<0, 0>>
    OBVIOUS
  <2>2. CASE pc = 0
    <3>1. Steady(R)
      BY <2>0, <2>1, <2>2 DEF MachineInv, Waiting
    <3>2. PICK T, ann, H : Compiled(R, T, ann, H)
      BY <3>1 DEF Steady
    <3> QED BY <3>2 DEF Compiled, Code, Typed
  <2>3. CASE pc # 0
    <3>1. Program(R)
      BY <2>0, <2>1, <2>3 DEF MachineInv, Executing
    <3>2. PICK T, ann : Whole(R, T, ann)
      BY <3>1 DEF Program
    <3> QED BY <3>2, WholeTyped DEF Typed
  <2> QED BY <2>2, <2>3
<1>2. DOMAIN code = 1 .. Len(code) /\ Len(code) \in Nat
  BY <1>1 DEF IsSeq
<1> QED BY <1>1, <1>2

\* A statement keeps the invariant.
LEMMA CompileInv ==
    ASSUME MachineInv, Compile
    PROVE  MachineInv'
<1>1. pc = 0 /\ exit = "none" /\ Statements /\ UNCHANGED machine
  BY DEF Compile
<1>2. Waiting /\ MTypes
  BY <1>1 DEF MachineInv
<1>3. UNCHANGED <<pc, data, global, frames, calls, exit>>
  BY <1>1 DEF machine
<1>4. Names'
  <2>1. <<0, 0>> \in Int \X Int
    OBVIOUS
  <2>2. PICK R \in Int \X Int : Steady(R)
    BY <2>1, <1>2 DEF Waiting
  <2> QED BY <2>2, <1>1, <1>2, StatementNames DEF Waiting
<1>5. (\A R \in Int \X Int : Steady(R))'
  <2>1. ASSUME NEW R \in Int \X Int
        PROVE  Steady(R)'
    <3>1. Steady(R) /\ Names
      BY <1>2 DEF Waiting
    <3> QED BY <1>1, <3>1, StatementSteady
  <2> QED BY <2>1
<1>6. CurrentRange' = CurrentRange
  BY <1>3 DEF CurrentRange
<1>7. Waiting'
  BY <1>2, <1>3, <1>4, <1>5, <1>6 DEF Waiting
<1>8. MTypes'
  BY <1>2, <1>3 DEF MTypes
<1> QED BY <1>1, <1>3, <1>7, <1>8 DEF MachineInv

\* The end of the file keeps the invariant: the main program is an activation.
LEMMA RunInv ==
    ASSUME MachineInv, Run
    PROVE  MachineInv'
<1>1. pc = 0 /\ exit = "none" /\ FileEnd /\ pc' = 1 /\ UNCHANGED <<data, global, frames, calls, exit>>
  BY DEF Run
<1>2. Waiting /\ MTypes
  BY <1>1 DEF MachineInv
<1>3. MTypes'
  BY <1>1, <1>2 DEF MTypes
<1>4. (\A R \in Int \X Int : Program(R))'
  <2>1. ASSUME NEW R \in Int \X Int
        PROVE  Program(R)'
    <3>1. Steady(R) /\ Names
      BY <1>2 DEF Waiting
    <3> QED BY <1>1, <3>1, FileEndProgram
  <2> QED BY <2>1
<1>5. PICK R : R = <<0, 0>>
  OBVIOUS
<1>6. R \in Int \X Int /\ R[1] = 0 /\ R[2] = 0
  BY <1>5
<1>7. Program(R)'
  BY <1>4, <1>6
<1>8. PICK T, ann : Whole(R, T, ann)'
  BY <1>7 DEF Program
<1>9. PICK c : c = code'
  OBVIOUS
<1>10. Typed(c, ann, T) /\ ann[1] = Outside(R, 0, 0) /\ Len(c) \in Nat
  BY <1>8, <1>9 DEF Whole, Code, Typed, IsSeq
<1>11. PICK m : m = Main
  OBVIOUS
<1>12. m.kept = <<>> /\ m.frames = <<>> /\ m.range = R
  BY <1>5, <1>11 DEF Main
<1>13. IsBase(m)
  <2>1. <<>> \in Seq(Int) /\ IsSeq(<<>>)
    BY DEF IsSeq
  <2> QED BY <1>6, <1>12, <2>1 DEF IsBase
<1>14. Holds(Outside(R, 0, 0), m, <<>>, <<>>, R, 0)
  <2> DEFINE p == Outside(R, 0, 0)
  <2>1. /\ p.level = 0 /\ p.frame = 0 /\ p.data = Ints(0) /\ p.counter = {R[1]} /\ p.max = {R[2]}
    BY DEF Outside, At
  <2>2. Len(Ints(0)) = 0 /\ Len(<<>>) = 0
    BY IntsSeq
  <2> HIDE DEF p
  <2>3. Holds(p, m, <<>>, <<>>, R, 0)
    BY <1>12, <2>1, <2>2 DEF Holds
  <2> QED BY <2>3 DEF p
<1>15. 1 \in 1 .. Len(c) + 1
  BY <1>10
<1>16. Holds(PointOf(c, 1, T, ann), m, <<>>, <<>>, R, 0)
  <2>1. Holds(ann[1], m, <<>>, <<>>, R, 0)
    BY <1>10, <1>14
  <2>2. PICK e : e = <<>>
    OBVIOUS
  <2>3. Holds(ann[1], m, e, e, R, 0)
    BY <2>1, <2>2
  <2>4. PICK i, z : i = 1 /\ z = 0
    OBVIOUS
  <2>5. Holds(ann[i], m, e, e, R, z) /\ i \in 1 .. Len(c) + 1
    BY <1>15, <2>3, <2>4
  <2>6. Holds(PointOf(c, i, T, ann), m, e, e, R, z)
    BY <1>10, <2>5, HoldsNextIn
  <2> QED BY <2>2, <2>4, <2>6
<1>17. Fits(m, 1, <<>>, <<>>, R, 0)'
  BY <1>8, <1>9, <1>12, <1>13, <1>15, <1>16 DEF Fits, PointAt
<1>18. calls' = <<>> /\ data' = <<>> /\ frames' = <<>> /\ CurrentRange' = R
  BY <1>1, <1>2, <1>5 DEF Waiting, CurrentRange
<1>19. Fits(Bottom(Len(calls)), pc, data, frames, CurrentRange, LevelOf(Len(calls)))'
  <2>1. Len(calls)' = 0
    BY <1>18
  <2>2. Bottom(Len(calls))' = m /\ LevelOf(Len(calls))' = 0
    BY <1>11, <2>1 DEF Bottom, LevelOf
  <2> QED BY <1>1, <1>17, <1>18, <2>2
<1>20. IsSeq(calls)' /\ \A k \in 1 .. Len(calls') : FALSE
  BY <1>18 DEF IsSeq
<1>21. Executing'
  BY <1>4, <1>19, <1>20 DEF Executing
<1> QED BY <1>1, <1>3, <1>21 DEF MachineInv

\* What compiles and what executes, but for the step
LEMMA StillInv ==
    ASSUME MachineInv, UNCHANGED <<codegen, pc, data, global, frames, calls>>,
           exit' = "success" => pc # 0 /\ pc = Len(code) + 1
    PROVE  MachineInv'
<1>1. UNCHANGED <<code, label, branch_label_stack, loop_label_stack, cycle_type_stack, current_loop,
                  current_loop_is_for, used_vars, global_vars, array_stack, open, scope, declared,
                  ended, loops, vocabulary>>
  BY DEF codegen, stacks, frame_vars, context
<1>2. CurrentRange' = CurrentRange
  BY DEF CurrentRange
<1>3. MTypes'
  BY DEF MachineInv, MTypes
<1>4. pc' = 0 => Waiting'
  <2>1. SUFFICES ASSUME pc = 0 PROVE Waiting'
    OBVIOUS
  <2>2. Waiting
    BY <2>1 DEF MachineInv
  <2>3. Names'
    BY <1>1, <2>2 DEF Waiting, Names
  <2>4. (\A R \in Int \X Int : Steady(R))'
    <3>1. ASSUME NEW R \in Int \X Int
          PROVE  Steady(R)'
      <4>1. Steady(R)
        BY <2>2 DEF Waiting
      <4> QED BY <1>1, <4>1 DEF Steady, Compiled, Here
    <3> QED BY <3>1
  <2> QED BY <1>2, <2>2, <2>3, <2>4 DEF Waiting
<1>5. pc' # 0 => Executing'
  <2>1. SUFFICES ASSUME pc # 0 PROVE Executing'
    OBVIOUS
  <2>2. Executing
    BY <2>1 DEF MachineInv
  <2>3. (\A R \in Int \X Int : Program(R))'
    <3>1. \A R \in Int \X Int : Program(R)'
      BY <1>1, <2>2, ProgramSame DEF Executing
    <3> QED BY <3>1
  <2> QED BY <1>1, <1>2, <2>2, <2>3 DEF Executing, Suspended, Fits, IsBase, Whole, PointAt, Bottom, LevelOf
<1> QED BY <1>1, <1>3, <1>4, <1>5 DEF MachineInv

\* An instruction keeps the invariant.
LEMMA InstructionInv ==
    ASSUME MachineInv, Instruction
    PROVE  MachineInv'
<1>1. pc \in DOMAIN code /\ exit = "none"
  BY DEF Instruction, PUSHS, POPS, ADDS, ADD, MOVE, DEFVAR, Frame, LABEL, JUMP, JUMPIFEQ, JUMPIFNEQS,
         CALL, RETURN, Does, Running
<1>2. pc # 0
  BY <1>1, CodeIsSeq
<1>3. MTypes /\ Executing
  BY <1>2 DEF MachineInv
<1>4. UNCHANGED codegen
  BY DEF Instruction, PUSHS, POPS, ADDS, ADD, MOVE, DEFVAR, Frame, LABEL, JUMP, JUMPIFEQ, JUMPIFNEQS,
         JumpIf, CALL, RETURN
<1>5. UNCHANGED <<code, label, loops>>
  BY <1>4 DEF codegen
<1>6. CASE CALL
  <2>1. exit' # "success"
    BY <1>1, <1>6 DEF CALL
  <2> QED BY <1>1, <1>3, <1>5, <1>6, <2>1, CallExecuting DEF MachineInv
<1>7. CASE RETURN
  <2>1. exit' # "success"
    BY <1>1, <1>7 DEF RETURN
  <2> QED BY <1>3, <1>5, <1>7, <2>1, ReturnExecuting DEF MachineInv
<1>8. CASE \/ PUSHS \/ POPS \/ ADDS \/ ADD \/ MOVE \/ DEFVAR \/ Frame \/ LABEL
           \/ JUMP \/ JUMPIFEQ \/ JUMPIFNEQS
  <2>1. UNCHANGED <<calls, exit>>
    BY <1>8 DEF PUSHS, POPS, ADDS, ADD, MOVE, DEFVAR, Frame, LABEL, JUMP, JUMPIFEQ, JUMPIFNEQS, JumpIf
  <2>2. MTypes' /\ Executing' /\ pc' # 0
    BY <1>1, <1>3, <1>5, <1>8, <2>1, TopExecuting
  <2> QED BY <1>1, <2>1, <2>2 DEF MachineInv
<1> QED BY <1>6, <1>7, <1>8 DEF Instruction

\* So does every step.
LEMMA NextInv ==
    ASSUME MachineInv, [Next]_vars
    PROVE  MachineInv'
<1>1. CASE Compile
  BY <1>1, CompileInv
<1>2. CASE Refuse
  BY <1>2, StillInv DEF Refuse
<1>3. CASE Run
  BY <1>3, RunInv
<1>4. CASE Instruction
  BY <1>4, InstructionInv
<1>5. CASE Fault
  BY <1>5, StillInv DEF Fault
<1>6. CASE End
  <2>1. pc # 0 /\ pc = Len(code) + 1
    BY <1>6, CodeIsSeq DEF End
  <2> QED BY <1>6, <2>1, StillInv DEF End
<1>7. CASE UNCHANGED vars
  <2>1. UNCHANGED <<codegen, pc, data, global, frames, calls, exit>>
    BY <1>7 DEF vars, machine
  <2>2. exit' = "success" => pc # 0 /\ pc = Len(code) + 1
    BY <2>1 DEF MachineInv
  <2> QED BY <2>1, <2>2, StillInv
<1> QED BY <1>1, <1>2, <1>3, <1>4, <1>5, <1>6, <1>7 DEF Next, Done

\* The invariant holds of every program of every vocabulary, with any functions and
\* parameters and any number of calls in progress.
THEOREM MachineInvariant ==
    ASSUME Returning
    PROVE  Spec => []MachineInv
<1>1. MInit => MachineInv
  BY MInitInv
<1>2. MachineInv /\ [Next]_vars => MachineInv'
  BY NextInv
<1> QED BY <1>1, <1>2, PTL DEF Spec

\* The stacks, the frames and GF have their types, and the registers are always there.
THEOREM TypeCorrectness ==
    ASSUME Returning
    PROVE  Spec => []MTypes
<1>1. MachineInv => MTypes
  BY DEF MachineInv
<1> QED BY <1>1, MachineInvariant, PTL

\* The activation at the top, whatever it is about to do
LEMMA Executed ==
    ASSUME MachineInv, pc \in DOMAIN code
    PROVE  MTypes /\ Executing /\ pc \in 1 .. Len(code)
<1>1. pc # 0 /\ pc \in 1 .. Len(code)
  BY CodeIsSeq
<1> QED BY <1>1 DEF MachineInv

\* The line the program is at is in the range of the innermost loop around it.
LEMMA RangeOwn ==
    ASSUME MachineInv
    PROVE  RangeIsOwn
<1>1. SUFFICES ASSUME pc > 0, \A l \in loops : pc \notin InBetween(l), NEW l \in loops,
                      pc \in l.from .. l.to,
                      \A k \in loops : pc \in k.from .. k.to => k.from <= l.from
               PROVE  global[for_max_val] = l.limit /\ global[for_counter_reg] \in l.low .. l.limit
  BY DEF RangeIsOwn
<1>2. pc # 0 /\ IsSeq(code) /\ Len(code) \in Nat /\ DOMAIN code = 1 .. Len(code)
  BY <1>1, CodeIsSeq
<1>3. Executing /\ MTypes
  BY <1>2 DEF MachineInv
<1>4. PICK base, level : base = Bottom(Len(calls)) /\ level = LevelOf(Len(calls))
  OBVIOUS
<1>5. Fits(base, pc, data, frames, CurrentRange, level)
  BY <1>3, <1>4 DEF Executing
<1>6. PICK T, ann : Whole(base.range, T, ann) /\ Holds(PointAt(pc, T, ann), base, data, frames, CurrentRange, level)
  BY <1>5 DEF Fits
<1>7. Code(code, label, loops, {}, base.range, T, ann)
  BY <1>6 DEF Whole
<1>8. l.from \in Nat /\ l.to \in Nat /\ l.to + 2 <= Len(code)
  BY <1>7 DEF Code, Closed
<1>9. pc \in 1 .. Len(code) + 1
  BY <1>5 DEF Fits
<1>10. pc \in 1 .. Len(code)
  BY <1>1, <1>2, <1>8, <1>9
<1>11. PICK p : p = PointAt(pc, T, ann)
  OBVIOUS
<1>12. Owned(p, pc, loops, {})
  <2>1. p = Arrival(code[pc], ann[pc], T)
    BY <1>10, <1>11 DEF PointAt, PointOf
  <2> QED BY <1>7, <1>10, <2>1 DEF Code
<1>13. Quiet(pc, loops, {})
  BY <1>1 DEF Quiet, InBetween, Between
<1>14. Covers(l, pc) /\ Nearest(l, pc, loops, {})
  BY <1>1 DEF Covers, Nearest
<1>15. InRange(p, RangeOf(l))
  BY <1>12, <1>13, <1>14 DEF Owned
<1>16. p.counter \subseteq l.low .. l.limit /\ p.max \subseteq {l.limit}
  BY <1>15 DEF InRange, RangeOf
<1>17. CurrentRange[1] \in p.counter /\ CurrentRange[2] \in p.max
  BY <1>6, <1>11 DEF Holds
<1> QED BY <1>16, <1>17 DEF CurrentRange

\* All for loops share one counter and one limit (codegen.c:24-31); in the code of a loop
\* they are its own, whatever is nested in it, called from it, or left by break and continue.
THEOREM RangeIsOwned ==
    ASSUME Returning
    PROVE  Spec => []RangeIsOwn
<1>1. MachineInv => RangeIsOwn
  BY RangeOwn
<1> QED BY <1>1, MachineInvariant, PTL

\* A function returns with the frames, the data stack and the range of its caller as they
\* were: what gen_for_range_save pushes is popped on every way out but a return.
THEOREM CallsRestore ==
    ASSUME Returning
    PROVE  Spec => ReturnsRestore
<1>1. MachineInv => [RETURN => /\ data = Last(calls).kept /\ frames = Last(calls).frames
                               /\ CurrentRange = Last(calls).range]_vars
  <2>1. SUFFICES ASSUME MachineInv, RETURN
                 PROVE  /\ data = Last(calls).kept /\ frames = Last(calls).frames
                        /\ CurrentRange = Last(calls).range
    OBVIOUS
  <2>2. pc \in DOMAIN code
    BY <2>1 DEF RETURN, Does, Running
  <2>3. MTypes /\ Executing
    BY <2>1, <2>2, Executed
  <2> QED BY <2>1, <2>3, ReturnRestores
<1> QED BY <1>1, MachineInvariant, PTL DEF ReturnsRestore

\* A program that ends has taken everything it put on its stacks (codegen.c).
THEOREM ProgramsEndClean ==
    ASSUME Returning
    PROVE  Spec => []EndsClean
<1>1. ASSUME MachineInv, exit = "success"
      PROVE  data = <<>> /\ frames = <<>> /\ calls = <<>>
  <2>1. pc # 0 /\ pc = Len(code) + 1
    BY <1>1 DEF MachineInv
  <2>2. Executing /\ MTypes /\ Len(code) \in Nat
    BY <1>1, <2>1, CodeIsSeq DEF MachineInv
  <2>3. PICK base, level : base = Bottom(Len(calls)) /\ level = LevelOf(Len(calls))
    OBVIOUS
  <2>4. Fits(base, pc, data, frames, CurrentRange, level)
    BY <2>2, <2>3 DEF Executing
  <2>5. PICK T, ann : Whole(base.range, T, ann) /\ Holds(PointAt(pc, T, ann), base, data, frames, CurrentRange, level)
    BY <2>4 DEF Fits
  <2>6. PointAt(pc, T, ann) = ann[Len(code) + 1]
    BY <2>1, <2>2 DEF PointAt, PointOf
  <2>7. ann[Len(code) + 1] = Outside(base.range, 0, 0)
    BY <2>5 DEF Whole
  <2>8. IsBase(base) /\ base.range \in Int \X Int
    BY <2>4 DEF Fits, IsBase
  <2>9. Holds(Outside(base.range, 0, 0), base, data, frames, CurrentRange, level)
    BY <2>5, <2>6, <2>7
  <2>10. PICK z : z = 0
    OBVIOUS
  <2>11. data = base.kept /\ frames = base.frames /\ level = z
    BY <2>2, <2>8, <2>9, <2>10, OutsideHolds
  <2>12. Len(calls) = 0
    BY <2>3, <2>10, <2>11 DEF LevelOf
  <2>13. calls = <<>>
    <3>1. IsSeq(calls)
      BY <2>2 DEF Executing
    <3>2. calls # <<>> => Len(calls) > 0
      BY <3>1, FrontIsSeq
    <3> QED BY <2>12, <3>2
  <2>14. base.kept = <<>> /\ base.frames = <<>>
    BY <2>3, <2>12 DEF Bottom, Main
  <2> QED BY <2>11, <2>13, <2>14
<1>2. MachineInv => EndsClean
  BY <1>1 DEF EndsClean
<1> QED BY <1>2, MachineInvariant, PTL

\* What an instruction takes from a stack is there.
StacksSuffice ==
    Running =>
       /\ Operation = "POPS" => Len(data) > 0
       /\ Operation \in {"ADDS", "JUMPIFNEQS"} => Len(data) > 1
       /\ Operation = "CALL" => Len(data) >= Taken(Operand)
       /\ Operation \in {"POPS", "MOVE", "DEFVAR"} /\ Operand[2] # 0 => Len(frames) > 0
       /\ Operation = "POPFRAME" => Len(frames) > 0
       /\ Operation = "RETURN" => Len(calls) > 0

\* No program stops on an empty data stack, a missing frame or a RETURN without a call:
\* what the code of codegen.c takes it has put there, on every path.
THEOREM StacksAlwaysSuffice ==
    ASSUME Returning
    PROVE  Spec => []StacksSuffice
<1>1. ASSUME MachineInv, Running, Operation # "LABEL"
      PROVE  StacksSuffice
  <2>1. pc \in DOMAIN code
    BY <1>1 DEF Running
  <2>2. MTypes /\ Executing
    BY <1>1, <2>1, Executed
  <2>3. PICK n, base, level : n = Len(calls) /\ base = Bottom(n) /\ level = LevelOf(n)
    OBVIOUS
  <2>4. PICK T, ann : Whole(base.range, T, ann) /\ Active(T, ann, base, level)
    BY <2>1, <2>2, <2>3, TopActive
  <2>5. PICK a, b : a = ann[pc] /\ b = ann[pc + 1]
    OBVIOUS
  <2>6. /\ Flow(code[pc], a, b, T) /\ a \in Point /\ Holds(a, base, data, frames, CurrentRange, level)
        /\ IsBase(base)
    BY <1>1, <2>4, <2>5, ActiveAt
  <2>7. PICK x, y, f, g : x = Len(base.kept) /\ y = Len(a.data) /\ f = Len(base.frames) /\ g = a.frame
    OBVIOUS
  <2>8. Len(data) = x + y /\ Len(frames) = f + g /\ x \in Nat /\ y \in Nat /\ f \in Nat /\ g \in {0, 1}
    <3>1. Len(data) = x + y /\ Len(frames) = f + g
      BY <2>6, <2>7 DEF Holds
    <3>2. x \in Nat /\ f \in Nat
      BY <2>6, <2>7 DEF IsBase, IsSeq
    <3>3. a.data \in Seq(SUBSET Int) /\ a.frame \in {0, 1}
      BY <2>6, PointFields
    <3>4. y \in Nat
      BY <2>7, <3>3
    <3> QED BY <2>7, <3>1, <3>2, <3>3, <3>4
  <2>9. /\ Operation = "POPS" => y > 0
        /\ Operation \in {"ADDS", "JUMPIFNEQS"} => y > 1
        /\ Operation = "CALL" => y >= Taken(Operand) /\ Callable(Operand)
        /\ Operation \in {"POPS", "MOVE", "DEFVAR"} => Operand[2] = 0 \/ g = 1
        /\ Operation = "POPFRAME" => g = 1
        /\ Operation = "RETURN" => Goes(Back, a, T)
    BY <2>6, <2>7 DEF Flow, Operation, Operand, Writable
  <2>10. Operation = "CALL" => Len(data) >= Taken(Operand)
    <3>1. SUFFICES ASSUME Operation = "CALL" PROVE Len(data) >= Taken(Operand)
      OBVIOUS
    <3>2. PICK l, m : l = Operand /\ m = Taken(l)
      OBVIOUS
    <3>3. Callable(l) /\ y >= m
      BY <2>9, <3>1, <3>2
    <3>4. m \in Nat
      BY <3>2, <3>3, TakenNat
    <3> QED BY <2>8, <3>2, <3>3, <3>4
  <2>11. Operation = "RETURN" => Len(calls) > 0
    <3>1. SUFFICES ASSUME Operation = "RETURN" PROVE Len(calls) > 0
      OBVIOUS
    <3>2. T[Back] = Outside(base.range, 1, 0)
      BY <2>4, WholeTyped DEF Fixed
    <3>3. Sub(a, Outside(base.range, 1, 0))
      BY <2>9, <3>1, <3>2 DEF Goes
    <3>4. PICK u, z : u = Outside(base.range, 1, 0) /\ z = 1
      OBVIOUS
    <3>5. u.level = z
      BY <3>4 DEF Outside, At
    <3>6. Holds(u, base, data, frames, CurrentRange, level)
      BY <2>6, <3>3, <3>4, HoldsSub
    <3>7. level = 1
      BY <3>4, <3>5, <3>6 DEF Holds
    <3>8. n # 0
      BY <2>3, <3>7 DEF LevelOf
    <3>9. n \in Nat
      BY <2>2, <2>3 DEF Executing, IsSeq
    <3> QED BY <2>3, <3>8, <3>9
  <2>12. /\ Operation = "POPS" => Len(data) > 0
         /\ Operation \in {"ADDS", "JUMPIFNEQS"} => Len(data) > 1
         /\ Operation \in {"POPS", "MOVE", "DEFVAR"} /\ Operand[2] # 0 => Len(frames) > 0
         /\ Operation = "POPFRAME" => Len(frames) > 0
    BY <2>8, <2>9
  <2> QED BY <2>10, <2>11, <2>12 DEF StacksSuffice
<1>2. MachineInv => StacksSuffice
  <2>1. ~Running \/ Operation = "LABEL" => StacksSuffice
    BY DEF StacksSuffice
  <2> QED BY <1>1, <2>1
<1> QED BY <1>2, MachineInvariant, PTL
=============================================================================
