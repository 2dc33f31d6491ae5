----------------------------- MODULE ExprProofs -----------------------------
(***************************************************************************)
(* Theorems about parse_expr, for every vocabulary, every number of tokens *)
(* and both passes. The first part is about the parser's stack: reduce     *)
(* always finds a handle that fits its array. The second is about the      *)
(* values the expressions have when the program runs.                      *)
(*                                                                         *)
(* The argument of the first part is about neighbours. A LESS is put right *)
(* behind the top terminal, so a terminal has a LESS before it or, with    *)
(* one non-terminal between them, two places before it; only ")" is pushed *)
(* without one, and only on its "(". So a handle has at most three         *)
(* elements, and there is one whenever the terminal on top is not the      *)
(* DOLLAR at the bottom.                                                   *)
(***************************************************************************)
EXTENDS Uses, SequenceTheorems, TLAPS

Terminal == UNWRAP .. DOLLAR

\* An element made of a token, or a non-terminal, or LESS.
ElementOK(e) ==
    /\ e.class \in UNWRAP .. NON_TERM
    /\ e.type \in Type
    /\ e.class \in UNWRAP .. OR =>
          e.token.kind \in Operator /\ OperatorClass[e.token.kind] = e.class
    /\ e.class = IDENTIFIER =>
          e.type = e.token.type /\ (e.type = void_type => e.token.form = "call")

\* What element i of the stack s may stand behind and before.
Neighbours(s, i) ==
    LET class(j) == s[j].class
    IN  /\ class(i) = LESS =>
              /\ class(i - 1) \in Terminal
              /\ \/ i + 1 <= Len(s) /\ class(i + 1) \in Terminal
                 \/ i + 2 <= Len(s) /\ class(i + 1) = NON_TERM /\ class(i + 2) \in Terminal
        /\ class(i) = NON_TERM => class(i - 1) # NON_TERM
        /\ class(i) # DOLLAR
        /\ class(i) = LEFT_BRACKET => class(i - 1) = LESS
        /\ class(i) \in UNWRAP .. IDENTIFIER =>
              \/ class(i - 1) = LESS
              \/ i > 2 /\ class(i - 1) = NON_TERM /\ class(i - 2) = LESS
        /\ class(i) = RIGHT_BRACKET =>
              /\ i = Len(s)
              /\ \/ class(i - 1) = LEFT_BRACKET
                 \/ i > 2 /\ class(i - 1) = NON_TERM /\ class(i - 2) = LEFT_BRACKET

StackShape(s) ==
    /\ s \in Seq(ToSet(s)) /\ Len(s) >= 1
    /\ s[1].class = DOLLAR
    /\ \A i \in 1..Len(s) : ElementOK(s[i])
    /\ \A i \in 2..Len(s) : Neighbours(s, i)

\* The token read, and how it fits the stack.
LookaheadOK ==
    /\ a # NoElem => ElementOK(a) /\ a.class \in Terminal
    /\ a = NoElem => Len(pushdown_stack) = 1
    /\ a.class = LEFT_BRACKET => pushdown_stack[Len(pushdown_stack)].class # NON_TERM

SInv == StackShape(pushdown_stack) /\ LookaheadOK /\ HandlesFit
-----------------------------------------------------------------------------
(* Lemmas about sequences *)

\* A sequence is one over its own elements.
LEMMA SeqOfItself ==
    ASSUME NEW S, NEW s \in Seq(S)
    PROVE  s \in Seq(ToSet(s))
BY DEF ToSet

\* Putting l behind element t and x on top moves the elements behind t up.
InsertedAndPushed(r, s, t, l, x) ==
    /\ r \in Seq(ToSet(s) \cup {l, x})
    /\ Len(r) = Len(s) + 2
    /\ \A i \in 1..t : r[i] = s[i]
    /\ r[t + 1] = l
    /\ \A i \in t + 1..Len(s) : r[i + 1] = s[i]
    /\ r[Len(s) + 2] = x

\* What shifting with a "<" mark leaves at each place of the stack.
LEMMA InsertPush ==
    ASSUME NEW s, s \in Seq(ToSet(s)), NEW t \in 1..Len(s), NEW l, NEW x
    PROVE  InsertedAndPushed(Append(InsertAt(s, t + 1, l), x), s, t, l, x)
<1> DEFINE U == ToSet(s) \cup {l, x}
           n == Len(s)
           front == SubSeq(s, 1, t)
           back == SubSeq(s, t + 1, n)
           m == front \o <<l>>
           q == m \o back
<1>1. s \in Seq(U) /\ n \in Nat /\ t \in 1..n /\ \A i \in 1..n : s[i] \in U
  OBVIOUS
<1> HIDE DEF U, n
<1>2. /\ front \in Seq(U) /\ Len(front) = t
      /\ \A i \in 1..t : front[i] = s[i]
  <2>1. \A i \in 1..t : s[i] \in U
    BY <1>1
  <2> QED
    BY ONLY <1>1, <2>1, SubSeqProperties
<1>3. /\ back \in Seq(U) /\ Len(back) = n - t
      /\ \A i \in 1..n - t : back[i] = s[t + i]
  <2>1. \A i \in t + 1..n : s[i] \in U
    BY <1>1
  <2> QED
    BY ONLY <1>1, <2>1, SubSeqProperties
<1>4. <<l>> \in Seq(U) /\ Len(<<l>>) = 1 /\ <<l>>[1] = l
  BY DEF U
<1> HIDE DEF front, back
<1>5. /\ m \in Seq(U) /\ Len(m) = t + 1
      /\ \A i \in 1..t : m[i] = s[i]
      /\ m[t + 1] = l
  BY <1>1, <1>2, <1>4, ConcatProperties
<1> HIDE DEF m
<1>6. /\ q \in Seq(U) /\ Len(q) = n + 1
      /\ \A i \in 1..t + 1 : q[i] = m[i]
      /\ \A i \in t + 1..n : q[i + 1] = s[i]
  <2>1. /\ q \in Seq(U) /\ Len(q) = Len(m) + Len(back)
        /\ \A i \in 1..Len(m) + Len(back) :
              q[i] = IF i <= Len(m) THEN m[i] ELSE back[i - Len(m)]
    BY <1>3, <1>5, ConcatProperties
  <2> HIDE DEF q
  <2>2. /\ Len(q) = n + 1
        /\ \A i \in 1..n + 1 : q[i] = IF i <= t + 1 THEN m[i] ELSE back[i - (t + 1)]
    BY <1>1, <1>3, <1>5, <2>1
  <2>3. \A i \in t + 1..n : q[i + 1] = s[i]
    <3> TAKE i \in t + 1..n
    <3>1. i - t \in 1..n - t /\ i + 1 \in 1..n + 1 /\ ~(i + 1 <= t + 1) /\ (i + 1) - (t + 1) = i - t
          /\ t + (i - t) = i
      BY <1>1
    <3> QED
      BY <1>3, <2>2, <3>1
  <2>4. \A i \in 1..t + 1 : q[i] = m[i]
    BY ONLY <1>1, <2>2
  <2> QED
    BY ONLY <2>1, <2>2, <2>3, <2>4
<1>7. x \in U /\ InsertAt(s, t + 1, l) = q
  <2> DEFINE k == t + 1
  <2>1. k - 1 = t /\ k = t + 1
    BY <1>1
  <2> HIDE DEF k
  <2>2. SubSeq(s, 1, k - 1) = front /\ SubSeq(s, k, Len(s)) = back
    BY ONLY <2>1 DEF front, back, n
  <2>3. InsertAt(s, k, l) = q
    BY ONLY <2>2 DEF InsertAt, q, m
  <2> QED
    BY <2>1, <2>3 DEF U
<1> HIDE DEF q
<1>8. /\ Append(q, x) \in Seq(U) /\ Len(Append(q, x)) = n + 2
      /\ \A i \in 1..n + 1 : Append(q, x)[i] = q[i]
      /\ Append(q, x)[n + 2] = x
  <2>1. q \in Seq(U) /\ x \in U /\ Len(q) = n + 1 /\ n \in Nat
    BY ONLY <1>1, <1>6, <1>7
  <2> QED
    BY ONLY <2>1, AppendProperties
<1> DEFINE r == Append(q, x)
<1> HIDE DEF r
<1>9. /\ r \in Seq(U) /\ Len(r) = n + 2
      /\ \A i \in 1..t : r[i] = s[i]
      /\ r[t + 1] = l
      /\ \A i \in t + 1..n : r[i + 1] = s[i]
      /\ r[n + 2] = x
  <2>1. /\ r \in Seq(U) /\ Len(r) = n + 2
        /\ \A i \in 1..n + 1 : r[i] = q[i]
        /\ r[n + 2] = x
    BY <1>8 DEF r
  <2>2. \A i \in t + 1..n : r[i + 1] = s[i]
    <3> TAKE i \in t + 1..n
    <3>1. i + 1 \in 1..n + 1
      BY <1>1
    <3> QED
      BY ONLY <1>6, <2>1, <3>1
  <2>3. r[t + 1] = l /\ \A i \in 1..t : r[i] = s[i]
    BY ONLY <1>1, <1>5, <1>6, <2>1
  <2> QED
    BY ONLY <2>1, <2>2, <2>3
<1>10. InsertedAndPushed(r, s, t, l, x)
  BY <1>9 DEF U, n, InsertedAndPushed
<1> QED
  BY <1>7, <1>10 DEF r

\* Replacing what follows element k by one element.
CutAndPushed(r, s, k, x) ==
    /\ r \in Seq(ToSet(s) \cup {x})
    /\ Len(r) = k + 1
    /\ \A i \in 1..k : r[i] = s[i]
    /\ r[k + 1] = x

\* What replacing a handle leaves at each place of the stack.
LEMMA CutPush ==
    ASSUME NEW s, s \in Seq(ToSet(s)), NEW k \in 0..Len(s), NEW x
    PROVE  CutAndPushed(Append(SubSeq(s, 1, k), x), s, k, x)
<1> DEFINE S == ToSet(s)
           q == SubSeq(s, 1, k)
<1>0. s \in Seq(S)
  OBVIOUS
<1> HIDE DEF S
<1>1. s \in Seq(S \cup {x}) /\ Len(s) \in Nat /\ k \in Nat /\ k <= Len(s)
  BY <1>0
<1>2. \A i \in 1..k : s[i] \in S \cup {x}
  BY <1>1
<1>3. /\ q \in Seq(S \cup {x}) /\ Len(q) = k
      /\ \A i \in 1..k : q[i] = s[i]
  <2>1. /\ q \in Seq(S \cup {x}) /\ Len(q) = IF 1 <= k THEN k - 1 + 1 ELSE 0
        /\ \A i \in 1..k - 1 + 1 : q[i] = s[1 + i - 1]
    BY ONLY <1>1, <1>2, SubSeqProperties
  <2> HIDE DEF q
  <2> QED
    BY <1>1, <2>1
<1> HIDE DEF q
<1>4. /\ Append(q, x) \in Seq(S \cup {x}) /\ Len(Append(q, x)) = k + 1
      /\ \A i \in 1..k : Append(q, x)[i] = q[i]
      /\ Append(q, x)[k + 1] = x
  BY <1>1, <1>3
<1> QED
  BY <1>3, <1>4 DEF q, S, CutAndPushed
-----------------------------------------------------------------------------
(* Where the top terminal and the handle are *)

USE DEF UNWRAP, NOT, MUL_DIV, ADD_SUB, NIL_COL, REL_OP, AND, OR, LEFT_BRACKET,
        IDENTIFIER, RIGHT_BRACKET, DOLLAR, LESS, NON_TERM, Terminal

\* The top terminal is the last element or the one before it.
LEMMA TopShape ==
    ASSUME NEW s, StackShape(s)
    PROVE  /\ Len(s) \in Nat \ {0} /\ DOMAIN s = 1..Len(s)
           /\ TopTerminal(s) \in 1..Len(s)
           /\ s[TopTerminal(s)].class \in Terminal
           /\ \/ TopTerminal(s) = Len(s)
              \/ TopTerminal(s) = Len(s) - 1 /\ s[Len(s)].class = NON_TERM
<1> DEFINE n == Len(s)
           P(i) == /\ s[i].class \notin {LESS, NON_TERM}
                   /\ \A j \in i + 1..n : s[j].class \in {LESS, NON_TERM}
<1>0. Len(s) = n
  OBVIOUS
<1>1. /\ n \in Nat \ {0} /\ DOMAIN s = 1..n
      /\ \A i \in 1..n : s[i].class \in 1..14
      /\ s[1].class = 12 /\ \A i \in 2..n : Neighbours(s, i)
  BY DEF StackShape, ElementOK
<1>2. TopTerminal(s) = CHOOSE i \in 1..n : P(i)
  BY <1>1 DEF TopTerminal
<1> HIDE DEF n
<1>3. CASE s[n].class \in Terminal
  <2>1. P(n) /\ \A i \in 1..n : P(i) => i = n
    BY <1>1, <1>3
  <2> HIDE DEF P
  <2>2. TopTerminal(s) = n
    BY <1>1, <1>2, <2>1
  <2> QED
    BY <1>1, <1>3, <2>2 DEF n
<1>4. CASE s[n].class = NON_TERM
  <2>1. n >= 2 /\ n - 1 \in 1..n
    BY <1>1, <1>4
  <2>2. s[n - 1].class # NON_TERM
    <3>1. Neighbours(s, n)
      BY <1>1, <2>1
    <3> QED
      BY ONLY <1>4, <3>1 DEF Neighbours
  <2>3. s[n - 1].class # LESS
    <3>1. CASE n - 1 = 1
      BY <1>1, <3>1
    <3>2. CASE n - 1 # 1
      <4>1. n - 1 \in 2..n
        BY <1>1, <2>1, <3>2
      <4>2. Neighbours(s, n - 1)
        BY <1>1, <4>1
      <4>3. n - 1 + 1 = n /\ ~(n - 1 + 2 <= n)
        BY <1>1
      <4>4. n - 1 \in Int
        BY <1>1
      <4> DEFINE k == n - 1
      <4> HIDE DEF k
      <4>5. k \in Int /\ Neighbours(s, k) /\ k + 1 = n /\ ~(k + 2 <= n)
        BY <4>2, <4>3, <4>4 DEF k
      <4>6. s[k].class # LESS
        BY ONLY <1>0, <1>1, <1>4, <4>5 DEF Neighbours
      <4> QED
        BY <4>6 DEF k
    <3> QED
      BY <3>1, <3>2
  <2>4. P(n - 1) /\ \A i \in 1..n : P(i) => i = n - 1
    BY <1>1, <1>4, <2>1, <2>2, <2>3
  <2> HIDE DEF P
  <2>5. TopTerminal(s) = n - 1
    BY <1>1, <1>2, <2>1, <2>4
  <2>6. s[n - 1].class \in Terminal
    BY <1>1, <2>1, <2>2, <2>3
  <2> QED
    BY <1>1, <1>4, <2>1, <2>5, <2>6 DEF n
<1>5. s[n].class # LESS
  <2> SUFFICES ASSUME s[n].class = LESS PROVE FALSE
    OBVIOUS
  <2>1. n \in 2..n
    BY <1>1
  <2>2. Neighbours(s, n) /\ ~(n + 1 <= n) /\ ~(n + 2 <= n)
    BY <1>1, <2>1
  <2> QED
    BY ONLY <2>2, s[n].class = LESS DEF Neighbours, n
<1> QED
  BY <1>1, <1>3, <1>4, <1>5

\* The last LESS has the rest of the stack, at most three elements, as its
\* handle; only the DOLLAR has none.
IsHandleStart(s, h) ==
    /\ h \in 2..Len(s) - 1 /\ Len(s) - h <= 3
    /\ s[h].class = LESS /\ s[h - 1].class \in Terminal
    /\ \A j \in h + 1..Len(s) : s[j].class # LESS

\* Above the last "<" mark there is a handle.
LEMMA HandleShape ==
    ASSUME NEW s, StackShape(s), s[TopTerminal(s)].class # DOLLAR
    PROVE  \E h \in Nat : IsHandleStart(s, h)
<1> DEFINE n == Len(s)
           t == TopTerminal(s)
<1>1. /\ n \in Nat \ {0} /\ t \in 1..n /\ s[t].class \in 1..11
      /\ \A i \in 1..n : s[i].class \in 1..14
      /\ s[1].class = 12 /\ \A i \in 2..n : Neighbours(s, i)
      /\ \/ t = n
         \/ t = n - 1 /\ s[n].class = NON_TERM
  <2>1. s[t].class \in Terminal /\ t \in 1..n /\ n \in Nat \ {0}
    BY TopShape
  <2>2. s[t].class \in 1..11
    BY <2>1
  <2>3. \A i \in 1..n : s[i].class \in 1..14
    BY DEF StackShape, ElementOK
  <2> QED
    BY <2>1, <2>2, <2>3, TopShape DEF StackShape
<1> HIDE DEF n, t
<1>2. t \in 2..n /\ Neighbours(s, t)
  BY <1>1
<1>3. \A j \in t..n : s[j].class # LESS
  BY <1>1
<1>4. ASSUME NEW h \in 2..n, s[h].class = LESS, t - h \in 1..3, n - h <= 3,
             \A j \in h + 1..t : s[j].class # LESS
      PROVE  IsHandleStart(s, h)
  <2>1. s[h - 1].class \in Terminal
    <3>1. Neighbours(s, h)
      BY <1>1, <1>4
    <3> QED
      BY ONLY <1>4, <3>1 DEF Neighbours
  <2>2. h \in 2..n - 1 /\ \A j \in h + 1..n : s[j].class # LESS
    BY <1>1, <1>3, <1>4
  <2> QED
    BY <1>1, <1>4, <2>1, <2>2 DEF IsHandleStart, n
<1>5. CASE s[t].class \in UNWRAP .. IDENTIFIER
  <2>1. CASE s[t - 1].class = LESS
    <3>1. t - 1 \in 2..n /\ t - (t - 1) = 1 /\ n - (t - 1) <= 3
      BY <1>1, <1>2, <2>1
    <3>2. \A j \in t - 1 + 1..t : s[j].class # LESS
      BY <1>1, <1>3
    <3> QED
      BY <1>4, <2>1, <3>1, <3>2
  <2>2. CASE t > 2 /\ s[t - 1].class = NON_TERM /\ s[t - 2].class = LESS
    <3>1. t - 2 \in 2..n /\ t - (t - 2) = 2 /\ n - (t - 2) <= 3
      BY <1>1, <1>2, <2>2
    <3>2. \A j \in t - 2 + 1..t : s[j].class # LESS
      BY <1>1, <1>3, <2>2
    <3> QED
      BY <1>4, <2>2, <3>1, <3>2
  <2> QED
    BY <1>2, <1>5, <2>1, <2>2 DEF Neighbours
<1>6. CASE s[t].class = RIGHT_BRACKET
  <2>0. t = n
    BY <1>2, <1>6 DEF Neighbours, n
  <2>1. CASE s[t - 1].class = LEFT_BRACKET
    <3>1. t - 1 \in 2..n /\ t - 2 \in 1..n
      BY <1>1, <1>2, <2>1
    <3>2. s[t - 2].class = LESS
      <4>1. Neighbours(s, t - 1) /\ (t - 1) - 1 = t - 2
        BY <1>1, <3>1
      <4> QED
        BY <2>1, <4>1 DEF Neighbours
    <3>3. t - 2 \in 2..n /\ t - (t - 2) = 2 /\ n - (t - 2) <= 3
      BY <1>1, <2>0, <3>1, <3>2
    <3>4. \A j \in t - 2 + 1..t : s[j].class # LESS
      BY <1>1, <1>3, <2>1
    <3> QED
      BY <1>4, <3>2, <3>3, <3>4
  <2>2. CASE t > 2 /\ s[t - 1].class = NON_TERM /\ s[t - 2].class = LEFT_BRACKET
    <3>1. t - 2 \in 2..n /\ t - 3 \in 1..n
      BY <1>1, <1>2, <2>2
    <3>2. s[t - 3].class = LESS
      <4>1. Neighbours(s, t - 2) /\ (t - 2) - 1 = t - 3
        BY <1>1, <3>1
      <4> QED
        BY <2>2, <4>1 DEF Neighbours
    <3>3. t - 3 \in 2..n /\ t - (t - 3) = 3 /\ n - (t - 3) <= 3
      BY <1>1, <2>0, <3>1, <3>2
    <3>4. \A j \in t - 3 + 1..t : s[j].class # LESS
      BY <1>1, <1>3, <2>2
    <3> QED
      BY <1>4, <3>2, <3>3, <3>4
  <2> QED
    BY <1>2, <1>6, <2>1, <2>2 DEF Neighbours
<1> QED
  BY <1>1, <1>5, <1>6

\* An element keeps its neighbours when the stack changes only above k, and
\* neither a LESS at k nor the terminal of a LESS below it is lost.
LEMMA NeighboursKept ==
    ASSUME NEW s, NEW r, Len(s) \in Nat, Len(r) \in Nat,
           NEW k \in Nat, k <= Len(s), k <= Len(r),
           \A j \in 1..k : r[j] = s[j],
           s[k].class # LESS, k < Len(s) => s[k + 1].class \notin Terminal,
           NEW i \in 2..k, Neighbours(s, i), s[i].class # RIGHT_BRACKET
    PROVE  Neighbours(r, i)
<1> DEFINE n == Len(s)
           m == Len(r)
<1>1. /\ n \in Nat /\ m \in Nat /\ k \in Nat /\ k <= n /\ k <= m
      /\ i \in 2..k /\ s[i].class # RIGHT_BRACKET
      /\ r[i] = s[i] /\ r[i - 1] = s[i - 1] /\ (i > 2 => r[i - 2] = s[i - 2])
  OBVIOUS
<1>2. /\ s[i].class = LESS =>
            /\ s[i - 1].class \in Terminal
            /\ \/ i + 1 <= n /\ s[i + 1].class \in Terminal
               \/ i + 2 <= n /\ s[i + 1].class = NON_TERM /\ s[i + 2].class \in Terminal
      /\ s[i].class = NON_TERM => s[i - 1].class # NON_TERM
      /\ s[i].class # DOLLAR
      /\ s[i].class = LEFT_BRACKET => s[i - 1].class = LESS
      /\ s[i].class \in UNWRAP .. IDENTIFIER =>
            \/ s[i - 1].class = LESS
            \/ i > 2 /\ s[i - 1].class = NON_TERM /\ s[i - 2].class = LESS
  BY DEF Neighbours
<1>3. s[i].class = LESS => i + 1 <= k /\ r[i + 1] = s[i + 1]
  <2>1. s[i].class = LESS => i # k
    OBVIOUS
  <2>2. i + 1 <= k => r[i + 1] = s[i + 1]
    BY ONLY <1>1, \A j \in 1..k : r[j] = s[j]
  <2> QED
    BY ONLY <1>1, <2>1, <2>2
<1>4. s[i].class = LESS /\ i + 2 <= n /\ s[i + 2].class \in Terminal =>
          i + 2 <= k /\ r[i + 2] = s[i + 2]
  <2>1. i + 2 <= k => r[i + 2] = s[i + 2]
    BY ONLY <1>1, \A j \in 1..k : r[j] = s[j]
  <2>2. i + 2 = k + 1 /\ i + 2 <= n => s[i + 2].class \notin Terminal
    OBVIOUS
  <2> QED
    BY ONLY <1>1, <1>3, <2>1, <2>2
<1> HIDE DEF n, m
<1>5. s[i].class = LESS =>
          /\ r[i - 1].class \in Terminal
          /\ \/ i + 1 <= m /\ r[i + 1].class \in Terminal
             \/ i + 2 <= m /\ r[i + 1].class = NON_TERM /\ r[i + 2].class \in Terminal
  BY ONLY <1>1, <1>2, <1>3, <1>4
<1>6. /\ r[i].class = NON_TERM => r[i - 1].class # NON_TERM
      /\ r[i].class # DOLLAR
      /\ r[i].class = LEFT_BRACKET => r[i - 1].class = LESS
      /\ r[i].class \in UNWRAP .. IDENTIFIER =>
            \/ r[i - 1].class = LESS
            \/ i > 2 /\ r[i - 1].class = NON_TERM /\ r[i - 2].class = LESS
  BY ONLY <1>1, <1>2
<1>7. Len(r) = m
  BY DEF m
<1> QED
  BY ONLY <1>1, <1>5, <1>6, <1>7 DEF Neighbours

\* A token shifted behind a LESS keeps the shape of the stack.
LEMMA PushLessShape ==
    ASSUME NEW s, StackShape(s), s[TopTerminal(s)].class # RIGHT_BRACKET,
           NEW x, ElementOK(x), x.class \in UNWRAP .. IDENTIFIER,
           x.class = LEFT_BRACKET => s[Len(s)].class # NON_TERM
    PROVE  LET r == Append(InsertAt(s, TopTerminal(s) + 1, Less), x)
           IN  StackShape(r) /\ Len(r) = Len(s) + 2 /\ r[Len(r)] = x
<1> DEFINE n == Len(s)
           t == TopTerminal(s)
           r == Append(InsertAt(s, t + 1, Less), x)
<1>1. /\ n \in Nat \ {0} /\ t \in 1..n /\ s[t].class \in Terminal
      /\ \/ t = n
         \/ t = n - 1 /\ s[n].class = NON_TERM
  BY TopShape
<1>2. /\ s \in Seq(ToSet(s)) /\ s[1].class = DOLLAR
      /\ \A i \in 1..n : ElementOK(s[i])
      /\ \A i \in 2..n : Neighbours(s, i)
  BY DEF StackShape
<1>3. /\ r \in Seq(ToSet(s) \cup {Less, x}) /\ Len(r) = n + 2
      /\ \A i \in 1..t : r[i] = s[i]
      /\ r[t + 1] = Less
      /\ \A i \in t + 1..n : r[i + 1] = s[i]
      /\ r[n + 2] = x
  <2> HIDE DEF n, t
  <2>1. t \in 1..Len(s) /\ Len(s) = n
    BY <1>1 DEF n
  <2>2. InsertedAndPushed(r, s, t, Less, x)
    BY ONLY <1>2, <2>1, InsertPush DEF r
  <2> HIDE DEF r
  <2> QED
    BY ONLY <2>1, <2>2 DEF InsertedAndPushed
<1>4. Less.class = LESS /\ ElementOK(Less)
  BY DEF Less, Elem, Other, ElementOK, Type, int_type, void_type
<1>5. Len(s) = n
  OBVIOUS
<1>6. \A i \in 2..t : s[i].class # RIGHT_BRACKET
  <2> SUFFICES ASSUME NEW i \in 2..t, s[i].class = RIGHT_BRACKET PROVE FALSE
    OBVIOUS
  <2>1. i \in 2..n /\ i \in 2..t
    BY <1>1
  <2>2. Neighbours(s, i)
    BY <1>2, <2>1
  <2>3. i = n
    BY ONLY <1>5, <2>2, s[i].class = RIGHT_BRACKET DEF Neighbours
  <2>4. t = n
    BY ONLY <1>1, <2>1, <2>3
  <2> QED
    BY <2>3, <2>4
<1> SUFFICES StackShape(r) /\ Len(r) = n + 2 /\ r[n + 2] = x
  BY DEF n, t, r
<1> HIDE DEF n, t, r
<1>7. \A i \in 2..t : Neighbours(r, i)
  <2> SUFFICES ASSUME NEW i \in 2..t PROVE Neighbours(r, i)
    OBVIOUS
  <2>1. s[t].class # LESS /\ (t < n => s[t + 1].class \notin Terminal)
    <3>1. s[t].class # LESS
      BY ONLY <1>1
    <3>2. t < n => t + 1 = n /\ s[n].class = NON_TERM
      BY ONLY <1>1
    <3> QED
      BY ONLY <3>1, <3>2
  <2>2. Neighbours(s, i)
    <3>1. i \in 2..n
      <4>1. t \in Nat /\ n \in Nat /\ t <= n
        BY ONLY <1>1
      <4> QED
        BY ONLY <4>1, i \in 2..t
    <3> QED
      BY ONLY <1>2, <3>1
  <2>3. Len(r) \in Nat /\ t \in Nat /\ t <= Len(r) /\ t <= Len(s) /\ Len(s) \in Nat
    BY <1>1, <1>3, <1>5
  <2>4. \A j \in 1..t : r[j] = s[j]
    BY <1>3
  <2> QED
    BY <1>5, <1>6, <2>1, <2>2, <2>3, <2>4, NeighboursKept
<1>8. ASSUME \A i \in 2..n + 2 : Neighbours(r, i), r[1] = s[1],
              \A i \in 1..n + 2 : r[i] = Less \/ r[i] = x \/ \E j \in 1..n : r[i] = s[j]
       PROVE  StackShape(r) /\ Len(r) = n + 2 /\ r[n + 2] = x
  <2>1. r \in Seq(ToSet(r))
    BY ONLY <1>3, SeqOfItself
  <2>2. \A i \in 1..n + 2 : ElementOK(r[i])
    BY <1>2, <1>4, <1>8
  <2>3. n + 2 >= 1
    BY <1>1
  <2> QED
    BY ONLY <1>2, <1>3, <1>8, <2>1, <2>2, <2>3 DEF StackShape
<1>9. CASE t = n
  <2>1. r[n] = s[n] /\ r[n].class \in Terminal /\ r[n + 1] = Less /\ r[n + 2] = x
    BY <1>1, <1>3, <1>9
  <2>2. Neighbours(r, n + 1)
    <3> DEFINE k == n + 1
    <3>1. k - 1 = n /\ k + 1 = n + 2 /\ k \in Nat /\ n + 2 \in Nat
      BY <1>1
    <3>2. /\ Len(r) = n + 2 /\ r[k].class = LESS /\ r[k - 1].class \in Terminal
          /\ r[k + 1].class \in Terminal
      BY <1>3, <1>4, <2>1, <3>1
    <3> HIDE DEF k
    <3>3. Neighbours(r, k)
      BY ONLY <3>1, <3>2 DEF Neighbours
    <3> QED
      BY <3>3 DEF k
  <2>3. Neighbours(r, n + 2)
    <3> DEFINE k == n + 2
    <3>1. k - 1 = n + 1 /\ k \in Nat
      BY <1>1
    <3>2. r[k].class \in UNWRAP .. IDENTIFIER /\ r[k - 1].class = LESS
      BY <1>4, <2>1, <3>1
    <3> HIDE DEF k
    <3>3. Neighbours(r, k)
      BY ONLY <3>1, <3>2 DEF Neighbours
    <3> QED
      BY <3>3 DEF k
  <2>4. /\ \A i \in 2..n + 2 : Neighbours(r, i)
        /\ \A i \in 1..n + 2 : r[i] = Less \/ r[i] = x \/ \E j \in 1..n : r[i] = s[j]
    <3>1. \A i \in 2..n + 2 : i \in 2..t \/ i = n + 1 \/ i = n + 2
      BY <1>1, <1>9
    <3>2. \A i \in 1..n + 2 : i \in 1..t \/ i = n + 1 \/ i = n + 2
      BY <1>1, <1>9
    <3> QED
      BY <1>3, <1>7, <1>9, <2>1, <2>2, <2>3, <3>1, <3>2
  <2>5. r[1] = s[1]
    BY <1>1, <1>3
  <2> QED
    BY <1>8, <2>4, <2>5
<1>10. CASE t = n - 1 /\ s[n].class = NON_TERM
  <2>1. /\ r[n - 1] = s[n - 1] /\ r[n - 1].class \in Terminal /\ r[n] = Less
        /\ r[n + 1] = s[n] /\ r[n + 2] = x /\ t + 1 = n /\ n >= 2
    BY <1>1, <1>3, <1>10
  <2>2. Neighbours(r, n)
    <3>1. /\ Len(r) = n + 2 /\ r[n].class = LESS /\ r[n - 1].class \in Terminal
          /\ r[n + 1].class = NON_TERM /\ r[n + 2].class \in Terminal
          /\ n + 2 \in Nat /\ n \in Nat
      BY <1>1, <1>3, <1>4, <1>10, <2>1
    <3> QED
      BY ONLY <3>1 DEF Neighbours
  <2>3. Neighbours(r, n + 1)
    <3> DEFINE k == n + 1
    <3>1. k - 1 = n /\ k \in Nat
      BY <1>1
    <3>2. r[k].class = NON_TERM /\ r[k - 1].class = LESS
      BY <1>4, <1>10, <2>1, <3>1
    <3> HIDE DEF k
    <3>3. Neighbours(r, k)
      BY ONLY <3>1, <3>2 DEF Neighbours
    <3> QED
      BY <3>3 DEF k
  <2>4. Neighbours(r, n + 2)
    <3> DEFINE k == n + 2
    <3>1. k - 1 = n + 1 /\ k - 2 = n /\ k \in Nat /\ k > 2
      BY <1>1
    <3>2. /\ r[k].class \in UNWRAP .. IDENTIFIER /\ r[k].class # LEFT_BRACKET
          /\ r[k - 1].class = NON_TERM /\ r[k - 2].class = LESS
      BY <1>4, <1>5, <1>10, <2>1, <3>1
    <3> HIDE DEF k
    <3>3. Neighbours(r, k)
      BY ONLY <3>1, <3>2 DEF Neighbours
    <3> QED
      BY <3>3 DEF k
  <2>5. /\ \A i \in 2..n + 2 : Neighbours(r, i)
        /\ \A i \in 1..n + 2 : r[i] = Less \/ r[i] = x \/ \E j \in 1..n : r[i] = s[j]
    <3>1. \A i \in 2..n + 2 : i \in 2..t \/ i = n \/ i = n + 1 \/ i = n + 2
      BY <1>1, <1>10
    <3>2. \A i \in 1..n + 2 : i \in 1..t \/ i = n \/ i = n + 1 \/ i = n + 2
      BY <1>1, <1>10
    <3>3. \A j \in 1..t : j \in 1..n
      BY <1>1
    <3>4. n \in 1..n
      BY <1>1
    <3> QED
      BY <1>3, <1>7, <2>1, <2>2, <2>3, <2>4, <3>1, <3>2, <3>3, <3>4
  <2>6. r[1] = s[1]
    BY <1>1, <1>3
  <2> QED
    BY <1>8, <2>5, <2>6
<1> QED
  BY <1>1, <1>9, <1>10

\* A stack that agrees with s up to k and is sound above has the shape.
LEMMA ShapeFrom ==
    ASSUME NEW s, StackShape(s), NEW S, NEW r \in Seq(S),
           NEW k \in 1..Len(s), k <= Len(r),
           \A i \in 1..k : r[i] = s[i],
           s[k].class # LESS, k < Len(s) => s[k + 1].class \notin Terminal,
           \A i \in 2..k : s[i].class # RIGHT_BRACKET,
           \A i \in k + 1..Len(r) : ElementOK(r[i]) /\ Neighbours(r, i)
    PROVE  StackShape(r)
<1> DEFINE n == Len(s)
           m == Len(r)
<1>1. n \in Nat /\ m \in Nat /\ k \in Nat /\ k \in 1..n /\ k <= n /\ k <= m /\ 1 <= k
  BY DEF StackShape
<1>2. /\ s[1].class = DOLLAR
      /\ \A i \in 1..n : ElementOK(s[i])
      /\ \A i \in 2..n : Neighbours(s, i)
  BY DEF StackShape
<1>3. \A i \in 2..k : Neighbours(r, i)
  <2> TAKE i \in 2..k
  <2>1. Neighbours(s, i) /\ s[i].class # RIGHT_BRACKET
    BY <1>1, <1>2
  <2> QED
    BY <1>1, <2>1, NeighboursKept
<1> HIDE DEF n, m
<1>4. \A i \in 2..m : Neighbours(r, i)
  <2>1. \A i \in 2..m : i \in 2..k \/ i \in k + 1..m
    BY ONLY <1>1
  <2> QED
    BY <1>3, <2>1 DEF m
<1>5. \A i \in 1..m : ElementOK(r[i])
  <2>1. \A i \in 1..m : (i \in 1..k /\ i \in 1..n) \/ i \in k + 1..m
    BY ONLY <1>1
  <2>2. \A i \in 1..k : r[i] = s[i]
    OBVIOUS
  <2> QED
    BY <1>2, <2>1, <2>2 DEF m
<1>6. r \in Seq(ToSet(r))
  BY SeqOfItself
<1>7. r[1] = s[1] /\ m >= 1
  BY <1>1
<1> QED
  BY ONLY <1>2, <1>4, <1>5, <1>6, <1>7 DEF StackShape, m

\* Only a bracket at the end of the stack closes one.
LEMMA RightBracketLast ==
    ASSUME NEW s, StackShape(s), NEW i \in 2..Len(s), s[i].class = RIGHT_BRACKET
    PROVE  i = Len(s)
<1>1. Neighbours(s, i)
  BY DEF StackShape
<1> QED
  BY <1>1 DEF Neighbours

\* A closing bracket shifted on its opening one keeps the shape of the stack.
LEMMA PushShape ==
    ASSUME NEW s, StackShape(s), s[TopTerminal(s)].class = LEFT_BRACKET,
           NEW x, ElementOK(x), x.class = RIGHT_BRACKET
    PROVE  LET r == Append(s, x)
           IN  StackShape(r) /\ Len(r) = Len(s) + 1 /\ r[Len(r)] = x
<1> DEFINE n == Len(s)
           t == TopTerminal(s)
           r == Append(s, x)
<1>1. /\ n \in Nat \ {0} /\ t \in 1..n /\ s[t].class = LEFT_BRACKET
      /\ \/ t = n
         \/ t = n - 1 /\ s[n].class = NON_TERM
  BY TopShape
<1>2. s \in Seq(ToSet(s)) /\ s[1].class = DOLLAR
  BY DEF StackShape
<1>3. /\ r \in Seq(ToSet(s) \cup {x}) /\ Len(r) = n + 1
      /\ \A i \in 1..n : r[i] = s[i]
      /\ r[n + 1] = x
  <2>1. s \in Seq(ToSet(s) \cup {x})
    BY <1>2
  <2> QED
    BY ONLY <1>1, <2>1
<1>4. n \in 1..Len(s) /\ n <= Len(r) /\ ~(n < Len(s))
  BY <1>1, <1>3
<1>5. s[n].class # LESS /\ s[n].class # RIGHT_BRACKET
  BY <1>1
<1>6. \A i \in 2..n : s[i].class # RIGHT_BRACKET
  BY <1>5, RightBracketLast
<1> SUFFICES StackShape(r) /\ Len(r) = n + 1 /\ r[n + 1] = x
  BY <1>3
<1> HIDE DEF n, t, r
<1>7. Neighbours(r, n + 1)
  <2> DEFINE k == n + 1
  <2>1. k - 1 = n /\ k - 2 = n - 1 /\ k \in Nat /\ (t = n - 1 => k > 2)
    BY <1>1
  <2>2. /\ Len(r) = k /\ r[k].class = RIGHT_BRACKET
        /\ \/ r[k - 1].class = LEFT_BRACKET
           \/ k > 2 /\ r[k - 1].class = NON_TERM /\ r[k - 2].class = LEFT_BRACKET
    BY <1>1, <1>3, <2>1
  <2> HIDE DEF k
  <2>3. Neighbours(r, k)
    BY ONLY <2>1, <2>2 DEF Neighbours
  <2> QED
    BY <2>3 DEF k
<1>8. \A i \in n + 1..Len(r) : ElementOK(r[i]) /\ Neighbours(r, i)
  BY <1>1, <1>3, <1>7
<1>9. StackShape(r)
  BY <1>3, <1>4, <1>5, <1>6, <1>8, ShapeFrom
<1> QED
  BY <1>3, <1>9

\* A handle and its LESS replaced by a non-terminal keep the shape of the stack.
LEMMA CutShape ==
    ASSUME NEW s, StackShape(s), NEW h, IsHandleStart(s, h),
           NEW e, ElementOK(e), e.class = NON_TERM
    PROVE  LET r == Append(SubSeq(s, 1, h - 1), e)
           IN  /\ CutAndPushed(r, s, h - 1, e)
               /\ StackShape(r) /\ Len(r) = h /\ r[h] = e
<1> DEFINE n == Len(s)
           k == h - 1
           r == Append(SubSeq(s, 1, k), e)
<1>1. /\ n \in Nat /\ h \in 2..n - 1 /\ s[h].class = LESS /\ s[k].class \in Terminal
      /\ k \in 1..n /\ k \in 0..n /\ k + 1 = h /\ k \in Nat /\ k < n - 1
  BY DEF StackShape, IsHandleStart
<1>2. s \in Seq(ToSet(s))
  BY DEF StackShape
<1>3. CutAndPushed(r, s, k, e)
  <2> HIDE DEF k, n
  <2>1. k \in 0..Len(s)
    BY <1>1 DEF n
  <2> QED
    BY <1>2, <2>1, CutPush
<1> SUFFICES CutAndPushed(r, s, k, e) /\ StackShape(r) /\ Len(r) = h /\ r[h] = e
  OBVIOUS
<1> HIDE DEF n, k, r
<1>4. /\ r \in Seq(ToSet(s) \cup {e}) /\ Len(r) = h
      /\ \A i \in 1..k : r[i] = s[i]
      /\ r[h] = e
  BY <1>1, <1>3 DEF CutAndPushed
<1>5. \A i \in 2..k : s[i].class # RIGHT_BRACKET
  <2> SUFFICES ASSUME NEW i \in 2..k, s[i].class = RIGHT_BRACKET PROVE FALSE
    OBVIOUS
  <2>1. i \in 2..Len(s) /\ i # Len(s)
    <3>1. /\ k \in Nat /\ n \in Nat /\ k < n - 1 /\ n = Len(s) /\ i \in 2..k
      BY <1>1 DEF n
    <3> QED
      BY ONLY <3>1
  <2>2. i = Len(s)
    BY StackShape(s), <2>1, RightBracketLast
  <2> QED
    BY ONLY <2>1, <2>2
<1>6. Neighbours(r, h)
  <2>1. k \in 1..k /\ h - 1 = k
    BY ONLY <1>1
  <2>2. r[h].class = NON_TERM /\ r[h - 1].class \in Terminal /\ Len(r) = h
    BY <1>1, <1>4, <2>1
  <2> QED
    BY ONLY <2>2 DEF Neighbours
<1>7. \A i \in k + 1..Len(r) : ElementOK(r[i]) /\ Neighbours(r, i)
  <2>1. \A i \in k + 1..Len(r) : i = h
    BY ONLY <1>1, <1>4
  <2>2. ElementOK(r[h])
    BY <1>4
  <2> QED
    BY ONLY <1>6, <2>1, <2>2
<1>8. /\ k \in 1..Len(s) /\ k <= Len(r) /\ s[k].class # LESS
      /\ k < Len(s) => s[k + 1].class \notin Terminal
  <2>1. k \in 1..n /\ k + 1 = h /\ k \in Nat /\ n = Len(s)
    BY ONLY <1>1 DEF n
  <2>2. k <= Len(r)
    BY ONLY <1>4, <2>1
  <2>3. s[k].class # LESS /\ s[k + 1].class \notin Terminal
    BY ONLY <1>1, <2>1
  <2> QED
    BY ONLY <2>1, <2>2, <2>3
<1>9. StackShape(r)
  BY <1>4, <1>5, <1>7, <1>8, ShapeFrom
<1> QED
  BY <1>3, <1>4, <1>9
-----------------------------------------------------------------------------
(* The precedence table *)

\* What is shifted or reduced where.
LEMMA TableShape ==
    ASSUME NEW b \in Terminal, NEW c \in Terminal
    PROVE  /\ Action(b, c) = 1 => b # RIGHT_BRACKET /\ c \in UNWRAP .. IDENTIFIER
           /\ Action(b, c) = 2 => b # DOLLAR /\ c \notin {LEFT_BRACKET, IDENTIFIER}
           /\ Action(b, c) = 3 => b = LEFT_BRACKET /\ c = RIGHT_BRACKET
<1>1. CASE b \in 1..3
  BY <1>1 DEF Action, prec_table
<1>2. CASE b \in 4..6
  BY <1>2 DEF Action, prec_table
<1>3. CASE b \in 7..9
  BY <1>3 DEF Action, prec_table
<1>4. CASE b \in 10..12
  BY <1>4 DEF Action, prec_table
<1> QED
  BY <1>1, <1>2, <1>3, <1>4
-----------------------------------------------------------------------------
(* The tokens read *)

Token == [kind : {"i", "(", ")", "end"} \cup Operator, form : Form \cup {"none"},
          type : Type, nl : BOOLEAN]

\* Only a call may have no type.
TokenOK(t) ==
    t \in Token /\ (t.kind = "i" => t.form \in Form /\ (t.type = void_type => t.form = "call"))

\* Whatever the vocabulary, a token is one of an expression or ends it.
LEMMA TokensRead_OK == \A t \in NextTokens : TokenOK(t)
<1> SUFFICES ASSUME NEW t \in NextTokens PROVE TokenOK(t)
  OBVIOUS
<1>1. PICK v \in Vocabulary : \E u \in TokensRead(v) : \E nl \in Newline(v, u.kind) :
          t = WithNewline(u, nl)
  BY DEF NextTokens
<1>2. PICK u \in TokensRead(v) : \E nl \in BOOLEAN : t = WithNewline(u, nl)
  BY <1>1 DEF Newline
<1>3. PICK nl \in BOOLEAN : t = WithNewline(u, nl)
  BY <1>2
<1>4. /\ v.operands \subseteq [kind : {"i"}, form : Form, type : Type]
      /\ \A o \in v.operands : o.type = void_type => o.form = "call"
      /\ \E o \in v.operands : o.form = "literal"
      /\ v.operators \subseteq Operator
  BY ExprAssumption DEF ExprAssumption
<1>5. CASE u \in v.operands
  BY <1>3, <1>4, <1>5 DEF TokenOK, Token, WithNewline
<1>6. CASE \E x \in Operator \cup {"(", ")", "end"} : u = Other(x)
  <2>1. PICK x \in Operator \cup {"(", ")", "end"} : u = Other(x)
    BY <1>6
  <2>2. x # "i"
    BY DEF Operator
  <2>3. void_type \in Type
    BY DEF Type, int_type, void_type
  <2> QED
    BY <1>3, <2>1, <2>2, <2>3 DEF TokenOK, Token, WithNewline, Other
<1>7. OperandsRead(v) \subseteq v.operands
  BY <1>4 DEF OperandsRead
<1>8. u \in v.operands \/ \E x \in Operator \cup {"(", ")", "end"} : u = Other(x)
  BY <1>2, <1>4, <1>7 DEF TokensRead
<1> QED
  BY <1>5, <1>6, <1>8

\* The element made of a token.
LEMMA ElementOfToken ==
    ASSUME NEW t, TokenOK(t), NEW class, class = DOLLAR \/ class = map_token(t), NEW tree
    PROVE  /\ ElementOK(Elem(class, t, tree)) /\ Elem(class, t, tree).class = class
           /\ class \in Terminal /\ Elem(class, t, tree) # NoElem
<1>1. /\ class \in Terminal
      /\ class \in UNWRAP .. OR => t.kind \in Operator /\ OperatorClass[t.kind] = class
      /\ class = IDENTIFIER => t.kind = "i"
  <2>1. CASE t.kind = "i"
    <3>1. t.kind \notin DOMAIN OperatorClass
      BY <2>1 DEF Operator, OperatorClass
    <3>2. map_token(t) = IDENTIFIER
      BY <2>1, <3>1 DEF map_token
    <3> QED
      BY <2>1, <3>2
  <2>2. CASE t.kind \in Operator
    <3>1. t.kind # "i" /\ DOMAIN OperatorClass = Operator
      BY <2>2 DEF Operator, OperatorClass
    <3>2. map_token(t) = OperatorClass[t.kind]
      BY <2>2, <3>1 DEF map_token, Operator
    <3>3. OperatorClass[t.kind] \in UNWRAP .. OR
      BY <2>2 DEF Operator, OperatorClass
    <3> QED
      BY <2>2, <3>2, <3>3
  <2>3. CASE t.kind \in {"(", ")", "end"}
    <3>1. t.kind \notin DOMAIN OperatorClass /\ t.kind # "i"
      BY <2>3 DEF Operator, OperatorClass
    <3>2. map_token(t) \in {LEFT_BRACKET, RIGHT_BRACKET, DOLLAR}
      BY <2>3, <3>1 DEF map_token, RightBracket
    <3> QED
      BY <3>2
  <2> QED
    BY <2>1, <2>2, <2>3 DEF TokenOK, Token
<1>2. t.type \in Type /\ (t.kind = "i" => (t.type = void_type => t.form = "call"))
  BY DEF TokenOK, Token
<1> QED
  BY <1>1, <1>2 DEF ElementOK, Elem, NoElem

\* What next_token leaves in a.
LEMMA ElementRead ==
    ASSUME NEW stack, next_token(stack)
    PROVE  ElementOK(a') /\ a'.class \in Terminal /\ a' # NoElem /\ exit' # "overflow"
<1>1. PICK t \in NextTokens :
          LET class == IF EndsBefore(stack, t) THEN DOLLAR ELSE map_token(t)
              evaluated == ~collect_funcs /\ class = IDENTIFIER
          IN  /\ a' = Elem(class, t, <<Len(tokens) + 1>>)
              /\ exit' = IF tokens = <<>> /\ class = DOLLAR THEN "syntax"
                         ELSE IF evaluated /\ t.form = "undeclared" THEN "undefined"
                         ELSE "none"
  BY DEF next_token
<1> DEFINE class == IF EndsBefore(stack, t) THEN DOLLAR ELSE map_token(t)
<1>2. TokenOK(t)
  BY TokensRead_OK
<1>3. class = DOLLAR \/ class = map_token(t)
  OBVIOUS
<1>4. a' = Elem(class, t, <<Len(tokens) + 1>>) /\ exit' # "overflow"
  BY <1>1
<1> HIDE DEF class
<1> QED
  BY <1>2, <1>3, <1>4, ElementOfToken
-----------------------------------------------------------------------------
(* The handle of a reduction *)

\* Where reduce finds the handle of a stack that has one.
LEMMA HandleIs ==
    ASSUME StackShape(pushdown_stack), NEW h, IsHandleStart(pushdown_stack, h)
    PROVE  /\ LessIndexes # {} /\ HandleStart = h
           /\ Len(pushdown_stack) - h \in 1..3
           /\ Handle \in Seq(ToSet(pushdown_stack))
           /\ Len(Handle) = Len(pushdown_stack) - h
           /\ \A i \in 1..Len(pushdown_stack) - h : Handle[i] = pushdown_stack[h + i]
<1> DEFINE s == pushdown_stack
           n == Len(s)
<1>1. /\ s \in Seq(ToSet(s)) /\ n \in Nat /\ DOMAIN s = 1..n
      /\ h \in 2..n - 1 /\ n - h \in 1..3
      /\ s[h].class = LESS /\ \A j \in h + 1..n : s[j].class # LESS
  BY DEF StackShape, IsHandleStart
<1>2. h \in LessIndexes /\ \A j \in LessIndexes : j <= h
  <2>1. h \in 1..n /\ \A j \in 1..n : j > h \/ j <= h
    BY <1>1
  <2>2. h \in LessIndexes
    BY <1>1, <2>1 DEF LessIndexes
  <2>3. \A j \in LessIndexes : j \in 1..n /\ j \notin h + 1..n
    BY <1>1 DEF LessIndexes
  <2> HIDE DEF n
  <2> QED
    <3>1. \A j \in LessIndexes : j \in 1..n /\ j <= h
      BY ONLY <1>1, <2>1, <2>3
    <3> QED
      BY ONLY <2>2, <3>1
<1>3. \A j \in LessIndexes : j \in Nat
  <2> SUFFICES ASSUME NEW j \in LessIndexes PROVE j \in Nat
    OBVIOUS
  <2>1. j \in DOMAIN s
    BY DEF LessIndexes
  <2>2. j \in 1..n
    BY ONLY <1>1, <2>1
  <2> HIDE DEF n
  <2> QED
    BY ONLY <2>2
<1>4. HandleStart = h
  <2>1. ASSUME NEW i \in LessIndexes, \A j \in LessIndexes : j <= i
         PROVE  i = h
    <3>1. h <= i /\ i <= h /\ i \in Nat /\ h \in Nat
      BY ONLY <1>2, <1>3, <2>1
    <3> QED
      BY ONLY <3>1
  <2> QED
    BY ONLY <1>2, <2>1 DEF HandleStart
<1>5. Handle = SubSeq(s, h + 1, n)
  BY <1>4 DEF Handle
<1> HIDE DEF n
<1>6. /\ Handle \in Seq(ToSet(s)) /\ Len(Handle) = n - h
      /\ \A i \in 1..n - h : Handle[i] = s[h + i]
  <2>1. /\ h + 1 \in Int /\ n \in Int /\ h + 1 <= n /\ n - (h + 1) + 1 = n - h
        /\ \A i \in 1..n - h : h + 1 + i - 1 = h + i
    BY <1>1
  <2>2. \A i \in h + 1..n : s[i] \in ToSet(s)
    BY <1>1 DEF ToSet
  <2>3. /\ Handle \in Seq(ToSet(s))
        /\ Len(Handle) = IF h + 1 <= n THEN n - (h + 1) + 1 ELSE 0
        /\ \A i \in 1..n - (h + 1) + 1 : Handle[i] = s[h + 1 + i - 1]
    BY <1>1, <1>5, <2>1, <2>2, SubSeqProperties
  <2>4. \A i \in 1..n - h : Handle[i] = s[h + 1 + i - 1]
    BY ONLY <2>1, <2>3
  <2> QED
    BY ONLY <2>1, <2>3, <2>4
<1> QED
  BY <1>1, <1>2, <1>4, <1>6 DEF n

\* The handle is what the classes of a reduction say.
LEMMA ClassesAre ==
    ASSUME NEW S, Handle \in Seq(S), NEW cs \in Seq(Nat), Classes = cs
    PROVE  Len(Handle) = Len(cs) /\ \A i \in 1..Len(cs) : Handle[i].class = cs[i]
<1> DEFINE n == Len(Handle)
           m == Len(cs)
<1>1. n \in Nat /\ DOMAIN Handle = 1..n /\ m \in Nat /\ DOMAIN cs = 1..m
  OBVIOUS
<1>2. DOMAIN Classes = 1..n /\ \A i \in 1..n : Classes[i] = Handle[i].class
  BY <1>1 DEF Classes
<1>3. 1..n = 1..m
  BY <1>1, <1>2
<1> HIDE DEF n, m
<1>4. n = m
  BY <1>1, <1>3
<1> QED
  BY <1>2, <1>4 DEF n, m

\* A reduction finds a handle, and no operand or opening bracket behind it.
LEMMA HandleExists ==
    ASSUME SInv, Acts(2)
    PROVE  /\ \E h \in Nat : IsHandleStart(pushdown_stack, h)
           /\ a.class \notin {LEFT_BRACKET, IDENTIFIER}
<1>1. StackShape(pushdown_stack) /\ a.class \in Terminal
  BY DEF SInv, LookaheadOK, Acts, Parsing
<1>2. pushdown_stack[TopTerminal(pushdown_stack)].class \in Terminal
  BY <1>1, TopShape
<1>3. /\ pushdown_stack[TopTerminal(pushdown_stack)].class # DOLLAR
      /\ a.class \notin {LEFT_BRACKET, IDENTIFIER}
  BY <1>1, <1>2, TableShape DEF Acts, ActionOn
<1> QED
  BY <1>1, <1>3, HandleShape

\* The elements of a handle with the classes cs.
HandleHas(h, cs) ==
    /\ h \in Nat /\ Len(pushdown_stack) = h + Len(cs)
    /\ \A i \in 1..Len(cs) :
          /\ Handle[i] = pushdown_stack[h + i]
          /\ Handle[i].class = cs[i] /\ ElementOK(Handle[i])

\* The elements of a handle, by the classes that Classes lists.
LEMMA HandleElements ==
    ASSUME StackShape(pushdown_stack), NEW h, IsHandleStart(pushdown_stack, h),
           NEW cs \in Seq(Nat), Classes = cs
    PROVE  HandleHas(h, cs)
<1> DEFINE n == Len(pushdown_stack)
           m == Len(cs)
<1>1. /\ n - h \in 1..3 /\ Len(Handle) = n - h
      /\ \A i \in 1..n - h : Handle[i] = pushdown_stack[h + i]
  BY HandleIs
<1>2. m = n - h /\ \A i \in 1..m : Handle[i].class = cs[i]
  BY <1>1, HandleIs, ClassesAre
<1>3. h \in Nat /\ n \in Nat /\ \A i \in 1..n : ElementOK(pushdown_stack[i])
  BY DEF StackShape, IsHandleStart
<1> HIDE DEF n, m
<1>4. n = h + m /\ \A i \in 1..m : h + i \in 1..n
  BY ONLY <1>1, <1>2, <1>3
<1> QED
  BY ONLY <1>1, <1>2, <1>3, <1>4 DEF n, m, HandleHas

\* The type of a checked operation is one an expression may have.
LEMMA CheckedType ==
    ASSUME NEW x, NEW y, x.type \in Type, y.type \in Type,
           NEW op \in Operator \ {"unwrap", "!"}
    PROVE  Check(op, x, y).type \in Type \cup {Refused}
<1> USE DEF Typed, Mismatch, Type, Refused, int_type, double_type, string_type, bool_type,
            nil_double_type, nil_type, void_type
<1>0. \A t, c, l : Typed(t, c, l).type = t
  OBVIOUS
<1>1. ar_op_check(x, y).type \in Type \cup {Refused}
  BY DEF ar_op_check
<1>2. CASE op = "+"
  BY <1>1, <1>2 DEF Check, add_op_check
<1>3. CASE op \in {"-", "*", "/"}
  BY <1>1, <1>3 DEF Check, other_ar_op_check
<1>4. CASE op \in {"&&", "||"}
  BY <1>4 DEF Check, log_op_check
<1>5. CASE op \in {"<", "<="}
  BY <1>5 DEF Check, rel_op_check
<1>6. CASE op = "=="
  BY <1>6 DEF Check, eq_op_check
<1>7. CASE op = "??"
  BY <1>7 DEF Check, nil_col_check
<1> QED
  BY <1>2, <1>3, <1>4, <1>5, <1>6, <1>7 DEF Operator

\* The operator of a binary handle.
LEMMA BinaryHandle ==
    ASSUME StackShape(pushdown_stack), NEW h, IsHandleStart(pushdown_stack, h),
           NEW classes \in BinaryClasses, Classes = classes
    PROVE  /\ Len(pushdown_stack) = h + 3
           /\ \A i \in 1..3 : Handle[i] = pushdown_stack[h + i] /\ ElementOK(Handle[i])
           /\ Handle[1].class = NON_TERM /\ Handle[3].class = NON_TERM
           /\ Handle[2].class \in MUL_DIV .. OR
           /\ Handle[2].token.kind \in Operator \ {"unwrap", "!"}
           /\ OperatorClass[Handle[2].token.kind] = Handle[2].class
<1>1. PICK c \in MUL_DIV .. OR : classes = <<NON_TERM, c, NON_TERM>>
  BY DEF BinaryClasses
<1>2. /\ classes \in Seq(Nat) /\ Len(classes) = 3
      /\ classes[1] = NON_TERM /\ classes[2] = c /\ classes[3] = NON_TERM
  BY <1>1
<1>3. /\ Len(pushdown_stack) = h + 3
      /\ \A i \in 1..3 : /\ Handle[i] = pushdown_stack[h + i] /\ ElementOK(Handle[i])
                         /\ Handle[i].class = classes[i]
  <2>1. HandleHas(h, classes)
    BY <1>2, HandleElements
  <2> QED
    BY ONLY <1>2, <2>1 DEF HandleHas
<1> DEFINE op == Handle[2].token.kind
<1>4. Handle[2].class = c /\ op \in Operator /\ OperatorClass[op] = c
  BY <1>2, <1>3 DEF ElementOK
<1> HIDE DEF op
<1>5. op \notin {"unwrap", "!"}
  BY <1>4 DEF Operator, OperatorClass
<1> QED
  BY <1>2, <1>3, <1>4, <1>5 DEF op

\* A non-terminal is an element whatever its type.
LEMMA NonTermOK ==
    ASSUME NEW type \in Type, NEW literal, NEW tree
    PROVE  /\ ElementOK(NonTerm(type, literal, tree))
           /\ NonTerm(type, literal, tree).class = NON_TERM
           /\ NonTerm(type, literal, tree).type = type
           /\ NonTerm(type, literal, tree).literal = literal
BY DEF NonTerm, ElementOK

\* The non-terminal a rule pushes is a legal element.
LEMMA PlainNonTermOK ==
    ASSUME NEW type \in Type, NEW tree
    PROVE  /\ ElementOK(NonTerm(type, FALSE, tree))
           /\ NonTerm(type, FALSE, tree).class = NON_TERM
           /\ NonTerm(type, FALSE, tree).type = type
BY DEF NonTerm, ElementOK

\* What a reduction that replaces the handle leaves on the stack.
Reduced(h, e) ==
    /\ IsHandleStart(pushdown_stack, h) /\ h \in Nat
    /\ ElementOK(e) /\ e.class = NON_TERM
    /\ CutAndPushed(pushdown_stack', pushdown_stack, h - 1, e)
    /\ StackShape(pushdown_stack') /\ Len(pushdown_stack') = h /\ pushdown_stack'[h] = e

\* Replacing a handle by a non-terminal keeps the shape of the stack.
LEMMA ReplacedShape ==
    ASSUME SInv, NEW h \in Nat, IsHandleStart(pushdown_stack, h),
           NEW e, ElementOK(e), e.class = NON_TERM, ReplaceHandle(e)
    PROVE  Reduced(h, e)
<1>1. StackShape(pushdown_stack)
  BY DEF SInv
<1>2. HandleStart = h
  BY <1>1, HandleIs
<1>3. pushdown_stack' = Append(SubSeq(pushdown_stack, 1, h - 1), e)
  BY <1>2 DEF ReplaceHandle
<1> QED
  BY <1>1, <1>3, CutShape DEF Reduced

\* The types of the operands whose handles are replaced, and what is left.
LEMMA FirstPassReduced ==
    ASSUME SInv, ReduceFirstPass
    PROVE  /\ \E h : Reduced(h, NonTerm(void_type, FALSE, <<>>))
           /\ UNCHANGED <<values, ret, nil_unwrapped, exit>>
<1>1. PICK h \in Nat : IsHandleStart(pushdown_stack, h)
  BY HandleExists DEF ReduceFirstPass
<1>2. HandleFits
  <2>1. LessIndexes # {} /\ Len(pushdown_stack) - h \in 1..3
        /\ Len(Handle) = Len(pushdown_stack) - h
    BY <1>1, HandleIs DEF SInv
  <2> QED
    BY <2>1 DEF HandleFits
<1>3. ReplaceHandle(NonTerm(void_type, FALSE, <<>>)) /\ UNCHANGED <<values, ret, nil_unwrapped, exit>>
  BY <1>2 DEF ReduceFirstPass
<1>4. void_type \in Type
  BY DEF Type, int_type, void_type
<1> DEFINE e == NonTerm(void_type, FALSE, <<>>)
<1>5. ElementOK(e) /\ e.class = NON_TERM
  BY <1>4, PlainNonTermOK
<1> HIDE DEF e
<1>6. ReplaceHandle(e)
  BY <1>3 DEF e
<1>7. Reduced(h, e)
  BY <1>1, <1>5, <1>6, ReplacedShape
<1> QED
  BY <1>3, <1>7 DEF e

\* What reducing an operand does, or the error it stops with.
LEMMA OperandReduced ==
    ASSUME SInv, ReduceOperand
    PROVE  \/ exit' \in {"type", "undefined"} /\ UNCHANGED <<pushdown_stack, values, ret, nil_unwrapped>>
           \/ \E h : LET e == pushdown_stack[h + 1]
                     IN  /\ Len(pushdown_stack) = h + 1 /\ e.class = IDENTIFIER
                         /\ ~(e.token.form = "call" /\ e.type = void_type)
                         /\ Reduced(h, NonTerm(e.type, e.token.form = "literal", e.tree))
                         /\ \E v \in IF e.token.form = "call" THEN {ret} ELSE Value(e.type) :
                               values' = Append(values, v)
                         /\ UNCHANGED <<ret, nil_unwrapped, exit>>
<1>1. PICK h \in Nat : IsHandleStart(pushdown_stack, h)
  BY HandleExists DEF ReduceOperand, Reduces
<1>2. /\ Len(pushdown_stack) = h + 1 /\ Handle[1] = pushdown_stack[h + 1]
      /\ Handle[1].class = IDENTIFIER /\ ElementOK(Handle[1])
  <2>1. Classes = <<IDENTIFIER>>
    BY DEF ReduceOperand, Reduces
  <2>2. <<IDENTIFIER>> \in Seq(Nat) /\ Len(<<IDENTIFIER>>) = 1 /\ <<IDENTIFIER>>[1] = IDENTIFIER
    OBVIOUS
  <2>3. HandleHas(h, <<IDENTIFIER>>)
    BY <1>1, <2>1, <2>2, HandleElements DEF SInv
  <2> QED
    BY ONLY <2>2, <2>3 DEF HandleHas
<1> DEFINE e == pushdown_stack[h + 1]
<1>3. CASE (e.token.form = "call" /\ e.type = void_type) \/ e.token.form = "uninitialised"
  BY <1>2, <1>3 DEF ReduceOperand, Fail
<1>4. CASE ~(e.token.form = "call" /\ e.type = void_type) /\ e.token.form # "uninitialised"
  <2>1. /\ \E v \in IF e.token.form = "call" THEN {ret} ELSE Value(e.type) :
              values' = Append(values, v)
        /\ ReplaceHandle(NonTerm(e.type, e.token.form = "literal", e.tree))
        /\ UNCHANGED <<ret, nil_unwrapped, exit>>
    BY <1>2, <1>4 DEF ReduceOperand
  <2>2. e.type \in Type
    BY <1>2 DEF ElementOK
  <2>3. Reduced(h, NonTerm(e.type, e.token.form = "literal", e.tree))
    BY <1>1, <2>1, <2>2, NonTermOK, ReplacedShape
  <2> QED
    BY <1>2, <1>4, <2>1, <2>3
<1> QED
  BY <1>3, <1>4

\* What reducing "!E" does, or the error it stops with.
LEMMA NotReduced ==
    ASSUME SInv, ReduceNot
    PROVE  \/ exit' = "type" /\ UNCHANGED <<pushdown_stack, values, ret, nil_unwrapped>>
           \/ \E h : LET e == pushdown_stack[h + 2]
                     IN  /\ Len(pushdown_stack) = h + 2
                         /\ pushdown_stack[h + 1].class = NOT /\ e.class = NON_TERM
                         /\ e.type = bool_type
                         /\ Reduced(h, NonTerm(bool_type, FALSE, Handle[1].tree \o <<e.tree>>))
                         /\ values' = Append(Front(values), IF Top = "bool" THEN "bool" ELSE "error")
                         /\ UNCHANGED <<ret, nil_unwrapped, exit>>
<1>1. PICK h \in Nat : IsHandleStart(pushdown_stack, h)
  BY HandleExists DEF ReduceNot, Reduces
<1> DEFINE e == pushdown_stack[h + 2]
           r == NonTerm(bool_type, FALSE, Handle[1].tree \o <<e.tree>>)
<1>2. /\ Len(pushdown_stack) = h + 2 /\ Handle[2] = e
      /\ pushdown_stack[h + 1].class = NOT /\ e.class = NON_TERM
  <2>1. Classes = <<NOT, NON_TERM>>
    BY DEF ReduceNot, Reduces
  <2>2. /\ <<NOT, NON_TERM>> \in Seq(Nat) /\ Len(<<NOT, NON_TERM>>) = 2
        /\ <<NOT, NON_TERM>>[1] = NOT /\ <<NOT, NON_TERM>>[2] = NON_TERM
    OBVIOUS
  <2>3. HandleHas(h, <<NOT, NON_TERM>>)
    BY <1>1, <2>1, <2>2, HandleElements DEF SInv
  <2> QED
    BY ONLY <2>2, <2>3 DEF HandleHas
<1>3. CASE e.type # bool_type
  BY <1>2, <1>3 DEF ReduceNot, Fail
<1>4. CASE e.type = bool_type
  <2>1. /\ values' = Append(Front(values), IF Top = "bool" THEN "bool" ELSE "error")
        /\ ReplaceHandle(r)
        /\ UNCHANGED <<ret, nil_unwrapped, exit>>
    BY <1>2, <1>4 DEF ReduceNot
  <2>2. bool_type \in Type
    BY DEF Type, bool_type, int_type, void_type
  <2>3. ElementOK(r) /\ r.class = NON_TERM
    BY <2>2, PlainNonTermOK
  <2> HIDE DEF r
  <2>4. Reduced(h, r)
    BY <1>1, <2>1, <2>3, ReplacedShape
  <2> QED
    BY <1>2, <1>4, <2>1, <2>4 DEF r
<1> QED
  BY <1>3, <1>4

\* What reducing "E!" does, or the error it stops with.
LEMMA UnwrapReduced ==
    ASSUME SInv, ReduceUnwrap
    PROVE  \/ exit' = "type" /\ UNCHANGED <<pushdown_stack, values, ret, nil_unwrapped>>
           \/ \E h : LET e == pushdown_stack[h + 1]
                     IN  /\ Len(pushdown_stack) = h + 2
                         /\ e.class = NON_TERM /\ pushdown_stack[h + 2].class = UNWRAP
                         /\ CanUnwrap(e.type)
                         /\ Reduced(h, NonTerm(e.type - 4, FALSE, Handle[2].tree \o <<e.tree>>))
                         /\ nil_unwrapped' = (nil_unwrapped \/ Top = "nil")
                         /\ UNCHANGED <<values, ret, exit>>
<1>1. PICK h \in Nat : IsHandleStart(pushdown_stack, h)
  BY HandleExists DEF ReduceUnwrap, Reduces
<1> DEFINE e == pushdown_stack[h + 1]
           r == NonTerm(e.type - 4, FALSE, Handle[2].tree \o <<e.tree>>)
<1>2. /\ Len(pushdown_stack) = h + 2 /\ Handle[1] = e /\ ElementOK(e)
      /\ e.class = NON_TERM /\ pushdown_stack[h + 2].class = UNWRAP
  <2>1. Classes = <<NON_TERM, UNWRAP>>
    BY DEF ReduceUnwrap, Reduces
  <2>2. /\ <<NON_TERM, UNWRAP>> \in Seq(Nat) /\ Len(<<NON_TERM, UNWRAP>>) = 2
        /\ <<NON_TERM, UNWRAP>>[1] = NON_TERM /\ <<NON_TERM, UNWRAP>>[2] = UNWRAP
    OBVIOUS
  <2>3. HandleHas(h, <<NON_TERM, UNWRAP>>)
    BY <1>1, <2>1, <2>2, HandleElements DEF SInv
  <2> QED
    BY ONLY <2>2, <2>3 DEF HandleHas
<1>3. CASE ~CanUnwrap(e.type)
  BY <1>2, <1>3 DEF ReduceUnwrap, Fail
<1>4. CASE CanUnwrap(e.type)
  <2>1. /\ nil_unwrapped' = (nil_unwrapped \/ Top = "nil")
        /\ ReplaceHandle(r)
        /\ UNCHANGED <<values, ret, exit>>
    BY <1>2, <1>4 DEF ReduceUnwrap
  <2>2. e.type - 4 \in Type
    BY <1>2, <1>4 DEF ElementOK, CanUnwrap, Type, int_type, void_type
  <2>3. ElementOK(r) /\ r.class = NON_TERM
    BY <2>2, PlainNonTermOK
  <2> HIDE DEF r
  <2>4. Reduced(h, r)
    BY <1>1, <2>1, <2>3, ReplacedShape
  <2> QED
    BY <1>2, <1>4, <2>1, <2>4 DEF r
<1> QED
  BY <1>3, <1>4

\* What reducing "(E)" does.
LEMMA BracketsReduced ==
    ASSUME SInv, ReduceBrackets
    PROVE  /\ \E h : LET e == pushdown_stack[h + 2]
                     IN  /\ Len(pushdown_stack) = h + 3
                         /\ pushdown_stack[h + 1].class = LEFT_BRACKET
                         /\ e.class = NON_TERM /\ pushdown_stack[h + 3].class = RIGHT_BRACKET
                         /\ Reduced(h, e)
           /\ UNCHANGED <<values, ret, nil_unwrapped, exit>>
<1>1. PICK h \in Nat : IsHandleStart(pushdown_stack, h)
  BY HandleExists DEF ReduceBrackets, Reduces
<1> DEFINE e == pushdown_stack[h + 2]
           cs == <<LEFT_BRACKET, NON_TERM, RIGHT_BRACKET>>
<1>2. /\ Len(pushdown_stack) = h + 3 /\ Handle[2] = e /\ ElementOK(e)
      /\ pushdown_stack[h + 1].class = LEFT_BRACKET
      /\ e.class = NON_TERM /\ pushdown_stack[h + 3].class = RIGHT_BRACKET
  <2>1. Classes = cs
    BY DEF ReduceBrackets, Reduces
  <2>2. /\ cs \in Seq(Nat) /\ Len(cs) = 3
        /\ cs[1] = LEFT_BRACKET /\ cs[2] = NON_TERM /\ cs[3] = RIGHT_BRACKET
    OBVIOUS
  <2> HIDE DEF cs
  <2>3. HandleHas(h, cs)
    BY <1>1, <2>1, <2>2, HandleElements DEF SInv
  <2> QED
    BY ONLY <2>2, <2>3 DEF HandleHas
<1>3. ReplaceHandle(e) /\ UNCHANGED <<values, ret, nil_unwrapped, exit>>
  BY <1>2 DEF ReduceBrackets
<1>4. Reduced(h, e)
  BY <1>1, <1>2, <1>3, ReplacedShape
<1> QED
  BY <1>2, <1>3, <1>4

\* What reducing a binary operator does, or the error it stops with.
LEMMA BinaryReduced ==
    ASSUME SInv, ReduceBinary
    PROVE  \/ exit' = "type" /\ UNCHANGED <<pushdown_stack, values, ret, nil_unwrapped>>
           \/ \E h : LET y == pushdown_stack[h + 1]
                         x == pushdown_stack[h + 3]
                         op == Handle[2].token.kind
                         check == Check(op, x, y)
                         v == Converted(check.convert, "left", Second)
                         w == Converted(check.convert, "right", Top)
                         result == IF op = "??" THEN NilCoalesced(y.type, v, w)
                                   ELSE Computed(op, check.type, v, w)
                     IN  /\ Len(pushdown_stack) = h + 3
                         /\ Handle[1] = y /\ Handle[3] = x
                         /\ y.class = NON_TERM /\ x.class = NON_TERM
                         /\ pushdown_stack[h + 2].class \in MUL_DIV .. OR
                         /\ op \in Operator \ {"unwrap", "!"}
                         /\ check.type # Refused
                         /\ Reduced(h, NonTerm(check.type, check.literal,
                                               Handle[2].tree \o <<y.tree, x.tree>>))
                         /\ values' = Append(Front(Front(values)), result)
                         /\ ret' = IF \/ op = "??" /\ y.type > 3
                                      \/ op = "+" /\ check.type = string_type
                                   THEN result ELSE ret
                         /\ UNCHANGED <<nil_unwrapped, exit>>
<1>1. PICK h \in Nat : IsHandleStart(pushdown_stack, h)
  BY HandleExists DEF ReduceBinary, Reduces
<1>2. PICK classes \in BinaryClasses : Classes = classes
  BY DEF ReduceBinary, Reduces
<1> DEFINE y == pushdown_stack[h + 1]
           x == pushdown_stack[h + 3]
           op == Handle[2].token.kind
           check == Check(op, x, y)
           v == Converted(check.convert, "left", Second)
           w == Converted(check.convert, "right", Top)
           result == IF op = "??" THEN NilCoalesced(y.type, v, w)
                     ELSE Computed(op, check.type, v, w)
           r == NonTerm(check.type, check.literal, Handle[2].tree \o <<y.tree, x.tree>>)
<1>3. /\ Len(pushdown_stack) = h + 3 /\ Handle[1] = y /\ Handle[3] = x
      /\ ElementOK(y) /\ ElementOK(x) /\ y.class = NON_TERM /\ x.class = NON_TERM
      /\ Handle[2] = pushdown_stack[h + 2]
      /\ Handle[2].class \in MUL_DIV .. OR /\ op \in Operator \ {"unwrap", "!"}
  BY <1>1, <1>2, BinaryHandle DEF SInv
<1>4. CASE check.type = Refused
  BY <1>3, <1>4 DEF ReduceBinary, Fail
<1>5. CASE check.type # Refused
  <2>1. /\ values' = Append(Front(Front(values)), result)
        /\ ret' = IF \/ op = "??" /\ y.type > 3
                     \/ op = "+" /\ check.type = string_type
                  THEN result ELSE ret
        /\ ReplaceHandle(r)
        /\ UNCHANGED <<nil_unwrapped, exit>>
    BY <1>3, <1>5 DEF ReduceBinary
  <2>2. check.type \in Type
    BY <1>3, <1>5, CheckedType DEF ElementOK
  <2>3. ElementOK(r) /\ r.class = NON_TERM
    BY <2>2, NonTermOK
  <2> HIDE DEF r
  <2>4. Reduced(h, r)
    BY <1>1, <2>1, <2>3, ReplacedShape
  <2> QED
    BY <1>3, <1>5, <2>1, <2>4 DEF r
<1> QED
  BY <1>4, <1>5
-----------------------------------------------------------------------------
(* The array of reduce is never overrun *)

\* The statements do not touch the parser.
LEMMA UsesKeepParser ==
    ASSUME \/ DeclareTyped \/ DeclareUntyped \/ Assign \/ Pass \/ Return \/ ReturnInVoid
           \/ Decide \/ Bound
    PROVE  /\ Ready
           /\ UNCHANGED <<collect_funcs, ignore_right_bracket, tokens, a, bracket_count,
                          pushdown_stack, ret, nil_unwrapped, exit>>
<1> USE DEF Ends, Stores, vars
<1>1. ASSUME NEW kind, NEW target, NEW fits, NEW error, Take(kind, target, fits, error)
      PROVE  UNCHANGED <<collect_funcs, ignore_right_bracket, tokens, a, bracket_count,
                         pushdown_stack, ret, nil_unwrapped, exit>>
  BY <1>1 DEF Take
<1>2. CASE DeclareTyped
  BY <1>1, <1>2 DEF DeclareTyped
<1>3. CASE DeclareUntyped
  BY <1>3 DEF DeclareUntyped
<1>4. CASE Assign
  BY <1>1, <1>4 DEF Assign
<1>5. CASE Pass
  BY <1>1, <1>5 DEF Pass
<1>6. CASE Return
  BY <1>1, <1>6 DEF Return
<1>7. CASE ReturnInVoid
  BY <1>1, <1>7 DEF ReturnInVoid
<1>8. CASE Decide
  BY <1>8 DEF Decide
<1>9. CASE Bound
  BY <1>9 DEF Bound
<1> QED
  BY <1>2, <1>3, <1>4, <1>5, <1>6, <1>7, <1>8, <1>9

\* The stack of the first token is the DOLLAR.
LEMMA InitShape == UInit => SInv
<1> SUFFICES ASSUME UInit PROVE SInv
  OBVIOUS
<1>1. Dollar.class = DOLLAR /\ ElementOK(Dollar)
  BY DEF Dollar, Elem, Other, ElementOK, Type, int_type, void_type
<1>2. pushdown_stack = <<Dollar>> /\ a = NoElem /\ exit = "none"
  BY DEF UInit, Init
<1> HIDE DEF Dollar
<1>3. /\ pushdown_stack \in Seq(ToSet(pushdown_stack)) /\ Len(pushdown_stack) = 1
      /\ pushdown_stack[1] = Dollar
  <2>1. pushdown_stack \in Seq({Dollar})
    BY <1>2
  <2> QED
    BY <1>2, <2>1, SeqOfItself
<1>4. StackShape(pushdown_stack)
  <2>1. \A i \in 1..1 : i = 1
    OBVIOUS
  <2>2. 2..1 = {}
    OBVIOUS
  <2> QED
    BY <1>1, <1>3, <2>1, <2>2 DEF StackShape
<1>5. LookaheadOK
  BY <1>2, <1>3 DEF LookaheadOK, NoElem, Elem
<1> QED
  BY <1>2, <1>4, <1>5 DEF SInv, HandlesFit

\* Each step of the parser keeps the shape of the stack.
LEMMA ReducedKeeps ==
    ASSUME SInv, Acts(2), NEW h, NEW e, Reduced(h, e), UNCHANGED <<a, exit>>
    PROVE  SInv'
<1>1. /\ StackShape(pushdown_stack') /\ Len(pushdown_stack') \in Nat
      /\ Len(pushdown_stack') >= 2
  BY DEF Reduced, IsHandleStart
<1>2. a # NoElem /\ a.class \notin {LEFT_BRACKET, IDENTIFIER}
  BY HandleExists DEF Acts, Parsing
<1>3. LookaheadOK'
  BY <1>2 DEF SInv, LookaheadOK
<1> QED
  BY <1>1, <1>3 DEF SInv, HandlesFit

\* Shifting with a "<" mark keeps the shape of the stack.
LEMMA ShiftLessShape ==
    ASSUME SInv, ShiftLess
    PROVE  /\ InsertedAndPushed(pushdown_stack', pushdown_stack,
                                TopTerminal(pushdown_stack), Less, a)
           /\ TopTerminal(pushdown_stack) \in 1..Len(pushdown_stack)
           /\ StackShape(pushdown_stack')
           /\ Len(pushdown_stack') = Len(pushdown_stack) + 2
           /\ pushdown_stack'[Len(pushdown_stack')] = a
           /\ a.class \in UNWRAP .. IDENTIFIER
<1> DEFINE t == TopTerminal(pushdown_stack)
<1>1. StackShape(pushdown_stack) /\ ElementOK(a) /\ a.class \in Terminal
  BY DEF SInv, LookaheadOK, ShiftLess, Acts, Parsing
<1>2. t \in 1..Len(pushdown_stack) /\ pushdown_stack[t].class \in Terminal
  BY <1>1, TopShape
<1>3. pushdown_stack[t].class # RIGHT_BRACKET /\ a.class \in UNWRAP .. IDENTIFIER
  BY <1>1, <1>2, TableShape DEF ShiftLess, Acts, ActionOn
<1>4. a.class = LEFT_BRACKET => pushdown_stack[Len(pushdown_stack)].class # NON_TERM
  BY DEF SInv, LookaheadOK
<1>5. pushdown_stack' = Append(InsertAt(pushdown_stack, t + 1, Less), a)
  BY DEF ShiftLess
<1>6. pushdown_stack \in Seq(ToSet(pushdown_stack))
  BY <1>1 DEF StackShape
<1>7. InsertedAndPushed(pushdown_stack', pushdown_stack, t, Less, a)
  <2> HIDE DEF t
  <2> QED
    BY <1>2, <1>5, <1>6, InsertPush
<1> QED
  BY <1>1, <1>2, <1>3, <1>4, <1>5, <1>7, PushLessShape

\* Shifting a closing bracket keeps the shape of the stack.
LEMMA ShiftShape ==
    ASSUME SInv, Shift
    PROVE  /\ pushdown_stack' = Append(pushdown_stack, a)
           /\ StackShape(pushdown_stack')
           /\ Len(pushdown_stack') = Len(pushdown_stack) + 1
           /\ pushdown_stack'[Len(pushdown_stack')] = a
           /\ a.class = RIGHT_BRACKET
<1> DEFINE t == TopTerminal(pushdown_stack)
<1>1. StackShape(pushdown_stack) /\ ElementOK(a) /\ a.class \in Terminal
  BY DEF SInv, LookaheadOK, Shift, Acts, Parsing
<1>2. pushdown_stack[t].class \in Terminal
  BY <1>1, TopShape
<1>3. pushdown_stack[t].class = LEFT_BRACKET /\ a.class = RIGHT_BRACKET
  BY <1>1, <1>2, TableShape DEF Shift, Acts, ActionOn
<1>4. pushdown_stack' = Append(pushdown_stack, a)
  BY DEF Shift
<1> QED
  BY <1>1, <1>3, <1>4, PushShape

\* A token is read behind one on top of the stack.
LEMMA ReadKeeps ==
    ASSUME SInv, NEW stack, next_token(stack), StackShape(pushdown_stack'),
           pushdown_stack'[Len(pushdown_stack')].class # NON_TERM
    PROVE  SInv'
<1>1. ElementOK(a') /\ a'.class \in Terminal /\ a' # NoElem /\ exit' # "overflow"
  BY ElementRead
<1> QED
  BY <1>1 DEF SInv, LookaheadOK, HandlesFit

\* Every step keeps the shape of the stack.
LEMMA NextShape == SInv /\ [UNext]_<<vars, use, stored>> => SInv'
<1> SUFFICES ASSUME SInv, [UNext]_<<vars, use, stored>> PROVE SInv'
  OBVIOUS
<1>0. ASSUME UNCHANGED <<a, pushdown_stack, exit>> PROVE SInv'
  BY <1>0 DEF SInv, LookaheadOK, HandlesFit
<1>e. ASSUME UNCHANGED <<a, pushdown_stack>>, exit' # "overflow" PROVE SInv'
  BY <1>e DEF SInv, LookaheadOK, HandlesFit
<1>1. CASE First
  <2>1. /\ next_token(pushdown_stack) /\ pushdown_stack' = pushdown_stack
        /\ Len(pushdown_stack) = 1 /\ StackShape(pushdown_stack)
    BY <1>1 DEF First, SInv, LookaheadOK
  <2>2. pushdown_stack'[Len(pushdown_stack')].class # NON_TERM
    BY <2>1 DEF StackShape
  <2> QED
    BY <2>1, <2>2, ReadKeeps
<1>2. CASE ShiftLess
  <2>1. StackShape(pushdown_stack') /\ pushdown_stack'[Len(pushdown_stack')].class # NON_TERM
    BY <1>2, ShiftLessShape
  <2> QED
    BY <1>2, <2>1, ReadKeeps DEF ShiftLess
<1>3. CASE Shift
  <2>1. StackShape(pushdown_stack') /\ pushdown_stack'[Len(pushdown_stack')].class # NON_TERM
    BY <1>3, ShiftShape
  <2> QED
    BY <1>3, <2>1, ReadKeeps DEF Shift
<1>4. CASE Refuse
  BY <1>4, <1>e DEF Refuse, Fail, Read
<1>5. CASE Accept
  BY <1>5, <1>e DEF Accept, Read
<1>6. CASE ReduceFirstPass
  <2>1. Acts(2) /\ UNCHANGED a
    BY <1>6 DEF ReduceFirstPass, Read
  <2> QED
    BY <1>6, <2>1, FirstPassReduced, ReducedKeeps
<1>7. CASE ReduceOperand
  <2>1. Acts(2) /\ UNCHANGED a
    BY <1>7 DEF ReduceOperand, Reduces, Read
  <2> QED
    BY <1>7, <1>e, <2>1, OperandReduced, ReducedKeeps
<1>8. CASE ReduceNot
  <2>1. Acts(2) /\ UNCHANGED a
    BY <1>8 DEF ReduceNot, Reduces, Read
  <2> QED
    BY <1>8, <1>e, <2>1, NotReduced, ReducedKeeps
<1>9. CASE ReduceUnwrap
  <2>1. Acts(2) /\ UNCHANGED a
    BY <1>9 DEF ReduceUnwrap, Reduces, Read
  <2> QED
    BY <1>9, <1>e, <2>1, UnwrapReduced, ReducedKeeps
<1>10. CASE ReduceBrackets
  <2>1. Acts(2) /\ UNCHANGED a
    BY <1>10 DEF ReduceBrackets, Reduces, Read
  <2> QED
    BY <1>10, <2>1, BracketsReduced, ReducedKeeps
<1>11. CASE ReduceBinary
  <2>1. Acts(2) /\ UNCHANGED a
    BY <1>11 DEF ReduceBinary, Reduces, Read
  <2> QED
    BY <1>11, <1>e, <2>1, BinaryReduced, ReducedKeeps
<1>12. CASE ReduceNothing
  <2>1. Acts(2)
    BY <1>12 DEF ReduceNothing
  <2>2. PICK h \in Nat : IsHandleStart(pushdown_stack, h)
    BY <2>1, HandleExists
  <2>3. LessIndexes # {} /\ Len(Handle) = Len(pushdown_stack) - h
        /\ Len(pushdown_stack) - h \in 1..3
    BY <2>2, HandleIs DEF SInv
  <2>4. HandleFits
    BY <2>3 DEF HandleFits
  <2> QED
    BY <1>12, <1>e, <2>4 DEF ReduceNothing, Fail, Read
<1>13. CASE \/ DeclareTyped \/ DeclareUntyped \/ Assign \/ Pass \/ Return \/ ReturnInVoid
            \/ Decide \/ Bound
  BY <1>0, <1>13, UsesKeepParser
<1>14. CASE Done \/ UNCHANGED <<vars, use, stored>>
  BY <1>0, <1>14 DEF Done, vars
<1> QED
  BY <1>1, <1>2, <1>3, <1>4, <1>5, <1>6, <1>7, <1>8, <1>9, <1>10, <1>11, <1>12, <1>13, <1>14
     DEF UNext, Next

\* The stack always has the shape the precedence table gives it.
THEOREM ShapeCorrect == USpec => []SInv
BY InitShape, NextShape, PTL DEF USpec

\* The array of three elements of reduce is never overrun, and the loop that
\* fills it always meets a LESS: in either pass, whatever the tokens, however
\* many they are.
THEOREM HandlesFitCorrect == USpec => []HandlesFit
<1>1. SInv => HandlesFit
  BY DEF SInv
<1> QED
  BY <1>1, ShapeCorrect, PTL

-----------------------------------------------------------------------------
(***************************************************************************)
(* The values of expressions: the types the parser gives expressions are   *)
(* those of the values the printed code computes, and what the statements  *)
(* store has the type they want.                                           *)
(*                                                                         *)
(* The argument relates two stacks. Each non-terminal of the parser's      *)
(* stack has one value on the data stack of the interpreter, in the same   *)
(* order; the value of a non-terminal is found by counting. The handle is  *)
(* on top of one stack and its operands on top of the other.               *)
(***************************************************************************)

\* What an instruction leaves on the data stack.
RunTime == {"int", "float", "string", "bool", "nil", "none", "error"}

\* The types of expressions that have a value.
Valued == int_type .. nil_type

\* The values of each type: those of its meaning, or any at all once E! was
\* executed on nil.
Tight == [type \in Valued |-> Value(type)]
Loose == [type \in Valued |-> RunTime]

\* c[i] is the number of non-terminals in the first i elements of s.
Counts(s, c) ==
    /\ c \in [0..Len(s) -> Nat] /\ c[0] = 0
    /\ \A i \in 1..Len(s) : c[i] = c[i - 1] + IF s[i].class = NON_TERM THEN 1 ELSE 0
    /\ \A i, j \in 0..Len(s) : i <= j => c[i] <= c[j]

\* The data stack vs has a value that V allows for each non-terminal of s.
Matches(s, c, vs, V) ==
    /\ Counts(s, c)
    /\ vs \in Seq(RunTime) /\ Len(vs) = c[Len(s)]
    /\ \A i \in 1..Len(s) : s[i].class = NON_TERM =>
          s[i].type \in Valued /\ vs[c[i]] \in V[s[i].type]
-----------------------------------------------------------------------------
(* The values of types *)

USE DEF int_type, double_type, string_type, bool_type, nil_int_type, nil_double_type,
        nil_string_type, nil_bool_type, nil_type, void_type, Type, Valued

\* The run-time types each static type stands for.
LEMMA ValueIs ==
    /\ Value(0) = {"int"} /\ Value(1) = {"float"}
    /\ Value(2) = {"string"} /\ Value(3) = {"bool"}
    /\ Value(4) = {"int", "nil"} /\ Value(5) = {"float", "nil"}
    /\ Value(6) = {"string", "nil"} /\ Value(7) = {"bool", "nil"}
    /\ Value(8) = {"nil"} /\ Value(9) = {"none"}
BY DEF Value

\* They are types of the interpreter; Tight and Loose, by their values.
LEMMA ValuesRun ==
    /\ \A type \in Type : Value(type) \subseteq RunTime
    /\ \A type \in Valued : Tight[type] = Value(type) /\ Loose[type] = RunTime
<1>1. \A type \in Type : Value(type) \subseteq RunTime
  <2> TAKE type \in Type
  <2>1. type \in {0, 1, 2, 3, 4, 5, 6, 7, 8, 9}
    OBVIOUS
  <2> QED
    BY <2>1, ValueIs DEF RunTime
<1> QED
  BY <1>1 DEF Tight, Loose

\* What is typed is also allowed when nothing is promised.
LEMMA MatchLoosens ==
    ASSUME NEW s, NEW c, NEW vs, Matches(s, c, vs, Tight), Len(s) \in Nat
    PROVE  Matches(s, c, vs, Loose)
<1>1. \A i \in 1..Len(s) : s[i].class = NON_TERM =>
          s[i].type \in Valued /\ vs[c[i]] \in RunTime
  <2>1. \A type \in Valued : Tight[type] \subseteq RunTime
    BY ValuesRun
  <2>2. \A i \in 1..Len(s) : s[i].class = NON_TERM =>
            s[i].type \in Valued /\ vs[c[i]] \in Tight[s[i].type]
    BY ONLY Matches(s, c, vs, Tight) DEF Matches
  <2> QED
    BY ONLY <2>1, <2>2
<1>2. \A i \in 1..Len(s) : s[i].class = NON_TERM => vs[c[i]] \in Loose[s[i].type]
  BY ONLY <1>1, ValuesRun
<1> QED
  BY ONLY <1>2, Matches(s, c, vs, Tight) DEF Matches
-----------------------------------------------------------------------------
(* The checks of the operators are sound for the code *)

\* The result of an operator has the type its check gives it; the operator ??
\* on a Double? and an integer literal is left out.
BinaryResult(op, check, y, v, w) ==
    IF op = "??" THEN NilCoalesced(y.type, v, w) ELSE Computed(op, check.type, v, w)

\* The fields of a check.
LEMMA TypedIs ==
    ASSUME NEW type, NEW convert, NEW literal
    PROVE  Typed(type, convert, literal).type = type
           /\ Typed(type, convert, literal).convert = convert
BY DEF Typed

\* What the arithmetic check lets through.
LEMMA ArithmeticCheck ==
    ASSUME NEW x, NEW y, NEW check, check = ar_op_check(x, y), check.type # Refused
    PROVE  \/ x.type = y.type /\ check.type = x.type /\ check.convert = "none"
           \/ LiteralInt(x) /\ y.type = 1 /\ check.type = 1 /\ check.convert = "right"
           \/ LiteralInt(y) /\ x.type = 1 /\ check.type = 1 /\ check.convert = "left"
BY DEF ar_op_check, Typed, Mismatch

\* The arguments of an operator after INT2FLOATS.
LeftOf(check, v) == Converted(check.convert, "left", v)
RightOf(check, w) == Converted(check.convert, "right", w)

\* What the code does to the two values of a binary operator.
LEMMA ConvertedIs ==
    ASSUME NEW check, NEW v
    PROVE  /\ check.convert = "none" => LeftOf(check, v) = v /\ RightOf(check, v) = v
           /\ check.convert = "left" => LeftOf(check, v) = Int2Float(v) /\ RightOf(check, v) = v
           /\ check.convert = "right" => LeftOf(check, v) = v /\ RightOf(check, v) = Int2Float(v)
BY DEF LeftOf, RightOf, Converted

\* An arithmetic operation that passed its check gives a value of its type.
LEMMA ArithmeticSound ==
    ASSUME NEW op \in {"+", "-", "*", "/"},
           NEW x, NEW y, x.type \in Valued, y.type \in Valued,
           NEW check, check = Check(op, x, y), check.type # Refused,
           NEW v \in Value(y.type), NEW w \in Value(x.type)
    PROVE  /\ check.type \in Valued
           /\ Computed(op, check.type, LeftOf(check, v), RightOf(check, w)) \in Value(check.type)
<1>1. /\ check = ar_op_check(x, y)
      /\ x.type \in {0, 1, 2} /\ y.type \in 0..3 /\ (op # "+" => x.type # 2)
  BY DEF Check, add_op_check, other_ar_op_check, Mismatch, Typed
<1>2. CASE x.type = y.type /\ check.type = x.type /\ check.convert = "none"
  <2>1. LeftOf(check, v) = v /\ RightOf(check, w) = w
    BY <1>2, ConvertedIs
  <2>2. \/ check.type = 0 /\ v = "int" /\ w = "int"
        \/ check.type = 1 /\ v = "float" /\ w = "float"
        \/ check.type = 2 /\ v = "string" /\ w = "string" /\ op = "+"
    BY <1>1, <1>2, ValueIs
  <2>3. CASE check.type = 0 /\ v = "int" /\ w = "int"
    BY <2>1, <2>3, ValueIs DEF Computed, Number
  <2>4. CASE check.type = 1 /\ v = "float" /\ w = "float"
    BY <2>1, <2>4, ValueIs DEF Computed, Number
  <2>5. CASE check.type = 2 /\ v = "string" /\ w = "string" /\ op = "+"
    BY <2>1, <2>5, ValueIs DEF Computed, Number
  <2> QED
    BY <2>2, <2>3, <2>4, <2>5
<1>3. CASE LiteralInt(x) /\ y.type = 1 /\ check.type = 1 /\ check.convert = "right"
  <2>1. v = "float" /\ w = "int"
    BY <1>3, ValueIs DEF LiteralInt
  <2>2. LeftOf(check, v) = "float" /\ RightOf(check, w) = "float"
    BY <1>3, <2>1, ConvertedIs DEF Int2Float
  <2> QED
    BY <1>3, <2>2, ValueIs DEF Computed, Number
<1>4. CASE LiteralInt(y) /\ x.type = 1 /\ check.type = 1 /\ check.convert = "left"
  <2>1. v = "int" /\ w = "float"
    BY <1>4, ValueIs DEF LiteralInt
  <2>2. LeftOf(check, v) = "float" /\ RightOf(check, w) = "float"
    BY <1>4, <2>1, ConvertedIs DEF Int2Float
  <2> QED
    BY <1>4, <2>2, ValueIs DEF Computed, Number
<1> QED
  BY <1>1, <1>2, <1>3, <1>4, ArithmeticCheck

\* So does a logic operation.
LEMMA LogicSound ==
    ASSUME NEW op \in {"&&", "||"},
           NEW x, NEW y, x.type \in Valued, y.type \in Valued,
           NEW check, check = Check(op, x, y), check.type # Refused,
           NEW v \in Value(y.type), NEW w \in Value(x.type)
    PROVE  /\ check.type \in Valued
           /\ Computed(op, check.type, LeftOf(check, v), RightOf(check, w)) \in Value(check.type)
<1>1. x.type = 3 /\ y.type = 3 /\ check.type = 3 /\ check.convert = "none"
  BY DEF Check, log_op_check, Mismatch, Typed
<1>2. v = "bool" /\ w = "bool"
  BY <1>1, ValueIs
<1>3. LeftOf(check, v) = "bool" /\ RightOf(check, w) = "bool"
  BY <1>1, <1>2, ConvertedIs
<1> QED
  BY <1>1, <1>3, ValueIs DEF Computed

\* So does a comparison.
LEMMA CompareSound ==
    ASSUME NEW op \in {"<", "<="},
           NEW x, NEW y, x.type \in Valued, y.type \in Valued,
           NEW check, check = Check(op, x, y), check.type # Refused,
           NEW v \in Value(y.type), NEW w \in Value(x.type)
    PROVE  /\ check.type \in Valued
           /\ Computed(op, check.type, LeftOf(check, v), RightOf(check, w)) \in Value(check.type)
<1>1. /\ check.type = 3
      /\ \/ x.type = y.type /\ x.type \in {0, 1, 2} /\ check.convert = "none"
         \/ x.type = 1 /\ LiteralInt(y) /\ check.convert = "left"
         \/ y.type = 1 /\ LiteralInt(x) /\ check.convert = "right"
  BY DEF Check, rel_op_check, Mismatch, Typed
<1>2. LeftOf(check, v) = RightOf(check, w) /\ LeftOf(check, v) \in {"int", "float", "string"}
  <2>1. CASE x.type = y.type /\ x.type \in {0, 1, 2} /\ check.convert = "none"
    BY <2>1, ValueIs, ConvertedIs
  <2>2. CASE x.type = 1 /\ LiteralInt(y) /\ check.convert = "left"
    BY <2>2, ValueIs, ConvertedIs DEF LiteralInt, Int2Float
  <2>3. CASE y.type = 1 /\ LiteralInt(x) /\ check.convert = "right"
    BY <2>3, ValueIs, ConvertedIs DEF LiteralInt, Int2Float
  <2> QED
    BY <1>1, <2>1, <2>2, <2>3
<1> QED
  BY <1>1, <1>2, ValueIs DEF Computed, Compare

\* So does an equality.
LEMMA EqualSound ==
    ASSUME NEW x, NEW y, x.type \in Valued, y.type \in Valued,
           NEW check, check = Check("==", x, y), check.type # Refused,
           NEW v \in Value(y.type), NEW w \in Value(x.type)
    PROVE  /\ check.type \in Valued
           /\ Computed("==", check.type, LeftOf(check, v), RightOf(check, w)) \in Value(check.type)
<1>1. /\ check.type = 3
      /\ \/ /\ check.convert = "none"
            /\ \/ x.type = y.type \/ x.type = 8 \/ y.type = 8
               \/ x.type - 4 = y.type \/ y.type - 4 = x.type
         \/ x.type \in {1, 5} /\ LiteralInt(y) /\ check.convert = "left"
         \/ y.type \in {1, 5} /\ LiteralInt(x) /\ check.convert = "right"
  BY DEF Check, eq_op_check, Mismatch, Typed
<1>2. Equal(LeftOf(check, v), RightOf(check, w)) = "bool"
  <2>1. CASE /\ check.convert = "none"
             /\ \/ x.type = y.type \/ x.type = 8 \/ y.type = 8
                \/ x.type - 4 = y.type \/ y.type - 4 = x.type
    <3>1. LeftOf(check, v) = v /\ RightOf(check, w) = w
      BY <2>1, ConvertedIs
    <3>2. x.type \in {0, 1, 2, 3, 4, 5, 6, 7, 8} /\ y.type \in {0, 1, 2, 3, 4, 5, 6, 7, 8}
      OBVIOUS
    <3>3. v # "error" /\ w # "error" /\ (v = w \/ v = "nil" \/ w = "nil")
      BY <2>1, <3>2, ValueIs
    <3> QED
      BY <3>1, <3>3 DEF Equal
  <2>2. CASE x.type \in {1, 5} /\ LiteralInt(y) /\ check.convert = "left"
    <3>1. v = "int" /\ w \in {"float", "nil"}
      BY <2>2, ValueIs DEF LiteralInt
    <3>2. LeftOf(check, v) = "float" /\ RightOf(check, w) = w
      BY <2>2, <3>1, ConvertedIs DEF Int2Float
    <3> QED
      BY <3>1, <3>2 DEF Equal
  <2>3. CASE y.type \in {1, 5} /\ LiteralInt(x) /\ check.convert = "right"
    <3>1. w = "int" /\ v \in {"float", "nil"}
      BY <2>3, ValueIs DEF LiteralInt
    <3>2. LeftOf(check, v) = v /\ RightOf(check, w) = "float"
      BY <2>3, <3>1, ConvertedIs DEF Int2Float
    <3> QED
      BY <3>1, <3>2 DEF Equal
  <2> QED
    BY <1>1, <2>1, <2>2, <2>3
<1>3. "error" \notin {LeftOf(check, v), RightOf(check, w)}
  BY <1>2 DEF Equal
<1> QED
  BY <1>1, <1>2, <1>3, ValueIs DEF Computed

\* So does "??", unless a Double? meets an integer literal.
LEMMA CoalesceSound ==
    ASSUME NEW x, NEW y, x.type \in Valued, y.type \in Valued,
           NEW check, check = Check("??", x, y), check.type # Refused,
           ~(y.type = nil_double_type /\ LiteralInt(x)),
           NEW v \in Value(y.type), NEW w \in Value(x.type)
    PROVE  /\ check.type \in Valued
           /\ NilCoalesced(y.type, LeftOf(check, v), RightOf(check, w)) \in Value(check.type)
<1>1. /\ check.convert = "none"
      /\ \/ /\ y.type > 3 /\ x.type <= 3 /\ (y.type - 4 = x.type \/ y.type = 8)
            /\ check.type = x.type
         \/ y.type <= 3 /\ check.type = y.type
  BY DEF Check, nil_col_check, Mismatch, Typed
<1>2. LeftOf(check, v) = v /\ RightOf(check, w) = w
  BY <1>1, ConvertedIs
<1>3. x.type \in {0, 1, 2, 3, 4, 5, 6, 7, 8} /\ y.type \in {0, 1, 2, 3, 4, 5, 6, 7, 8}
  OBVIOUS
<1>4. NilCoalesced(y.type, v, w) \in Value(check.type)
  BY <1>1, <1>3, ValueIs DEF NilCoalesced
<1> QED
  BY <1>1, <1>2, <1>4

\* The type of a checked operation on values is one of values.
LEMMA CheckedValued ==
    ASSUME NEW x, NEW y, x.type \in Valued, y.type \in Valued,
           NEW op \in Operator \ {"unwrap", "!"}
    PROVE  Check(op, x, y).type \in Valued \cup {Refused}
<1> USE DEF Typed, Mismatch, Refused
<1>1. ar_op_check(x, y).type \in Valued \cup {Refused}
  BY DEF ar_op_check
<1>2. CASE op = "+"
  BY <1>1, <1>2 DEF Check, add_op_check
<1>3. CASE op \in {"-", "*", "/"}
  BY <1>1, <1>3 DEF Check, other_ar_op_check
<1>4. CASE op \in {"&&", "||"}
  BY <1>4 DEF Check, log_op_check
<1>5. CASE op \in {"<", "<="}
  BY <1>5 DEF Check, rel_op_check
<1>6. CASE op = "=="
  BY <1>6 DEF Check, eq_op_check
<1>7. CASE op = "??"
  BY <1>7 DEF Check, nil_col_check
<1> QED
  BY <1>2, <1>3, <1>4, <1>5, <1>6, <1>7 DEF Operator

\* Whatever the arguments are, the result is some value.
LEMMA ResultRuns ==
    ASSUME NEW op \in Operator \ {"unwrap", "!"}, NEW check, NEW y,
           NEW v \in RunTime, NEW w \in RunTime
    PROVE  BinaryResult(op, check, y, LeftOf(check, v), RightOf(check, w)) \in RunTime
<1> DEFINE v1 == LeftOf(check, v)
           w1 == RightOf(check, w)
<1>1. v1 \in RunTime /\ w1 \in RunTime
  <2>1. Int2Float(v) \in RunTime /\ Int2Float(w) \in RunTime
    BY DEF Int2Float, RunTime
  <2> QED
    BY <2>1 DEF LeftOf, RightOf, Converted
<1> HIDE DEF v1, w1
<1>2. NilCoalesced(y.type, v1, w1) \in RunTime
  BY <1>1 DEF NilCoalesced, RunTime
<1>3. ASSUME op # "??" PROVE Computed(op, check.type, v1, w1) \in RunTime
  <2>1. /\ \A types : Number(v1, w1, types) \in RunTime
        /\ Compare(v1, w1) \in RunTime /\ Equal(v1, w1) \in RunTime
        /\ {"bool", "error"} \subseteq RunTime
    BY <1>1 DEF Number, Compare, Equal, RunTime
  <2>2. CASE op \in {"+", "-", "*", "/"}
    BY <2>1, <2>2 DEF Computed
  <2>3. CASE op \in {"&&", "||"}
    BY <2>1, <2>3 DEF Computed
  <2>4. CASE op \in {"<", "<=", "=="}
    BY <2>1, <2>4 DEF Computed
  <2> QED
    BY <1>3, <2>2, <2>3, <2>4 DEF Operator
<1> QED
  BY <1>2, <1>3 DEF BinaryResult, v1, w1

\* The result is one the types of the operands promise.
LEMMA ResultAllowed ==
    ASSUME NEW op \in Operator \ {"unwrap", "!"},
           NEW x, NEW y, x.type \in Valued, y.type \in Valued,
           NEW check, check = Check(op, x, y), check.type # Refused,
           NEW V \in {Tight, Loose},
           V = Tight => ~(op = "??" /\ y.type = nil_double_type /\ LiteralInt(x)),
           NEW v \in RunTime, v \in V[y.type], NEW w \in RunTime, w \in V[x.type]
    PROVE  /\ check.type \in Valued
           /\ BinaryResult(op, check, y, LeftOf(check, v), RightOf(check, w)) \in RunTime
           /\ BinaryResult(op, check, y, LeftOf(check, v), RightOf(check, w)) \in V[check.type]
<1> DEFINE result == BinaryResult(op, check, y, LeftOf(check, v), RightOf(check, w))
<1>1. check.type \in Valued
  BY CheckedValued
<1>2. result \in RunTime
  BY ResultRuns
<1>3. CASE V = Loose
  BY <1>1, <1>2, <1>3, ValuesRun
<1>4. CASE V = Tight
  <2>1. v \in Value(y.type) /\ w \in Value(x.type)
    BY <1>4, ValuesRun
  <2>2. result \in Value(check.type)
    <3>1. CASE op \in {"+", "-", "*", "/"}
      BY <2>1, <3>1, ArithmeticSound DEF BinaryResult
    <3>2. CASE op \in {"&&", "||"}
      BY <2>1, <3>2, LogicSound DEF BinaryResult
    <3>3. CASE op \in {"<", "<="}
      BY <2>1, <3>3, CompareSound DEF BinaryResult
    <3>4. CASE op = "=="
      BY <2>1, <3>4, EqualSound DEF BinaryResult
    <3>5. CASE op = "??"
      BY <1>4, <2>1, <3>5, CoalesceSound DEF BinaryResult
    <3> QED
      BY <3>1, <3>2, <3>3, <3>4, <3>5 DEF Operator
  <2> QED
    BY <1>1, <1>2, <1>4, <2>2, ValuesRun
<1> QED
  BY <1>1, <1>2, <1>3, <1>4
-----------------------------------------------------------------------------
(* The data stack under what the parser does to its own *)

\* Elements that are no non-terminals change no count.
LEMMA InsertMatches ==
    ASSUME NEW s, Len(s) \in Nat, NEW t \in 1..Len(s), NEW l, NEW x, NEW r,
           InsertedAndPushed(r, s, t, l, x), l.class # NON_TERM, x.class # NON_TERM,
           NEW c, NEW vs, NEW V, Matches(s, c, vs, V)
    PROVE  \E d : Matches(r, d, vs, V)
<1> DEFINE n == Len(s)
           d == [i \in 0..n + 2 |-> IF i <= t THEN c[i] ELSE IF i <= n + 1 THEN c[i - 1] ELSE c[n]]
<1>1. /\ n \in Nat /\ t \in 1..n /\ Len(r) = n + 2
      /\ \A i \in 1..t : r[i] = s[i]
      /\ r[t + 1] = l
      /\ \A i \in t + 1..n : r[i + 1] = s[i]
      /\ r[n + 2] = x
  BY DEF InsertedAndPushed
<1>2. /\ c \in [0..n -> Nat] /\ c[0] = 0
      /\ \A i \in 1..n : c[i] = c[i - 1] + IF s[i].class = NON_TERM THEN 1 ELSE 0
      /\ \A i, j \in 0..n : i <= j => c[i] <= c[j]
      /\ vs \in Seq(RunTime) /\ Len(vs) = c[n]
      /\ \A i \in 1..n : s[i].class = NON_TERM =>
            s[i].type \in Valued /\ vs[c[i]] \in V[s[i].type]
  BY DEF Matches, Counts
<1> HIDE DEF n
<1>3. /\ DOMAIN d = 0..n + 2
      /\ \A i \in 0..t : d[i] = c[i]
      /\ \A i \in t + 1..n + 1 : d[i] = c[i - 1] /\ i - 1 \in 0..n
      /\ d[n + 2] = c[n]
      /\ d = [i \in 0..n + 2 |-> d[i]]
  BY <1>1
<1> HIDE DEF d
<1>4. \A i \in 0..n + 2 : i \in 0..t \/ i \in t + 1..n + 1 \/ i = n + 2
  BY <1>1
<1>5. d \in [0..n + 2 -> Nat]
  <2>1. \A i \in 0..n + 2 : d[i] \in Nat
    <3> TAKE i \in 0..n + 2
    <3>1. i \in 0..t => i \in 0..n
      BY <1>1
    <3>2. n \in 0..n
      BY <1>1
    <3> QED
      BY <1>2, <1>3, <1>4, <3>1, <3>2
  <2> QED
    BY <1>3, <2>1
<1>6. \A i \in 1..n + 2 :
         \/ \E j \in 1..n : r[i] = s[j] /\ d[i] = c[j] /\ d[i - 1] = c[j - 1]
         \/ r[i].class # NON_TERM /\ d[i] = d[i - 1]
  <2> TAKE i \in 1..n + 2
  <2>1. CASE i \in 1..t
    <3>1. i - 1 \in 0..t /\ i \in 0..t /\ i \in 1..n
      BY <1>1, <2>1
    <3> QED
      BY <1>1, <1>3, <2>1, <3>1
  <2>2. CASE i = t + 1
    <3>1. i - 1 = t /\ i - 1 \in 0..t /\ i \in t + 1..n + 1
      BY <1>1, <2>2
    <3> QED
      BY <1>1, <1>3, <2>2, <3>1
  <2>3. CASE i \in t + 2..n + 1
    <3>1. i - 1 \in t + 1..n + 1 /\ i - 1 \in t + 1..n /\ i \in t + 1..n + 1 /\ i - 1 + 1 = i
          /\ i - 1 \in 1..n
      BY <1>1, <2>3
    <3>2. r[i - 1 + 1] = s[i - 1]
      BY <1>1, <3>1
    <3> QED
      BY <1>3, <3>1, <3>2
  <2>4. CASE i = n + 2
    <3> DEFINE k == i - 1
    <3>1. k \in t + 1..n + 1 /\ k - 1 = n
      BY <1>1, <2>4
    <3> HIDE DEF k
    <3>2. d[k] = d[i]
      BY <1>3, <2>4, <3>1
    <3> QED
      BY <1>1, <2>4, <3>2 DEF k
  <2> QED
    BY <1>1, <2>1, <2>2, <2>3, <2>4
<1>7. \A i \in 1..n + 2 : d[i] = d[i - 1] + IF r[i].class = NON_TERM THEN 1 ELSE 0
  <2> TAKE i \in 1..n + 2
  <2>1. i - 1 \in 0..n + 2
    BY <1>1
  <2>2. d[i - 1] \in Nat
    BY <1>5, <2>1
  <2>3. CASE r[i].class # NON_TERM /\ d[i] = d[i - 1]
    BY <2>2, <2>3
  <2>4. ASSUME NEW j \in 1..n, r[i] = s[j], d[i] = c[j], d[i - 1] = c[j - 1]
        PROVE  d[i] = d[i - 1] + IF r[i].class = NON_TERM THEN 1 ELSE 0
    BY <1>2, <2>4
  <2> QED
    BY <1>6, <2>3, <2>4
<1>8. \A i, j \in 0..n + 2 : i <= j => d[i] <= d[j]
  <2>1. \A i \in 0..n + 2 : \E k \in 0..n : d[i] = c[k] /\
           (i \in 0..t => k = i) /\ (i \in t + 1..n + 1 => k = i - 1) /\ (i = n + 2 => k = n)
    <3> TAKE i \in 0..n + 2
    <3>1. CASE i \in 0..t
      <4>1. i \in 0..n /\ i \notin t + 1..n + 1 /\ i # n + 2
        BY <1>1, <3>1
      <4> QED
        BY <1>3, <3>1, <4>1
    <3>2. CASE i \in t + 1..n + 1
      <4>1. i - 1 \in 0..n /\ i \notin 0..t /\ i # n + 2
        BY <1>1, <3>2
      <4> QED
        BY <1>3, <3>2, <4>1
    <3>3. CASE i = n + 2
      <4>1. n \in 0..n /\ i \notin 0..t /\ i \notin t + 1..n + 1
        BY <1>1, <3>3
      <4> QED
        BY <1>3, <3>3, <4>1
    <3> QED
      BY <1>4, <3>1, <3>2, <3>3
  <2> TAKE i, j \in 0..n + 2
  <2> HAVE i <= j
  <2>2. PICK k \in 0..n : d[i] = c[k] /\
           (i \in 0..t => k = i) /\ (i \in t + 1..n + 1 => k = i - 1) /\ (i = n + 2 => k = n)
    BY <2>1
  <2>3. PICK m \in 0..n : d[j] = c[m] /\
           (j \in 0..t => m = j) /\ (j \in t + 1..n + 1 => m = j - 1) /\ (j = n + 2 => m = n)
    BY <2>1
  <2>4. k <= m
    BY <1>1, <1>4, <2>2, <2>3, i <= j
  <2> QED
    BY <1>2, <2>2, <2>3, <2>4
<1>9. \A i \in 1..n + 2 : r[i].class = NON_TERM =>
          r[i].type \in Valued /\ vs[d[i]] \in V[r[i].type]
  <2> TAKE i \in 1..n + 2
  <2> HAVE r[i].class = NON_TERM
  <2>1. PICK j \in 1..n : r[i] = s[j] /\ d[i] = c[j]
    BY <1>6
  <2> QED
    BY <1>2, <2>1
<1>10. d[0] = 0
  <2>1. 0 \in 0..t
    BY <1>1
  <2> QED
    BY <1>2, <1>3, <2>1
<1>11. Matches(r, d, vs, V)
  BY <1>1, <1>2, <1>3, <1>5, <1>7, <1>8, <1>9, <1>10 DEF Matches, Counts
<1> QED
  BY <1>11

\* A terminal on the pushdown stack changes no value.
LEMMA PushMatches ==
    ASSUME NEW s, s \in Seq(ToSet(s)), NEW x, x.class # NON_TERM,
           NEW c, NEW vs, NEW V, Matches(s, c, vs, V)
    PROVE  \E d : Matches(Append(s, x), d, vs, V)
<1> DEFINE n == Len(s)
           r == Append(s, x)
           d == [i \in 0..n + 1 |-> IF i <= n THEN c[i] ELSE c[n]]
<1>1. /\ n \in Nat /\ Len(r) = n + 1
      /\ \A i \in 1..n : r[i] = s[i]
      /\ r[n + 1] = x
  <2>1. s \in Seq(ToSet(s) \cup {x})
    OBVIOUS
  <2> QED
    BY ONLY <2>1
<1>2. /\ c \in [0..n -> Nat] /\ c[0] = 0
      /\ \A i \in 1..n : c[i] = c[i - 1] + IF s[i].class = NON_TERM THEN 1 ELSE 0
      /\ \A i, j \in 0..n : i <= j => c[i] <= c[j]
      /\ vs \in Seq(RunTime) /\ Len(vs) = c[n]
      /\ \A i \in 1..n : s[i].class = NON_TERM =>
            s[i].type \in Valued /\ vs[c[i]] \in V[s[i].type]
  BY DEF Matches, Counts
<1> HIDE DEF n, r
<1>3. /\ DOMAIN d = 0..n + 1
      /\ \A i \in 0..n : d[i] = c[i]
      /\ d[n + 1] = c[n]
      /\ d = [i \in 0..n + 1 |-> d[i]]
  BY <1>1
<1> HIDE DEF d
<1>4. \A i \in 0..n + 1 : i \in 0..n \/ i = n + 1
  BY <1>1
<1>5. n \in 0..n /\ 0 \in 0..n
  BY <1>1
<1>6. d \in [0..n + 1 -> Nat]
  <2>1. \A i \in 0..n + 1 : d[i] \in Nat
    BY <1>2, <1>3, <1>4, <1>5
  <2> QED
    BY <1>3, <2>1
<1>7. \A i \in 1..n + 1 :
         \/ i \in 1..n /\ r[i] = s[i] /\ d[i] = c[i] /\ d[i - 1] = c[i - 1]
         \/ r[i].class # NON_TERM /\ d[i] = d[i - 1] /\ d[i] \in Nat
  <2> TAKE i \in 1..n + 1
  <2>1. i - 1 \in 0..n
    BY <1>1
  <2>2. CASE i \in 1..n
    <3>1. i \in 0..n
      BY <2>2
    <3> QED
      BY <1>1, <1>3, <2>1, <2>2, <3>1
  <2>3. CASE i = n + 1
    <3>1. i - 1 = n
      BY <1>1, <2>3
    <3> QED
      BY <1>1, <1>2, <1>3, <1>5, <2>3, <3>1
  <2> QED
    BY <1>1, <2>2, <2>3
<1>8. \A i \in 1..n + 1 : d[i] = d[i - 1] + IF r[i].class = NON_TERM THEN 1 ELSE 0
  <2> TAKE i \in 1..n + 1
  <2>1. CASE i \in 1..n /\ r[i] = s[i] /\ d[i] = c[i] /\ d[i - 1] = c[i - 1]
    BY <1>2, <2>1
  <2>2. CASE r[i].class # NON_TERM /\ d[i] = d[i - 1] /\ d[i] \in Nat
    BY <2>2
  <2> QED
    BY <1>7, <2>1, <2>2
<1>9. \A i, j \in 0..n + 1 : i <= j => d[i] <= d[j]
  <2> TAKE i, j \in 0..n + 1
  <2> HAVE i <= j
  <2>1. CASE i \in 0..n /\ j \in 0..n
    BY <1>2, <1>3, <2>1, i <= j
  <2>2. CASE i \in 0..n /\ j = n + 1
    <3>1. i <= n
      BY <1>1, <2>2
    <3>2. c[i] <= c[n]
      BY <1>2, <1>5, <2>2, <3>1
    <3> QED
      BY <1>3, <2>2, <3>2
  <2>3. CASE i = n + 1 /\ j = n + 1
    BY <1>6, <2>3
  <2>4. ~(i = n + 1 /\ j \in 0..n)
    BY <1>1, i <= j
  <2> QED
    BY <1>4, <2>1, <2>2, <2>3, <2>4
<1>10. \A i \in 1..n + 1 : r[i].class = NON_TERM =>
          r[i].type \in Valued /\ vs[d[i]] \in V[r[i].type]
  BY <1>2, <1>7
<1>11. Matches(r, d, vs, V)
  BY <1>1, <1>2, <1>3, <1>5, <1>6, <1>8, <1>9, <1>10 DEF Matches, Counts
<1> QED
  BY <1>11 DEF r

\* The first m values of vs are kept, and one of A is put on them.
Covers(ws, vs, m, A) ==
    /\ ws \in Seq(RunTime) /\ Len(ws) = m + 1
    /\ \A i \in 1..m : ws[i] = vs[i]
    /\ ws[m + 1] \in A

\* A non-terminal pushed on the first k elements has the value on top.
LEMMA CutMatches ==
    ASSUME NEW s, Len(s) \in Nat, NEW k \in 0..Len(s), NEW e, NEW r, CutAndPushed(r, s, k, e),
           e.class = NON_TERM, e.type \in Valued,
           NEW c, NEW vs, NEW V, Matches(s, c, vs, V),
           NEW ws, Covers(ws, vs, c[k], V[e.type])
    PROVE  \E d : Matches(r, d, ws, V)
<1> USE DEF Covers
<1> DEFINE n == Len(s)
           d == [i \in 0..k + 1 |-> IF i <= k THEN c[i] ELSE c[k] + 1]
<1>1. /\ n \in Nat /\ k \in Nat /\ k <= n /\ Len(r) = k + 1
      /\ \A i \in 1..k : r[i] = s[i]
      /\ r[k + 1] = e
  BY DEF CutAndPushed
<1>2. /\ c \in [0..n -> Nat] /\ c[0] = 0
      /\ \A i \in 1..n : c[i] = c[i - 1] + IF s[i].class = NON_TERM THEN 1 ELSE 0
      /\ \A i, j \in 0..n : i <= j => c[i] <= c[j]
      /\ \A i \in 1..n : s[i].class = NON_TERM =>
            s[i].type \in Valued /\ vs[c[i]] \in V[s[i].type]
  BY DEF Matches, Counts
<1> HIDE DEF n
<1>3. /\ DOMAIN d = 0..k + 1
      /\ \A i \in 0..k : d[i] = c[i]
      /\ d[k + 1] = c[k] + 1
      /\ d = [i \in 0..k + 1 |-> d[i]]
  BY <1>1
<1> HIDE DEF d
<1>4. \A i \in 0..k + 1 : i \in 0..k \/ i = k + 1
  BY <1>1
<1>5. k \in 0..k /\ 0 \in 0..k /\ \A i \in 0..k : i \in 0..n
  BY <1>1
<1>6. \A i \in 0..k : c[i] \in Nat
  BY <1>2, <1>5
<1>7. d \in [0..k + 1 -> Nat]
  <2>1. \A i \in 0..k : d[i] \in Nat
    BY <1>3, <1>6
  <2>2. c[k] \in Nat
    BY <1>5, <1>6
  <2>3. d[k + 1] \in Nat
    BY <1>3, <2>2
  <2>4. \A i \in 0..k + 1 : d[i] \in Nat
    BY <1>4, <2>1, <2>3
  <2> QED
    BY <1>3, <2>4
<1>8. \A i \in 1..k : i \in 1..n /\ r[i] = s[i] /\ d[i] = c[i] /\ d[i - 1] = c[i - 1]
  <2> TAKE i \in 1..k
  <2>1. i \in 0..k /\ i - 1 \in 0..k /\ i \in 1..n
    BY <1>1
  <2> QED
    BY <1>1, <1>3, <2>1
<1>9. \A i \in 1..k + 1 : d[i] = d[i - 1] + IF r[i].class = NON_TERM THEN 1 ELSE 0
  <2> TAKE i \in 1..k + 1
  <2>1. CASE i \in 1..k
    BY <1>2, <1>8, <2>1
  <2>2. CASE i = k + 1
    <3>1. i - 1 = k
      BY <1>1, <2>2
    <3> QED
      BY <1>1, <1>3, <1>5, <2>2, <3>1
  <2> QED
    BY <1>1, <2>1, <2>2
<1>10. \A i, j \in 0..k + 1 : i <= j => d[i] <= d[j]
  <2> TAKE i, j \in 0..k + 1
  <2> HAVE i <= j
  <2>1. CASE i \in 0..k /\ j \in 0..k
    BY <1>2, <1>3, <1>5, <2>1, i <= j
  <2>2. CASE i \in 0..k /\ j = k + 1
    <3>1. c[i] <= c[k]
      BY <1>1, <1>2, <1>5, <2>2
    <3>2. c[i] \in Nat /\ c[k] \in Nat
      BY <1>5, <1>6, <2>2
    <3>3. d[i] = c[i] /\ d[j] = c[k] + 1
      BY <1>3, <2>2
    <3> QED
      BY ONLY <3>1, <3>2, <3>3
  <2>3. CASE i = k + 1 /\ j = k + 1
    BY <1>7, <2>3
  <2> QED
    BY <1>1, <1>4, <2>1, <2>2, <2>3, i <= j
<1>11. \A i \in 1..k + 1 : r[i].class = NON_TERM =>
          r[i].type \in Valued /\ ws[d[i]] \in V[r[i].type]
  <2> TAKE i \in 1..k + 1
  <2> HAVE r[i].class = NON_TERM
  <2>1. CASE i \in 1..k
    <3>1. r[i] = s[i] /\ d[i] = c[i] /\ s[i].class = NON_TERM /\ i \in 1..n
      BY <1>8, <2>1
    <3>2. s[i].type \in Valued /\ vs[c[i]] \in V[s[i].type] /\ c[i] = c[i - 1] + 1
      BY <1>2, <3>1
    <3>3. i - 1 \in 0..k /\ i \in 0..k /\ i <= k
      BY <1>1, <2>1
    <3>4. c[i - 1] \in Nat /\ c[k] \in Nat /\ c[i] <= c[k]
      BY <1>2, <1>5, <1>6, <3>3
    <3>5. c[i] \in 1..c[k]
      BY <3>2, <3>4
    <3> QED
      BY <3>1, <3>2, <3>5
  <2>2. CASE i = k + 1
    BY <1>1, <1>3, <2>2
  <2> QED
    BY <1>1, <2>1, <2>2
<1>12. d[0] = 0
  BY <1>2, <1>3, <1>5
<1>13. Matches(r, d, ws, V)
  BY <1>1, <1>3, <1>7, <1>9, <1>10, <1>11, <1>12 DEF Matches, Counts
<1> QED
  BY <1>13

\* A sequence without its last element.
LEMMA FrontIs ==
    ASSUME NEW S, NEW vs \in Seq(S), Len(vs) >= 1
    PROVE  /\ Front(vs) \in Seq(S) /\ Len(Front(vs)) = Len(vs) - 1
           /\ \A i \in 1..Len(vs) - 1 : Front(vs)[i] = vs[i]
<1> DEFINE n == Len(vs)
<1>1. n \in Nat /\ n >= 1 /\ \A i \in 1..n - 1 : vs[i] \in S
  OBVIOUS
<1> HIDE DEF n
<1>2. /\ SubSeq(vs, 1, n - 1) \in Seq(S)
      /\ Len(SubSeq(vs, 1, n - 1)) = IF 1 <= n - 1 THEN n - 1 - 1 + 1 ELSE 0
      /\ \A i \in 1..n - 1 - 1 + 1 : SubSeq(vs, 1, n - 1)[i] = vs[1 + i - 1]
  BY <1>1, SubSeqProperties
<1> DEFINE q == SubSeq(vs, 1, n - 1)
<1>3. Front(vs) = q
  BY DEF Front, n
<1> HIDE DEF q
<1>4. q \in Seq(S) /\ Len(q) = n - 1 /\ \A i \in 1..n - 1 : q[i] = vs[i]
  BY <1>1, <1>2 DEF q
<1> QED
  BY <1>3, <1>4 DEF n
-----------------------------------------------------------------------------
(* The operands of a handle are the last values *)

\* Counting the non-terminals of the stack, one element further.
LEMMA CountStep ==
    ASSUME NEW s, NEW c, Counts(s, c), Len(s) \in Nat, NEW i \in 1..Len(s)
    PROVE  /\ c[i] \in Nat /\ c[i - 1] \in Nat
           /\ s[i].class = NON_TERM => c[i] = c[i - 1] + 1
           /\ s[i].class # NON_TERM => c[i] = c[i - 1]
<1>1. i \in 0..Len(s) /\ i - 1 \in 0..Len(s)
  OBVIOUS
<1>2. c[i] \in Nat /\ c[i - 1] \in Nat
  BY <1>1 DEF Counts
<1>3. c[i] = c[i - 1] + IF s[i].class = NON_TERM THEN 1 ELSE 0
  BY DEF Counts
<1> QED
  BY <1>2, <1>3

\* A handle without a non-terminal has no value yet.
LEMMA NoValue ==
    ASSUME NEW s, NEW c, NEW vs, NEW V, Matches(s, c, vs, V), Len(s) \in Nat,
           NEW h \in Nat, IsHandleStart(s, h), Len(s) = h + 1, s[h + 1].class # NON_TERM
    PROVE  c[h - 1] \in Nat /\ Len(vs) = c[h - 1]
<1>1. Counts(s, c) /\ Len(vs) = c[Len(s)]
  BY DEF Matches
<1>2. h \in 1..Len(s) /\ h + 1 \in 1..Len(s) /\ h + 1 - 1 = h /\ s[h].class # NON_TERM
  BY DEF IsHandleStart, LESS, NON_TERM
<1>3. c[h] = c[h - 1] /\ c[h - 1] \in Nat
  BY <1>1, <1>2, CountStep
<1>4. c[h + 1] = c[h + 1 - 1]
  BY <1>1, <1>2, CountStep
<1> QED
  BY <1>1, <1>2, <1>3, <1>4

\* A handle with one non-terminal, element p, has its value on top.
OneValue(s, c, vs, V, h, p) ==
    /\ c[h - 1] \in Nat /\ Len(vs) = c[h - 1] + 1 /\ s[p].type \in Valued
    /\ vs[Len(vs)] \in RunTime /\ vs[Len(vs)] \in V[s[p].type]

\* The only non-terminal of a handle has its value on top of the data stack.
LEMMA ValueOnTop ==
    ASSUME NEW s, NEW c, NEW vs, NEW V, Matches(s, c, vs, V), Len(s) \in Nat,
           NEW h \in Nat, IsHandleStart(s, h),
           NEW p \in h + 1..Len(s), s[p].class = NON_TERM,
           \A j \in h + 1..Len(s) : j # p => s[j].class # NON_TERM
    PROVE  OneValue(s, c, vs, V, h, p)
<1> DEFINE n == Len(s)
<1>1. Counts(s, c) /\ Len(vs) = c[n] /\ vs \in Seq(RunTime)
  BY DEF Matches
<1>2. h \in 2..n - 1 /\ h \in 1..n /\ n - h <= 3 /\ s[h].class # NON_TERM /\ n \in Nat
  BY DEF IsHandleStart, LESS, NON_TERM
<1>3. c[h] = c[h - 1] /\ c[h - 1] \in Nat
  BY <1>1, <1>2, CountStep
<1>4. \A j \in h + 1..n : /\ c[j] \in Nat /\ c[j - 1] \in Nat
                          /\ j = p => c[j] = c[j - 1] + 1
                          /\ j # p => c[j] = c[j - 1]
  <2> TAKE j \in h + 1..n
  <2>1. j \in 1..Len(s)
    BY <1>2
  <2> QED
    BY <1>1, <2>1, CountStep
<1> HIDE DEF n
<1>5. c[n] = c[h - 1] + 1 /\ c[p] = c[n]
  <2>1. h + 1 \in h + 1..n /\ h + 1 - 1 = h
    BY <1>2
  <2>2. /\ h + 1 = p => c[h + 1] = c[h] + 1
        /\ h + 1 # p => c[h + 1] = c[h]
    BY <1>4, <2>1
  <2>3. n >= h + 2 => /\ h + 2 = p => c[h + 2] = c[h + 1] + 1
                      /\ h + 2 # p => c[h + 2] = c[h + 1]
    <3>1. n >= h + 2 => h + 2 \in h + 1..n /\ h + 2 - 1 = h + 1
      BY <1>2
    <3> QED
      BY <1>4, <3>1
  <2>4. n >= h + 3 => /\ h + 3 = p => c[h + 3] = c[h + 2] + 1
                      /\ h + 3 # p => c[h + 3] = c[h + 2]
    <3>1. n >= h + 3 => h + 3 \in h + 1..n /\ h + 3 - 1 = h + 2
      BY <1>2
    <3> QED
      BY <1>4, <3>1
  <2>5. n = h + 1 \/ n = h + 2 \/ n = h + 3
    BY <1>2
  <2>6. p \in h + 1..n
    BY DEF n
  <2>7. CASE n = h + 1
    <3>1. p = h + 1
      BY <1>2, <2>6, <2>7
    <3> QED
      BY <1>3, <2>2, <2>7, <3>1
  <2>8. CASE n = h + 2
    <3>1. p = h + 1 \/ p = h + 2
      BY <1>2, <2>6, <2>8
    <3>2. h + 1 # h + 2 /\ n >= h + 2
      BY <1>2, <2>8
    <3> QED
      BY <1>3, <2>2, <2>3, <2>8, <3>1, <3>2
  <2>9. CASE n = h + 3
    <3>1. p = h + 1 \/ p = h + 2 \/ p = h + 3
      BY <1>2, <2>6, <2>9
    <3>2. h + 1 # h + 2 /\ h + 2 # h + 3 /\ h + 1 # h + 3 /\ n >= h + 2 /\ n >= h + 3
      BY <1>2, <2>9
    <3> QED
      BY <1>3, <2>2, <2>3, <2>4, <2>9, <3>1, <3>2
  <2> QED
    BY <2>5, <2>7, <2>8, <2>9
<1>6. p \in 1..n /\ s[p].type \in Valued /\ vs[c[p]] \in V[s[p].type]
  BY <1>2 DEF Matches, n
<1>7. vs[Len(vs)] \in RunTime
  BY <1>1, <1>3, <1>5
<1> QED
  BY <1>1, <1>3, <1>5, <1>6, <1>7 DEF OneValue, n

\* The handle of a binary operator has its two values on top.
TwoValues(s, c, vs, V, h) ==
    /\ c[h - 1] \in Nat /\ Len(vs) = c[h - 1] + 2
    /\ s[h + 1].type \in Valued /\ s[h + 3].type \in Valued
    /\ vs[Len(vs) - 1] \in RunTime /\ vs[Len(vs) - 1] \in V[s[h + 1].type]
    /\ vs[Len(vs)] \in RunTime /\ vs[Len(vs)] \in V[s[h + 3].type]

\* Those of a binary operator have the two values on top.
LEMMA ValuesOnTop ==
    ASSUME NEW s, NEW c, NEW vs, NEW V, Matches(s, c, vs, V), Len(s) \in Nat,
           NEW h \in Nat, IsHandleStart(s, h), Len(s) = h + 3,
           s[h + 1].class = NON_TERM, s[h + 2].class # NON_TERM, s[h + 3].class = NON_TERM
    PROVE  TwoValues(s, c, vs, V, h)
<1>1. Counts(s, c) /\ Len(vs) = c[Len(s)] /\ vs \in Seq(RunTime)
  BY DEF Matches
<1>2. /\ h \in 1..Len(s) /\ h + 1 \in 1..Len(s) /\ h + 2 \in 1..Len(s) /\ h + 3 \in 1..Len(s)
      /\ h + 1 - 1 = h /\ h + 2 - 1 = h + 1 /\ h + 3 - 1 = h + 2 /\ s[h].class # NON_TERM
  BY DEF IsHandleStart, LESS, NON_TERM
<1>3. c[h] = c[h - 1] /\ c[h - 1] \in Nat
  BY <1>1, <1>2, CountStep
<1>4. c[h + 1] = c[h] + 1
  BY <1>1, <1>2, CountStep
<1>5. c[h + 2] = c[h + 1]
  BY <1>1, <1>2, CountStep
<1>6. c[h + 3] = c[h + 2] + 1
  <2> DEFINE j == h + 3
  <2>1. j \in 1..Len(s) /\ j - 1 = h + 2 /\ s[j].class = NON_TERM
    BY <1>2
  <2> HIDE DEF j
  <2>2. c[j] = c[j - 1] + 1
    BY <1>1, <2>1, CountStep
  <2> QED
    BY <2>1, <2>2 DEF j
<1>7. /\ s[h + 1].type \in Valued /\ vs[c[h + 1]] \in V[s[h + 1].type]
      /\ s[h + 3].type \in Valued /\ vs[c[h + 3]] \in V[s[h + 3].type]
  BY <1>2 DEF Matches
<1> DEFINE m == c[h - 1]
<1> HIDE DEF m
<1>8. m \in Nat /\ c[h + 1] = m + 1 /\ c[h + 3] = m + 2 /\ Len(vs) = m + 2 /\ Len(vs) - 1 = m + 1
  BY <1>1, <1>3, <1>4, <1>5, <1>6 DEF m
<1>9. vs[m + 1] \in RunTime /\ vs[m + 2] \in RunTime
  <2>1. m + 1 \in 1..Len(vs) /\ m + 2 \in 1..Len(vs)
    BY <1>8
  <2> QED
    BY <1>1, <2>1
<1> QED
  BY <1>7, <1>8, <1>9 DEF TwoValues, m

\* Replacing a handle, and the values of its operands by v.
LEMMA OperandMatches ==
    ASSUME NEW s, NEW c, NEW vs, NEW V, Matches(s, c, vs, V), Len(s) \in Nat,
           NEW h \in Nat, IsHandleStart(s, h), Len(s) = h + 1, s[h + 1].class # NON_TERM,
           NEW r, NEW e, CutAndPushed(r, s, h - 1, e), e.class = NON_TERM, e.type \in Valued,
           NEW v \in RunTime, v \in V[e.type]
    PROVE  \E d : Matches(r, d, Append(vs, v), V)
<1> DEFINE k == h - 1
           ws == Append(vs, v)
<1>1. c[k] \in Nat /\ Len(vs) = c[k] /\ vs \in Seq(RunTime)
  <2>1. c[h - 1] \in Nat /\ Len(vs) = c[h - 1]
    BY NoValue
  <2> QED
    BY <2>1 DEF Matches
<1>2. k \in 0..Len(s) /\ CutAndPushed(r, s, k, e)
  BY DEF IsHandleStart
<1> HIDE DEF k
<1>3. /\ ws \in Seq(RunTime) /\ Len(ws) = Len(vs) + 1
      /\ \A i \in 1..Len(vs) : ws[i] = vs[i]
      /\ ws[Len(vs) + 1] = v
  BY <1>1
<1> HIDE DEF ws
<1>4. Covers(ws, vs, c[k], V[e.type])
  BY <1>1, <1>3 DEF Covers
<1>5. \E d : Matches(r, d, ws, V)
  BY <1>2, <1>4, CutMatches
<1> QED
  BY <1>5 DEF ws

\* Replacing that value by one of the new type keeps the stacks in step.
LEMMA OneMatches ==
    ASSUME NEW s, NEW c, NEW vs, NEW V, Matches(s, c, vs, V), Len(s) \in Nat,
           NEW h \in Nat, IsHandleStart(s, h), NEW p, OneValue(s, c, vs, V, h, p),
           NEW r, NEW e, CutAndPushed(r, s, h - 1, e), e.class = NON_TERM, e.type \in Valued
    PROVE  /\ \A v \in RunTime : v \in V[e.type] =>
                 \E d : Matches(r, d, Append(Front(vs), v), V)
           /\ vs[Len(vs)] \in V[e.type] => \E d : Matches(r, d, vs, V)
<1> DEFINE k == h - 1
<1>1. /\ c[k] \in Nat /\ Len(vs) = c[k] + 1 /\ vs \in Seq(RunTime)
      /\ Len(vs) >= 1 /\ Len(vs) - 1 = c[k]
  BY DEF Matches, OneValue
<1>2. k \in 0..Len(s) /\ CutAndPushed(r, s, k, e)
  BY DEF IsHandleStart
<1> HIDE DEF k
<1>3. ASSUME NEW v \in RunTime, v \in V[e.type]
      PROVE  \E d : Matches(r, d, Append(Front(vs), v), V)
  <2> DEFINE f == Front(vs)
             ws == Append(f, v)
  <2>1. /\ f \in Seq(RunTime) /\ Len(f) = c[k]
        /\ \A i \in 1..c[k] : f[i] = vs[i]
    BY <1>1, FrontIs
  <2> HIDE DEF f
  <2>2. /\ ws \in Seq(RunTime) /\ Len(ws) = Len(f) + 1
        /\ \A i \in 1..Len(f) : ws[i] = f[i]
        /\ ws[Len(f) + 1] = v
    BY <2>1, <1>3
  <2> HIDE DEF ws
  <2>3. /\ Len(ws) = c[k] + 1 /\ ws[c[k] + 1] \in V[e.type]
        /\ \A i \in 1..c[k] : ws[i] = vs[i]
    BY <1>3, <2>1, <2>2
  <2>4. Covers(ws, vs, c[k], V[e.type])
    BY <2>2, <2>3 DEF Covers
  <2>5. \E d : Matches(r, d, ws, V)
    BY <1>2, <2>4, CutMatches
  <2> QED
    BY <2>5 DEF ws, f
<1>4. ASSUME vs[Len(vs)] \in V[e.type]
      PROVE  \E d : Matches(r, d, vs, V)
  <2>1. Covers(vs, vs, c[k], V[e.type])
    BY <1>1, <1>4 DEF Covers
  <2> QED
    BY <1>2, <2>1, CutMatches
<1> QED
  BY <1>3, <1>4

\* So does replacing both values by one.
LEMMA TwoMatch ==
    ASSUME NEW s, NEW c, NEW vs, NEW V, Matches(s, c, vs, V), Len(s) \in Nat,
           NEW h \in Nat, IsHandleStart(s, h), TwoValues(s, c, vs, V, h),
           NEW r, NEW e, CutAndPushed(r, s, h - 1, e), e.class = NON_TERM, e.type \in Valued,
           NEW v \in RunTime, v \in V[e.type]
    PROVE  \E d : Matches(r, d, Append(Front(Front(vs)), v), V)
<1> DEFINE k == h - 1
           m == c[k]
           g == Front(vs)
           f == Front(g)
           ws == Append(f, v)
<1>1. /\ m \in Nat /\ Len(vs) = m + 2 /\ vs \in Seq(RunTime)
      /\ Len(vs) >= 1 /\ Len(vs) - 1 = m + 1
  BY DEF Matches, TwoValues
<1>2. k \in 0..Len(s) /\ CutAndPushed(r, s, k, e)
  BY DEF IsHandleStart
<1> HIDE DEF k
<1>3. /\ g \in Seq(RunTime) /\ Len(g) = m + 1
      /\ \A i \in 1..m + 1 : g[i] = vs[i]
  BY <1>1, FrontIs
<1> HIDE DEF g, m
<1>4. Len(g) >= 1 /\ Len(g) - 1 = m
  BY <1>1, <1>3
<1>5. /\ f \in Seq(RunTime) /\ Len(f) = m
      /\ \A i \in 1..m : f[i] = g[i]
  BY <1>3, <1>4, FrontIs
<1> HIDE DEF f
<1>6. /\ ws \in Seq(RunTime) /\ Len(ws) = Len(f) + 1
      /\ \A i \in 1..Len(f) : ws[i] = f[i]
      /\ ws[Len(f) + 1] = v
  BY <1>5
<1> HIDE DEF ws
<1>7. \A i \in 1..m : ws[i] = vs[i]
  <2>1. \A i \in 1..m : i \in 1..m + 1
    BY <1>1
  <2> QED
    BY <1>3, <1>5, <1>6, <2>1
<1>8. Covers(ws, vs, m, V[e.type])
  BY <1>5, <1>6, <1>7 DEF Covers
<1>9. \E d : Matches(r, d, ws, V)
  BY <1>2, <1>8, CutMatches DEF m
<1> QED
  BY <1>9 DEF ws, f, g
-----------------------------------------------------------------------------
(* The invariant *)

USE DEF UNWRAP, NOT, MUL_DIV, ADD_SUB, NIL_COL, REL_OP, AND, OR, LEFT_BRACKET,
        IDENTIFIER, RIGHT_BRACKET, DOLLAR, LESS, NON_TERM, Terminal

\* The variables the two stacks are read with.
VariablesOK ==
    /\ collect_funcs \in BOOLEAN /\ ignore_right_bracket \in BOOLEAN
    /\ tokens \in Seq(Token) /\ bracket_count \in -Len(tokens) .. Len(tokens)
    /\ nil_unwrapped \in BOOLEAN
    /\ values \in Seq(RunTime) /\ ret \in RunTime
    /\ exit \in {"none", "accepted", "syntax", "type", "undefined"}

\* An expression is not empty, and one non-terminal is left of it.
EndOK ==
    /\ a = NoElem => tokens = <<>> /\ exit = "none"
    /\ exit = "none" /\ a # NoElem /\ Len(pushdown_stack) = 1 => a.class # DOLLAR
    /\ exit = "accepted" => Len(pushdown_stack) = 2 /\ pushdown_stack[2].class = NON_TERM
    /\ use # Unused => exit = "accepted"

\* The result of a call waits in ret until the call is reduced.
Waits(e) == e.class = IDENTIFIER /\ e.token.form = "call"

CallOK ==
    ~collect_funcs =>
        /\ Waits(a) => ret \in Value(a.type)
        /\ LET last == pushdown_stack[Len(pushdown_stack)]
           IN  Waits(last) /\ a.class # IDENTIFIER => ret \in Value(last.type)

\* The values V allows, until E! is executed on nil.
Allowed(V) == IF nil_unwrapped THEN Loose ELSE V

DataOK(V) ==
    ~collect_funcs /\ use = Unused => \E c : Matches(pushdown_stack, c, values, Allowed(V))

CInv(V) == SInv /\ VariablesOK /\ EndOK /\ CallOK /\ DataOK(V)

\* The step that breaks the typing: n ?? 1 with n of type Double?.  The code
\* converts the literal, but the expression gets the type Int.
CoalescesDouble ==
    /\ ReduceBinary
    /\ Handle[2].token.kind = "??"
    /\ Handle[1].type = nil_double_type /\ LiteralInt(Handle[3])
-----------------------------------------------------------------------------
(* Reading a token *)

\* Arithmetic of the bracket count.
LEMMA CountBrackets ==
    ASSUME NEW m \in Nat, NEW b \in -m .. m, NEW k \in {-1, 0, 1}
    PROVE  b + k \in -(m + 1) .. m + 1
OBVIOUS

\* Reading a token keeps the types.
LEMMA TokenRead ==
    ASSUME NEW stack, next_token(stack), tokens \in Seq(Token),
           bracket_count \in -Len(tokens) .. Len(tokens), ret \in RunTime
    PROVE  /\ tokens' \in Seq(Token) /\ bracket_count' \in -Len(tokens') .. Len(tokens')
           /\ ret' \in RunTime /\ exit' \in {"none", "syntax", "undefined"}
           /\ tokens = <<>> /\ exit' = "none" => a'.class # DOLLAR
           /\ ~collect_funcs /\ Waits(a') => ret' \in Value(a'.type)
           /\ a'.class # IDENTIFIER => ret' = ret
<1>1. PICK t \in NextTokens :
          LET class == IF EndsBefore(stack, t) THEN DOLLAR ELSE map_token(t)
              evaluated == ~collect_funcs /\ class = IDENTIFIER
          IN  /\ tokens' = Append(tokens, t)
              /\ a' = Elem(class, t, <<Len(tokens) + 1>>)
              /\ bracket_count' = bracket_count + BracketChange(map_token(t))
              /\ ret' \in IF evaluated /\ t.form = "call" THEN Value(t.type) ELSE {ret}
              /\ exit' = IF tokens = <<>> /\ class = DOLLAR THEN "syntax"
                         ELSE IF evaluated /\ t.form = "undeclared" THEN "undefined"
                         ELSE "none"
  BY DEF next_token
<1> DEFINE class == IF EndsBefore(stack, t) THEN DOLLAR ELSE map_token(t)
<1>2. t \in Token /\ t.type \in Type
  BY TokensRead_OK DEF TokenOK, Token
<1>3. /\ tokens' = Append(tokens, t)
      /\ a' = Elem(class, t, <<Len(tokens) + 1>>)
      /\ bracket_count' = bracket_count + BracketChange(map_token(t))
      /\ ret' \in IF ~collect_funcs /\ class = IDENTIFIER /\ t.form = "call"
                  THEN Value(t.type) ELSE {ret}
      /\ exit' = IF tokens = <<>> /\ class = DOLLAR THEN "syntax"
                 ELSE IF ~collect_funcs /\ class = IDENTIFIER /\ t.form = "undeclared"
                 THEN "undefined"
                 ELSE "none"
  BY <1>1
<1> HIDE DEF class
<1>4. a'.class = class /\ a'.token = t /\ a'.type = t.type
  BY <1>3 DEF Elem
<1>5. tokens' \in Seq(Token) /\ Len(tokens') = Len(tokens) + 1 /\ Len(tokens) \in Nat
  BY <1>2, <1>3
<1>6. bracket_count' \in -Len(tokens') .. Len(tokens')
  <2>1. BracketChange(map_token(t)) \in {-1, 0, 1}
    BY DEF BracketChange
  <2> DEFINE m == Len(tokens)
             k == BracketChange(map_token(t))
  <2> HIDE DEF m, k
  <2>2. bracket_count + k \in -(m + 1) .. m + 1
    BY <1>5, <2>1, CountBrackets DEF m, k
  <2>3. bracket_count' = bracket_count + k /\ Len(tokens') = m + 1
    BY <1>3, <1>5 DEF m, k
  <2> QED
    BY ONLY <2>2, <2>3
<1>7. ret' \in RunTime
  BY <1>2, <1>3, ValuesRun
<1> QED
  BY <1>3, <1>4, <1>5, <1>6, <1>7 DEF Waits

\* After a token is read on a stack whose last element is no non-terminal.
LEMMA ReadStep ==
    ASSUME NEW V, CInv(V), NEW stack, next_token(stack), SInv',
           UNCHANGED <<collect_funcs, ignore_right_bracket, values, nil_unwrapped, use>>,
           exit = "none", tokens = <<>> \/ Len(pushdown_stack') # 1,
           \/ pushdown_stack'[Len(pushdown_stack')] = a
           \/ pushdown_stack'[Len(pushdown_stack')].class # IDENTIFIER,
           DataOK(V)'
    PROVE  CInv(V)'
<1>1. /\ tokens' \in Seq(Token) /\ bracket_count' \in -Len(tokens') .. Len(tokens')
      /\ ret' \in RunTime /\ exit' \in {"none", "syntax", "undefined"}
      /\ tokens = <<>> /\ exit' = "none" => a'.class # DOLLAR
      /\ ~collect_funcs /\ Waits(a') => ret' \in Value(a'.type)
      /\ a'.class # IDENTIFIER => ret' = ret
  BY TokenRead DEF CInv, VariablesOK
<1>2. VariablesOK'
  BY <1>1 DEF CInv, VariablesOK
<1>3. a' # NoElem
  BY ElementRead
<1>4. EndOK'
  BY <1>1, <1>3 DEF CInv, EndOK
<1>5. CallOK'
  BY <1>1 DEF CInv, CallOK, Waits
<1> QED
  BY <1>2, <1>4, <1>5 DEF CInv

\* After a reduction.
LEMMA ReduceStep ==
    ASSUME NEW V, CInv(V), Acts(2), NEW h, NEW e, Reduced(h, e), SInv',
           UNCHANGED <<collect_funcs, ignore_right_bracket, tokens, a, bracket_count, exit, use>>,
           nil_unwrapped' \in BOOLEAN, ret' \in RunTime, values' \in Seq(RunTime),
           DataOK(V)'
    PROVE  CInv(V)'
<1>1. a # NoElem /\ exit = "none" /\ a.class # IDENTIFIER
  BY HandleExists DEF Acts, Parsing, CInv
<1>2. /\ Len(pushdown_stack') = h /\ h >= 2 /\ h \in Nat
      /\ pushdown_stack'[h].class = NON_TERM
  BY DEF Reduced, IsHandleStart
<1>3. VariablesOK'
  BY DEF CInv, VariablesOK
<1>4. EndOK'
  BY <1>1, <1>2 DEF CInv, EndOK
<1>5. CallOK'
  BY <1>1, <1>2 DEF CallOK, Waits
<1> QED
  BY <1>3, <1>4, <1>5 DEF CInv

\* The expression is refused, or accepted with one non-terminal.
LEMMA EndStep ==
    ASSUME NEW V, CInv(V), Parsing, SInv',
           exit' \in {"accepted", "syntax", "type", "undefined"},
           exit' = "accepted" => Len(pushdown_stack) = 2 /\ pushdown_stack[2].class = NON_TERM,
           UNCHANGED <<collect_funcs, ignore_right_bracket, tokens, a, bracket_count,
                       pushdown_stack, values, ret, nil_unwrapped, use>>
    PROVE  CInv(V)'
<1>1. VariablesOK'
  BY DEF CInv, VariablesOK
<1>2. EndOK'
  BY DEF CInv, EndOK, Parsing
<1>3. CallOK'
  BY DEF CInv, CallOK, Waits
<1>4. DataOK(V)'
  BY DEF CInv, DataOK, Allowed
<1> QED
  BY <1>1, <1>2, <1>3, <1>4 DEF CInv

\* What DataOK says of the second pass.
LEMMA DataNow ==
    ASSUME NEW V, CInv(V), ~collect_funcs, use = Unused
    PROVE  /\ \E c : Matches(pushdown_stack, c, values, Allowed(V))
           /\ Len(pushdown_stack) \in Nat /\ StackShape(pushdown_stack)
BY DEF CInv, DataOK, SInv, StackShape

\* The use of a value begins when the parser has stopped.
LEMMA NotYetUsed ==
    ASSUME NEW V, CInv(V), exit = "none"
    PROVE  use = Unused
BY DEF CInv, EndOK

\* The initial state satisfies the invariant.
LEMMA InitC == ASSUME NEW V PROVE UInit => CInv(V)
<1> SUFFICES ASSUME UInit PROVE CInv(V)
  OBVIOUS
<1>1. /\ collect_funcs \in BOOLEAN
      /\ \E v \in Vocabulary : ignore_right_bracket \in v.in_arguments
      /\ tokens = <<>> /\ a = NoElem /\ bracket_count = 0 /\ pushdown_stack = <<Dollar>>
      /\ values = <<>> /\ ret = "none" /\ nil_unwrapped = FALSE /\ exit = "none"
      /\ use = Unused
  BY DEF UInit, Init
<1>2. ignore_right_bracket \in BOOLEAN
  BY <1>1, ExprAssumption DEF ExprAssumption
<1>3. SInv
  BY InitShape
<1>4. VariablesOK
  <2>1. Len(<<>>) = 0 /\ <<>> \in Seq(Token) /\ <<>> \in Seq(RunTime) /\ 0 \in -0..0
    OBVIOUS
  <2> QED
    BY <1>1, <1>2, <2>1 DEF VariablesOK, RunTime
<1>5. EndOK
  BY <1>1 DEF EndOK
<1>6. pushdown_stack[Len(pushdown_stack)].class = DOLLAR /\ a.class = 0
  BY <1>1 DEF Dollar, NoElem, Elem
<1>7. CallOK
  BY <1>6 DEF CallOK, Waits
<1>8. DataOK(V)
  <2> DEFINE c == [i \in 0..1 |-> 0]
  <2>1. /\ Len(pushdown_stack) = 1 /\ pushdown_stack[1].class = DOLLAR
        /\ values \in Seq(RunTime) /\ Len(values) = 0
    BY <1>1, <1>4, <1>6 DEF VariablesOK
  <2>2. /\ c \in [0..1 -> Nat] /\ c[0] = 0 /\ c[1] = 0
        /\ \A i \in 1..1 : i = 1 /\ i - 1 = 0
        /\ \A i \in 0..1 : c[i] = 0
    OBVIOUS
  <2> HIDE DEF c
  <2>3. Counts(pushdown_stack, c)
    BY <2>1, <2>2 DEF Counts
  <2>4. Matches(pushdown_stack, c, values, Allowed(V))
    BY <2>1, <2>2, <2>3 DEF Matches
  <2> QED
    BY <2>4 DEF DataOK
<1> QED
  BY <1>3, <1>4, <1>5, <1>7, <1>8 DEF CInv
-----------------------------------------------------------------------------
(* Each step of the parser *)

\* Reading the first token keeps the invariant.
LEMMA FirstC ==
    ASSUME NEW V, CInv(V), First, UNCHANGED use, SInv'
    PROVE  CInv(V)'
<1>1. tokens = <<>> /\ exit = "none" /\ Len(pushdown_stack) = 1
  BY DEF First, CInv, EndOK, SInv, LookaheadOK
<1>2. /\ next_token(pushdown_stack)
      /\ UNCHANGED <<collect_funcs, ignore_right_bracket, pushdown_stack, values, nil_unwrapped>>
  BY DEF First, Kept
<1>3. DataOK(V)'
  BY <1>2 DEF CInv, DataOK, Allowed
<1>4. pushdown_stack'[Len(pushdown_stack')].class = DOLLAR
  BY <1>1, <1>2 DEF CInv, SInv, StackShape
<1> QED
  BY <1>1, <1>2, <1>3, <1>4, ReadStep

\* ShiftLess keeps the invariant.
LEMMA ShiftLessC ==
    ASSUME NEW V, CInv(V), ShiftLess, UNCHANGED use, SInv'
    PROVE  CInv(V)'
<1>1. /\ next_token(pushdown_stack') /\ exit = "none"
      /\ UNCHANGED <<collect_funcs, ignore_right_bracket, values, nil_unwrapped>>
  BY DEF ShiftLess, Kept, Acts, Parsing
<1>2. /\ InsertedAndPushed(pushdown_stack', pushdown_stack, TopTerminal(pushdown_stack), Less, a)
      /\ TopTerminal(pushdown_stack) \in 1..Len(pushdown_stack)
      /\ Len(pushdown_stack') = Len(pushdown_stack) + 2
      /\ pushdown_stack'[Len(pushdown_stack')] = a
      /\ a.class \in UNWRAP .. IDENTIFIER
  BY ShiftLessShape DEF CInv
<1>3. Len(pushdown_stack) \in Nat /\ use = Unused
  BY <1>1, NotYetUsed DEF CInv, SInv, StackShape
<1>4. Less.class # NON_TERM /\ a.class # NON_TERM
  BY <1>2 DEF Less, Elem
<1>5. DataOK(V)'
  <2> SUFFICES ASSUME ~collect_funcs
               PROVE  \E d : Matches(pushdown_stack', d, values, Allowed(V))
    BY <1>1 DEF DataOK, Allowed
  <2>1. PICK c : Matches(pushdown_stack, c, values, Allowed(V))
    BY <1>3, DataNow
  <2> QED
    BY <1>2, <1>3, <1>4, <2>1, InsertMatches
<1>6. Len(pushdown_stack') # 1
  BY <1>2, <1>3
<1> QED
  BY <1>1, <1>2, <1>5, <1>6, ReadStep

\* Shift keeps the invariant.
LEMMA ShiftC ==
    ASSUME NEW V, CInv(V), Shift, UNCHANGED use, SInv'
    PROVE  CInv(V)'
<1>1. /\ next_token(pushdown_stack') /\ exit = "none"
      /\ UNCHANGED <<collect_funcs, ignore_right_bracket, values, nil_unwrapped>>
  BY DEF Shift, Kept, Acts, Parsing
<1>2. /\ pushdown_stack' = Append(pushdown_stack, a)
      /\ Len(pushdown_stack') = Len(pushdown_stack) + 1
      /\ pushdown_stack'[Len(pushdown_stack')] = a
      /\ a.class = RIGHT_BRACKET
  BY ShiftShape DEF CInv
<1>3. /\ Len(pushdown_stack) \in Nat /\ Len(pushdown_stack) >= 1 /\ use = Unused
      /\ pushdown_stack \in Seq(ToSet(pushdown_stack))
  BY <1>1, NotYetUsed DEF CInv, SInv, StackShape
<1>4. DataOK(V)'
  <2> SUFFICES ASSUME ~collect_funcs
               PROVE  \E d : Matches(pushdown_stack', d, values, Allowed(V))
    BY <1>1 DEF DataOK, Allowed
  <2>1. PICK c : Matches(pushdown_stack, c, values, Allowed(V))
    BY <1>3, DataNow
  <2> QED
    BY <1>2, <1>3, <2>1, PushMatches
<1>5. Len(pushdown_stack') # 1
  BY <1>2, <1>3
<1> QED
  BY <1>1, <1>2, <1>4, <1>5, ReadStep

\* The reductions of the first pass keep the invariant: there is no data stack.
LEMMA FirstPassC ==
    ASSUME NEW V, CInv(V), ReduceFirstPass, UNCHANGED use, SInv'
    PROVE  CInv(V)'
<1>1. /\ Acts(2) /\ collect_funcs
      /\ UNCHANGED <<collect_funcs, ignore_right_bracket, tokens, a, bracket_count>>
  BY DEF ReduceFirstPass, Kept, Read
<1>2. PICK h : Reduced(h, NonTerm(void_type, FALSE, <<>>))
  BY FirstPassReduced DEF CInv
<1>3. UNCHANGED <<values, ret, nil_unwrapped, exit>>
  BY FirstPassReduced DEF CInv
<1>4. nil_unwrapped' \in BOOLEAN /\ ret' \in RunTime /\ values' \in Seq(RunTime)
  BY <1>3 DEF CInv, VariablesOK
<1>5. DataOK(V)'
  BY <1>1 DEF DataOK
<1> QED
  BY <1>1, <1>2, <1>3, <1>4, <1>5, ReduceStep

\* What the reductions of the second pass have in common.
LEMMA SecondPass ==
    ASSUME NEW V, CInv(V), NEW classes, Reduces(classes)
    PROVE  /\ Acts(2) /\ Parsing /\ ~collect_funcs /\ use = Unused
           /\ UNCHANGED <<collect_funcs, ignore_right_bracket, tokens, a, bracket_count>>
           /\ Len(pushdown_stack) \in Nat /\ StackShape(pushdown_stack)
           /\ values \in Seq(RunTime) /\ ret \in RunTime /\ nil_unwrapped \in BOOLEAN
           /\ \E c : Matches(pushdown_stack, c, values, Allowed(V))
BY NotYetUsed, DataNow DEF Reduces, Acts, Parsing, Kept, Read, CInv, VariablesOK

\* Which values are allowed, before and after E! met nil.
LEMMA AllowedIs ==
    ASSUME NEW V \in {Tight, Loose}
    PROVE  /\ Allowed(V) \in {Tight, Loose}
           /\ \A type \in Valued : /\ Value(type) \subseteq Allowed(V)[type]
                                   /\ Value(type) \subseteq RunTime
           /\ Allowed(V) = Tight => ~nil_unwrapped \/ Tight = Loose
<1>1. Valued \subseteq Type
  OBVIOUS
<1> QED
  BY <1>1, ValuesRun DEF Allowed

\* ReduceOperand keeps the invariant.
LEMMA OperandC ==
    ASSUME NEW V \in {Tight, Loose}, CInv(V), ReduceOperand, UNCHANGED use, SInv'
    PROVE  CInv(V)'
<1>1. /\ Acts(2) /\ Parsing /\ ~collect_funcs /\ use = Unused
      /\ UNCHANGED <<collect_funcs, ignore_right_bracket, tokens, a, bracket_count>>
      /\ Len(pushdown_stack) \in Nat /\ StackShape(pushdown_stack)
      /\ values \in Seq(RunTime) /\ ret \in RunTime /\ nil_unwrapped \in BOOLEAN
      /\ \E c : Matches(pushdown_stack, c, values, Allowed(V))
  BY SecondPass DEF ReduceOperand
<1>2. CASE exit' \in {"type", "undefined"} /\ UNCHANGED <<pushdown_stack, values, ret, nil_unwrapped>>
  BY <1>1, <1>2, EndStep
<1>3. ASSUME NEW h, LET e == pushdown_stack[h + 1]
                    IN  /\ Len(pushdown_stack) = h + 1 /\ e.class = IDENTIFIER
                        /\ ~(e.token.form = "call" /\ e.type = void_type)
                        /\ Reduced(h, NonTerm(e.type, e.token.form = "literal", e.tree))
                        /\ \E v \in IF e.token.form = "call" THEN {ret} ELSE Value(e.type) :
                              values' = Append(values, v)
                        /\ UNCHANGED <<ret, nil_unwrapped, exit>>
      PROVE  CInv(V)'
  <2> DEFINE e == pushdown_stack[h + 1]
             r == NonTerm(e.type, e.token.form = "literal", e.tree)
  <2>1. /\ Len(pushdown_stack) = h + 1 /\ e.class = IDENTIFIER
        /\ ~(e.token.form = "call" /\ e.type = void_type)
        /\ Reduced(h, r) /\ h \in Nat /\ IsHandleStart(pushdown_stack, h)
        /\ CutAndPushed(pushdown_stack', pushdown_stack, h - 1, r)
        /\ UNCHANGED <<ret, nil_unwrapped, exit>>
    BY <1>3 DEF Reduced
  <2>2. PICK v \in IF e.token.form = "call" THEN {ret} ELSE Value(e.type) :
            values' = Append(values, v)
    BY <1>3
  <2>3. e.type \in Valued
    <3>1. h + 1 \in 1..Len(pushdown_stack)
      BY <2>1
    <3>2. ElementOK(e)
      BY <1>1, <3>1 DEF StackShape
    <3> QED
      BY <2>1, <3>2 DEF ElementOK
  <2>4. v \in Value(e.type)
    <3>1. CASE e.token.form = "call"
      <4>1. Waits(pushdown_stack[Len(pushdown_stack)]) /\ a.class # IDENTIFIER
        BY <1>1, <2>1, <3>1, HandleExists DEF Waits, CInv
      <4>2. ret \in Value(e.type)
        BY <1>1, <2>1, <4>1 DEF CInv, CallOK
      <4> QED
        BY <2>2, <3>1, <4>2
    <3>2. CASE e.token.form # "call"
      BY <2>2, <3>2
    <3> QED
      BY <3>1, <3>2
  <2>5. r.class = NON_TERM /\ r.type = e.type
    BY DEF NonTerm
  <2>6. v \in RunTime /\ v \in Allowed(V)[r.type] /\ r.type \in Valued
    BY <2>3, <2>4, <2>5, AllowedIs
  <2>7. PICK c : Matches(pushdown_stack, c, values, Allowed(V))
    BY <1>1
  <2> HIDE DEF r
  <2>8. \E d : Matches(pushdown_stack', d, values', Allowed(V))
    BY <1>1, <2>1, <2>2, <2>5, <2>6, <2>7, OperandMatches
  <2>9. DataOK(V)'
    BY <2>1, <2>8 DEF DataOK, Allowed
  <2>10. values' \in Seq(RunTime) /\ ret' \in RunTime /\ nil_unwrapped' \in BOOLEAN
    BY <1>1, <2>1, <2>2, <2>6
  <2>11. UNCHANGED exit
    BY <2>1
  <2> QED
    BY <1>1, <2>1, <2>9, <2>10, <2>11, ReduceStep
<1> QED
  BY <1>2, <1>3, OperandReduced DEF CInv

\* ReduceNot keeps the invariant.
LEMMA NotC ==
    ASSUME NEW V \in {Tight, Loose}, CInv(V), ReduceNot, UNCHANGED use, SInv'
    PROVE  CInv(V)'
<1>1. /\ Acts(2) /\ Parsing /\ ~collect_funcs /\ use = Unused
      /\ UNCHANGED <<collect_funcs, ignore_right_bracket, tokens, a, bracket_count>>
      /\ Len(pushdown_stack) \in Nat /\ StackShape(pushdown_stack)
      /\ values \in Seq(RunTime) /\ ret \in RunTime /\ nil_unwrapped \in BOOLEAN
      /\ \E c : Matches(pushdown_stack, c, values, Allowed(V))
  BY SecondPass DEF ReduceNot
<1>2. CASE exit' = "type" /\ UNCHANGED <<pushdown_stack, values, ret, nil_unwrapped>>
  BY <1>1, <1>2, EndStep
<1>3. ASSUME NEW h, LET e == pushdown_stack[h + 2]
                    IN  /\ Len(pushdown_stack) = h + 2
                        /\ pushdown_stack[h + 1].class = NOT /\ e.class = NON_TERM
                        /\ e.type = bool_type
                        /\ Reduced(h, NonTerm(bool_type, FALSE, Handle[1].tree \o <<e.tree>>))
                        /\ values' = Append(Front(values), IF Top = "bool" THEN "bool" ELSE "error")
                        /\ UNCHANGED <<ret, nil_unwrapped, exit>>
      PROVE  CInv(V)'
  <2> DEFINE s == pushdown_stack
             e == s[h + 2]
             r == NonTerm(bool_type, FALSE, Handle[1].tree \o <<e.tree>>)
             v == IF Top = "bool" THEN "bool" ELSE "error"
  <2>1. /\ Len(s) = h + 2 /\ s[h + 1].class = NOT /\ e.class = NON_TERM /\ e.type = bool_type
        /\ Reduced(h, r) /\ h \in Nat /\ IsHandleStart(s, h)
        /\ CutAndPushed(pushdown_stack', s, h - 1, r)
        /\ values' = Append(Front(values), v)
        /\ UNCHANGED <<ret, nil_unwrapped, exit>>
    BY <1>3 DEF Reduced
  <2>2. PICK c : Matches(s, c, values, Allowed(V))
    BY <1>1
  <2>3. r.class = NON_TERM /\ r.type = bool_type
    BY DEF NonTerm
  <2> HIDE DEF r
  <2>4. OneValue(s, c, values, Allowed(V), h, h + 2)
    <3> DEFINE p == h + 2
    <3>1. p \in h + 1..Len(s) /\ \A j \in h + 1..Len(s) : j # p => j = h + 1
      BY <2>1
    <3>2. s[p].class = NON_TERM /\ \A j \in h + 1..Len(s) : j # p => s[j].class # NON_TERM
      BY <2>1, <3>1
    <3> HIDE DEF p
    <3>3. OneValue(s, c, values, Allowed(V), h, p)
      BY <1>1, <2>1, <2>2, <3>1, <3>2, ValueOnTop
    <3> QED
      BY <3>3 DEF p
  <2>5. Top \in Allowed(V)[3]
    BY <2>1, <2>4 DEF OneValue, Top
  <2>6. v \in RunTime /\ v \in Allowed(V)[3]
    <3>1. CASE Allowed(V) = Loose
      BY <3>1, ValuesRun DEF RunTime
    <3>2. CASE Allowed(V) = Tight
      BY <2>5, <3>2, ValuesRun, ValueIs DEF RunTime
    <3> QED
      BY <3>1, <3>2, AllowedIs
  <2> HIDE DEF v
  <2>7. \E d : Matches(pushdown_stack', d, values', Allowed(V))
    BY <1>1, <2>1, <2>2, <2>3, <2>4, <2>6, OneMatches
  <2>8. DataOK(V)'
    BY <2>1, <2>7 DEF DataOK, Allowed
  <2>9. values' \in Seq(RunTime) /\ ret' \in RunTime /\ nil_unwrapped' \in BOOLEAN
    <3>1. values' \in Seq(RunTime)
      BY <2>7 DEF Matches
    <3> QED
      BY <1>1, <2>1, <3>1
  <2> QED
    BY <1>1, <2>1, <2>8, <2>9, ReduceStep
<1> QED
  BY <1>2, <1>3, NotReduced DEF CInv

\* E! keeps the value: unless it is nil it is one of the type without it.
LEMMA UnwrapC ==
    ASSUME NEW V \in {Tight, Loose}, CInv(V), ReduceUnwrap, UNCHANGED use, SInv'
    PROVE  CInv(V)'
<1>1. /\ Acts(2) /\ Parsing /\ ~collect_funcs /\ use = Unused
      /\ UNCHANGED <<collect_funcs, ignore_right_bracket, tokens, a, bracket_count>>
      /\ Len(pushdown_stack) \in Nat /\ StackShape(pushdown_stack)
      /\ values \in Seq(RunTime) /\ ret \in RunTime /\ nil_unwrapped \in BOOLEAN
      /\ \E c : Matches(pushdown_stack, c, values, Allowed(V))
  BY SecondPass DEF ReduceUnwrap
<1>2. CASE exit' = "type" /\ UNCHANGED <<pushdown_stack, values, ret, nil_unwrapped>>
  BY <1>1, <1>2, EndStep
<1>3. ASSUME NEW h, LET e == pushdown_stack[h + 1]
                    IN  /\ Len(pushdown_stack) = h + 2
                        /\ e.class = NON_TERM /\ pushdown_stack[h + 2].class = UNWRAP
                        /\ CanUnwrap(e.type)
                        /\ Reduced(h, NonTerm(e.type - 4, FALSE, Handle[2].tree \o <<e.tree>>))
                        /\ nil_unwrapped' = (nil_unwrapped \/ Top = "nil")
                        /\ UNCHANGED <<values, ret, exit>>
      PROVE  CInv(V)'
  <2> DEFINE s == pushdown_stack
             e == s[h + 1]
             r == NonTerm(e.type - 4, FALSE, Handle[2].tree \o <<e.tree>>)
             W == IF nil_unwrapped' THEN Loose ELSE V
  <2>1. /\ Len(s) = h + 2 /\ e.class = NON_TERM /\ s[h + 2].class = UNWRAP /\ CanUnwrap(e.type)
        /\ Reduced(h, r) /\ h \in Nat /\ IsHandleStart(s, h)
        /\ CutAndPushed(pushdown_stack', s, h - 1, r)
        /\ UNCHANGED <<values, ret, exit>>
    BY <1>3 DEF Reduced
  <2>2. nil_unwrapped' \in BOOLEAN /\ (~nil_unwrapped' => ~nil_unwrapped /\ Top # "nil")
    BY <1>1, <1>3
  <2>3. r.class = NON_TERM /\ r.type = e.type - 4
    BY DEF NonTerm
  <2> HIDE DEF r
  <2>4. W \in {Tight, Loose} /\ \E c : Matches(s, c, values, W)
    BY <1>1, <2>2, MatchLoosens DEF Allowed
  <2>5. PICK c : Matches(s, c, values, W)
    BY <2>4
  <2> HIDE DEF W
  <2>6. OneValue(s, c, values, W, h, h + 1)
    <3> DEFINE p == h + 1
    <3>1. p \in h + 1..Len(s) /\ \A j \in h + 1..Len(s) : j # p => j = h + 2
      BY <2>1
    <3>2. s[p].class = NON_TERM /\ \A j \in h + 1..Len(s) : j # p => s[j].class # NON_TERM
      BY <2>1, <3>1
    <3> HIDE DEF p
    <3>3. OneValue(s, c, values, W, h, p)
      BY <1>1, <2>1, <2>5, <3>1, <3>2, ValueOnTop
    <3> QED
      BY <3>3 DEF p
  <2>7. e.type \in 4..7 /\ r.type \in Valued /\ Top \in RunTime /\ Top \in W[e.type]
    <3>1. e.type \in 4..7 /\ r.type \in Valued
      <4>1. e.type \in Valued
        BY ONLY <2>6 DEF OneValue
      <4> QED
        BY ONLY <2>1, <2>3, <4>1 DEF CanUnwrap
    <3>2. Top \in RunTime /\ Top \in W[e.type]
      BY ONLY <2>1, <2>6 DEF OneValue, Top
    <3> QED
      BY <3>1, <3>2
  <2>8. Top \in W[r.type]
    <3>1. CASE W = Loose
      BY <2>7, <3>1, ValuesRun
    <3>2. CASE W = Tight /\ W # Loose
      <4>1. Top # "nil" /\ Top \in Value(e.type)
        BY <2>2, <2>7, <3>2, ValuesRun DEF W
      <4>2. e.type = 4 \/ e.type = 5 \/ e.type = 6 \/ e.type = 7
        BY <2>7
      <4>3. Top \in Value(e.type - 4)
        BY <4>1, <4>2, ValueIs
      <4> QED
        BY <2>3, <2>7, <3>2, <4>3, ValuesRun
    <3> QED
      BY <2>4, <3>1, <3>2
  <2>9. \E d : Matches(pushdown_stack', d, values', W)
    <3>1. \E d : Matches(pushdown_stack', d, values, W)
      BY <1>1, <2>1, <2>3, <2>5, <2>6, <2>7, <2>8, OneMatches DEF Top
    <3> QED
      BY <2>1, <3>1
  <2>10. DataOK(V)'
    BY <2>9 DEF DataOK, Allowed, W
  <2> QED
    BY <1>1, <2>1, <2>2, <2>10, ReduceStep
<1> QED
  BY <1>2, <1>3, UnwrapReduced DEF CInv

\* Brackets leave the element in them as it is.
LEMMA BracketsC ==
    ASSUME NEW V \in {Tight, Loose}, CInv(V), ReduceBrackets, UNCHANGED use, SInv'
    PROVE  CInv(V)'
<1>1. /\ Acts(2) /\ Parsing /\ ~collect_funcs /\ use = Unused
      /\ UNCHANGED <<collect_funcs, ignore_right_bracket, tokens, a, bracket_count>>
      /\ Len(pushdown_stack) \in Nat /\ StackShape(pushdown_stack)
      /\ values \in Seq(RunTime) /\ ret \in RunTime /\ nil_unwrapped \in BOOLEAN
      /\ \E c : Matches(pushdown_stack, c, values, Allowed(V))
  BY SecondPass DEF ReduceBrackets
<1>2. PICK h : LET e == pushdown_stack[h + 2]
               IN  /\ Len(pushdown_stack) = h + 3
                   /\ pushdown_stack[h + 1].class = LEFT_BRACKET
                   /\ e.class = NON_TERM /\ pushdown_stack[h + 3].class = RIGHT_BRACKET
                   /\ Reduced(h, e)
  BY BracketsReduced DEF CInv
<1> DEFINE s == pushdown_stack
           e == s[h + 2]
<1>3. /\ Len(s) = h + 3 /\ s[h + 1].class = LEFT_BRACKET /\ e.class = NON_TERM
      /\ s[h + 3].class = RIGHT_BRACKET
      /\ Reduced(h, e) /\ h \in Nat /\ IsHandleStart(s, h)
      /\ CutAndPushed(pushdown_stack', s, h - 1, e)
  BY <1>2 DEF Reduced
<1>4. UNCHANGED <<values, ret, nil_unwrapped, exit>>
  BY BracketsReduced DEF CInv
<1>5. PICK c : Matches(s, c, values, Allowed(V))
  BY <1>1
<1>6. OneValue(s, c, values, Allowed(V), h, h + 2)
  <2> DEFINE p == h + 2
  <2>1. p \in h + 1..Len(s) /\ \A j \in h + 1..Len(s) : j # p => j = h + 1 \/ j = h + 3
    BY <1>3
  <2>2. s[p].class = NON_TERM /\ \A j \in h + 1..Len(s) : j # p => s[j].class # NON_TERM
    BY <1>3, <2>1
  <2> HIDE DEF p
  <2>3. OneValue(s, c, values, Allowed(V), h, p)
    BY <1>1, <1>3, <1>5, <2>1, <2>2, ValueOnTop
  <2> QED
    BY <2>3 DEF p
<1>7. e.type \in Valued /\ values[Len(values)] \in Allowed(V)[e.type]
  BY <1>6 DEF OneValue
<1>8. \E d : Matches(pushdown_stack', d, values, Allowed(V))
  <2> HIDE DEF e
  <2> QED
    BY <1>1, <1>3, <1>5, <1>6, <1>7, OneMatches
<1>9. DataOK(V)'
  BY <1>4, <1>8 DEF DataOK, Allowed
<1>10. values' \in Seq(RunTime) /\ ret' \in RunTime /\ nil_unwrapped' \in BOOLEAN
  BY <1>1, <1>4
<1> QED
  BY <1>1, <1>3, <1>4, <1>9, <1>10, ReduceStep

\* A binary operator has its result where its operands were.
LEMMA BinaryC ==
    ASSUME NEW V \in {Tight, Loose}, CInv(V), ReduceBinary, UNCHANGED use, SInv',
           V = Tight => ~CoalescesDouble
    PROVE  CInv(V)'
<1>1. /\ Acts(2) /\ Parsing /\ ~collect_funcs /\ use = Unused
      /\ UNCHANGED <<collect_funcs, ignore_right_bracket, tokens, a, bracket_count>>
      /\ Len(pushdown_stack) \in Nat /\ StackShape(pushdown_stack)
      /\ values \in Seq(RunTime) /\ ret \in RunTime /\ nil_unwrapped \in BOOLEAN
      /\ \E c : Matches(pushdown_stack, c, values, Allowed(V))
  BY SecondPass DEF ReduceBinary
<1>2. CASE exit' = "type" /\ UNCHANGED <<pushdown_stack, values, ret, nil_unwrapped>>
  BY <1>1, <1>2, EndStep
<1>3. ASSUME NEW h,
             LET y == pushdown_stack[h + 1]
                 x == pushdown_stack[h + 3]
                 op == Handle[2].token.kind
                 check == Check(op, x, y)
                 v == Converted(check.convert, "left", Second)
                 w == Converted(check.convert, "right", Top)
                 result == IF op = "??" THEN NilCoalesced(y.type, v, w)
                           ELSE Computed(op, check.type, v, w)
             IN  /\ Len(pushdown_stack) = h + 3
                 /\ Handle[1] = y /\ Handle[3] = x
                 /\ y.class = NON_TERM /\ x.class = NON_TERM
                 /\ pushdown_stack[h + 2].class \in MUL_DIV .. OR
                 /\ op \in Operator \ {"unwrap", "!"}
                 /\ check.type # Refused
                 /\ Reduced(h, NonTerm(check.type, check.literal,
                                       Handle[2].tree \o <<y.tree, x.tree>>))
                 /\ values' = Append(Front(Front(values)), result)
                 /\ ret' = IF \/ op = "??" /\ y.type > 3
                              \/ op = "+" /\ check.type = string_type
                           THEN result ELSE ret
                 /\ UNCHANGED <<nil_unwrapped, exit>>
      PROVE  CInv(V)'
  <2> DEFINE s == pushdown_stack
             y == s[h + 1]
             x == s[h + 3]
             op == Handle[2].token.kind
             check == Check(op, x, y)
             r == NonTerm(check.type, check.literal, Handle[2].tree \o <<y.tree, x.tree>>)
             result == BinaryResult(op, check, y, LeftOf(check, Second), RightOf(check, Top))
  <2>1. /\ Len(s) = h + 3 /\ Handle[1] = y /\ Handle[3] = x
        /\ y.class = NON_TERM /\ x.class = NON_TERM /\ s[h + 2].class \in MUL_DIV .. OR
        /\ op \in Operator \ {"unwrap", "!"} /\ check.type # Refused
        /\ Reduced(h, r) /\ h \in Nat /\ IsHandleStart(s, h)
        /\ CutAndPushed(pushdown_stack', s, h - 1, r)
        /\ UNCHANGED <<nil_unwrapped, exit>>
    BY <1>3 DEF Reduced
  <2>2. values' = Append(Front(Front(values)), result) /\ ret' \in {ret, result}
    BY <1>3 DEF BinaryResult, LeftOf, RightOf
  <2>3. r.class = NON_TERM /\ r.type = check.type
    BY DEF NonTerm
  <2> HIDE DEF r
  <2>4. PICK c : Matches(s, c, values, Allowed(V))
    BY <1>1
  <2>5. TwoValues(s, c, values, Allowed(V), h)
    <3>1. s[h + 2].class # NON_TERM
      BY <2>1
    <3> QED
      BY <1>1, <2>1, <2>4, <3>1, ValuesOnTop
  <2>6. /\ y.type \in Valued /\ x.type \in Valued
        /\ Second \in RunTime /\ Second \in Allowed(V)[y.type]
        /\ Top \in RunTime /\ Top \in Allowed(V)[x.type]
    BY <2>5 DEF TwoValues, Top, Second
  <2>7a. Tight # Loose
    BY ValuesRun, ValueIs DEF RunTime
  <2>7. Allowed(V) = Tight => ~(op = "??" /\ y.type = nil_double_type /\ LiteralInt(x))
    <3>1. V = Loose => Allowed(V) = Loose
      BY DEF Allowed
    <3>2. CASE V = Tight
      BY <2>1, <3>2 DEF CoalescesDouble
    <3>3. CASE V = Loose
      BY <3>1, <3>3, <2>7a
    <3> QED
      BY <3>2, <3>3
  <2> HIDE DEF op, x, y
  <2>8. check.type \in Valued /\ result \in RunTime /\ result \in Allowed(V)[check.type]
    <3> DEFINE k == check
               W == Allowed(V)
               v == Second
               w == Top
    <3>1. k = Check(op, x, y) /\ k.type # Refused /\ op \in Operator \ {"unwrap", "!"}
      BY <2>1
    <3>2. W \in {Tight, Loose}
      BY AllowedIs
    <3>3. /\ y.type \in Valued /\ x.type \in Valued
          /\ v \in RunTime /\ v \in W[y.type] /\ w \in RunTime /\ w \in W[x.type]
      BY <2>6
    <3>4. W = Tight => ~(op = "??" /\ y.type = nil_double_type /\ LiteralInt(x))
      BY <2>7
    <3> HIDE DEF k, W, v, w
    <3>5. /\ k.type \in Valued
          /\ BinaryResult(op, k, y, LeftOf(k, v), RightOf(k, w)) \in RunTime
          /\ BinaryResult(op, k, y, LeftOf(k, v), RightOf(k, w)) \in W[k.type]
      BY ONLY <3>1, <3>2, <3>3, <3>4, ResultAllowed
    <3> QED
      BY <3>5 DEF k, W, v, w
  <2> HIDE DEF check, result
  <2>9. \E d : Matches(pushdown_stack', d, values', Allowed(V))
    BY <1>1, <2>1, <2>2, <2>3, <2>4, <2>5, <2>8, TwoMatch
  <2>10. DataOK(V)'
    BY <2>1, <2>9 DEF DataOK, Allowed
  <2>11. values' \in Seq(RunTime) /\ ret' \in RunTime /\ nil_unwrapped' \in BOOLEAN
    <3>1. values' \in Seq(RunTime)
      BY <2>9 DEF Matches
    <3> QED
      BY <1>1, <2>1, <2>2, <2>8, <3>1
  <2> QED
    BY <1>1, <2>1, <2>10, <2>11, ReduceStep
<1> QED
  BY <1>2, <1>3, BinaryReduced DEF CInv

\* Refuse keeps the invariant.
LEMMA RefuseC ==
    ASSUME NEW V, CInv(V), Refuse, UNCHANGED use, SInv'
    PROVE  CInv(V)'
<1>1. /\ Parsing /\ exit' = "syntax"
      /\ UNCHANGED <<collect_funcs, ignore_right_bracket, tokens, a, bracket_count,
                     pushdown_stack, values, ret, nil_unwrapped, use>>
  BY DEF Refuse, Acts, Fail, Kept, Read
<1> QED
  BY <1>1, EndStep

\* So does a reduction without a handle.
LEMMA ReduceNothingC ==
    ASSUME NEW V, CInv(V), ReduceNothing, UNCHANGED use, SInv'
    PROVE  CInv(V)'
<1>1. /\ Parsing /\ exit' \in {"syntax", "overflow"}
      /\ UNCHANGED <<collect_funcs, ignore_right_bracket, tokens, a, bracket_count,
                     pushdown_stack, values, ret, nil_unwrapped, use>>
  BY DEF ReduceNothing, Acts, Fail, Kept, Read
<1>2. exit' = "syntax"
  BY <1>1 DEF SInv, HandlesFit
<1> QED
  BY <1>1, <1>2, EndStep

\* The DOLLAR of the end meets that of the bottom, with one non-terminal on it.
LEMMA AcceptC ==
    ASSUME NEW V, CInv(V), Accept, UNCHANGED use, SInv'
    PROVE  CInv(V)'
<1> DEFINE s == pushdown_stack
           t == TopTerminal(s)
<1>1. /\ Parsing /\ exit' = "accepted" /\ a.class = DOLLAR /\ s[t].class = DOLLAR
      /\ UNCHANGED <<collect_funcs, ignore_right_bracket, tokens, a, bracket_count,
                     pushdown_stack, values, ret, nil_unwrapped, use>>
  BY DEF Accept, OnlyDollars, Kept, Read
<1>2. StackShape(s)
  BY DEF CInv, SInv
<1>3. /\ Len(s) \in Nat \ {0} /\ t \in 1..Len(s)
      /\ t = Len(s) \/ (t = Len(s) - 1 /\ s[Len(s)].class = NON_TERM)
  BY <1>2, TopShape
<1>4. t = 1
  <2>1. ASSUME t \in 2..Len(s) PROVE FALSE
    <3>1. Neighbours(s, t)
      BY <1>2, <2>1 DEF StackShape
    <3>2. s[t].class # DOLLAR
      BY <3>1 DEF Neighbours
    <3> QED
      BY <1>1, <3>2
  <2> QED
    BY <1>3, <2>1
<1>5. Len(s) # 1
  BY <1>1 DEF CInv, EndOK, Parsing
<1>6. Len(s) = 2 /\ s[2].class = NON_TERM
  BY <1>3, <1>4, <1>5
<1> QED
  BY <1>1, <1>6, EndStep

\* The value of an expression that is accepted is the only one left.
LEMMA ValueLeft ==
    ASSUME NEW V, CInv(V), exit = "accepted", ~collect_funcs, use = Unused
    PROVE  /\ values \in Seq(RunTime) /\ Len(values) = 1 /\ Top = values[1]
           /\ Result.type \in Valued
           /\ Top \in RunTime /\ Top \in Allowed(V)[Result.type]
           /\ Front(values) = <<>>
<1> DEFINE s == pushdown_stack
<1>1. Len(s) = 2 /\ s[2].class = NON_TERM /\ s[1].class = DOLLAR
  BY DEF CInv, EndOK, SInv, StackShape
<1>2. PICK c : Matches(s, c, values, Allowed(V))
  BY DataNow
<1>3. Counts(s, c) /\ values \in Seq(RunTime) /\ Len(values) = c[2]
  BY <1>1, <1>2 DEF Matches
<1>4. c[0] = 0 /\ c[1] = c[0] /\ c[2] = c[1] + 1
  <2>1. 1 \in 1..Len(s) /\ 2 \in 1..Len(s) /\ 1 - 1 = 0 /\ 2 - 1 = 1
    BY <1>1
  <2>2. \A i \in 1..Len(s) : c[i] = c[i - 1] + IF s[i].class = NON_TERM THEN 1 ELSE 0
    BY <1>3 DEF Counts
  <2>3. c[0] \in Nat /\ c[0] = 0
    BY <1>3 DEF Counts
  <2>4. c[1] = c[0]
    BY <1>1, <2>1, <2>2, <2>3
  <2>5. c[2] = c[1] + 1
    BY <1>1, <2>1, <2>2
  <2> QED
    BY <2>3, <2>4, <2>5
<1>5. Len(values) = 1 /\ c[2] = 1
  BY <1>3, <1>4
<1>6. s[2].type \in Valued /\ values[1] \in Allowed(V)[s[2].type]
  <2>1. 2 \in 1..Len(s)
    BY <1>1
  <2>2. s[2].type \in Valued /\ values[c[2]] \in Allowed(V)[s[2].type]
    BY ONLY <1>1, <1>2, <2>1 DEF Matches
  <2> QED
    BY <1>5, <2>2
<1>7. values[1] \in RunTime
  <2>1. 1 \in 1..Len(values)
    BY ONLY <1>5
  <2> QED
    BY ONLY <1>3, <2>1
<1>8. Front(values) = <<>>
  <2>1. Front(values) \in Seq(RunTime) /\ Len(Front(values)) = Len(values) - 1
    BY <1>3, <1>5, FrontIs
  <2> QED
    BY <1>5, <2>1
<1> QED
  BY <1>3, <1>5, <1>6, <1>7, <1>8 DEF Top, Result

\* A statement that uses the value says so, and takes it or leaves it.
LEMMA UsesTake ==
    ASSUME \/ DeclareTyped \/ DeclareUntyped \/ Assign \/ Pass \/ Return \/ ReturnInVoid
           \/ Decide \/ Bound
    PROVE  use' # Unused /\ values' \in {values, Front(values)}
<1>1. ASSUME NEW kind, NEW target, NEW error, Ends(kind, target, error), kind # "none"
      PROVE  use' # Unused /\ values' \in {values, Front(values)}
  BY <1>1 DEF Ends, Unused, vars
<1>2. ASSUME NEW kind, NEW target, NEW v, Stores(kind, target, v), kind # "none"
      PROVE  use' # Unused /\ values' \in {values, Front(values)}
  BY <1>2 DEF Stores, Unused
<1>3. ASSUME NEW kind, NEW target, NEW fits, NEW error, Take(kind, target, fits, error),
             kind # "none"
      PROVE  use' # Unused /\ values' \in {values, Front(values)}
  BY <1>1, <1>2, <1>3 DEF Take
<1>4. CASE DeclareTyped
  BY <1>3, <1>4 DEF DeclareTyped
<1>5. CASE DeclareUntyped
  BY <1>1, <1>2, <1>5 DEF DeclareUntyped
<1>6. CASE Assign
  BY <1>3, <1>6 DEF Assign
<1>7. CASE Pass
  BY <1>3, <1>7 DEF Pass
<1>8. CASE Return
  BY <1>3, <1>8 DEF Return
<1>9. CASE ReturnInVoid
  BY <1>3, <1>9 DEF ReturnInVoid
<1>10. CASE Decide
  BY <1>1, <1>2, <1>10 DEF Decide
<1>11. CASE Bound
  BY <1>1, <1>2, <1>11 DEF Bound
<1> QED
  BY <1>4, <1>5, <1>6, <1>7, <1>8, <1>9, <1>10, <1>11

\* The statements that use the value keep the invariant.
LEMMA UsesC ==
    ASSUME NEW V, CInv(V), SInv',
           \/ DeclareTyped \/ DeclareUntyped \/ Assign \/ Pass \/ Return \/ ReturnInVoid
           \/ Decide \/ Bound
    PROVE  CInv(V)'
<1>1. /\ Ready /\ exit = "accepted"
      /\ UNCHANGED <<collect_funcs, ignore_right_bracket, tokens, a, bracket_count,
                     pushdown_stack, ret, nil_unwrapped, exit>>
  BY UsesKeepParser DEF Ready
<1>2. use' # Unused /\ values' \in {values, Front(values)}
  BY UsesTake
<1>3. values' \in Seq(RunTime)
  <2>1. values \in Seq(RunTime) /\ Front(values) = <<>> /\ <<>> \in Seq(RunTime)
    BY <1>1, ValueLeft DEF Ready
  <2> QED
    BY <1>2, <2>1
<1>4. VariablesOK'
  BY <1>1, <1>3 DEF CInv, VariablesOK
<1>5. EndOK'
  BY <1>1 DEF CInv, EndOK
<1>6. CallOK'
  BY <1>1 DEF CInv, CallOK, Waits
<1>7. DataOK(V)'
  BY <1>2 DEF DataOK
<1> QED
  BY <1>4, <1>5, <1>6, <1>7 DEF CInv

\* So does a step that changes nothing.
LEMMA StutterC ==
    ASSUME NEW V, CInv(V), SInv', UNCHANGED <<vars, use>>
    PROVE  CInv(V)'
<1>1. UNCHANGED <<collect_funcs, ignore_right_bracket, tokens, a, bracket_count,
                  pushdown_stack, values, ret, nil_unwrapped, exit, use>>
  BY DEF vars
<1>2. VariablesOK'
  BY <1>1 DEF CInv, VariablesOK
<1>3. EndOK'
  BY <1>1 DEF CInv, EndOK
<1>4. CallOK'
  BY <1>1 DEF CInv, CallOK, Waits
<1>5. DataOK(V)'
  BY <1>1 DEF CInv, DataOK, Allowed
<1> QED
  BY <1>2, <1>3, <1>4, <1>5 DEF CInv

\* Every step keeps the invariant; of Tight, unless "??" combines a Double? with an
\* integer literal.
LEMMA NextC ==
    ASSUME NEW V \in {Tight, Loose}, CInv(V), [UNext]_<<vars, use, stored>>,
           V = Tight => ~CoalescesDouble
    PROVE  CInv(V)'
<1>1. SInv'
  BY NextShape DEF CInv
<1>2. CASE Next /\ UNCHANGED <<use, stored>>
  <2>1. UNCHANGED use
    BY <1>2
  <2>2. CASE First
    BY <1>1, <2>1, <2>2, FirstC
  <2>3. CASE ShiftLess
    BY <1>1, <2>1, <2>3, ShiftLessC
  <2>4. CASE Shift
    BY <1>1, <2>1, <2>4, ShiftC
  <2>5. CASE Refuse
    BY <1>1, <2>1, <2>5, RefuseC
  <2>6. CASE Accept
    BY <1>1, <2>1, <2>6, AcceptC
  <2>7. CASE Done
    BY <1>1, <2>1, <2>7, StutterC DEF Done
  <2>8. CASE ReduceFirstPass
    BY <1>1, <2>1, <2>8, FirstPassC
  <2>9. CASE ReduceOperand
    BY <1>1, <2>1, <2>9, OperandC
  <2>10. CASE ReduceNot
    BY <1>1, <2>1, <2>10, NotC
  <2>11. CASE ReduceUnwrap
    BY <1>1, <2>1, <2>11, UnwrapC
  <2>12. CASE ReduceBrackets
    BY <1>1, <2>1, <2>12, BracketsC
  <2>13. CASE ReduceBinary
    BY <1>1, <2>1, <2>13, BinaryC
  <2>14. CASE ReduceNothing
    BY <1>1, <2>1, <2>14, ReduceNothingC
  <2> QED
    BY <1>2, <2>2, <2>3, <2>4, <2>5, <2>6, <2>7, <2>8, <2>9, <2>10, <2>11, <2>12, <2>13, <2>14
       DEF Next
<1>3. CASE \/ DeclareTyped \/ DeclareUntyped \/ Assign \/ Pass \/ Return \/ ReturnInVoid
           \/ Decide \/ Bound
  BY <1>1, <1>3, UsesC
<1>4. CASE UNCHANGED <<vars, use, stored>>
  BY <1>1, <1>4, StutterC
<1> QED
  BY <1>2, <1>3, <1>4 DEF UNext
-----------------------------------------------------------------------------
(* What the statements store *)

\* A void function returns a Double?: check_return_type compares the two types
\* as it does those of a variable, and the difference of their numbers is that
\* of a type and its nillable one.
ReturnsDoubleInVoid == ReturnInVoid /\ Result.type = nil_double_type

\* A type that fits has no values its target does not have.
LEMMA FitsIs ==
    ASSUME NEW target \in Nameable, NEW type \in Valued, Fits(target, type)
    PROVE  Value(type) \subseteq Value(target)
<1>1. target \in {0, 1, 2, 3, 4, 5, 6, 7} /\ type \in {0, 1, 2, 3, 4, 5, 6, 7, 8}
  BY DEF Nameable
<1> QED
  BY <1>1, ValueIs DEF Fits

\* A converted integer literal is a value of the target.
LEMMA ConvertsIs ==
    ASSUME NEW target, NEW e, Converts(target, e), NEW v \in Value(e.type)
    PROVE  Int2Float(v) \in Value(target)
<1>1. target \in {1, 5} /\ v = "int"
  BY ValueIs DEF Converts, LiteralInt
<1> QED
  BY <1>1, ValueIs DEF Int2Float

\* Storing a value of the type leaves it stored and the data stack empty.
LEMMA StoresFits ==
    ASSUME NEW kind, NEW type, NEW v \in Value(type), Stores(kind, type, v),
           Front(values) = <<>>
    PROVE  values' = <<>> /\ stored' \in Value(use'.type)
BY DEF Stores

\* So does taking the result, if its check was right.
LEMMA TakeFits ==
    ASSUME NEW kind, NEW target, NEW fits \in BOOLEAN, NEW error, error # 0,
           Take(kind, target, fits, error), Front(values) = <<>>,
           Top \in Value(Result.type), fits => Value(Result.type) \subseteq Value(target)
    PROVE  use'.error = 0 => values' = <<>> /\ stored' \in Value(use'.type)
<1>1. CASE fits
  <2>1. Stores(kind, target, Top) /\ Top \in Value(target)
    BY <1>1 DEF Take
  <2> QED
    BY <2>1, StoresFits
<1>2. CASE ~fits /\ Converts(target, Result)
  <2>1. Stores(kind, target, Int2Float(Top))
    BY <1>2 DEF Take
  <2>2. Int2Float(Top) \in Value(target)
    BY <1>2, ConvertsIs
  <2> QED
    BY <2>1, <2>2, StoresFits
<1>3. CASE ~fits /\ ~Converts(target, Result)
  BY <1>3 DEF Take, Ends
<1> QED
  BY <1>1, <1>2, <1>3

\* So does each statement, but for a void function that returns a Double?.
LEMMA UsesFit ==
    ASSUME CInv(Tight), ~nil_unwrapped, ~ReturnsDoubleInVoid,
           \/ DeclareTyped \/ DeclareUntyped \/ Assign \/ Pass \/ Return \/ ReturnInVoid
           \/ Decide \/ Bound
    PROVE  use'.error = 0 => values' = <<>> /\ stored' \in Value(use'.type)
<1>1. Ready
  BY UsesKeepParser
<1>2. /\ Front(values) = <<>> /\ Result.type \in Valued
      /\ Top \in Value(Result.type)
  <2>1. Allowed(Tight) = Tight
    BY DEF Allowed
  <2>2. /\ Front(values) = <<>> /\ Result.type \in Valued
        /\ Top \in Tight[Result.type]
    BY <1>1, <2>1, ValueLeft DEF Ready
  <2> QED
    BY <2>2, ValuesRun
<1>3. ASSUME NEW kind, NEW target \in Nameable, NEW error, error # 0,
             Take(kind, target, Fits(target, Result.type), error)
      PROVE  use'.error = 0 => values' = <<>> /\ stored' \in Value(use'.type)
  <2> DEFINE fits == Fits(target, Result.type)
  <2>1. fits \in BOOLEAN
    BY DEF Fits
  <2>2. fits => Value(Result.type) \subseteq Value(target)
    BY <1>2, FitsIs
  <2>3. Take(kind, target, fits, error)
    BY <1>3
  <2> HIDE DEF fits
  <2> QED
    BY <1>2, <1>3, <2>1, <2>2, <2>3, TakeFits
<1>4. CASE DeclareTyped
  BY <1>3, <1>4 DEF DeclareTyped
<1>5. CASE DeclareUntyped
  <2>1. CASE Ends("declaration", none_type, 8)
    BY <2>1 DEF Ends
  <2>2. CASE Stores("declaration", Result.type, Top)
    BY <1>2, <2>2, StoresFits
  <2> QED
    BY <1>5, <2>1, <2>2 DEF DeclareUntyped
<1>6. CASE Assign
  BY <1>3, <1>6 DEF Assign
<1>7. CASE Pass
  BY <1>3, <1>7 DEF Pass
<1>8. CASE Return
  BY <1>3, <1>8 DEF Return
<1>9. CASE ReturnInVoid
  <2> DEFINE fits == Result.type # nil_type /\ Fits(void_type, Result.type)
  <2>1. Result.type # 5
    BY <1>9 DEF ReturnsDoubleInVoid
  <2>2. ~fits
    BY <1>2, <2>1 DEF Fits
  <2>3. ~Converts(void_type, Result)
    BY DEF Converts
  <2>4. Take("return", void_type, fits, 4)
    BY <1>9 DEF ReturnInVoid
  <2> HIDE DEF fits
  <2>5. Ends("return", void_type, 4)
    BY <2>2, <2>3, <2>4 DEF Take
  <2> QED
    BY <2>5 DEF Ends
<1>10. CASE Decide
  <2>1. CASE Ends("condition", bool_type, 7)
    BY <2>1 DEF Ends
  <2>2. CASE Result.type = bool_type /\ Stores("condition", bool_type, Equal(Top, "bool"))
    <3>1. Equal(Top, "bool") \in Value(bool_type)
      BY <1>2, <2>2, ValueIs DEF Equal
    <3> QED
      BY <1>2, <2>2, <3>1, StoresFits
  <2> QED
    BY <1>10, <2>1, <2>2 DEF Decide
<1>11. CASE Bound
  <2>1. CASE Ends("range", int_type, 9)
    BY <2>1 DEF Ends
  <2>2. ASSUME Result.type = int_type, NEW v \in {Top, Number(Top, "int", {"int", "float"})},
               Stores("range", int_type, v)
        PROVE  use'.error = 0 => values' = <<>> /\ stored' \in Value(use'.type)
    <3>1. v \in Value(int_type)
      BY <1>2, <2>2, ValueIs DEF Number
    <3> QED
      BY <1>2, <2>2, <3>1, StoresFits
  <2> QED
    BY <1>11, <2>1, <2>2 DEF Bound
<1> QED
  BY <1>4, <1>5, <1>6, <1>7, <1>8, <1>9, <1>10, <1>11

\* Nothing happens after a statement took the value.
LEMMA NextStored ==
    ASSUME CInv(Tight), StoredFitsItsType, [UNext]_<<vars, use, stored>>,
           ~ReturnsDoubleInVoid
    PROVE  StoredFitsItsType'
<1>1. CASE UNCHANGED <<vars, use, stored>>
  BY <1>1 DEF StoredFitsItsType, vars
<1>2. CASE Next /\ UNCHANGED <<use, stored>>
  <2>1. CASE use = Unused
    BY <1>2, <2>1 DEF StoredFitsItsType
  <2>2. CASE use # Unused
    <3>1. exit = "accepted"
      BY <2>2 DEF CInv, EndOK
    <3>2. Done
      <4>1. ~Parsing
        BY <3>1 DEF Parsing
      <4>2. ~First
        <5>1. a # NoElem
          BY <3>1 DEF CInv, EndOK
        <5> QED
          BY <5>1 DEF First
      <4> QED
        BY <1>2, <4>1, <4>2 DEF Next, ShiftLess, Shift, Refuse, Accept, ReduceFirstPass,
           ReduceOperand, ReduceNot, ReduceUnwrap, ReduceBrackets, ReduceBinary,
           ReduceNothing, Reduces, Acts
    <3> QED
      BY <1>2, <3>2 DEF StoredFitsItsType, Done, vars
  <2> QED
    BY <2>1, <2>2
<1>3. CASE \/ DeclareTyped \/ DeclareUntyped \/ Assign \/ Pass \/ Return \/ ReturnInVoid
           \/ Decide \/ Bound
  <2>1. CASE nil_unwrapped'
    BY <2>1 DEF StoredFitsItsType
  <2>2. CASE ~nil_unwrapped'
    <3>1. ~nil_unwrapped
      BY <1>3, <2>2, UsesKeepParser
    <3> QED
      BY <1>3, <3>1, UsesFit DEF StoredFitsItsType
  <2> QED
    BY <2>1, <2>2
<1> QED
  BY <1>1, <1>2, <1>3 DEF UNext
-----------------------------------------------------------------------------
(* The theorems *)

\* Tight allows less than Loose.
LEMMA TightIsNotLoose == Tight # Loose
<1>1. Tight[0] = {"int"} /\ Loose[0] = RunTime
  BY ValuesRun, ValueIs
<1> QED
  BY <1>1 DEF RunTime

\* The variables keep their types, and so do the elements of the stack: an
\* expression gets a type the language has, through every reduction of either
\* pass (reduce).
THEOREM TypeCorrect == USpec => []TypeOK
<1>1. UInit => CInv(Loose)
  BY InitC
<1>2. CInv(Loose) /\ [UNext]_<<vars, use, stored>> => CInv(Loose)'
  BY NextC, TightIsNotLoose
<1>3. CInv(Loose) => TypeOK
  <2> SUFFICES ASSUME CInv(Loose) PROVE TypeOK
    OBVIOUS
  <2>1. VariablesOK /\ StackShape(pushdown_stack)
    BY DEF CInv, SInv
  <2>2. \A t \in ToSet(tokens) : t \in Token
    BY <2>1 DEF VariablesOK, ToSet
  <2>3. \A t \in ToSet(tokens) : t.form \in Form \cup {"none"} /\ t.type \in Type
    BY <2>2 DEF Token
  <2>4. \A i \in DOMAIN pushdown_stack : ElementOK(pushdown_stack[i])
    BY <2>1 DEF StackShape
  <2>5. \A i \in DOMAIN pushdown_stack : /\ pushdown_stack[i].class \in UNWRAP .. NON_TERM
                                         /\ pushdown_stack[i].type \in Type
    BY <2>4 DEF ElementOK
  <2>6. ToSet(values) \cup {ret} \subseteq RunTime
    BY <2>1 DEF VariablesOK, ToSet
  <2> QED
    BY <2>1, <2>3, <2>5, <2>6 DEF TypeOK, VariablesOK, RunTime
<1> QED
  BY <1>1, <1>2, <1>3, PTL DEF USpec

\* The code of an expression the second pass accepts runs without a type error
\* and leaves one value of the type the expression was given, whatever its
\* operands and operators are and however many, as long as E! is not executed
\* on nil and ?? does not combine a Double? with an integer literal (reduce,
\* ar_op_check, rel_op_check, eq_op_check, log_op_check).
THEOREM CodeIsTypeSafeCorrect ==
    USpec /\ [][~CoalescesDouble]_<<vars, use, stored>> => []CodeIsTypeSafe
<1>1. UInit => CInv(Tight)
  BY InitC
<1>2. /\ CInv(Tight) /\ [UNext]_<<vars, use, stored>>
      /\ [~CoalescesDouble]_<<vars, use, stored>>
      => CInv(Tight)'
  <2> SUFFICES ASSUME CInv(Tight), [UNext]_<<vars, use, stored>>,
                      [~CoalescesDouble]_<<vars, use, stored>>
               PROVE  CInv(Tight)'
    OBVIOUS
  <2>1. CASE ~CoalescesDouble
    BY <2>1, NextC
  <2>2. CASE UNCHANGED <<vars, use, stored>>
    <3>1. SInv'
      BY NextShape DEF CInv
    <3> QED
      BY <2>2, <3>1, StutterC
  <2> QED
    BY <2>1, <2>2
<1>3. CInv(Tight) => CodeIsTypeSafe
  <2> SUFFICES ASSUME CInv(Tight), exit = "accepted", ~collect_funcs, use = Unused,
                      ~nil_unwrapped
               PROVE  Len(values) = 1 /\ values[1] \in Value(pushdown_stack[2].type)
    BY DEF CodeIsTypeSafe
  <2>1. Allowed(Tight) = Tight
    BY DEF Allowed
  <2>2. /\ Len(values) = 1 /\ Top = values[1]
        /\ Result.type \in Valued /\ Top \in Tight[Result.type]
    BY <2>1, ValueLeft
  <2> QED
    BY <2>2, ValuesRun DEF Result
<1> QED
  BY <1>1, <1>2, <1>3, PTL DEF USpec

\* What a declaration, an assignment, an argument, a return, a condition and a
\* range store has the type the rest of the program relies on, under the same
\* provisos and unless a void function returns a Double? (check_decl_expr,
\* check_return_type, check_func_param).
THEOREM StoredFitsItsTypeCorrect ==
    /\ USpec
    /\ [][~CoalescesDouble]_<<vars, use, stored>>
    /\ [][~ReturnsDoubleInVoid]_<<vars, use, stored>>
    => []StoredFitsItsType
<1> DEFINE IInv == CInv(Tight) /\ StoredFitsItsType
<1>1. UInit => IInv
  <2>1. UInit => StoredFitsItsType
    BY DEF UInit, StoredFitsItsType
  <2> QED
    BY <2>1, InitC
<1>2. /\ IInv /\ [UNext]_<<vars, use, stored>>
      /\ [~CoalescesDouble]_<<vars, use, stored>>
      /\ [~ReturnsDoubleInVoid]_<<vars, use, stored>>
      => IInv'
  <2> SUFFICES ASSUME IInv, [UNext]_<<vars, use, stored>>,
                      [~CoalescesDouble]_<<vars, use, stored>>,
                      [~ReturnsDoubleInVoid]_<<vars, use, stored>>
               PROVE  IInv'
    OBVIOUS
  <2>1. CASE ~CoalescesDouble /\ ~ReturnsDoubleInVoid
    BY <2>1, NextC, NextStored
  <2>2. CASE UNCHANGED <<vars, use, stored>>
    <3>1. SInv'
      BY NextShape DEF CInv
    <3>2. CInv(Tight)'
      BY <2>2, <3>1, StutterC
    <3>3. StoredFitsItsType'
      BY <2>2 DEF StoredFitsItsType, vars
    <3> QED
      BY <3>2, <3>3
  <2> QED
    BY <2>1, <2>2
<1>3. IInv => StoredFitsItsType
  OBVIOUS
<1> QED
  BY <1>1, <1>2, <1>3, PTL DEF USpec
=============================================================================
