----------------------------- MODULE CallStack ------------------------------
(***************************************************************************)
(* Facts about the lists of statements the functions of parser.c are made  *)
(* of in module Parser, and about the call stack that executes them. The   *)
(* first part says of each list that what it opens it closes, whatever     *)
(* becomes of its flag s.                                                  *)
(***************************************************************************)
EXTENDS Parser, SequenceTheorems, FiniteSetTheorems, WellFoundedInduction, TLAPS

\* What a function opens and closes again, at most once each.
Thing == {"func", "scope", "inner_scope", "loop", "branch", "loop_label",
          "end_label", "skip_label", "bracket", "argument"}

Openers(k) ==
    CASE k = "func" -> {"enter_func"}
      [] k = "scope" -> {"increase_scope"}
      [] k = "inner_scope" -> {"increase_inner_scope"}
      [] k = "loop" -> {"enter_loop"}
      [] k = "branch" -> {"enter_branch"}
      [] k = "loop_label" -> {"gen_while_start", "gen_for_start"}
      [] k = "end_label" -> {"gen_branch_labels"}
      [] k = "skip_label" -> {"gen_branch_labels", "gen_skip_label"}
      [] k = "bracket" -> {"ignore_on"}
      [] k = "argument" -> {}

Closer(k) ==
    CASE k = "func" -> "leave_func"
      [] k = "scope" -> "decrease_scope"
      [] k = "inner_scope" -> "decrease_inner_scope"
      [] k = "loop" -> "leave_loop"
      [] k = "branch" -> "leave_branch"
      [] k = "loop_label" -> "gen_loop_end"
      [] k = "end_label" -> "gen_branch_end"
      [] k = "skip_label" -> "gen_branch_if_end"
      [] k = "bracket" -> "ignore_off"
      [] k = "argument" -> "call_end"

Has(t, op) == \E i \in 1..Len(t) : t[i].op = op

\* The list has opened k and is yet to close it.
Owes(t, k) == Has(t, Closer(k)) /\ \A i \in 1..Len(t) : t[i].op \notin Openers(k)

Touches(statement, k) == statement.op \in Openers(k) \cup {Closer(k)}

Bare(t, k) == \A i \in 1..Len(t) : ~Touches(t[i], k)

\* One statement closes k, and if one opens it (o > 0) it does so before.
Opens(t, k, o, c) ==
    /\ c \in 1..Len(t) /\ o \in 0..(c - 1)
    /\ \A i \in 1..Len(t) : /\ t[i].op \in Openers(k) <=> i = o
                            /\ t[i].op = Closer(k) <=> i = c

Neat(t, k) == Bare(t, k) \/ \E o, c \in 0..Len(t) : Opens(t, k, o, c)

\* u is what is left of t after its first d statements.
After(u, t, d) ==
    /\ d \in 0..Len(t) /\ Len(u) = Len(t) - d
    /\ \A i \in 1..Len(u) : u[i] = t[i + d]
-----------------------------------------------------------------------------
\* A non-empty set of naturals has a least element.
LEMMA Least ==
    ASSUME NEW T \in SUBSET Nat, T # {}
    PROVE  \E n \in T : \A m \in T : n <= m
<1> DEFINE Below == {ss \in Nat \X Nat : ss[1] < ss[2]}
<1>1. IsWellFoundedOn(Below, Nat)
  BY NatLessThanWellFounded DEF OpToRel
<1>2. PICK n \in T : \A m \in T : ~(<<m, n>> \in Below)
  BY <1>1, WFMin
<1>3. \A m \in T : ~(m < n)
  BY <1>2
<1> QED
  BY <1>3

\* NextDo is the first statement of a list that runs although s is false.
LEMMA NextDoIs ==
    ASSUME NEW t \in Seq(Statements)
    PROVE  /\ NextDo(t) \in 1 .. Len(t) + 1
           /\ \A j \in 1 .. NextDo(t) - 1 : t[j].needs_s
           /\ NextDo(t) <= Len(t) => ~t[NextDo(t)].needs_s
<1> DEFINE n == Len(t)
<1> DEFINE T == {i \in 1 .. n + 1 : i <= n => ~t[i].needs_s}
<1>1. n \in Nat
  OBVIOUS
<1> HIDE DEF n
<1>2. T \in SUBSET Nat /\ n + 1 \in T
  BY <1>1
<1>3. PICK m \in T : \A j \in T : m <= j
  BY <1>2, Least
<1>4. m \in 1 .. n + 1 /\ \A j \in 1 .. m - 1 : t[j].needs_s
  BY <1>1, <1>3
<1>5. m <= n => ~t[m].needs_s
  BY <1>3
<1>6. \E i \in 1 .. n + 1 : /\ \A j \in 1 .. i - 1 : t[j].needs_s
                            /\ i <= n => ~t[i].needs_s
  BY <1>4, <1>5
<1> QED
  BY <1>6 DEF NextDo, n

\* Rest and Tail leave out statements at the front.
LEMMA RestIsAfter ==
    ASSUME NEW t \in Seq(Statements), NEW ok
    PROVE  /\ Rest(t, ok) \in Seq(Statements)
           /\ \E d \in 0..Len(t) : /\ After(Rest(t, ok), t, d)
                                   /\ \A j \in 1..d : t[j].needs_s
                                   /\ ok => d = 0
<1>1. CASE ok
  BY <1>1 DEF Rest, After
<1>2. CASE ~ok
  <2> DEFINE m == NextDo(t)
  <2> DEFINE n == Len(t)
  <2>1. n \in Nat /\ m \in 1 .. n + 1 /\ \A j \in 1 .. m - 1 : t[j].needs_s
    BY NextDoIs
  <2>2. Rest(t, ok) = SubSeq(t, m, n)
    BY <1>2 DEF Rest
  <2> HIDE DEF m
  <2>3. Rest(t, ok) \in Seq(Statements)
    BY <2>1, <2>2
  <2>4. Len(Rest(t, ok)) = n - (m - 1)
    BY <2>1, <2>2
  <2>5. \A i \in 1..Len(Rest(t, ok)) : Rest(t, ok)[i] = t[i + (m - 1)]
    BY <2>1, <2>2
  <2>6. After(Rest(t, ok), t, m - 1)
    BY <2>1, <2>4, <2>5 DEF After
  <2> QED
    BY <1>2, <2>1, <2>3, <2>6
<1> QED
  BY <1>1, <1>2

\* The statements behind the first one.
LEMMA TailIsAfter ==
    ASSUME NEW t \in Seq(Statements), t # <<>>
    PROVE  Tail(t) \in Seq(Statements) /\ After(Tail(t), t, 1) /\ Head(t) = t[1] /\ 1 \in 1..Len(t)
BY DEF After

\* A list that opens and closes k at most once still does behind statements that do
\* neither, and owes the same.
LEMMA NeatAfter ==
    ASSUME NEW t \in Seq(Statements), NEW u \in Seq(Statements), NEW d, After(u, t, d), NEW k,
           Neat(t, k), \A i \in 1..d : ~Touches(t[i], k)
    PROVE  Neat(u, k) /\ (Owes(u, k) <=> Owes(t, k))
<1> DEFINE n == Len(t)
<1> DEFINE m == Len(u)
<1>1. /\ n \in Nat /\ m \in Nat /\ d \in 0..n /\ m = n - d
      /\ \A i \in 1..m : u[i] = t[i + d]
  BY DEF After
<1>2. \A i \in 1..n : i > d => i - d \in 1..m /\ u[i - d] = t[i]
  BY <1>1
<1> HIDE DEF n, m
<1>3. Owes(u, k) <=> Owes(t, k)
  <2>1. Has(u, Closer(k)) => Has(t, Closer(k))
    BY <1>1, SMTT(30) DEF Has, m, n
  <2>2. Has(t, Closer(k)) => Has(u, Closer(k))
    <3> SUFFICES ASSUME NEW i \in 1..n, t[i].op = Closer(k)
                 PROVE  \E j \in 1..m : u[j].op = Closer(k)
      BY DEF Has, m, n
    <3>1. i > d
      BY <1>1 DEF Touches
    <3> QED
      BY <1>2, <3>1
  <2>3. (\A i \in 1..m : u[i].op \notin Openers(k)) => \A i \in 1..n : t[i].op \notin Openers(k)
    <3> SUFFICES ASSUME \A i \in 1..m : u[i].op \notin Openers(k), NEW i \in 1..n
                 PROVE  t[i].op \notin Openers(k)
      OBVIOUS
    <3>1. CASE i > d
      BY <1>2, <3>1
    <3>2. CASE ~(i > d)
      BY <1>1, <3>2 DEF Touches
    <3> QED
      BY <3>1, <3>2
  <2>4. (\A i \in 1..n : t[i].op \notin Openers(k)) => \A i \in 1..m : u[i].op \notin Openers(k)
    <3> SUFFICES ASSUME \A i \in 1..n : t[i].op \notin Openers(k), NEW i \in 1..m
                 PROVE  u[i].op \notin Openers(k)
      OBVIOUS
    <3>1. i + d \in 1..n /\ u[i] = t[i + d]
      BY <1>1
    <3> QED
      BY <3>1
  <2>5. ASSUME Owes(u, k) PROVE Owes(t, k)
    BY <2>5, <2>1, <2>3 DEF Owes, m, n
  <2>6. ASSUME Owes(t, k) PROVE Owes(u, k)
    BY <2>6, <2>2, <2>4 DEF Owes, m, n
  <2> QED
    BY <2>5, <2>6
<1>4. CASE Bare(t, k)
  <2>1. Bare(u, k)
    BY <1>1, <1>4 DEF Bare, m, n
  <2> QED
    BY <1>3, <2>1 DEF Neat
<1>5. CASE \E o, c \in 0..n : Opens(t, k, o, c)
  <2> PICK o \in 0..n, c \in 0..n : Opens(t, k, o, c)
    BY <1>5
  <2>1. /\ c \in 1..n /\ o \in 0..(c - 1)
        /\ \A i \in 1..n : /\ t[i].op \in Openers(k) <=> i = o
                           /\ t[i].op = Closer(k) <=> i = c
    BY DEF Opens, n
  <2>2. c > d /\ (o > d \/ o = 0)
    BY <1>1, <2>1 DEF Touches
  <2> DEFINE cc == c - d
  <2> DEFINE oo == IF o = 0 THEN 0 ELSE o - d
  <2>3. cc \in 1..m /\ oo \in 0..(cc - 1) /\ oo \in 0..m
    BY <1>1, <2>1, <2>2
  <2>4. \A i \in 1..m : (i + d = c <=> i = cc) /\ (i + d = o <=> i = oo)
    BY <1>1, <2>1, <2>2
  <2>5. \A i \in 1..m : u[i] = t[i + d] /\ i + d \in 1..n
    BY <1>1
  <2> HIDE DEF cc, oo
  <2>6. \A i \in 1..m : /\ u[i].op \in Openers(k) <=> i = oo
                        /\ u[i].op = Closer(k) <=> i = cc
    BY <2>1, <2>4, <2>5
  <2>7. Opens(u, k, oo, cc)
    BY <2>3, <2>6 DEF Opens, m
  <2> QED
    BY <1>3, <2>3, <2>7 DEF Neat, m
<1> QED
  BY <1>4, <1>5 DEF Neat, n

\* The first statement opens or closes k.
LEMMA NeatTail ==
    ASSUME NEW t \in Seq(Statements), t # <<>>, NEW k, Neat(t, k)
    PROVE  /\ Neat(Tail(t), k)
           /\ Head(t).op \in Openers(k) => ~Owes(t, k) /\ Owes(Tail(t), k)
           /\ Head(t).op = Closer(k) => Owes(t, k) /\ ~Owes(Tail(t), k)
           /\ ~Touches(Head(t), k) => (Owes(Tail(t), k) <=> Owes(t, k))
<1> DEFINE u == Tail(t)
<1> DEFINE n == Len(t)
<1>1. /\ n \in Nat /\ n >= 1 /\ Len(u) = n - 1 /\ Head(t) = t[1] /\ u \in Seq(Statements)
      /\ \A i \in 1..(n - 1) : u[i] = t[i + 1]
      /\ After(u, t, 1)
  BY TailIsAfter DEF After
<1> HIDE DEF u, n
<1>2. CASE ~Touches(Head(t), k)
  <2>1. \A i \in 1..1 : ~Touches(t[i], k)
    BY <1>1, <1>2
  <2> DEFINE d == 1
  <2>2. After(u, t, d) /\ \A i \in 1..d : ~Touches(t[i], k)
    BY <1>1, <2>1
  <2> HIDE DEF d
  <2>3. Neat(u, k) /\ (Owes(u, k) <=> Owes(t, k))
    BY <1>1, <2>2, NeatAfter
  <2> QED
    BY <1>2, <2>3 DEF u, Touches
<1>3. CASE Touches(Head(t), k)
  <2>1. ~Bare(t, k)
    BY <1>1, <1>3 DEF Bare, n
  <2>2. PICK o \in 0..n, c \in 0..n : Opens(t, k, o, c)
    BY <2>1 DEF Neat, n
  <2>3. /\ c \in 1..n /\ o \in 0..(c - 1)
        /\ \A i \in 1..n : /\ t[i].op \in Openers(k) <=> i = o
                           /\ t[i].op = Closer(k) <=> i = c
    BY <2>2 DEF Opens, n
  <2>4. 1 \in 1..n
    BY <1>1
  <2>5. CASE Head(t).op \in Openers(k)
    <3>1. o = 1 /\ c > 1
      BY <1>1, <2>3, <2>4, <2>5
    <3>2. ~Owes(t, k)
      BY <1>1, <2>4, <2>5 DEF Owes, n
    <3>3. c - 1 \in 1..(n - 1) /\ 0 \in 0..(c - 1 - 1)
      BY <1>1, <2>3, <3>1
    <3>4. \A i \in 1..(n - 1) : i + 1 \in 1..n /\ i + 1 # o /\ (i + 1 = c <=> i = c - 1) /\ i # 0
      BY <1>1, <2>3, <3>1
    <3>5. \A i \in 1..(n - 1) : u[i].op \notin Openers(k) /\ (u[i].op = Closer(k) <=> i = c - 1)
      BY <1>1, <2>3, <3>4
    <3>6. Owes(u, k)
      BY <1>1, <3>3, <3>5 DEF Owes, Has
    <3>7. \A i \in 1..(n - 1) : (u[i].op \in Openers(k) <=> i = 0)
      BY <3>4, <3>5
    <3>8. Opens(u, k, 0, c - 1)
      BY <1>1, <3>3, <3>5, <3>7 DEF Opens
    <3>9. Neat(u, k)
      BY <1>1, <3>3, <3>8 DEF Neat
    <3>10. Head(t).op # Closer(k)
      BY <1>1, <2>3, <2>4, <3>1
    <3> QED
      BY <1>3, <2>5, <3>2, <3>6, <3>9, <3>10 DEF u
  <2>6. CASE Head(t).op = Closer(k)
    <3>1. c = 1 /\ o = 0
      BY <1>1, <2>3, <2>4, <2>6
    <3>2. Owes(t, k)
      BY <1>1, <2>3, <2>4, <2>6, <3>1 DEF Owes, Has, n
    <3>3. \A i \in 1..(n - 1) : i + 1 \in 1..n /\ i + 1 # o /\ i + 1 # c
      BY <1>1, <3>1
    <3>4. \A i \in 1..(n - 1) : u[i].op \notin Openers(k) /\ u[i].op # Closer(k)
      BY <1>1, <2>3, <3>3
    <3>5. Bare(u, k) /\ ~Owes(u, k)
      BY <1>1, <3>4 DEF Bare, Owes, Has, Touches
    <3>6. Head(t).op \notin Openers(k)
      BY <1>1, <2>3, <2>4, <3>1
    <3> QED
      BY <1>3, <2>6, <3>2, <3>5, <3>6 DEF Neat, u
  <2> QED
    BY <1>3, <2>5, <2>6 DEF Touches
<1> QED
  BY <1>2, <1>3

\* A list of which a statement under s is left out, whatever the statement,
\* owes the same.
LEMMA NeatRest ==
    ASSUME NEW t \in Seq(Statements), NEW k, NEW ok, Neat(t, k),
           \A i \in 1..Len(t) : Touches(t[i], k) => ~t[i].needs_s
    PROVE  Neat(Rest(t, ok), k) /\ (Owes(Rest(t, ok), k) <=> Owes(t, k))
<1>1. Rest(t, ok) \in Seq(Statements)
  BY RestIsAfter
<1>2. PICK d \in 0..Len(t) : After(Rest(t, ok), t, d) /\ \A j \in 1..d : t[j].needs_s
  BY RestIsAfter
<1>3. \A i \in 1..d : i \in 1..Len(t)
  BY <1>2
<1>4. \A i \in 1..d : ~Touches(t[i], k)
  BY <1>2, <1>3
<1> DEFINE u == Rest(t, ok)
<1> HIDE DEF u
<1>5. Neat(u, k) /\ (Owes(u, k) <=> Owes(t, k))
  BY <1>1, <1>2, <1>4, NeatAfter DEF u
<1> QED
  BY <1>5 DEF u
-----------------------------------------------------------------------------
(* The lists of the functions *)

\* The functions that are open while a statement of the program is parsed.
Block == {"S", "CODE", "FUNC_DECL", "BRANCH", "ELSE", "ELSE_IF", "WHILE_LOOP",
          "FOR_LOOP", "ID_CALL_OR_ASSIGN"}

\* The kinds a function may be called on.
Ahead == Kind \cup {"eof"}

\* The function f, called on a token of that kind, calls g.
Calls(f, kind, g) ==
    /\ g \in Function \ {"S"}
    /\ g \in Block \cup {"NEXT_ID_CALL_OR_ASSIGN"} => f \in Block
    /\ g = "CALL_PARAM_LIST" <=> \/ f = "EXPR"
                                 \/ f = "NEXT_ID_CALL_OR_ASSIGN" /\ kind = "("
    /\ g = "ELSE" => f \in {"BRANCH", "ELSE_IF"}
    /\ g = "ELSE_IF" => f = "ELSE"
    /\ g \in Block /\ f \in {"WHILE_LOOP", "FOR_LOOP"} => g = "CODE"

ExprOp == {"next_token", "operand", "after_operand", "fail", "call_params", "call_end"}

BlockOp ==
    {"enter_func", "increase_scope", "increase_inner_scope", "enter_loop", "enter_branch",
     "gen_while_start", "gen_for_start", "leave_func", "decrease_scope",
     "decrease_inner_scope", "leave_loop", "leave_branch", "gen_loop_end"}

BranchOp == {"gen_branch_labels", "gen_branch_end"}
SkipOp == {"gen_skip_label", "gen_branch_if_end"}
BracketOp == {"ignore_on", "ignore_off"}

Pairing == BlockOp \cup BranchOp \cup SkipOp \cup BracketOp \cup {"call_end"}

\* The statements a function can have.
Fitting(f, kind) ==
    {st \in Statements :
        /\ st.op \in Pairing \cup ExprOp => ~st.needs_s
        /\ st.op \in BlockOp =>
              f \in {"FUNC_DECL", "BRANCH", "ELSE_IF", "WHILE_LOOP", "FOR_LOOP"}
        /\ st.op = "gen_while_start" => f = "WHILE_LOOP"
        /\ st.op = "gen_for_start" => f = "FOR_LOOP"
        /\ st.op \in BranchOp => f = "BRANCH"
        /\ st.op \in SkipOp => f \in {"BRANCH", "ELSE_IF"}
        /\ st.op \in BracketOp => f = "NEXT_ID_CALL_OR_ASSIGN" /\ kind = "("
        /\ st.op \in ExprOp <=> f = "EXPR"
        /\ st.op = "match_colon_or_back" => f = "CALL_PARAM"
        /\ st.op = "call" => Calls(f, kind, st.arg)}

\* The order of the statements of parse_expr.
ExprList(t) ==
    \/ t = <<>>
    \/ Len(t) = 1 /\ t[1].op \in {"after_operand", "fail"}
    \/ Len(t) = 2 /\ t[1].op = "next_token" /\ t[2].op = "after_operand"
    \/ Len(t) = 2 /\ t[1].op = "call_end" /\ t[2].op = "fail"
    \/ Len(t) = 3 /\ t[1].op = "operand" /\ t[2].op = "next_token" /\ t[3].op = "after_operand"
    \/ Len(t) = 3 /\ t[1].op = "call_params" /\ t[2].op = "call_end" /\ t[3].op = "fail"
    \/ Len(t) = 3 /\ t[1].op = "call_end" /\ t[2].op = "next_token" /\ t[3].op = "after_operand"
    \/ /\ Len(t) = 4 /\ t[1].op = "next_token" /\ t[2].op = "operand"
       /\ t[3].op = "next_token" /\ t[4].op = "after_operand"
    \/ /\ Len(t) = 4 /\ t[1].op = "call_params" /\ t[2].op = "call_end"
       /\ t[3].op = "next_token" /\ t[4].op = "after_operand"

\* After statement j the list owes k.
Pending(t, j, k) ==
    /\ \E i \in (j + 1)..Len(t) : t[i].op = Closer(k)
    /\ \A i \in (j + 1)..Len(t) : t[i].op \notin Openers(k)

\* The order of the statements around the calls of other functions.
Ordered(f, kind, t) ==
    \A j \in 1..Len(t) :
        /\ f = "CALL_PARAM" =>
              /\ t[j].op = "match" => j = 1 /\ Len(t) = 4 /\ t[j].arg = "id" /\ kind = "id"
              /\ t[j].op = "match_colon_or_back" =>
                    j = Len(t) - 2 /\ j <= 2 /\ (j = 2 => t[1].op = "match")
              /\ t[j].op = "call" => j = Len(t) - 1
        /\ f = "NEXT_ID_CALL_OR_ASSIGN" /\ kind = "(" /\ t[j].op = "call" =>
              Pending(t, j, "bracket")
        /\ t[j].op = "call" /\ t[j].arg = "ELSE" =>
              \A i \in (j + 1)..Len(t) : t[i].op # "gen_branch_if_end"
        /\ f = "BRANCH" /\ t[j].op = "call" /\ t[j].arg = "ELSE" => Pending(t, j, "end_label")
        /\ f = "BRANCH" /\ t[j].op = "gen_branch_if_end" =>
              Pending(t, j, "end_label")
        /\ f \in {"WHILE_LOOP", "FOR_LOOP"} /\ t[j].op = "call" /\ t[j].arg = "CODE" =>
              Pending(t, j, "loop_label")
        /\ t[j].op = "gen_branch_end" =>
              \A i \in (j + 1)..Len(t) : t[i].op # "gen_branch_if_end"

Good(f, kind, t) ==
    /\ t \in Seq(Fitting(f, kind))
    /\ \A k \in Thing : Neat(t, k)
    /\ Ordered(f, kind, t)
    /\ f = "EXPR" => ExprList(t)

Fresh(f, kind, t) == Good(f, kind, t) /\ \A k \in Thing : ~Owes(t, k)

\* Every statement that opens or closes something is one of Pairing.
LEMMA TouchesPairing ==
    ASSUME NEW k \in Thing, NEW statement, Touches(statement, k)
    PROVE  statement.op \in Pairing
BY DEF Thing, Touches, Openers, Closer, Pairing, BlockOp, BranchOp, SkipOp, BracketOp

\* A list without such statements owes nothing.
LEMMA PlainIsNeat ==
    ASSUME NEW t, \A i \in 1..Len(t) : t[i].op \notin Pairing, NEW k \in Thing
    PROVE  Neat(t, k) /\ ~Owes(t, k)
<1>1. Bare(t, k)
  BY TouchesPairing DEF Bare
<1>2. ~Owes(t, k)
  BY <1>1 DEF Bare, Touches, Owes, Has
<1> QED
  BY <1>1, <1>2 DEF Neat

\* A list yet to open what it will close owes nothing.
LEMMA OpensIsNeat ==
    ASSUME NEW t \in Seq(Statements), NEW k, NEW o, NEW c, Opens(t, k, o, c), o # 0
    PROVE  Neat(t, k) /\ ~Owes(t, k)
<1>1. /\ c \in 1..Len(t) /\ o \in 1..Len(t) /\ t[o].op \in Openers(k)
      /\ o \in 0..Len(t) /\ c \in 0..Len(t)
  BY DEF Opens
<1> QED
  BY <1>1 DEF Neat, Owes

\* A list that never touches k does not owe it.
LEMMA BareIsNeat ==
    ASSUME NEW t \in Seq(Statements), NEW k, Bare(t, k)
    PROVE  Neat(t, k) /\ ~Owes(t, k)
BY DEF Bare, Neat, Touches, Owes, Has

\* The statements by their fields.
LEMMA Fields ==
    /\ \A x \in Ahead : Match(x) \in Statements
    /\ \A x \in Function : Call(x) \in Statements
    /\ \A x \in Op : If(x) \in Statements /\ Do(x) \in Statements
    /\ \A x : Match(x).op = "match" /\ Match(x).arg = x /\ Match(x).needs_s = TRUE
    /\ \A x : Call(x).op = "call" /\ Call(x).arg = x /\ Call(x).needs_s = TRUE
    /\ \A x : If(x).op = x /\ If(x).needs_s = TRUE
    /\ \A x : Do(x).op = x /\ Do(x).needs_s = FALSE
<1>1. "match" \in Op /\ "call" \in Op
  BY DEF Op
<1> QED
  BY <1>1 DEF Match, Call, If, Do, Statements, Ahead

\* What a statement that touches k can be.
LEMMA ThingTouched ==
    ASSUME NEW k \in Thing, NEW st, Touches(st, k)
    PROVE  \/ k = "func" /\ st.op \in {"enter_func", "leave_func"}
           \/ k = "scope" /\ st.op \in {"increase_scope", "decrease_scope"}
           \/ k = "inner_scope" /\ st.op \in {"increase_inner_scope", "decrease_inner_scope"}
           \/ k = "loop" /\ st.op \in {"enter_loop", "leave_loop"}
           \/ k = "branch" /\ st.op \in {"enter_branch", "leave_branch"}
           \/ k = "loop_label" /\ st.op \in {"gen_while_start", "gen_for_start", "gen_loop_end"}
           \/ k = "end_label" /\ st.op \in {"gen_branch_labels", "gen_branch_end"}
           \/ k = "skip_label" /\ st.op \in {"gen_branch_labels", "gen_skip_label", "gen_branch_if_end"}
           \/ k = "bracket" /\ st.op \in {"ignore_on", "ignore_off"}
           \/ k = "argument" /\ st.op = "call_end"
BY ZenonT(60) DEF Thing, Touches, Openers, Closer

Special == Pairing \cup ExprOp \cup {"call", "match_colon_or_back"}

\* Statements that fit anywhere outside parse_expr.
LEMMA FitsAnywhere ==
    ASSUME NEW f \in Function \ {"EXPR"}, NEW kind
    PROVE  /\ \A x \in Ahead : Match(x) \in Fitting(f, kind)
           /\ \A g \in Function : Calls(f, kind, g) => Call(g) \in Fitting(f, kind)
           /\ \A x \in Op \ Special : If(x) \in Fitting(f, kind) /\ Do(x) \in Fitting(f, kind)
<1>1. /\ "match" \notin Special
      /\ \A x : x \in Pairing \cup ExprOp => x # "call" /\ x \in Special
      /\ "call" \in Special /\ "match_colon_or_back" \in Special
      /\ "gen_while_start" \in Pairing /\ "gen_for_start" \in Pairing
      /\ BlockOp \cup BranchOp \cup SkipOp \cup BracketOp \subseteq Pairing
  BY DEF Special, Pairing, BlockOp, BranchOp, SkipOp, BracketOp, ExprOp
<1>2. ASSUME NEW st \in Statements, st.op \notin Pairing, st.op \notin ExprOp,
             st.op = "call" => Calls(f, kind, st.arg),
             st.op = "match_colon_or_back" => f = "CALL_PARAM"
      PROVE  st \in Fitting(f, kind)
  BY <1>1, <1>2 DEF Fitting
<1>3. \A x \in Ahead : Match(x) \in Fitting(f, kind)
  BY <1>1, <1>2, Fields
<1>4. \A g \in Function : Calls(f, kind, g) => Call(g) \in Fitting(f, kind)
  BY <1>1, <1>2, Fields
<1>5. \A x \in Op \ Special : If(x) \in Fitting(f, kind) /\ Do(x) \in Fitting(f, kind)
  BY <1>1, <1>2, Fields
<1> QED
  BY <1>3, <1>4, <1>5

\* What the functions with a block may have among their statements.
LEMMA FitsBlock ==
    ASSUME NEW f \in {"FUNC_DECL", "BRANCH", "ELSE_IF", "WHILE_LOOP", "FOR_LOOP"}, NEW kind
    PROVE  /\ \A x \in BlockOp \ {"gen_while_start", "gen_for_start"} : Do(x) \in Fitting(f, kind)
           /\ f = "WHILE_LOOP" => Do("gen_while_start") \in Fitting(f, kind)
           /\ f = "FOR_LOOP" => Do("gen_for_start") \in Fitting(f, kind)
           /\ f = "BRANCH" => \A x \in BranchOp : Do(x) \in Fitting(f, kind)
           /\ f \in {"BRANCH", "ELSE_IF"} => \A x \in SkipOp : Do(x) \in Fitting(f, kind)
<1>1. BlockOp \subseteq Op /\ BranchOp \subseteq Op /\ SkipOp \subseteq Op
  BY DEF BlockOp, BranchOp, SkipOp, Op
<1>2. \A x \in BlockOp : /\ x \notin BranchOp /\ x \notin SkipOp /\ x \notin BracketOp
                         /\ x \notin ExprOp /\ x # "call" /\ x # "match_colon_or_back"
  BY DEF BlockOp, BranchOp, SkipOp, BracketOp, ExprOp
<1>3. \A x \in BranchOp : /\ x \notin BlockOp /\ x \notin SkipOp /\ x \notin BracketOp
                          /\ x \notin ExprOp /\ x # "call" /\ x # "match_colon_or_back"
  BY DEF BlockOp, BranchOp, SkipOp, BracketOp, ExprOp
<1>4. \A x \in SkipOp : /\ x \notin BlockOp /\ x \notin BranchOp /\ x \notin BracketOp
                        /\ x \notin ExprOp /\ x # "call" /\ x # "match_colon_or_back"
  BY DEF BlockOp, BranchOp, SkipOp, BracketOp, ExprOp
<1>5. /\ f # "EXPR"
      /\ \A x \in BranchOp \cup SkipOp : x # "gen_while_start" /\ x # "gen_for_start"
  BY DEF BranchOp, SkipOp
<1>6. \A x \in BlockOp \ {"gen_while_start", "gen_for_start"} : Do(x) \in Fitting(f, kind)
  BY <1>1, <1>2, <1>5, Fields DEF Fitting
<1>9. "gen_while_start" \in BlockOp /\ "gen_for_start" \in BlockOp
  BY DEF BlockOp
<1>10. f = "WHILE_LOOP" => Do("gen_while_start") \in Fitting(f, kind)
  BY <1>1, <1>2, <1>5, <1>9, Fields DEF Fitting
<1>11. f = "FOR_LOOP" => Do("gen_for_start") \in Fitting(f, kind)
  BY <1>1, <1>2, <1>5, <1>9, Fields DEF Fitting
<1>7. f = "BRANCH" => \A x \in BranchOp : Do(x) \in Fitting(f, kind)
  BY <1>1, <1>3, <1>5, Fields DEF Fitting
<1>8. f \in {"BRANCH", "ELSE_IF"} => \A x \in SkipOp : Do(x) \in Fitting(f, kind)
  BY <1>1, <1>4, <1>5, Fields DEF Fitting
<1> QED
  BY <1>6, <1>7, <1>8, <1>10, <1>11

\* FUNC_DECL closes its two scopes and leaves the function, whatever fails.
LEMMA FreshFunction ==
    ASSUME NEW t \in Ahead
    PROVE  Fresh("FUNC_DECL", t, FUNC_DECL(t))
<1> DEFINE L == FUNC_DECL(t)
<1> DEFINE F == Fitting("FUNC_DECL", t)
<1>1. L \in Seq(F)
  <2>1. /\ Match("func") \in F /\ Match("id") \in F /\ Match("(") \in F /\ Match(")") \in F
        /\ Match("lbrace") \in F /\ Match("rbrace") \in F
    BY FitsAnywhere DEF Function, Ahead, Kind
  <2>2. /\ Call("PARAM_LIST") \in F /\ Call("FUNC_RET_TYPE") \in F /\ Call("CODE") \in F
    BY FitsAnywhere DEF Function, Block, Calls
  <2>3. /\ If("check_first_pass") \in F /\ If("end_of_func") \in F
    BY FitsAnywhere DEF Function, Op, Special, Pairing, BlockOp, BranchOp, SkipOp, BracketOp, ExprOp
  <2>4. /\ Do("enter_func") \in F /\ Do("increase_scope") \in F
        /\ Do("increase_inner_scope") \in F /\ Do("leave_func") \in F
        /\ Do("decrease_inner_scope") \in F /\ Do("decrease_scope") \in F
    BY FitsBlock DEF BlockOp
  <2> HIDE DEF F
  <2> QED
    BY <2>1, <2>2, <2>3, <2>4 DEF FUNC_DECL
<1>2. /\ L[1].op = "match" /\ L[2].op = "enter_func" /\ L[3].op = "match"
      /\ L[4].op = "match" /\ L[5].op = "increase_scope" /\ L[6].op = "call"
      /\ L[6].arg = "PARAM_LIST" /\ L[7].op = "check_first_pass"
      /\ L[8].op = "increase_inner_scope" /\ L[9].op = "match" /\ L[10].op = "call"
      /\ L[10].arg = "FUNC_RET_TYPE" /\ L[11].op = "match" /\ L[12].op = "call"
      /\ L[12].arg = "CODE" /\ L[13].op = "end_of_func" /\ L[14].op = "match"
      /\ L[15].op = "leave_func" /\ L[16].op = "decrease_inner_scope"
      /\ L[17].op = "decrease_scope" /\ Len(L) = 17
  BY Fields DEF FUNC_DECL
<1> HIDE DEF L
<1>3. \A i \in 1..17 : i \in {1, 2, 3, 4, 5, 6, 7, 8, 9, 10, 11, 12, 13, 14, 15, 16, 17}
  OBVIOUS
<1>4. Ordered("FUNC_DECL", t, L)
  BY <1>2, <1>3 DEF Ordered, Pending, Openers, Closer
<1>5. Opens(L, "func", 2, 15)
  BY <1>2, <1>3 DEF Opens, Openers, Closer
<1>6. Opens(L, "scope", 5, 17)
  BY <1>2, <1>3 DEF Opens, Openers, Closer
<1>7. Opens(L, "inner_scope", 8, 16)
  BY <1>2, <1>3 DEF Opens, Openers, Closer
<1>8. ASSUME NEW k \in Thing \ {"func", "scope", "inner_scope"} PROVE Bare(L, k)
  BY <1>2, <1>3, <1>8, ThingTouched DEF Bare
<1>9. L \in Seq(Statements)
  BY <1>1 DEF Fitting
<1>10. ASSUME NEW k \in Thing PROVE Neat(L, k) /\ ~Owes(L, k)
  <2>1. Neat(L, "func") /\ ~Owes(L, "func")
    BY <1>5, <1>9, OpensIsNeat
  <2>2. Neat(L, "scope") /\ ~Owes(L, "scope")
    BY <1>6, <1>9, OpensIsNeat
  <2>3. Neat(L, "inner_scope") /\ ~Owes(L, "inner_scope")
    BY <1>7, <1>9, OpensIsNeat
  <2>4. CASE k \notin {"func", "scope", "inner_scope"}
    BY <1>8, <1>9, <2>4, BareIsNeat
  <2> QED
    BY <2>1, <2>2, <2>3, <2>4
<1> QED
  BY <1>1, <1>4, <1>10 DEF Fresh, Good, L

\* BRANCH takes both of its labels back, closes its scope and leaves the branch,
\* whatever fails.
LEMMA FreshBranch ==
    ASSUME NEW t \in Ahead
    PROVE  Fresh("BRANCH", t, BRANCH(t))
<1> DEFINE L == BRANCH(t)
<1> DEFINE F == Fitting("BRANCH", t)
<1>1. L \in Seq(F)
  <2>1. /\ Match("if") \in F /\ Match("lbrace") \in F /\ Match("rbrace") \in F
    BY FitsAnywhere DEF Function, Ahead, Kind
  <2>2. /\ Call("BR_EXPR") \in F /\ Call("CODE") \in F /\ Call("ELSE") \in F
    BY FitsAnywhere DEF Function, Block, Calls
  <2>3. /\ Do("increase_scope") \in F /\ Do("enter_branch") \in F
        /\ Do("decrease_scope") \in F /\ Do("leave_branch") \in F
    BY FitsBlock DEF BlockOp
  <2>4. /\ Do("gen_branch_labels") \in F /\ Do("gen_branch_end") \in F
    BY FitsBlock DEF BranchOp
  <2>5. /\ Do("gen_branch_if_end") \in F
    BY FitsBlock DEF SkipOp
  <2> HIDE DEF F
  <2> QED
    BY <2>1, <2>2, <2>3, <2>4, <2>5 DEF BRANCH
<1>2. /\ L[1].op = "gen_branch_labels" /\ L[2].op = "match" /\ L[3].op = "increase_scope"
      /\ L[4].op = "call" /\ L[4].arg = "BR_EXPR" /\ L[5].op = "match"
      /\ L[6].op = "enter_branch" /\ L[7].op = "call" /\ L[7].arg = "CODE"
      /\ L[8].op = "match" /\ L[9].op = "decrease_scope" /\ L[10].op = "gen_branch_if_end"
      /\ L[11].op = "call" /\ L[11].arg = "ELSE" /\ L[12].op = "gen_branch_end"
      /\ L[13].op = "leave_branch" /\ Len(L) = 13
  BY Fields DEF BRANCH
<1> HIDE DEF L
<1>3. \A i \in 1..13 : i \in {1, 2, 3, 4, 5, 6, 7, 8, 9, 10, 11, 12, 13}
  OBVIOUS
<1>4. Ordered("BRANCH", t, L)
  BY <1>2, <1>3 DEF Ordered, Pending, Openers, Closer
<1>5. Opens(L, "scope", 3, 9)
  BY <1>2, <1>3 DEF Opens, Openers, Closer
<1>6. Opens(L, "branch", 6, 13)
  BY <1>2, <1>3 DEF Opens, Openers, Closer
<1>7. Opens(L, "end_label", 1, 12)
  BY <1>2, <1>3 DEF Opens, Openers, Closer
<1>8. Opens(L, "skip_label", 1, 10)
  BY <1>2, <1>3 DEF Opens, Openers, Closer
<1>9. ASSUME NEW k \in Thing \ {"scope", "branch", "end_label", "skip_label"} PROVE Bare(L, k)
  BY <1>2, <1>3, <1>9, ThingTouched DEF Bare
<1>10. L \in Seq(Statements)
  BY <1>1 DEF Fitting
<1>11. ASSUME NEW k \in Thing PROVE Neat(L, k) /\ ~Owes(L, k)
  <2>1. Neat(L, "scope") /\ ~Owes(L, "scope")
    BY <1>5, <1>10, OpensIsNeat
  <2>2. Neat(L, "branch") /\ ~Owes(L, "branch")
    BY <1>6, <1>10, OpensIsNeat
  <2>3. Neat(L, "end_label") /\ ~Owes(L, "end_label")
    BY <1>7, <1>10, OpensIsNeat
  <2>4. Neat(L, "skip_label") /\ ~Owes(L, "skip_label")
    BY <1>8, <1>10, OpensIsNeat
  <2>5. CASE k \notin {"scope", "branch", "end_label", "skip_label"}
    BY <1>9, <1>10, <2>5, BareIsNeat
  <2> QED
    BY <2>1, <2>2, <2>3, <2>4, <2>5
<1> QED
  BY <1>1, <1>4, <1>11 DEF Fresh, Good, L

\* An "else if" takes its skip label back and closes its scope.
LEMMA FreshElseIf ==
    ASSUME NEW t \in Ahead, t = "if"
    PROVE  Fresh("ELSE_IF", t, ELSE_IF(t))
<1> DEFINE L == ELSE_IF(t)
<1> DEFINE F == Fitting("ELSE_IF", t)
<1>1. L \in Seq(F)
  <2>1. /\ Match("if") \in F /\ Match("lbrace") \in F /\ Match("rbrace") \in F
    BY FitsAnywhere DEF Function, Ahead, Kind
  <2>2. /\ Call("BR_EXPR") \in F /\ Call("CODE") \in F /\ Call("ELSE") \in F
    BY FitsAnywhere DEF Function, Block, Calls
  <2>3. /\ Do("increase_scope") \in F /\ Do("decrease_scope") \in F
    BY FitsBlock DEF BlockOp
  <2>4. /\ Do("gen_skip_label") \in F /\ Do("gen_branch_if_end") \in F
    BY FitsBlock DEF SkipOp
  <2> HIDE DEF F
  <2> QED
    BY <2>1, <2>2, <2>3, <2>4 DEF ELSE_IF
<1>2. /\ L[1].op = "gen_skip_label" /\ L[2].op = "match" /\ L[3].op = "increase_scope"
      /\ L[4].op = "call" /\ L[4].arg = "BR_EXPR" /\ L[5].op = "match" /\ L[6].op = "call"
      /\ L[6].arg = "CODE" /\ L[7].op = "match" /\ L[8].op = "decrease_scope"
      /\ L[9].op = "gen_branch_if_end" /\ L[10].op = "call" /\ L[10].arg = "ELSE"
      /\ Len(L) = 10
  BY Fields DEF ELSE_IF
<1> HIDE DEF L
<1>3. \A i \in 1..10 : i \in {1, 2, 3, 4, 5, 6, 7, 8, 9, 10}
  OBVIOUS
<1>4. Ordered("ELSE_IF", t, L)
  BY <1>2, <1>3 DEF Ordered, Pending, Openers, Closer
<1>5. Opens(L, "scope", 3, 8)
  BY <1>2, <1>3 DEF Opens, Openers, Closer
<1>6. Opens(L, "skip_label", 1, 9)
  BY <1>2, <1>3 DEF Opens, Openers, Closer
<1>7. ASSUME NEW k \in Thing \ {"scope", "skip_label"} PROVE Bare(L, k)
  BY <1>2, <1>3, <1>7, ThingTouched DEF Bare
<1>8. L \in Seq(Statements)
  BY <1>1 DEF Fitting
<1>9. ASSUME NEW k \in Thing PROVE Neat(L, k) /\ ~Owes(L, k)
  <2>1. Neat(L, "scope") /\ ~Owes(L, "scope")
    BY <1>5, <1>8, OpensIsNeat
  <2>2. Neat(L, "skip_label") /\ ~Owes(L, "skip_label")
    BY <1>6, <1>8, OpensIsNeat
  <2>3. CASE k \notin {"scope", "skip_label"}
    BY <1>7, <1>8, <2>3, BareIsNeat
  <2> QED
    BY <2>1, <2>2, <2>3
<1> QED
  BY <1>1, <1>4, <1>9 DEF Fresh, Good, L

\* A block behind else closes its scope.
LEMMA FreshElseBlock ==
    ASSUME NEW t \in Ahead, t = "lbrace"
    PROVE  Fresh("ELSE_IF", t, ELSE_IF(t))
<1> DEFINE L == ELSE_IF(t)
<1> DEFINE F == Fitting("ELSE_IF", t)
<1>1. L \in Seq(F)
  <2>1. /\ Match("lbrace") \in F /\ Match("rbrace") \in F
    BY FitsAnywhere DEF Function, Ahead, Kind
  <2>2. /\ Call("CODE") \in F
    BY FitsAnywhere DEF Function, Block, Calls
  <2>3. /\ Do("increase_scope") \in F /\ Do("decrease_scope") \in F
    BY FitsBlock DEF BlockOp
  <2> HIDE DEF F
  <2> QED
    BY <2>1, <2>2, <2>3 DEF ELSE_IF
<1>2. /\ L[1].op = "match" /\ L[2].op = "increase_scope" /\ L[3].op = "call"
      /\ L[3].arg = "CODE" /\ L[4].op = "match" /\ L[5].op = "decrease_scope" /\ Len(L) = 5
  BY Fields DEF ELSE_IF
<1> HIDE DEF L
<1>3. \A i \in 1..5 : i \in {1, 2, 3, 4, 5}
  OBVIOUS
<1>4. Ordered("ELSE_IF", t, L)
  BY <1>2, <1>3 DEF Ordered, Pending, Openers, Closer
<1>5. Opens(L, "scope", 2, 5)
  BY <1>2, <1>3 DEF Opens, Openers, Closer
<1>6. ASSUME NEW k \in Thing \ {"scope"} PROVE Bare(L, k)
  BY <1>2, <1>3, <1>6, ThingTouched DEF Bare
<1>7. L \in Seq(Statements)
  BY <1>1 DEF Fitting
<1>8. ASSUME NEW k \in Thing PROVE Neat(L, k) /\ ~Owes(L, k)
  <2>1. Neat(L, "scope") /\ ~Owes(L, "scope")
    BY <1>5, <1>7, OpensIsNeat
  <2>2. CASE k \notin {"scope"}
    BY <1>6, <1>7, <2>2, BareIsNeat
  <2> QED
    BY <2>1, <2>2
<1> QED
  BY <1>1, <1>4, <1>8 DEF Fresh, Good, L

\* WHILE_LOOP leaves the loop, closes its scope and gives up its labels.
LEMMA FreshWhile ==
    ASSUME NEW t \in Ahead
    PROVE  Fresh("WHILE_LOOP", t, WHILE_LOOP(t))
<1> DEFINE L == WHILE_LOOP(t)
<1> DEFINE F == Fitting("WHILE_LOOP", t)
<1>1. L \in Seq(F)
  <2>1. /\ Match("while") \in F /\ Match("lbrace") \in F /\ Match("rbrace") \in F
    BY FitsAnywhere DEF Function, Ahead, Kind
  <2>2. /\ Call("EXPR") \in F /\ Call("CODE") \in F
    BY FitsAnywhere DEF Function, Block, Calls
  <2>3. /\ If("check") \in F
    BY FitsAnywhere DEF Function, Op, Special, Pairing, BlockOp, BranchOp, SkipOp, BracketOp, ExprOp
  <2>4. /\ Do("enter_loop") \in F /\ Do("gen_while_start") \in F
        /\ Do("increase_scope") \in F /\ Do("decrease_scope") \in F
        /\ Do("gen_loop_end") \in F /\ Do("leave_loop") \in F
    BY FitsBlock DEF BlockOp
  <2> HIDE DEF F
  <2> QED
    BY <2>1, <2>2, <2>3, <2>4 DEF WHILE_LOOP
<1>2. /\ L[1].op = "enter_loop" /\ L[2].op = "match" /\ L[3].op = "gen_while_start"
      /\ L[4].op = "call" /\ L[4].arg = "EXPR" /\ L[5].op = "check" /\ L[6].op = "match"
      /\ L[7].op = "increase_scope" /\ L[8].op = "call" /\ L[8].arg = "CODE"
      /\ L[9].op = "match" /\ L[10].op = "decrease_scope" /\ L[11].op = "gen_loop_end"
      /\ L[12].op = "leave_loop" /\ Len(L) = 12
  BY Fields DEF WHILE_LOOP
<1> HIDE DEF L
<1>3. \A i \in 1..12 : i \in {1, 2, 3, 4, 5, 6, 7, 8, 9, 10, 11, 12}
  OBVIOUS
<1>4. Ordered("WHILE_LOOP", t, L)
  BY <1>2, <1>3 DEF Ordered, Pending, Openers, Closer
<1>5. Opens(L, "scope", 7, 10)
  BY <1>2, <1>3 DEF Opens, Openers, Closer
<1>6. Opens(L, "loop", 1, 12)
  BY <1>2, <1>3 DEF Opens, Openers, Closer
<1>7. Opens(L, "loop_label", 3, 11)
  BY <1>2, <1>3 DEF Opens, Openers, Closer
<1>8. ASSUME NEW k \in Thing \ {"scope", "loop", "loop_label"} PROVE Bare(L, k)
  BY <1>2, <1>3, <1>8, ThingTouched DEF Bare
<1>9. L \in Seq(Statements)
  BY <1>1 DEF Fitting
<1>10. ASSUME NEW k \in Thing PROVE Neat(L, k) /\ ~Owes(L, k)
  <2>1. Neat(L, "scope") /\ ~Owes(L, "scope")
    BY <1>5, <1>9, OpensIsNeat
  <2>2. Neat(L, "loop") /\ ~Owes(L, "loop")
    BY <1>6, <1>9, OpensIsNeat
  <2>3. Neat(L, "loop_label") /\ ~Owes(L, "loop_label")
    BY <1>7, <1>9, OpensIsNeat
  <2>4. CASE k \notin {"scope", "loop", "loop_label"}
    BY <1>8, <1>9, <2>4, BareIsNeat
  <2> QED
    BY <2>1, <2>2, <2>3, <2>4
<1> QED
  BY <1>1, <1>4, <1>10 DEF Fresh, Good, L

\* FOR_LOOP leaves the loop, closes both scopes and gives up its labels.
LEMMA FreshFor ==
    ASSUME NEW t \in Ahead
    PROVE  Fresh("FOR_LOOP", t, FOR_LOOP(t))
<1> DEFINE L == FOR_LOOP(t)
<1> DEFINE F == Fitting("FOR_LOOP", t)
<1>1. L \in Seq(F)
  <2>1. /\ Match("for") \in F /\ Match("in") \in F /\ Match("lbrace") \in F
        /\ Match("rbrace") \in F
    BY FitsAnywhere DEF Function, Ahead, Kind
  <2>2. /\ Call("FOR_ID") \in F /\ Call("EXPR") \in F /\ Call("RANGE") \in F
        /\ Call("CODE") \in F
    BY FitsAnywhere DEF Function, Block, Calls
  <2>3. /\ Do("add_for_let") \in F /\ If("check") \in F
    BY FitsAnywhere DEF Function, Op, Special, Pairing, BlockOp, BranchOp, SkipOp, BracketOp, ExprOp
  <2>4. /\ Do("enter_loop") \in F /\ Do("increase_scope") \in F /\ Do("gen_for_start") \in F
        /\ Do("increase_inner_scope") \in F /\ Do("decrease_inner_scope") \in F
        /\ Do("gen_loop_end") \in F /\ Do("decrease_scope") \in F /\ Do("leave_loop") \in F
    BY FitsBlock DEF BlockOp
  <2> HIDE DEF F
  <2> QED
    BY <2>1, <2>2, <2>3, <2>4 DEF FOR_LOOP
<1>2. /\ L[1].op = "enter_loop" /\ L[2].op = "match" /\ L[3].op = "call"
      /\ L[3].arg = "FOR_ID" /\ L[4].op = "increase_scope" /\ L[5].op = "add_for_let"
      /\ L[6].op = "match" /\ L[7].op = "call" /\ L[7].arg = "EXPR" /\ L[8].op = "check"
      /\ L[9].op = "call" /\ L[9].arg = "RANGE" /\ L[10].op = "gen_for_start"
      /\ L[11].op = "match" /\ L[12].op = "increase_inner_scope" /\ L[13].op = "call"
      /\ L[13].arg = "CODE" /\ L[14].op = "match" /\ L[15].op = "decrease_inner_scope"
      /\ L[16].op = "gen_loop_end" /\ L[17].op = "decrease_scope" /\ L[18].op = "leave_loop"
      /\ Len(L) = 18
  BY Fields DEF FOR_LOOP
<1> HIDE DEF L
<1>3. \A i \in 1..18 : i \in {1, 2, 3, 4, 5, 6, 7, 8, 9, 10, 11, 12, 13, 14, 15, 16, 17, 18}
  OBVIOUS
<1>4. Ordered("FOR_LOOP", t, L)
  BY <1>2, <1>3 DEF Ordered, Pending, Openers, Closer
<1>5. Opens(L, "scope", 4, 17)
  BY <1>2, <1>3 DEF Opens, Openers, Closer
<1>6. Opens(L, "inner_scope", 12, 15)
  BY <1>2, <1>3 DEF Opens, Openers, Closer
<1>7. Opens(L, "loop", 1, 18)
  BY <1>2, <1>3 DEF Opens, Openers, Closer
<1>8. Opens(L, "loop_label", 10, 16)
  BY <1>2, <1>3 DEF Opens, Openers, Closer
<1>9. ASSUME NEW k \in Thing \ {"scope", "inner_scope", "loop", "loop_label"} PROVE Bare(L, k)
  BY <1>2, <1>3, <1>9, ThingTouched DEF Bare
<1>10. L \in Seq(Statements)
  BY <1>1 DEF Fitting
<1>11. ASSUME NEW k \in Thing PROVE Neat(L, k) /\ ~Owes(L, k)
  <2>1. Neat(L, "scope") /\ ~Owes(L, "scope")
    BY <1>5, <1>10, OpensIsNeat
  <2>2. Neat(L, "inner_scope") /\ ~Owes(L, "inner_scope")
    BY <1>6, <1>10, OpensIsNeat
  <2>3. Neat(L, "loop") /\ ~Owes(L, "loop")
    BY <1>7, <1>10, OpensIsNeat
  <2>4. Neat(L, "loop_label") /\ ~Owes(L, "loop_label")
    BY <1>8, <1>10, OpensIsNeat
  <2>5. CASE k \notin {"scope", "inner_scope", "loop", "loop_label"}
    BY <1>9, <1>10, <2>5, BareIsNeat
  <2> QED
    BY <2>1, <2>2, <2>3, <2>4, <2>5
<1> QED
  BY <1>1, <1>4, <1>11 DEF Fresh, Good, L

\* NEXT_ID_CALL_OR_ASSIGN clears ignore_right_bracket where it set it.
LEMMA FreshCall ==
    ASSUME NEW t \in Ahead, t = "("
    PROVE  Fresh("NEXT_ID_CALL_OR_ASSIGN", t, NEXT_ID_CALL_OR_ASSIGN(t))
<1> DEFINE L == NEXT_ID_CALL_OR_ASSIGN(t)
<1> DEFINE F == Fitting("NEXT_ID_CALL_OR_ASSIGN", t)
<1>1. L \in Seq(F)
  <2>1. /\ Match("(") \in F /\ Match(")") \in F
    BY FitsAnywhere DEF Function, Ahead, Kind
  <2>2. /\ Call("CALL_PARAM_LIST") \in F
    BY FitsAnywhere DEF Function, Block, Calls
  <2>3. /\ Do("check") \in F
    BY FitsAnywhere DEF Function, Op, Special, Pairing, BlockOp, BranchOp, SkipOp, BracketOp, ExprOp
  <2>4. /\ Do("ignore_on") \in F /\ Do("ignore_off") \in F
    BY Fields DEF Fitting, Op, Pairing, BlockOp, BranchOp, SkipOp, BracketOp, ExprOp
  <2> HIDE DEF F
  <2> QED
    BY <2>1, <2>2, <2>3, <2>4 DEF NEXT_ID_CALL_OR_ASSIGN
<1>2. /\ L[1].op = "match" /\ L[2].op = "ignore_on" /\ L[3].op = "check" /\ L[4].op = "call"
      /\ L[4].arg = "CALL_PARAM_LIST" /\ L[5].op = "match" /\ L[6].op = "ignore_off"
      /\ Len(L) = 6
  BY Fields DEF NEXT_ID_CALL_OR_ASSIGN
<1> HIDE DEF L
<1>3. \A i \in 1..6 : i \in {1, 2, 3, 4, 5, 6}
  OBVIOUS
<1>4. Ordered("NEXT_ID_CALL_OR_ASSIGN", t, L)
  BY <1>2, <1>3 DEF Ordered, Pending, Openers, Closer
<1>5. Opens(L, "bracket", 2, 6)
  BY <1>2, <1>3 DEF Opens, Openers, Closer
<1>6. ASSUME NEW k \in Thing \ {"bracket"} PROVE Bare(L, k)
  BY <1>2, <1>3, <1>6, ThingTouched DEF Bare
<1>7. L \in Seq(Statements)
  BY <1>1 DEF Fitting
<1>8. ASSUME NEW k \in Thing PROVE Neat(L, k) /\ ~Owes(L, k)
  <2>1. Neat(L, "bracket") /\ ~Owes(L, "bracket")
    BY <1>5, <1>7, OpensIsNeat
  <2>2. CASE k \notin {"bracket"}
    BY <1>6, <1>7, <2>2, BareIsNeat
  <2> QED
    BY <2>1, <2>2
<1> QED
  BY <1>1, <1>4, <1>8 DEF Fresh, Good, L

\* The lists of the other functions open and close nothing.
Plain(f, kind) ==
    {st \in Fitting(f, kind) : st.op \notin Pairing /\ ~(st.op = "call" /\ st.arg = "ELSE")}

\* What any function but parse_expr may have among its statements.
LEMMA PlainAnywhere ==
    ASSUME NEW f \in Function \ {"EXPR"}, NEW kind
    PROVE  /\ \A x \in Ahead : Match(x) \in Plain(f, kind)
           /\ \A g \in Function \ {"ELSE"} : Calls(f, kind, g) => Call(g) \in Plain(f, kind)
           /\ \A x \in Op \ Special : If(x) \in Plain(f, kind) /\ Do(x) \in Plain(f, kind)
<1>1. "match" \notin Pairing /\ "call" \notin Pairing /\ "match" # "call"
  BY DEF Pairing, BlockOp, BranchOp, SkipOp, BracketOp
<1>2. \A x \in Op \ Special : x \notin Pairing /\ x # "call"
  BY DEF Special
<1>3. \A x \in Ahead : Match(x) \in Plain(f, kind)
  BY <1>1, FitsAnywhere, Fields DEF Plain
<1>4. \A g \in Function \ {"ELSE"} : Calls(f, kind, g) => Call(g) \in Plain(f, kind)
  BY <1>1, FitsAnywhere, Fields DEF Plain
<1>5. \A x \in Op \ Special : If(x) \in Plain(f, kind) /\ Do(x) \in Plain(f, kind)
  BY <1>2, FitsAnywhere, Fields DEF Plain
<1> QED
  BY <1>3, <1>4, <1>5

\* A function of such statements owes nothing.
LEMMA FreshPlain ==
    ASSUME NEW f, NEW kind, f \notin {"EXPR", "CALL_PARAM"},
           f \notin {"WHILE_LOOP", "FOR_LOOP"}, f = "NEXT_ID_CALL_OR_ASSIGN" => kind # "(",
           NEW t \in Seq(Plain(f, kind))
    PROVE  Fresh(f, kind, t)
<1>1. t \in Seq(Fitting(f, kind)) /\ \A i \in 1..Len(t) : t[i] \in Plain(f, kind)
  BY DEF Plain
<1>2. \A i \in 1..Len(t) : t[i].op \notin Pairing /\ ~(t[i].op = "call" /\ t[i].arg = "ELSE")
  BY <1>1 DEF Plain
<1>3. \A k \in Thing : Neat(t, k) /\ ~Owes(t, k)
  BY <1>2, PlainIsNeat
<1>4. "gen_branch_end" \in Pairing /\ "gen_branch_if_end" \in Pairing
  BY DEF Pairing, BranchOp, SkipOp
<1>5. Ordered(f, kind, t)
  BY <1>2, <1>4 DEF Ordered
<1> QED
  BY <1>1, <1>3, <1>5 DEF Fresh, Good

\* Reject, and a call of the function for an argument.
LEMMA PlainReject ==
    ASSUME NEW f \in Function \ {"EXPR"}, NEW kind
    PROVE  Reject \in Seq(Plain(f, kind)) /\ Accept \in Seq(Plain(f, kind))
<1>1. If("reject") \in Plain(f, kind)
  BY PlainAnywhere DEF Op, Special, Pairing, BlockOp, BranchOp, SkipOp, BracketOp, ExprOp
<1> QED
  BY <1>1 DEF Reject, Accept

\* CALL_PARAM owes nothing; it steps back behind its first token only.
LEMMA FreshArgument ==
    ASSUME NEW t \in Ahead
    PROVE  Fresh("CALL_PARAM", t, CALL_PARAM(t))
<1> DEFINE L == CALL_PARAM(t)
<1> DEFINE P == Plain("CALL_PARAM", t)
<1>1. Match("id") \in P
  BY PlainAnywhere DEF Function, Ahead, Kind
<1>2. Call("EXPR") \in P
  BY PlainAnywhere DEF Function, Block, Calls
<1>3. /\ Do("check_arg") \in P /\ If("reject") \in P
  BY PlainAnywhere
     DEF Function, Op, Special, Pairing, BlockOp, BranchOp, SkipOp, BracketOp, ExprOp
<1>7. Do("match_colon_or_back") \in P
  BY Fields DEF Plain, Fitting, Op, Pairing, BlockOp, BranchOp, SkipOp, BracketOp, ExprOp
<1> HIDE DEF P
<1>4. L \in Seq(P) /\ Ordered("CALL_PARAM", t, L)
  <2>1. CASE t = "id"
    <3>1. L = <<Match("id"), Do("match_colon_or_back"), Call("EXPR"), Do("check_arg")>>
      BY <2>1 DEF CALL_PARAM
    <3> HIDE DEF L
    <3>2. L \in Seq(P)
      BY <3>1, <1>1, <1>2, <1>3, <1>7
    <3>3. /\ L[1].op = "match" /\ L[1].arg = "id" /\ L[2].op = "match_colon_or_back"
          /\ L[3].op = "call" /\ L[3].arg = "EXPR" /\ L[4].op = "check_arg" /\ Len(L) = 4
      BY <3>1, Fields
    <3>4. \A i \in 1..4 : i \in {1, 2, 3, 4}
      OBVIOUS
    <3>5. Ordered("CALL_PARAM", t, L)
      BY <3>3, <3>4, <2>1 DEF Ordered
    <3> QED
      BY <3>2, <3>5
  <2>2. CASE t \in FirstOfExpr \ {"id"}
    <3>1. L = <<Call("EXPR"), Do("check_arg")>>
      BY <2>2 DEF CALL_PARAM, FirstOfExpr
    <3> HIDE DEF L
    <3>2. L \in Seq(P)
      BY <3>1, <1>2, <1>3
    <3>3. L[1].op = "call" /\ L[1].arg = "EXPR" /\ L[2].op = "check_arg" /\ Len(L) = 2
      BY <3>1, Fields
    <3>4. \A i \in 1..2 : i \in {1, 2}
      OBVIOUS
    <3>5. Ordered("CALL_PARAM", t, L)
      BY <3>3, <3>4 DEF Ordered
    <3> QED
      BY <3>2, <3>5
  <2>3. CASE t # "id" /\ t \notin FirstOfExpr
    <3>1. L = <<If("reject")>>
      BY <2>3 DEF CALL_PARAM, Reject, FirstOfExpr
    <3> HIDE DEF L
    <3>2. L \in Seq(P)
      BY <3>1, <1>3
    <3>3. L[1].op = "reject" /\ Len(L) = 1
      BY <3>1, Fields
    <3>5. Ordered("CALL_PARAM", t, L)
      BY <3>3 DEF Ordered
    <3> QED
      BY <3>2, <3>5
  <2> QED
    BY <2>1, <2>2, <2>3
<1> HIDE DEF L
<1>5. L \in Seq(Fitting("CALL_PARAM", t)) /\ \A i \in 1..Len(L) : L[i].op \notin Pairing
  BY <1>4 DEF P, Plain
<1>6. \A k \in Thing : Neat(L, k) /\ ~Owes(L, k)
  BY <1>5, PlainIsNeat
<1> QED
  BY <1>4, <1>5, <1>6 DEF Fresh, Good, L

\* parse_expr owes nothing until it calls a function.
LEMMA FreshExpr ==
    ASSUME NEW t
    PROVE  Fresh("EXPR", t, EXPR(t))
<1> DEFINE L == EXPR(t)
<1>1. /\ Do("next_token") \in Fitting("EXPR", t) /\ Do("operand") \in Fitting("EXPR", t)
      /\ Do("after_operand") \in Fitting("EXPR", t)
  BY Fields DEF Fitting, Op, Pairing, BlockOp, BranchOp, SkipOp, BracketOp, ExprOp
<1>2. L \in Seq(Fitting("EXPR", t))
  BY <1>1 DEF EXPR
<1>3. /\ L[1].op = "next_token" /\ L[2].op = "operand" /\ L[3].op = "next_token"
      /\ L[4].op = "after_operand" /\ Len(L) = 4
  BY Fields DEF EXPR
<1> HIDE DEF L
<1>4. \A i \in 1..4 : i \in {1, 2, 3, 4}
  OBVIOUS
<1>5. ExprList(L)
  BY <1>3 DEF ExprList
<1>6. Ordered("EXPR", t, L)
  BY <1>3, <1>4 DEF Ordered
<1>7. \A i \in 1..Len(L) : L[i].op \notin Pairing
  BY <1>3, <1>4 DEF Pairing, BlockOp, BranchOp, SkipOp, BracketOp
<1>8. \A k \in Thing : Neat(L, k) /\ ~Owes(L, k)
  BY <1>7, PlainIsNeat
<1> QED
  BY <1>2, <1>5, <1>6, <1>8 DEF Fresh, Good, L

\* The lists, function by function.
LEMMA Plain_S ==
    ASSUME NEW t \in Ahead
    PROVE  S(t) \in Seq(Plain("S", t))
<1> DEFINE P == Plain("S", t)
<1>1. "S" \in Function \ {"EXPR"}
  BY DEF Function
<1>2. Reject \in Seq(P) /\ Accept \in Seq(P)
  BY <1>1, PlainReject
<1>3. /\ Match("eof") \in P
  BY <1>1, PlainAnywhere DEF Ahead, Kind
<1>4. /\ Call("CODE") \in P
  BY <1>1, PlainAnywhere DEF Function, Block, Calls
<1> HIDE DEF P
<1>20. S(t) \in Seq(P)
  BY <1>2, <1>3, <1>4 DEF S
<1> QED
  BY <1>20 DEF P

\* The statements of CODE are plain.
LEMMA Plain_CODE ==
    ASSUME NEW t \in Ahead
    PROVE  CODE(t) \in Seq(Plain("CODE", t))
<1> DEFINE P == Plain("CODE", t)
<1>1. "CODE" \in Function \ {"EXPR"}
  BY DEF Function
<1>2. Reject \in Seq(P) /\ Accept \in Seq(P)
  BY <1>1, PlainReject
<1>3. /\ Match("break") \in P /\ Match("continue") \in P
  BY <1>1, PlainAnywhere DEF Ahead, Kind
<1>4. /\ Call("CODE") \in P /\ Call("RETURN") \in P
  BY <1>1, PlainAnywhere DEF Function, Block, Calls
<1>5. /\ \A x \in DOMAIN Statement : Call(Statement[x]) \in P
  BY <1>1, PlainAnywhere DEF Function, Block, Calls, Statement
<1>6. /\ If("nl_check") \in P /\ Do("gen_break") \in P /\ Do("gen_continue") \in P
  BY <1>1, PlainAnywhere
     DEF Op, Special, Pairing, BlockOp, BranchOp, SkipOp, BracketOp, ExprOp
<1> HIDE DEF P
<1>20. CODE(t) \in Seq(P)
  BY <1>2, <1>3, <1>4, <1>5, <1>6 DEF CODE
<1> QED
  BY <1>20 DEF P

\* So are those of RETURN.
LEMMA Plain_RETURN ==
    ASSUME NEW t \in Ahead
    PROVE  RETURN(t) \in Seq(Plain("RETURN", t))
<1> DEFINE P == Plain("RETURN", t)
<1>1. "RETURN" \in Function \ {"EXPR"}
  BY DEF Function
<1>2. Reject \in Seq(P) /\ Accept \in Seq(P)
  BY <1>1, PlainReject
<1>3. /\ Match("return") \in P
  BY <1>1, PlainAnywhere DEF Ahead, Kind
<1>4. /\ Call("RET_EXPR") \in P
  BY <1>1, PlainAnywhere DEF Function, Block, Calls
<1>5. /\ Do("has_return") \in P
  BY <1>1, PlainAnywhere
     DEF Op, Special, Pairing, BlockOp, BranchOp, SkipOp, BracketOp, ExprOp
<1> HIDE DEF P
<1>20. RETURN(t) \in Seq(P)
  BY <1>2, <1>3, <1>4, <1>5 DEF RETURN
<1> QED
  BY <1>20 DEF P

\* So are those of RET_EXPR.
LEMMA Plain_RET_EXPR ==
    ASSUME NEW t \in Ahead
    PROVE  RET_EXPR(t) \in Seq(Plain("RET_EXPR", t))
<1> DEFINE P == Plain("RET_EXPR", t)
<1>1. "RET_EXPR" \in Function \ {"EXPR"}
  BY DEF Function
<1>2. Reject \in Seq(P) /\ Accept \in Seq(P)
  BY <1>1, PlainReject
<1>3. /\ Call("EXPR") \in P
  BY <1>1, PlainAnywhere DEF Function, Block, Calls
<1>4. /\ Do("check") \in P /\ Do("has_return") \in P
  BY <1>1, PlainAnywhere
     DEF Op, Special, Pairing, BlockOp, BranchOp, SkipOp, BracketOp, ExprOp
<1> HIDE DEF P
<1>20. RET_EXPR(t) \in Seq(P)
  BY <1>2, <1>3, <1>4 DEF RET_EXPR
<1> QED
  BY <1>20 DEF P

\* So are those of VAR_LET_TYPE.
LEMMA Plain_VAR_LET_TYPE ==
    ASSUME NEW t \in Ahead
    PROVE  VAR_LET_TYPE(t) \in Seq(Plain("VAR_LET_TYPE", t))
<1> DEFINE P == Plain("VAR_LET_TYPE", t)
<1>1. "VAR_LET_TYPE" \in Function \ {"EXPR"}
  BY DEF Function
<1>2. Reject \in Seq(P) /\ Accept \in Seq(P)
  BY <1>1, PlainReject
<1>3. /\ Match(":") \in P
  BY <1>1, PlainAnywhere DEF Ahead, Kind
<1>4. /\ Call("TYPE") \in P
  BY <1>1, PlainAnywhere DEF Function, Block, Calls
<1> HIDE DEF P
<1>20. VAR_LET_TYPE(t) \in Seq(P)
  BY <1>2, <1>3, <1>4 DEF VAR_LET_TYPE
<1> QED
  BY <1>20 DEF P

\* So are those of VAR_LET_EXP.
LEMMA Plain_VAR_LET_EXP ==
    ASSUME NEW t \in Ahead
    PROVE  VAR_LET_EXP(t) \in Seq(Plain("VAR_LET_EXP", t))
<1> DEFINE P == Plain("VAR_LET_EXP", t)
<1>1. "VAR_LET_EXP" \in Function \ {"EXPR"}
  BY DEF Function
<1>2. Reject \in Seq(P) /\ Accept \in Seq(P)
  BY <1>1, PlainReject
<1>3. /\ Match("=") \in P
  BY <1>1, PlainAnywhere DEF Ahead, Kind
<1>4. /\ Call("EXPR") \in P
  BY <1>1, PlainAnywhere DEF Function, Block, Calls
<1>5. /\ Do("needs_type") \in P
  BY <1>1, PlainAnywhere
     DEF Op, Special, Pairing, BlockOp, BranchOp, SkipOp, BracketOp, ExprOp
<1> HIDE DEF P
<1>20. VAR_LET_EXP(t) \in Seq(P)
  BY <1>2, <1>3, <1>4, <1>5 DEF VAR_LET_EXP
<1> QED
  BY <1>20 DEF P

\* So are those of FUNC_RET_TYPE.
LEMMA Plain_FUNC_RET_TYPE ==
    ASSUME NEW t \in Ahead
    PROVE  FUNC_RET_TYPE(t) \in Seq(Plain("FUNC_RET_TYPE", t))
<1> DEFINE P == Plain("FUNC_RET_TYPE", t)
<1>1. "FUNC_RET_TYPE" \in Function \ {"EXPR"}
  BY DEF Function
<1>2. Reject \in Seq(P) /\ Accept \in Seq(P)
  BY <1>1, PlainReject
<1>3. /\ Match("->") \in P
  BY <1>1, PlainAnywhere DEF Ahead, Kind
<1>4. /\ Call("TYPE") \in P
  BY <1>1, PlainAnywhere DEF Function, Block, Calls
<1>5. /\ Do("void") \in P /\ If("typed") \in P
  BY <1>1, PlainAnywhere
     DEF Op, Special, Pairing, BlockOp, BranchOp, SkipOp, BracketOp, ExprOp
<1> HIDE DEF P
<1>20. FUNC_RET_TYPE(t) \in Seq(P)
  BY <1>2, <1>3, <1>4, <1>5 DEF FUNC_RET_TYPE
<1> QED
  BY <1>20 DEF P

\* So are those of PARAM_LIST.
LEMMA Plain_PARAM_LIST ==
    ASSUME NEW t \in Ahead
    PROVE  PARAM_LIST(t) \in Seq(Plain("PARAM_LIST", t))
<1> DEFINE P == Plain("PARAM_LIST", t)
<1>1. "PARAM_LIST" \in Function \ {"EXPR"}
  BY DEF Function
<1>2. Reject \in Seq(P) /\ Accept \in Seq(P)
  BY <1>1, PlainReject
<1>3. /\ Call("PARAM") \in P /\ Call("NEXT_PARAM") \in P
  BY <1>1, PlainAnywhere DEF Function, Block, Calls
<1> HIDE DEF P
<1>20. PARAM_LIST(t) \in Seq(P)
  BY <1>2, <1>3 DEF PARAM_LIST
<1> QED
  BY <1>20 DEF P

\* So are those of PARAM.
LEMMA Plain_PARAM ==
    ASSUME NEW t \in Ahead
    PROVE  PARAM(t) \in Seq(Plain("PARAM", t))
<1> DEFINE P == Plain("PARAM", t)
<1>1. "PARAM" \in Function \ {"EXPR"}
  BY DEF Function
<1>2. Reject \in Seq(P) /\ Accept \in Seq(P)
  BY <1>1, PlainReject
<1>3. /\ Match(t) \in P /\ Match(":") \in P
  BY <1>1, PlainAnywhere DEF Ahead, Kind
<1>4. /\ Call("TYPE") \in P
  BY <1>1, PlainAnywhere DEF Function, Block, Calls
<1>5. /\ If("match_id_or_underscore") \in P /\ If("check_both_passes") \in P
  BY <1>1, PlainAnywhere
     DEF Op, Special, Pairing, BlockOp, BranchOp, SkipOp, BracketOp, ExprOp
<1> HIDE DEF P
<1>20. PARAM(t) \in Seq(P)
  BY <1>2, <1>3, <1>4, <1>5 DEF PARAM
<1> QED
  BY <1>20 DEF P

\* So are those of NEXT_PARAM.
LEMMA Plain_NEXT_PARAM ==
    ASSUME NEW t \in Ahead
    PROVE  NEXT_PARAM(t) \in Seq(Plain("NEXT_PARAM", t))
<1> DEFINE P == Plain("NEXT_PARAM", t)
<1>1. "NEXT_PARAM" \in Function \ {"EXPR"}
  BY DEF Function
<1>2. Reject \in Seq(P) /\ Accept \in Seq(P)
  BY <1>1, PlainReject
<1>3. /\ Match("comma") \in P
  BY <1>1, PlainAnywhere DEF Ahead, Kind
<1>4. /\ Call("PARAM") \in P /\ Call("NEXT_PARAM") \in P
  BY <1>1, PlainAnywhere DEF Function, Block, Calls
<1> HIDE DEF P
<1>20. NEXT_PARAM(t) \in Seq(P)
  BY <1>2, <1>3, <1>4 DEF NEXT_PARAM
<1> QED
  BY <1>20 DEF P

\* So are those of BR_EXPR.
LEMMA Plain_BR_EXPR ==
    ASSUME NEW t \in Ahead
    PROVE  BR_EXPR(t) \in Seq(Plain("BR_EXPR", t))
<1> DEFINE P == Plain("BR_EXPR", t)
<1>1. "BR_EXPR" \in Function \ {"EXPR"}
  BY DEF Function
<1>2. Reject \in Seq(P) /\ Accept \in Seq(P)
  BY <1>1, PlainReject
<1>3. /\ Match("let") \in P /\ Match("id") \in P
  BY <1>1, PlainAnywhere DEF Ahead, Kind
<1>4. /\ Call("EXPR") \in P
  BY <1>1, PlainAnywhere DEF Function, Block, Calls
<1>5. /\ If("check") \in P
  BY <1>1, PlainAnywhere
     DEF Op, Special, Pairing, BlockOp, BranchOp, SkipOp, BracketOp, ExprOp
<1> HIDE DEF P
<1>20. BR_EXPR(t) \in Seq(P)
  BY <1>2, <1>3, <1>4, <1>5 DEF BR_EXPR
<1> QED
  BY <1>20 DEF P

\* So are those of FOR_ID.
LEMMA Plain_FOR_ID ==
    ASSUME NEW t \in Ahead
    PROVE  FOR_ID(t) \in Seq(Plain("FOR_ID", t))
<1> DEFINE P == Plain("FOR_ID", t)
<1>1. "FOR_ID" \in Function \ {"EXPR"}
  BY DEF Function
<1>2. Reject \in Seq(P) /\ Accept \in Seq(P)
  BY <1>1, PlainReject
<1>3. /\ Match(t) \in P
  BY <1>1, PlainAnywhere DEF Ahead, Kind
<1> HIDE DEF P
<1>20. FOR_ID(t) \in Seq(P)
  BY <1>2, <1>3 DEF FOR_ID
<1> QED
  BY <1>20 DEF P

\* So are those of RANGE.
LEMMA Plain_RANGE ==
    ASSUME NEW t \in Ahead
    PROVE  RANGE(t) \in Seq(Plain("RANGE", t))
<1> DEFINE P == Plain("RANGE", t)
<1>1. "RANGE" \in Function \ {"EXPR"}
  BY DEF Function
<1>2. Reject \in Seq(P) /\ Accept \in Seq(P)
  BY <1>1, PlainReject
<1>3. /\ Match("...") \in P
  BY <1>1, PlainAnywhere DEF Ahead, Kind
<1>4. /\ Call("EXPR") \in P
  BY <1>1, PlainAnywhere DEF Function, Block, Calls
<1>5. /\ If("check") \in P
  BY <1>1, PlainAnywhere
     DEF Op, Special, Pairing, BlockOp, BranchOp, SkipOp, BracketOp, ExprOp
<1> HIDE DEF P
<1>20. RANGE(t) \in Seq(P)
  BY <1>2, <1>3, <1>4, <1>5 DEF RANGE
<1> QED
  BY <1>20 DEF P

\* So are those of CALL_PARAM_LIST.
LEMMA Plain_CALL_PARAM_LIST ==
    ASSUME NEW t \in Ahead
    PROVE  CALL_PARAM_LIST(t) \in Seq(Plain("CALL_PARAM_LIST", t))
<1> DEFINE P == Plain("CALL_PARAM_LIST", t)
<1>1. "CALL_PARAM_LIST" \in Function \ {"EXPR"}
  BY DEF Function
<1>2. Reject \in Seq(P) /\ Accept \in Seq(P)
  BY <1>1, PlainReject
<1>3. /\ Call("CALL_PARAM") \in P /\ Call("NEXT_CALL_PARAM") \in P
  BY <1>1, PlainAnywhere DEF Function, Block, Calls
<1>4. /\ If("check") \in P
  BY <1>1, PlainAnywhere
     DEF Op, Special, Pairing, BlockOp, BranchOp, SkipOp, BracketOp, ExprOp
<1> HIDE DEF P
<1>20. CALL_PARAM_LIST(t) \in Seq(P)
  BY <1>2, <1>3, <1>4 DEF CALL_PARAM_LIST
<1> QED
  BY <1>20 DEF P

\* So are those of NEXT_CALL_PARAM.
LEMMA Plain_NEXT_CALL_PARAM ==
    ASSUME NEW t \in Ahead
    PROVE  NEXT_CALL_PARAM(t) \in Seq(Plain("NEXT_CALL_PARAM", t))
<1> DEFINE P == Plain("NEXT_CALL_PARAM", t)
<1>1. "NEXT_CALL_PARAM" \in Function \ {"EXPR"}
  BY DEF Function
<1>2. Reject \in Seq(P) /\ Accept \in Seq(P)
  BY <1>1, PlainReject
<1>3. /\ Match("comma") \in P
  BY <1>1, PlainAnywhere DEF Ahead, Kind
<1>4. /\ Call("CALL_PARAM") \in P /\ Call("NEXT_CALL_PARAM") \in P
  BY <1>1, PlainAnywhere DEF Function, Block, Calls
<1> HIDE DEF P
<1>20. NEXT_CALL_PARAM(t) \in Seq(P)
  BY <1>2, <1>3, <1>4 DEF NEXT_CALL_PARAM
<1> QED
  BY <1>20 DEF P

\* So are those of ID_CALL_OR_ASSIGN.
LEMMA Plain_ID_CALL_OR_ASSIGN ==
    ASSUME NEW t \in Ahead
    PROVE  ID_CALL_OR_ASSIGN(t) \in Seq(Plain("ID_CALL_OR_ASSIGN", t))
<1> DEFINE P == Plain("ID_CALL_OR_ASSIGN", t)
<1>1. "ID_CALL_OR_ASSIGN" \in Function \ {"EXPR"}
  BY DEF Function
<1>2. Reject \in Seq(P) /\ Accept \in Seq(P)
  BY <1>1, PlainReject
<1>3. /\ Match("id") \in P
  BY <1>1, PlainAnywhere DEF Ahead, Kind
<1>4. /\ Call("NEXT_ID_CALL_OR_ASSIGN") \in P
  BY <1>1, PlainAnywhere DEF Function, Block, Calls
<1> HIDE DEF P
<1>20. ID_CALL_OR_ASSIGN(t) \in Seq(P)
  BY <1>2, <1>3, <1>4 DEF ID_CALL_OR_ASSIGN
<1> QED
  BY <1>20 DEF P

\* So are those of TYPE.
LEMMA Plain_TYPE ==
    ASSUME NEW t \in Ahead
    PROVE  TYPE(t) \in Seq(Plain("TYPE", t))
<1> DEFINE P == Plain("TYPE", t)
<1>1. "TYPE" \in Function \ {"EXPR"}
  BY DEF Function
<1>2. Reject \in Seq(P) /\ Accept \in Seq(P)
  BY <1>1, PlainReject
<1>3. /\ Match("type") \in P
  BY <1>1, PlainAnywhere DEF Ahead, Kind
<1> HIDE DEF P
<1>20. TYPE(t) \in Seq(P)
  BY <1>2, <1>3 DEF TYPE
<1> QED
  BY <1>20 DEF P

\* So are those of VAR_DECL.
LEMMA Plain_VAR_DECL ==
    ASSUME NEW t \in Ahead
    PROVE  VAR_DECL(t) \in Seq(Plain("VAR_DECL", t))
<1> DEFINE P == Plain("VAR_DECL", t)
<1>1. "VAR_DECL" \in Function \ {"EXPR"}
  BY DEF Function
<1>2. Reject \in Seq(P) /\ Accept \in Seq(P)
  BY <1>1, PlainReject
<1>3. /\ Match(t) \in P /\ Match("id") \in P
  BY <1>1, PlainAnywhere DEF Ahead, Kind
<1>4. /\ Call("VAR_LET_TYPE") \in P /\ Call("VAR_LET_EXP") \in P
  BY <1>1, PlainAnywhere DEF Function, Block, Calls
<1>5. /\ If("check") \in P
  BY <1>1, PlainAnywhere
     DEF Op, Special, Pairing, BlockOp, BranchOp, SkipOp, BracketOp, ExprOp
<1> HIDE DEF P
<1>20. VAR_DECL(t) \in Seq(P)
  BY <1>2, <1>3, <1>4, <1>5 DEF VAR_DECL
<1> QED
  BY <1>20 DEF P

\* So are those of LET_DECL.
LEMMA Plain_LET_DECL ==
    ASSUME NEW t \in Ahead
    PROVE  VAR_DECL(t) \in Seq(Plain("LET_DECL", t))
<1> DEFINE P == Plain("LET_DECL", t)
<1>1. "LET_DECL" \in Function \ {"EXPR"}
  BY DEF Function
<1>2. Reject \in Seq(P) /\ Accept \in Seq(P)
  BY <1>1, PlainReject
<1>3. /\ Match(t) \in P /\ Match("id") \in P
  BY <1>1, PlainAnywhere DEF Ahead, Kind
<1>4. /\ Call("VAR_LET_TYPE") \in P /\ Call("VAR_LET_EXP") \in P
  BY <1>1, PlainAnywhere DEF Function, Block, Calls
<1>5. /\ If("check") \in P
  BY <1>1, PlainAnywhere
     DEF Op, Special, Pairing, BlockOp, BranchOp, SkipOp, BracketOp, ExprOp
<1> HIDE DEF P
<1>20. VAR_DECL(t) \in Seq(P)
  BY <1>2, <1>3, <1>4, <1>5 DEF VAR_DECL
<1> QED
  BY <1>20 DEF P

\* So are those of ELSE.
LEMMA Plain_ELSE ==
    ASSUME NEW t \in Ahead
    PROVE  ELSE_(t) \in Seq(Plain("ELSE", t))
<1> DEFINE P == Plain("ELSE", t)
<1>1. "ELSE" \in Function \ {"EXPR"}
  BY DEF Function
<1>2. Reject \in Seq(P) /\ Accept \in Seq(P)
  BY <1>1, PlainReject
<1>3. /\ Match("else") \in P
  BY <1>1, PlainAnywhere DEF Ahead, Kind
<1>4. /\ Call("ELSE_IF") \in P
  BY <1>1, PlainAnywhere DEF Function, Block, Calls
<1> HIDE DEF P
<1>20. ELSE_(t) \in Seq(P)
  BY <1>2, <1>3, <1>4 DEF ELSE_
<1> QED
  BY <1>20 DEF P

\* So are those of ELSE_IF where it opens nothing.
LEMMA Plain_ELSE_IF ==
    ASSUME NEW t \in Ahead, t \notin {"if", "lbrace"}
    PROVE  ELSE_IF(t) \in Seq(Plain("ELSE_IF", t))
<1> DEFINE P == Plain("ELSE_IF", t)
<1>1. "ELSE_IF" \in Function \ {"EXPR"}
  BY DEF Function
<1>2. Reject \in Seq(P) /\ Accept \in Seq(P)
  BY <1>1, PlainReject
<1> HIDE DEF P
<1>20. ELSE_IF(t) \in Seq(P)
  BY <1>2 DEF ELSE_IF
<1> QED
  BY <1>20 DEF P

\* So are those of NEXT_ID_CALL_OR_ASSIGN where it opens nothing.
LEMMA Plain_NEXT_ID ==
    ASSUME NEW t \in Ahead, t # "("
    PROVE  NEXT_ID_CALL_OR_ASSIGN(t) \in Seq(Plain("NEXT_ID_CALL_OR_ASSIGN", t))
<1> DEFINE P == Plain("NEXT_ID_CALL_OR_ASSIGN", t)
<1>1. "NEXT_ID_CALL_OR_ASSIGN" \in Function \ {"EXPR"}
  BY DEF Function
<1>2. Reject \in Seq(P) /\ Accept \in Seq(P)
  BY <1>1, PlainReject
<1>3. /\ Match("=") \in P
  BY <1>1, PlainAnywhere DEF Ahead, Kind
<1>4. /\ Call("EXPR") \in P
  BY <1>1, PlainAnywhere DEF Function, Block, Calls
<1>5. /\ If("check") \in P
  BY <1>1, PlainAnywhere
     DEF Op, Special, Pairing, BlockOp, BranchOp, SkipOp, BracketOp, ExprOp
<1> HIDE DEF P
<1>20. NEXT_ID_CALL_OR_ASSIGN(t) \in Seq(P)
  BY <1>2, <1>3, <1>4, <1>5 DEF NEXT_ID_CALL_OR_ASSIGN
<1> QED
  BY <1>20 DEF P

\* A function begins with nothing opened, and closes what it opens.
LEMMA FreshBody ==
    ASSUME NEW f \in Function, NEW t \in Ahead
    PROVE  Fresh(f, t, Body(f, t))
<1>1. f \in {"FUNC_DECL", "BRANCH", "WHILE_LOOP", "FOR_LOOP", "CALL_PARAM", "EXPR"} =>
        Fresh(f, t, Body(f, t))
  BY FreshFunction, FreshBranch, FreshWhile, FreshFor, FreshArgument, FreshExpr DEF Body
<1>2. CASE f = "ELSE_IF"
  BY <1>2, FreshElseIf, FreshElseBlock, Plain_ELSE_IF, FreshPlain DEF Body
<1>3. CASE f = "NEXT_ID_CALL_OR_ASSIGN"
  BY <1>3, FreshCall, Plain_NEXT_ID, FreshPlain DEF Body
<1>4. CASE f \in {"S", "CODE", "RETURN", "RET_EXPR", "VAR_DECL", "LET_DECL", "VAR_LET_TYPE"}
  <2>1. Body(f, t) \in Seq(Plain(f, t))
    BY <1>4, Plain_S, Plain_CODE, Plain_RETURN, Plain_RET_EXPR, Plain_VAR_DECL,
       Plain_LET_DECL, Plain_VAR_LET_TYPE DEF Body
  <2> QED
    BY <1>4, <2>1, FreshPlain
<1>5. CASE f \in {"VAR_LET_EXP", "FUNC_RET_TYPE", "PARAM_LIST", "PARAM", "NEXT_PARAM",
                  "BR_EXPR", "ELSE"}
  <2>1. Body(f, t) \in Seq(Plain(f, t))
    BY <1>5, Plain_VAR_LET_EXP, Plain_FUNC_RET_TYPE, Plain_PARAM_LIST, Plain_PARAM,
       Plain_NEXT_PARAM, Plain_BR_EXPR, Plain_ELSE DEF Body
  <2> QED
    BY <1>5, <2>1, FreshPlain
<1>6. CASE f \in {"FOR_ID", "RANGE", "CALL_PARAM_LIST", "NEXT_CALL_PARAM",
                  "ID_CALL_OR_ASSIGN", "TYPE"}
  <2>1. Body(f, t) \in Seq(Plain(f, t))
    BY <1>6, Plain_FOR_ID, Plain_RANGE, Plain_CALL_PARAM_LIST, Plain_NEXT_CALL_PARAM,
       Plain_ID_CALL_OR_ASSIGN, Plain_TYPE DEF Body
  <2> QED
    BY <1>6, <2>1, FreshPlain
<1> QED
  BY <1>1, <1>2, <1>3, <1>4, <1>5, <1>6 DEF Function

\* S owes nothing.
LEMMA FreshS ==
    ASSUME NEW t \in Ahead
    PROVE  Fresh("S", t, S(t))
BY Plain_S, FreshPlain
-----------------------------------------------------------------------------
(* Going through a list *)

\* A statement that waits for another in a list waits for it in what is left of the
\* list.
LEMMA PendingAfter ==
    ASSUME NEW t \in Seq(Statements), NEW u \in Seq(Statements), NEW d, After(u, t, d),
           NEW j \in 1..Len(u), NEW k, Pending(t, j + d, k)
    PROVE  Pending(u, j, k)
<1> DEFINE n == Len(t)
<1> DEFINE m == Len(u)
<1>1. /\ n \in Nat /\ m \in Nat /\ d \in 0..n /\ m = n - d
      /\ \A i \in 1..m : u[i] = t[i + d]
  BY DEF After
<1>2. \A i \in (j + 1)..m : i + d \in ((j + d) + 1)..n /\ u[i] = t[i + d]
  BY <1>1
<1>3. \A i \in ((j + d) + 1)..n : i - d \in (j + 1)..m /\ u[i - d] = t[i]
  BY <1>1
<1> HIDE DEF n, m
<1>4. PICK i \in ((j + d) + 1)..n : t[i].op = Closer(k)
  BY DEF Pending, n
<1>5. \E ii \in (j + 1)..m : u[ii].op = Closer(k)
  BY <1>3, <1>4
<1>6. \A ii \in (j + 1)..m : u[ii].op \notin Openers(k)
  BY <1>2 DEF Pending, n
<1> QED
  BY <1>5, <1>6 DEF Pending, m

\* What is pending after the first statement is what the rest owes.
LEMMA PendingIsOwed ==
    ASSUME NEW t \in Seq(Statements), t # <<>>, NEW k, Pending(t, 1, k)
    PROVE  Owes(Tail(t), k)
<1> DEFINE n == Len(t)
<1> DEFINE u == Tail(t)
<1>1. n \in Nat /\ n >= 1 /\ Len(u) = n - 1 /\ \A i \in 1..(n - 1) : u[i] = t[i + 1]
  OBVIOUS
<1> HIDE DEF n, u
<1>2. PICK i \in 2..n : t[i].op = Closer(k)
  BY <1>1 DEF Pending, n
<1>3. i - 1 \in 1..(n - 1) /\ u[i - 1] = t[i]
  BY <1>1
<1>4. \A ii \in 1..(n - 1) : ii + 1 \in 2..n
  BY <1>1
<1>5. \A ii \in 1..(n - 1) : u[ii].op \notin Openers(k)
  BY <1>1, <1>4 DEF Pending, n
<1> QED
  BY <1>1, <1>2, <1>3, <1>5 DEF Owes, Has, u

\* What is left of an ordered list is ordered.
LEMMA OrderedAfter ==
    ASSUME NEW f, NEW kind, NEW t \in Seq(Statements), NEW u \in Seq(Statements), NEW d,
           Ordered(f, kind, t), After(u, t, d)
    PROVE  Ordered(f, kind, u)
<1> DEFINE n == Len(t)
<1> DEFINE m == Len(u)
<1>1. /\ n \in Nat /\ m \in Nat /\ d \in 0..n /\ m = n - d
      /\ \A i \in 1..m : u[i] = t[i + d]
  BY DEF After
<1> HIDE DEF n, m
<1> SUFFICES ASSUME NEW j \in 1..m
             PROVE  /\ f = "CALL_PARAM" =>
                          /\ u[j].op = "match" => j = 1 /\ m = 4 /\ u[j].arg = "id" /\ kind = "id"
                          /\ u[j].op = "match_colon_or_back" =>
                                j = m - 2 /\ j <= 2 /\ (j = 2 => u[1].op = "match")
                          /\ u[j].op = "call" => j = m - 1
                    /\ f = "NEXT_ID_CALL_OR_ASSIGN" /\ kind = "(" /\ u[j].op = "call" =>
                          Pending(u, j, "bracket")
                    /\ u[j].op = "call" /\ u[j].arg = "ELSE" =>
                          \A i \in (j + 1)..m : u[i].op # "gen_branch_if_end"
                    /\ f = "BRANCH" /\ u[j].op = "call" /\ u[j].arg = "ELSE" =>
                          Pending(u, j, "end_label")
                    /\ f = "BRANCH" /\ u[j].op = "gen_branch_if_end" =>
                          Pending(u, j, "end_label")
                    /\ f \in {"WHILE_LOOP", "FOR_LOOP"} /\ u[j].op = "call" /\ u[j].arg = "CODE" =>
                          Pending(u, j, "loop_label")
                    /\ u[j].op = "gen_branch_end" =>
                          \A i \in (j + 1)..m : u[i].op # "gen_branch_if_end"
  BY DEF Ordered, m
<1> DEFINE k == j + d
<1>2. k \in 1..n /\ u[j] = t[k]
  BY <1>1
<1>3. /\ k = n - 2 <=> j = m - 2
      /\ k = n - 1 <=> j = m - 1
      /\ k = 1 /\ n = 4 => j = 1 /\ m = 4
      /\ k <= 2 => j <= 2
  BY <1>1
<1>7. k <= 2 /\ j = 2 => k = 2 /\ u[1] = t[1]
  <2> SUFFICES ASSUME k <= 2, j = 2 PROVE k = 2 /\ u[1] = t[1]
    OBVIOUS
  <2>1. d = 0 /\ 1 \in 1..m
    BY <1>1
  <2>2. u[1] = t[1 + d] /\ 1 + d = 1
    BY <1>1, <2>1
  <2> QED
    BY <2>1, <2>2
<1>4. \A i \in (j + 1)..m : i + d \in (k + 1)..n /\ u[i] = t[i + d]
  BY <1>1
<1>5. \A x : Pending(t, k, x) => Pending(u, j, x)
  BY PendingAfter DEF m
<1> HIDE DEF k
<1>6. /\ f = "CALL_PARAM" =>
            /\ t[k].op = "match" => k = 1 /\ n = 4 /\ t[k].arg = "id" /\ kind = "id"
            /\ t[k].op = "match_colon_or_back" =>
                  k = n - 2 /\ k <= 2 /\ (k = 2 => t[1].op = "match")
            /\ t[k].op = "call" => k = n - 1
      /\ f = "NEXT_ID_CALL_OR_ASSIGN" /\ kind = "(" /\ t[k].op = "call" =>
            Pending(t, k, "bracket")
      /\ t[k].op = "call" /\ t[k].arg = "ELSE" =>
            \A i \in (k + 1)..n : t[i].op # "gen_branch_if_end"
      /\ f = "BRANCH" /\ t[k].op = "call" /\ t[k].arg = "ELSE" => Pending(t, k, "end_label")
      /\ f = "BRANCH" /\ t[k].op = "gen_branch_if_end" =>
            Pending(t, k, "end_label")
      /\ f \in {"WHILE_LOOP", "FOR_LOOP"} /\ t[k].op = "call" /\ t[k].arg = "CODE" =>
            Pending(t, k, "loop_label")
      /\ t[k].op = "gen_branch_end" =>
            \A i \in (k + 1)..n : t[i].op # "gen_branch_if_end"
  BY <1>2 DEF Ordered, n
<1> QED
  BY <1>2, <1>3, <1>4, <1>5, <1>6, <1>7

\* What is left of a list has statements of that list only.
LEMMA FittingAfter ==
    ASSUME NEW f, NEW kind, NEW t \in Seq(Fitting(f, kind)), NEW u \in Seq(Statements), NEW d,
           After(u, t, d)
    PROVE  u \in Seq(Fitting(f, kind))
<1>1. \A i \in 1..Len(u) : i + d \in 1..Len(t) /\ u[i] = t[i + d]
  BY DEF After
<1>2. \A i \in 1..Len(t) : t[i] \in Fitting(f, kind)
  OBVIOUS
<1>3. \A i \in 1..Len(u) : u[i] \in Fitting(f, kind)
  BY <1>1, <1>2
<1> QED
  BY <1>3, SeqDef

\* The first statement leaves the list.
LEMMA GoodTail ==
    ASSUME NEW f, NEW kind, NEW t, Good(f, kind, t), t # <<>>
    PROVE  /\ Good(f, kind, Tail(t)) /\ Head(t) \in Fitting(f, kind)
           /\ t \in Seq(Statements) /\ Tail(t) \in Seq(Statements)
<1>1. t \in Seq(Fitting(f, kind)) /\ t \in Seq(Statements)
  BY DEF Good, Fitting
<1>2. Head(t) \in Fitting(f, kind) /\ Tail(t) \in Seq(Statements)
  BY <1>1
<1> DEFINE d == 1
<1>3. After(Tail(t), t, d)
  BY <1>1, TailIsAfter
<1> HIDE DEF d
<1>4. Tail(t) \in Seq(Fitting(f, kind))
  BY <1>1, <1>2, <1>3, FittingAfter
<1>5. Ordered(f, kind, Tail(t))
  BY <1>1, <1>2, <1>3, OrderedAfter DEF Good
<1>6. \A k \in Thing : Neat(Tail(t), k)
  BY <1>1, NeatTail DEF Good
<1>7. ASSUME f = "EXPR" PROVE ExprList(Tail(t))
  <2>1. ExprList(t) /\ t # <<>>
    BY <1>7 DEF Good
  <2>2. Len(Tail(t)) = Len(t) - 1 /\ \A i \in 1..Len(Tail(t)) : Tail(t)[i] = t[i + 1]
    BY <1>1
  <2>3. Len(t) = 1 => Tail(t) = <<>>
    <3>1. Tail(t) # <<>> => Len(Tail(t)) \in Nat \ {0}
      BY <1>2, EmptySeq
    <3> QED
      BY <2>2, <3>1
  <2>4. Len(t) \in Nat
    BY <1>1
  <2> DEFINE u == Tail(t)
  <2>5. /\ Len(t) = 2 => Len(u) = 1 /\ u[1] = t[2]
        /\ Len(t) = 3 => Len(u) = 2 /\ u[1] = t[2] /\ u[2] = t[3]
        /\ Len(t) = 4 => Len(u) = 3 /\ u[1] = t[2] /\ u[2] = t[3] /\ u[3] = t[4]
        /\ Len(t) = 1 => u = <<>>
    BY <2>2, <2>3
  <2> HIDE DEF u
  <2>6. ExprList(u)
    BY <2>1, <2>5 DEF ExprList
  <2> QED
    BY <2>6 DEF u
<1> QED
  BY <1>1, <1>2, <1>4, <1>5, <1>6, <1>7 DEF Good

\* The statements under a false s leave the list.
LEMMA GoodRest ==
    ASSUME NEW f, NEW kind, NEW t, Good(f, kind, t), NEW ok
    PROVE  /\ Good(f, kind, Rest(t, ok))
           /\ \A k \in Thing : Owes(Rest(t, ok), k) <=> Owes(t, k)
           /\ f = "EXPR" => Rest(t, ok) = t
<1> DEFINE u == Rest(t, ok)
<1>1. t \in Seq(Fitting(f, kind)) /\ t \in Seq(Statements)
  BY DEF Good, Fitting
<1>2. PICK d \in 0..Len(t) : After(u, t, d) /\ \A j \in 1..d : t[j].needs_s
  BY <1>1, RestIsAfter
<1>3. u \in Seq(Statements)
  BY <1>1, RestIsAfter
<1>4. \A k \in Thing, i \in 1..Len(t) : Touches(t[i], k) => ~t[i].needs_s
  BY <1>1, TouchesPairing DEF Fitting
<1>5. \A k \in Thing : Neat(u, k) /\ (Owes(u, k) <=> Owes(t, k))
  BY <1>1, <1>4, NeatRest DEF Good
<1>6. ASSUME f = "EXPR" PROVE u = t
  <2>1. \A i \in 1..Len(t) : ~t[i].needs_s
    BY <1>1, <1>6 DEF Fitting
  <2>2. Len(t) \in Nat
    BY <1>1
  <2>3. d = 0
    <3>1. ASSUME d # 0 PROVE 1 \in 1..d /\ 1 \in 1..Len(t)
      BY <1>2, <2>2, <3>1
    <3> QED
      BY <1>2, <2>1, <3>1
  <2> HIDE DEF u
  <2>4. Len(u) = Len(t) /\ \A i \in 1..Len(u) : u[i] = t[i]
    BY <1>1, <1>2, <1>3, <2>2, <2>3 DEF After
  <2> QED
    BY <1>1, <1>3, <2>4, SeqEqual
<1> HIDE DEF u
<1>7. u \in Seq(Fitting(f, kind))
  BY <1>1, <1>2, <1>3, FittingAfter
<1>8. Ordered(f, kind, u)
  BY <1>1, <1>2, <1>3, OrderedAfter DEF Good
<1>9. Good(f, kind, u)
  BY <1>5, <1>6, <1>7, <1>8 DEF Good
<1> QED
  BY <1>5, <1>6, <1>9 DEF u

\* The first two statements of CALL_PARAM are run in this order, if at all.
LEMMA ArgumentNext ==
    ASSUME NEW kind, NEW t, Good("CALL_PARAM", kind, t), t # <<>>, NEW ok,
           NEW u, u = Rest(Tail(t), ok), u # <<>>
    PROVE  Head(u).op # "match" /\ (Head(u).op = "match_colon_or_back" => Head(t).op = "match")
<1> DEFINE n == Len(t)
<1> DEFINE v == Tail(t)
<1>1. t \in Seq(Statements) /\ v \in Seq(Statements)
  BY GoodTail
<1>2. n \in Nat /\ Len(v) = n - 1 /\ \A i \in 1..(n - 1) : v[i] = t[i + 1]
  BY <1>1
<1> HIDE DEF v
<1>3. u \in Seq(Statements)
  BY <1>1, RestIsAfter DEF v
<1>4. PICK d \in 0..Len(v) : After(u, v, d)
  BY <1>1, RestIsAfter DEF v
<1>5. Len(u) \in Nat /\ Len(u) >= 1 /\ Head(u) = u[1]
  BY <1>3
<1>6. Len(u) = Len(v) - d /\ u[1] = v[1 + d]
  BY <1>5, <1>4 DEF After
<1> HIDE DEF n
<1> DEFINE k == d + 2
<1>7. k \in 1..n /\ u[1] = t[k] /\ k >= 2
  <2>1. 1 + d \in 1..(n - 1) /\ (1 + d) + 1 = k
    BY <1>2, <1>4, <1>5, <1>6
  <2> QED
    BY <1>2, <1>6, <2>1
<1> HIDE DEF k
<1>8. /\ t[k].op = "match" => k = 1
      /\ t[k].op = "match_colon_or_back" => k <= 2 /\ (k = 2 => t[1].op = "match")
  BY <1>7 DEF Good, Ordered, n
<1>9. Head(t) = t[1]
  BY <1>1
<1> QED
  BY <1>5, <1>7, <1>8, <1>9, <1>2

\* parse_expr from one statement to the next.
LEMMA ExprNext ==
    ASSUME NEW kind, NEW t, Good("EXPR", kind, t), t # <<>>, NEW u, u = Tail(t)
    PROVE  LET op == Head(t).op
           IN  /\ op \in {"operand", "call_end"} =>
                     u # <<>> /\ Head(u).op \in {"next_token", "fail"} /\ Len(u) <= 2
               /\ op = "next_token" =>
                     /\ u # <<>>
                     /\ \/ Len(t) # 2 /\ Head(u).op = "operand"
                        \/ Len(t) = 2 /\ Head(u).op = "after_operand"
               /\ op = "call_params" => u # <<>> /\ Head(u).op = "call_end"
               /\ op \in {"after_operand", "fail"} => u = <<>>
               /\ op \in ExprOp
<1> DEFINE n == Len(t)
<1> DEFINE m == Len(u)
<1>1. t \in Seq(Statements) /\ u \in Seq(Statements) /\ ExprList(t)
  BY GoodTail DEF Good
<1>2. n \in Nat /\ n >= 1 /\ Head(t) = t[1]
  <2>1. t \in Seq(Statements)
    BY <1>1
  <2> QED
    BY ONLY <2>1, t # <<>>
<1>3. m = n - 1 /\ \A i \in 1..(n - 1) : u[i] = t[i + 1]
  BY <1>1
<1>4. \/ n = 1 /\ t[1].op \in {"after_operand", "fail"}
      \/ n = 2 /\ t[1].op = "next_token" /\ t[2].op = "after_operand"
      \/ n = 2 /\ t[1].op = "call_end" /\ t[2].op = "fail"
      \/ n = 3 /\ t[1].op = "operand" /\ t[2].op = "next_token"
      \/ n = 3 /\ t[1].op = "call_params" /\ t[2].op = "call_end"
      \/ n = 3 /\ t[1].op = "call_end" /\ t[2].op = "next_token"
      \/ n = 4 /\ t[1].op = "next_token" /\ t[2].op = "operand"
      \/ n = 4 /\ t[1].op = "call_params" /\ t[2].op = "call_end"
  BY <1>1 DEF ExprList
<1>5. m = 0 => u = <<>>
  BY <1>1, EmptySeq
<1>6. m # 0 => u # <<>> /\ Head(u) = u[1]
  <2> SUFFICES ASSUME m # 0 PROVE u # <<>> /\ Head(u) = u[1]
    OBVIOUS
  <2>1. u # <<>>
    BY EmptySeq
  <2>2. u \in Seq(Statements)
    BY <1>1
  <2> QED
    BY ONLY <2>1, <2>2
<1> HIDE DEF n, m
<1>7. n # 1 => 1 \in 1..(n - 1) /\ 1 + 1 = 2 /\ m # 0
  BY <1>2, <1>3
<1>8. n # 1 => u # <<>> /\ Head(u).op = t[2].op
  BY <1>3, <1>6, <1>7
<1>9. n = 1 => u = <<>>
  BY <1>3, <1>5
<1>10. m <= 2 <=> n <= 3
  BY <1>2, <1>3
<1>11. t[1].op \in {"operand", "call_end"} =>
         n # 1 /\ n <= 3 /\ t[2].op \in {"next_token", "fail"}
  BY <1>4
<1>12. t[1].op = "next_token" =>
         n # 1 /\ ((n # 2 /\ t[2].op = "operand") \/ (n = 2 /\ t[2].op = "after_operand"))
  BY <1>4
<1>13. t[1].op = "call_params" => n # 1 /\ t[2].op = "call_end"
  BY <1>4
<1>14. t[1].op \in {"after_operand", "fail"} => n = 1
  BY <1>4
<1>15. t[1].op \in ExprOp
  BY <1>4 DEF ExprOp
<1> QED
  BY <1>2, <1>8, <1>9, <1>10, <1>11, <1>12, <1>13, <1>14, <1>15 DEF n, m

\* What parse_expr owes.
LEMMA ExprOwes ==
    ASSUME NEW kind, NEW t, Good("EXPR", kind, t), t # <<>>
    PROVE  /\ \A k \in Thing \ {"argument"} : ~Owes(t, k)
           /\ Head(t).op \in {"next_token", "operand", "after_operand", "fail"} => ~Owes(t, "argument")
<1>1. t \in Seq(Statements) /\ ExprList(t) /\ Head(t) = t[1] /\ Len(t) \in Nat
  BY GoodTail DEF Good
<1>2. \A i \in 1..Len(t) : t[i].op \in ExprOp
  BY DEF Good, Fitting
<1>3. \A k \in Thing \ {"argument"} : Closer(k) \notin ExprOp
  BY DEF Thing, Closer, ExprOp
<1>4. \A k \in Thing \ {"argument"} : ~Owes(t, k)
  BY <1>2, <1>3 DEF Owes, Has
<1>5. ASSUME t[1].op \in {"next_token", "operand", "after_operand", "fail"}
      PROVE  \A i \in 1..Len(t) : t[i].op # "call_end"
  <2>1. \A i \in 1..Len(t) : Len(t) <= 4 => i \in {1, 2, 3, 4}
    BY <1>1
  <2>2. /\ Len(t) <= 4 /\ t[1].op # "call_end"
        /\ Len(t) >= 2 => t[2].op # "call_end"
        /\ Len(t) >= 3 => t[3].op # "call_end"
        /\ Len(t) >= 4 => t[4].op # "call_end"
    <3>1. Len(t) # 0
      BY <1>1, EmptySeq
    <3> DEFINE n == Len(t)
    <3>3. \/ t = <<>>
          \/ n = 1
          \/ n = 2 /\ t[2].op \in {"after_operand", "fail"}
          \/ n = 2 /\ t[1].op = "call_end"
          \/ n = 3 /\ t[2].op = "next_token" /\ t[3].op = "after_operand"
          \/ n = 3 /\ t[1].op \in {"call_params", "call_end"}
          \/ n = 4 /\ t[2].op = "operand" /\ t[3].op = "next_token" /\ t[4].op = "after_operand"
          \/ n = 4 /\ t[1].op = "call_params"
      BY <1>1 DEF ExprList
    <3> HIDE DEF n
    <3>2. \/ n = 1
          \/ n = 2 /\ t[2].op \in {"after_operand", "fail"}
          \/ n = 3 /\ t[2].op = "next_token" /\ t[3].op = "after_operand"
          \/ n = 4 /\ t[2].op = "operand" /\ t[3].op = "next_token" /\ t[4].op = "after_operand"
      BY <1>5, <3>3, t # <<>>
    <3>4. t[1].op # "call_end"
      BY <1>5
    <3>5. n \in {1, 2, 3, 4}
      BY <3>2
    <3>6. /\ n <= 4
          /\ n >= 2 => t[2].op # "call_end"
          /\ n >= 3 => t[3].op # "call_end"
          /\ n >= 4 => t[4].op # "call_end"
      BY <3>2, <3>5
    <3> QED
      BY <3>4, <3>6 DEF n
  <2> QED
    BY <1>1, <2>1, <2>2
<1>6. Closer("argument") = "call_end"
  BY DEF Closer
<1> QED
  BY <1>1, <1>4, <1>5, <1>6 DEF Owes, Has

-----------------------------------------------------------------------------
(***************************************************************************)
(* The call stack: what its frames have opened and are yet to close, how a *)
(* step changes that, and what the counters, the label stacks and the      *)
(* flags have to do with it.                                               *)
(***************************************************************************)

Tok == [kind : Ahead, nl : BOOLEAN]

\* Slot i of the token array toks is not filled and never will be.
Past(toks, i) == toks # <<>> /\ toks[Len(toks)].kind = "eof" /\ i > Len(toks)

Grows(toks, toks2) ==
    /\ toks \in Seq(Tok) /\ toks2 \in Seq(Tok) /\ Len(toks) <= Len(toks2)
    /\ \A i \in 1..Len(toks) : toks2[i] = toks[i]

\* The frames that owe k, on the stack stk.
OwingIn(stk, k) == {i \in 1..Len(stk) : Owes(stk[i].todo, k)}

\* While a function that caller called runs.
Waits(caller, g) ==
    /\ g = "CALL_PARAM_LIST" => Owes(caller.todo, "bracket") \/ Owes(caller.todo, "argument")
    /\ g = "ELSE" => ~Owes(caller.todo, "skip_label")
    /\ g = "ELSE" /\ caller.fn = "BRANCH" => Owes(caller.todo, "end_label")
    /\ g = "CODE" /\ caller.fn \in {"WHILE_LOOP", "FOR_LOOP"} => Owes(caller.todo, "loop_label")
    /\ caller.fn = "CALL_PARAM" => Len(caller.todo) <= 1
    /\ caller.fn = "EXPR" => caller.todo # <<>> /\ Head(caller.todo).op = "call_end"

FrameOK(frame, toks) ==
    /\ frame \in Frame /\ frame.at \in 1..Len(toks)
    /\ Good(frame.fn, toks[frame.at].kind, frame.todo)

\* The frame lower is below the frame upper.
Below(lower, upper) ==
    /\ lower.at <= upper.at
    /\ lower.fn = "EXPR" => lower.at < upper.at
    /\ upper.fn \in Block \cup {"NEXT_ID_CALL_OR_ASSIGN"} => lower.fn \in Block

FramesOK(stk, toks) ==
    /\ stk \in Seq(Frame)
    /\ \A i \in 1..Len(stk) : FrameOK(stk[i], toks)
    /\ \A i, j \in 1..Len(stk) : i < j => Below(stk[i], stk[j])
    /\ \A i \in 1..(Len(stk) - 1) : /\ Calls(stk[i].fn, toks[stk[i].at].kind, stk[i + 1].fn)
                                    /\ Waits(stk[i], stk[i + 1].fn)
    /\ stk # <<>> => stk[1].fn = "S"

\* What stk2 owes is what stk owes, of the same frames.
SameFor(stk, stk2, k) ==
    /\ OwingIn(stk2, k) = OwingIn(stk, k)
    /\ \A i \in OwingIn(stk, k) : /\ stk2[i].fn = stk[i].fn /\ stk2[i].at = stk[i].at
                                  /\ stk2[i].tmp = stk[i].tmp
-----------------------------------------------------------------------------
(* The call stack *)

\* All but the last element.
LEMMA ButLast ==
    ASSUME NEW X, NEW w \in Seq(X), w # <<>>, NEW w2, w2 = SubSeq(w, 1, Len(w) - 1)
    PROVE  /\ w2 \in Seq(X) /\ Len(w) \in Nat /\ Len(w) >= 1 /\ Len(w2) = Len(w) - 1
           /\ \A i \in 1..(Len(w) - 1) : w2[i] = w[i]
<1> DEFINE n == Len(w)
<1>1. n \in Nat /\ n >= 1
  OBVIOUS
<1>2. CASE n = 1
  <2>1. w2 = SubSeq(w, 1, 0)
    BY <1>2
  <2>2. w2 = <<>>
    BY <2>1, SubSeqEmpty
  <2> QED
    BY <1>1, <1>2, <2>2
<1>3. CASE n > 1
  <2>1. w2 = SubSeq(w, 1, n - 1)
    OBVIOUS
  <2>2. \A i \in 1..(n - 1) : w[i] \in X
    BY <1>1
  <2> HIDE DEF n
  <2>3. w2 \in Seq(X)
    BY <1>1, <2>1, <2>2
  <2>4. Len(w2) = n - 1
    BY <1>1, <1>3, <2>1
  <2>5. \A i \in 1..(n - 1) : w2[i] = w[i]
    BY <1>1, <1>3, <2>1
  <2> QED
    BY <1>1, <2>3, <2>4, <2>5 DEF n
<1> HIDE DEF n
<1>4. n = 1 \/ n > 1
  BY <1>1
<1> QED
  BY <1>2, <1>3, <1>4

\* The fields of a frame.
LEMMA FrameTypes ==
    ASSUME NEW frame \in Frame
    PROVE  /\ frame.fn \in Function /\ frame.at \in Nat /\ frame.local \in Nat
           /\ frame.todo \in Seq(Statements) /\ frame.tmp \in BOOLEAN
           /\ frame.s \in BOOLEAN /\ frame.line_ends \in BOOLEAN /\ frame.heed \in BOOLEAN
BY DEF Frame

\* Reading further tokens leaves a frame good.
LEMMA GoodGrows ==
    ASSUME NEW frame, NEW toks, NEW toks2, FrameOK(frame, toks), Grows(toks, toks2)
    PROVE  FrameOK(frame, toks2) /\ toks2[frame.at] = toks[frame.at]
BY DEF FrameOK, Grows

\* Reading further tokens leaves every frame good.
LEMMA FramesGrow ==
    ASSUME NEW stk, NEW toks, NEW toks2, FramesOK(stk, toks), Grows(toks, toks2)
    PROVE  FramesOK(stk, toks2)
<1>1. \A i \in 1..Len(stk) : FrameOK(stk[i], toks2) /\ toks2[stk[i].at] = toks[stk[i].at]
  BY GoodGrows DEF FramesOK
<1>2. \A i \in 1..(Len(stk) - 1) : i \in 1..Len(stk)
  BY DEF FramesOK
<1> QED
  BY <1>1, <1>2 DEF FramesOK

NewTop(stk, stk2, frame) == stk2 = [stk EXCEPT ![Len(stk)] = frame]

\* The top frame goes on.
LEMMA FramesSetTop ==
    ASSUME NEW stk, NEW toks, FramesOK(stk, toks), stk # <<>>, NEW frame, FrameOK(frame, toks),
           frame.fn = stk[Len(stk)].fn, frame.at = stk[Len(stk)].at,
           NEW stk2, NewTop(stk, stk2, frame)
    PROVE  /\ FramesOK(stk2, toks) /\ Len(stk2) = Len(stk) /\ stk2[Len(stk2)] = frame
           /\ \A i \in 1..(Len(stk) - 1) : stk2[i] = stk[i]
<1> DEFINE n == Len(stk)
<1>1. stk \in Seq(Frame) /\ n \in Nat /\ n >= 1 /\ frame \in Frame
  BY DEF FramesOK, FrameOK
<1>2. /\ stk2 \in Seq(Frame) /\ Len(stk2) = n /\ stk2[n] = frame
      /\ \A i \in 1..n : i # n => stk2[i] = stk[i]
  BY <1>1 DEF NewTop
<1>3. \A i \in 1..n : stk2[i].fn = stk[i].fn /\ stk2[i].at = stk[i].at
  BY <1>2
<1> HIDE DEF n
<1>4. \A i \in 1..n : FrameOK(stk2[i], toks)
  BY <1>2 DEF FramesOK, n
<1>5. \A i, j \in 1..n : i < j => Below(stk2[i], stk2[j])
  BY <1>3 DEF FramesOK, Below, n
<1>6. \A i \in 1..(n - 1) : i \in 1..n /\ i + 1 \in 1..n /\ i # n
  BY <1>1
<1>7. \A i \in 1..(n - 1) : /\ Calls(stk2[i].fn, toks[stk2[i].at].kind, stk2[i + 1].fn)
                            /\ Waits(stk2[i], stk2[i + 1].fn)
  BY <1>2, <1>3, <1>6 DEF FramesOK, n
<1>8. stk2[1].fn = "S"
  BY <1>1, <1>3 DEF FramesOK
<1> QED
  BY <1>2, <1>4, <1>5, <1>6, <1>7, <1>8 DEF FramesOK, n

\* A call.
LEMMA FramesPush ==
    ASSUME NEW stk, NEW toks, FramesOK(stk, toks), stk # <<>>, NEW frame, FrameOK(frame, toks),
           Below(stk[Len(stk)], frame), Waits(stk[Len(stk)], frame.fn),
           Calls(stk[Len(stk)].fn, toks[stk[Len(stk)].at].kind, frame.fn),
           NEW stk2, stk2 = Append(stk, frame)
    PROVE  FramesOK(stk2, toks)
<1> DEFINE n == Len(stk)
<1> DEFINE top == stk[Len(stk)]
<1>1. stk \in Seq(Frame) /\ n \in Nat /\ n >= 1 /\ frame \in Frame
  BY DEF FramesOK, FrameOK
<1>2. /\ stk2 \in Seq(Frame) /\ Len(stk2) = n + 1 /\ stk2[n + 1] = frame
      /\ \A i \in 1..n : stk2[i] = stk[i]
  BY <1>1
<1>3. n \in 1..n /\ top = stk[n]
  BY <1>1
<1> HIDE DEF n
<1>4. \A i \in 1..(n + 1) : FrameOK(stk2[i], toks)
  <2>1. \A i \in 1..(n + 1) : i \in 1..n \/ i = n + 1
    BY <1>1
  <2> QED
    BY <1>2, <2>1 DEF FramesOK, n
<1>5. \A i, j \in 1..(n + 1) : i < j => Below(stk2[i], stk2[j])
  <2> SUFFICES ASSUME NEW i \in 1..(n + 1), NEW j \in 1..(n + 1), i < j
               PROVE  Below(stk2[i], stk2[j])
    OBVIOUS
  <2>1. i \in 1..n
    BY <1>1
  <2>2. CASE j \in 1..n
    BY <1>2, <2>1, <2>2 DEF FramesOK, n
  <2>3. CASE j = n + 1
    <3>1. CASE i = n
      BY <1>2, <1>3, <2>1, <2>3, <3>1
    <3>2. CASE i # n
      <4>1. i < n
        BY <1>1, <2>1, <3>2
      <4>2. Below(stk[i], top) /\ Below(top, frame)
        BY <1>3, <2>1, <4>1 DEF FramesOK, n
      <4>3. stk[i].at \in Nat /\ top.at \in Nat /\ frame.at \in Nat
        <5>1. stk[i] \in Frame /\ top \in Frame
          BY <1>1, <1>3, <2>1 DEF n
        <5> QED
          BY <1>1, <5>1, FrameTypes
      <4>4. stk[i].at <= frame.at /\ (stk[i].fn = "EXPR" => stk[i].at < frame.at)
        BY <4>2, <4>3 DEF Below
      <4>5. frame.fn \in Block \cup {"NEXT_ID_CALL_OR_ASSIGN"} => stk[i].fn \in Block
        BY <4>2 DEF Below
      <4> QED
        BY <1>2, <2>1, <2>3, <4>4, <4>5 DEF Below
    <3> QED
      BY <3>1, <3>2
  <2>4. j \in 1..n \/ j = n + 1
    BY <1>1
  <2> QED
    BY <2>2, <2>3, <2>4
<1>6. \A i \in 1..n : /\ Calls(stk2[i].fn, toks[stk2[i].at].kind, stk2[i + 1].fn)
                      /\ Waits(stk2[i], stk2[i + 1].fn)
  <2> SUFFICES ASSUME NEW i \in 1..n
               PROVE  /\ Calls(stk2[i].fn, toks[stk2[i].at].kind, stk2[i + 1].fn)
                      /\ Waits(stk2[i], stk2[i + 1].fn)
    OBVIOUS
  <2>1. CASE i = n
    BY <1>2, <1>3, <2>1 DEF n
  <2>2. CASE i # n
    <3>1. i \in 1..(n - 1) /\ i + 1 \in 1..n
      BY <1>1, <2>2
    <3> QED
      BY <1>2, <3>1 DEF FramesOK, n
  <2> QED
    BY <2>1, <2>2
<1>7. stk2[1].fn = "S"
  BY <1>1, <1>2 DEF FramesOK
<1>8. Len(stk2) - 1 = n
  BY <1>1, <1>2
<1> QED
  BY <1>2, <1>4, <1>5, <1>6, <1>7, <1>8 DEF FramesOK

\* A return.
LEMMA FramesPop ==
    ASSUME NEW stk, NEW toks, FramesOK(stk, toks), Len(stk) > 1,
           NEW stk2, stk2 = SubSeq(stk, 1, Len(stk) - 1)
    PROVE  /\ FramesOK(stk2, toks) /\ stk2 # <<>> /\ Len(stk2) = Len(stk) - 1
           /\ \A i \in 1..Len(stk2) : stk2[i] = stk[i]
<1> DEFINE n == Len(stk)
<1>1. stk \in Seq(Frame) /\ n \in Nat /\ n > 1
  BY DEF FramesOK
<1>2. /\ stk2 \in Seq(Frame) /\ Len(stk2) = n - 1
      /\ \A i \in 1..(n - 1) : stk2[i] = stk[i]
  BY <1>1
<1>3. stk2 # <<>>
  <2>1. n - 1 # 0
    BY <1>1
  <2> QED
    BY <1>2, <2>1, EmptySeq
<1> HIDE DEF n
<1>4. \A i \in 1..(n - 1) : i \in 1..n
  BY <1>1
<1>5. \A i \in 1..((n - 1) - 1) : i \in 1..(n - 1) /\ i + 1 \in 1..(n - 1)
  BY <1>1
<1>6. \A i \in 1..(n - 1) : FrameOK(stk2[i], toks)
  BY <1>2, <1>4 DEF FramesOK, n
<1>7. \A i, j \in 1..(n - 1) : i < j => Below(stk2[i], stk2[j])
  BY <1>2, <1>4 DEF FramesOK, n
<1>8. \A i \in 1..((n - 1) - 1) : /\ Calls(stk2[i].fn, toks[stk2[i].at].kind, stk2[i + 1].fn)
                                  /\ Waits(stk2[i], stk2[i + 1].fn)
  BY <1>2, <1>5 DEF FramesOK, n
<1>9. stk2[1].fn = "S"
  <2>1. 1 \in 1..(n - 1) /\ stk # <<>>
    BY <1>1
  <2> QED
    BY <1>2, <2>1 DEF FramesOK
<1> QED
  BY <1>2, <1>3, <1>6, <1>7, <1>8, <1>9 DEF FramesOK, n
-----------------------------------------------------------------------------
(* What the frames owe *)

Opened(stk, stk2, k) ==
    Len(stk) \notin OwingIn(stk, k) /\ OwingIn(stk2, k) = OwingIn(stk, k) \cup {Len(stk)}

Shut(stk, stk2, k) ==
    Len(stk) \in OwingIn(stk, k) /\ OwingIn(stk2, k) = OwingIn(stk, k) \ {Len(stk)}

\* The same functions, called on the same tokens.
Steady(stk, stk2) ==
    Len(stk2) = Len(stk) /\ \A i \in 1..Len(stk) : stk2[i].fn = stk[i].fn /\ stk2[i].at = stk[i].at

\* A step of the function on top changes what that frame owes and nothing below it.
LEMMA OwingSetTop ==
    ASSUME NEW stk \in Seq(Frame), stk # <<>>, NEW frame,
           frame.fn = stk[Len(stk)].fn, frame.at = stk[Len(stk)].at,
           NEW stk2, stk2 = [stk EXCEPT ![Len(stk)] = frame], NEW k
    PROVE  /\ Steady(stk, stk2)
           /\ (Owes(frame.todo, k) <=> Owes(stk[Len(stk)].todo, k)) /\ frame.tmp = stk[Len(stk)].tmp
                 => SameFor(stk, stk2, k)
           /\ ~Owes(frame.todo, k) /\ ~Owes(stk[Len(stk)].todo, k) => SameFor(stk, stk2, k)
           /\ Owes(frame.todo, k) /\ ~Owes(stk[Len(stk)].todo, k) => Opened(stk, stk2, k)
           /\ ~Owes(frame.todo, k) /\ Owes(stk[Len(stk)].todo, k) => Shut(stk, stk2, k)
<1> DEFINE n == Len(stk)
<1> DEFINE top == stk[Len(stk)]
<1>1. n \in Nat /\ n >= 1 /\ n \in 1..n
  OBVIOUS
<1>2. /\ Len(stk2) = n /\ stk2[n] = frame
      /\ \A i \in 1..n : i # n => stk2[i] = stk[i]
  OBVIOUS
<1>3. top = stk[n]
  OBVIOUS
<1> HIDE DEF n
<1>4. Steady(stk, stk2)
  BY <1>2 DEF Steady, n
<1>5. \A i \in 1..n : i # n => (Owes(stk2[i].todo, k) <=> Owes(stk[i].todo, k))
  BY <1>2
<1>6. ASSUME Owes(frame.todo, k) <=> Owes(top.todo, k)
      PROVE  OwingIn(stk2, k) = OwingIn(stk, k)
  BY <1>1, <1>2, <1>3, <1>5, <1>6 DEF OwingIn, n
<1>7. (Owes(frame.todo, k) <=> Owes(top.todo, k)) /\ frame.tmp = top.tmp => SameFor(stk, stk2, k)
  BY <1>1, <1>2, <1>3, <1>6 DEF SameFor, OwingIn, n
<1>8. ~Owes(frame.todo, k) /\ ~Owes(top.todo, k) => SameFor(stk, stk2, k)
  BY <1>1, <1>2, <1>3, <1>6 DEF SameFor, OwingIn, n
<1>9. Owes(frame.todo, k) /\ ~Owes(top.todo, k) => Opened(stk, stk2, k)
  BY <1>1, <1>2, <1>3, <1>5 DEF Opened, OwingIn, n
<1>10. ~Owes(frame.todo, k) /\ Owes(top.todo, k) => Shut(stk, stk2, k)
  BY <1>1, <1>2, <1>3, <1>5 DEF Shut, OwingIn, n
<1> QED
  BY <1>4, <1>7, <1>8, <1>9, <1>10

\* A call of a function that owes nothing changes nothing.
LEMMA OwingPush ==
    ASSUME NEW stk \in Seq(Frame), NEW frame \in Frame, NEW k, ~Owes(frame.todo, k),
           NEW stk2, stk2 = Append(stk, frame)
    PROVE  SameFor(stk, stk2, k)
<1> DEFINE n == Len(stk)
<1>1. /\ n \in Nat /\ Len(stk2) = n + 1 /\ stk2[n + 1] = frame
      /\ \A i \in 1..n : stk2[i] = stk[i]
  OBVIOUS
<1>2. \A i : i \in 1..(n + 1) <=> i \in 1..n \/ i = n + 1
  BY <1>1
<1> HIDE DEF n
<1> QED
  BY <1>1, <1>2 DEF SameFor, OwingIn, n

\* A return of a function that owes nothing changes nothing.
LEMMA OwingPop ==
    ASSUME NEW stk \in Seq(Frame), stk # <<>>, NEW k, ~Owes(stk[Len(stk)].todo, k),
           NEW stk2, stk2 = SubSeq(stk, 1, Len(stk) - 1)
    PROVE  SameFor(stk, stk2, k)
<1> DEFINE n == Len(stk)
<1>3. n \in Nat /\ n >= 1
  OBVIOUS
<1>4. Len(stk2) = n - 1 /\ \A i \in 1..(n - 1) : stk2[i] = stk[i]
  BY ButLast
<1>1. /\ n \in Nat /\ n >= 1 /\ Len(stk2) = n - 1 /\ ~Owes(stk[n].todo, k)
      /\ \A i \in 1..(n - 1) : stk2[i] = stk[i]
  BY <1>3, <1>4
<1>2. \A i : i \in 1..n <=> i \in 1..(n - 1) \/ i = n
  BY <1>1
<1> HIDE DEF n
<1> QED
  BY <1>1, <1>2 DEF SameFor, OwingIn, n

\* Two steps that change nothing of k change nothing of it together.
LEMMA SameForTrans ==
    ASSUME NEW stk, NEW stk1, NEW stk2, NEW k, SameFor(stk, stk1, k), SameFor(stk1, stk2, k)
    PROVE  SameFor(stk, stk2, k)
BY DEF SameFor

\* A function that is done owes nothing.
LEMMA EmptyOwesNothing ==
    ASSUME NEW k
    PROVE  ~Owes(<<>>, k)
BY DEF Owes, Has

\* The top frame executes its first statement.
LEMMA AdvanceOwes ==
    ASSUME NEW f, NEW kind, NEW t, Good(f, kind, t), t # <<>>, NEW ok, NEW k \in Thing
    PROVE  /\ Head(t).op \in Openers(k) => ~Owes(t, k) /\ Owes(Rest(Tail(t), ok), k)
           /\ Head(t).op = Closer(k) => Owes(t, k) /\ ~Owes(Rest(Tail(t), ok), k)
           /\ ~Touches(Head(t), k) => (Owes(Rest(Tail(t), ok), k) <=> Owes(t, k))
<1>1. Good(f, kind, Tail(t)) /\ t \in Seq(Statements)
  BY GoodTail
<1>2. Owes(Rest(Tail(t), ok), k) <=> Owes(Tail(t), k)
  BY <1>1, GoodRest
<1> QED
  BY <1>1, <1>2, NeatTail DEF Good
-----------------------------------------------------------------------------
(* The counters *)

CountsOK(stk, loops, branches, scopes, in_func) ==
    /\ loops = Cardinality(OwingIn(stk, "loop"))
    /\ branches = Cardinality(OwingIn(stk, "branch"))
    /\ scopes = Cardinality(OwingIn(stk, "scope")) + Cardinality(OwingIn(stk, "inner_scope"))
    /\ in_func => OwingIn(stk, "func") # {}

\* The frames that owe k can be counted.
LEMMA OwingFinite ==
    ASSUME NEW stk \in Seq(Frame), NEW k
    PROVE  IsFiniteSet(OwingIn(stk, k)) /\ Cardinality(OwingIn(stk, k)) \in Nat
<1>1. Len(stk) \in Nat /\ OwingIn(stk, k) \subseteq 1..Len(stk)
  BY DEF OwingIn
<1>2. IsFiniteSet(1..Len(stk))
  BY <1>1, FS_Interval
<1>3. IsFiniteSet(OwingIn(stk, k))
  BY <1>1, <1>2, FS_Subset
<1> QED
  BY <1>3, FS_CardinalityType

\* Opening k adds one to the frames that owe it.
LEMMA OpenedCounts ==
    ASSUME NEW stk \in Seq(Frame), NEW stk2, NEW k, Opened(stk, stk2, k)
    PROVE  Cardinality(OwingIn(stk2, k)) = Cardinality(OwingIn(stk, k)) + 1
BY OwingFinite, FS_AddElement DEF Opened

\* Closing k takes one from the frames that owe it.
LEMMA ShutCounts ==
    ASSUME NEW stk \in Seq(Frame), NEW stk2, NEW k, Shut(stk, stk2, k)
    PROVE  Cardinality(OwingIn(stk2, k)) = Cardinality(OwingIn(stk, k)) - 1
BY OwingFinite, FS_RemoveElement DEF Shut

\* The globals of parser.c stay right while nobody opens or closes.
LEMMA CountsSame ==
    ASSUME NEW stk, NEW stk2, NEW loops, NEW branches, NEW scopes, NEW in_func,
           CountsOK(stk, loops, branches, scopes, in_func),
           \A k \in {"loop", "branch", "scope", "inner_scope", "func"} : SameFor(stk, stk2, k)
    PROVE  CountsOK(stk2, loops, branches, scopes, in_func)
BY DEF CountsOK, SameFor

\* Where no frame owes anything, they are right exactly if they are zero.
LEMMA CountsAtEnd ==
    ASSUME NEW stk, \A k \in Thing : OwingIn(stk, k) = {},
           NEW loops, NEW branches, NEW scopes, NEW in_func
    PROVE  CountsOK(stk, loops, branches, scopes, in_func) <=>
               loops = 0 /\ branches = 0 /\ scopes = 0 /\ ~in_func
<1>1. Cardinality({}) = 0
  BY FS_EmptySet
<1> QED
  BY <1>1 DEF CountsOK, Thing
-----------------------------------------------------------------------------
(* The label stacks *)

\* w lists the numbers in K from the least to the greatest.
Enumerates(w, K) ==
    /\ w \in Seq(K)
    /\ \A p, q \in 1..Len(w) : p < q => w[p] < w[q]
    /\ \A x \in K : \E p \in 1..Len(w) : w[p] = x

\* The labels of if and else: the keys tell end labels and skip labels apart.
Keys(stk) ==
    {2 * i : i \in OwingIn(stk, "end_label")} \cup {2 * i + 1 : i \in OwingIn(stk, "skip_label")}

Labelled(stk, key, label) ==
    \A i \in 1..Len(stk) : /\ key = 2 * i => label = <<"end", stk[i].at>>
                           /\ key = 2 * i + 1 => label = <<"skip", stk[i].at>>

Stacked(stk, K, blabels) ==
    /\ blabels \in Seq({"end", "skip"} \X Nat)
    /\ \E w \in Seq(Nat) :
          /\ Enumerates(w, K) /\ Len(blabels) = Len(w)
          /\ \A p \in 1..Len(w) : Labelled(stk, w[p], blabels[p])

BranchLabelsOK(stk, blabels) == Stacked(stk, Keys(stk), blabels)

\* The labels of loops: the last loop has its label and its kind in two variables.
LoopList(stk, w, label, is_for, llabels, kinds) ==
    /\ Len(kinds) = Len(w)
    /\ w = <<>> => label = 0 /\ ~is_for /\ llabels = <<>>
    /\ w # <<>> =>
          /\ Len(llabels) = Len(w) - 1
          /\ label = stk[w[Len(w)]].at
          /\ is_for <=> stk[w[Len(w)]].fn = "FOR_LOOP"
          /\ ~kinds[1]
          /\ \A p \in 1..(Len(w) - 1) : /\ llabels[p] = stk[w[p]].at
                                        /\ kinds[p + 1] <=> stk[w[p]].fn = "FOR_LOOP"

LoopLabelsOK(stk, label, is_for, llabels, kinds) ==
    /\ label \in Nat /\ is_for \in BOOLEAN
    /\ llabels \in Seq(Nat) /\ kinds \in Seq(BOOLEAN)
    /\ \E w \in Seq(Nat) : /\ Enumerates(w, OwingIn(stk, "loop_label"))
                          /\ LoopList(stk, w, label, is_for, llabels, kinds)

\* w2 is w and, after it, x.
Longer(w, x, w2) ==
    Len(w2) = Len(w) + 1 /\ w2[Len(w) + 1] = x /\ \A p \in 1..Len(w) : w2[p] = w[p]

\* Append makes a sequence longer by its element.
LEMMA LongerAppend ==
    ASSUME NEW X, NEW w \in Seq(X), NEW x \in X
    PROVE  Longer(w, x, Append(w, x)) /\ Append(w, x) \in Seq(X)
BY DEF Longer

\* A new largest element goes on top of the stack that enumerates a set.
LEMMA EnumeratesPush ==
    ASSUME NEW w, NEW K \in SUBSET Nat, Enumerates(w, K), NEW m \in Nat, \A x \in K : x < m,
           NEW w2 \in Seq(Nat), Longer(w, m, w2)
    PROVE  Enumerates(w2, K \cup {m})
<1> DEFINE n == Len(w)
<1>1. w \in Seq(K) /\ n \in Nat
  BY DEF Enumerates
<1>3. \A p : p \in 1..(n + 1) <=> p \in 1..n \/ p = n + 1
  BY <1>1
<1>6. /\ Len(w2) = n + 1 /\ w2[n + 1] = m
      /\ \A p \in 1..n : w2[p] = w[p] /\ w[p] \in K
  BY <1>1 DEF Longer
<1> HIDE DEF n
<1>7. \A p \in 1..(n + 1) : w2[p] \in K \cup {m}
  BY <1>3, <1>6
<1>8. w2 \in Seq(K \cup {m})
  BY <1>6, <1>7
<1>2. /\ Len(w2) = n + 1 /\ w2[n + 1] = m /\ w2 \in Seq(K \cup {m})
      /\ \A p \in 1..n : w2[p] = w[p] /\ w[p] \in K
  BY <1>6, <1>8
<1>4. ASSUME NEW p \in 1..(n + 1), NEW q \in 1..(n + 1), p < q PROVE w2[p] < w2[q]
  <2>1. p \in 1..n
    BY <1>1, <1>4
  <2>2. CASE q \in 1..n
    BY <1>2, <1>4, <2>1, <2>2 DEF Enumerates, n
  <2>3. CASE q = n + 1
    BY <1>2, <2>1, <2>3
  <2> QED
    BY <1>3, <2>2, <2>3
<1>5. ASSUME NEW x \in K \cup {m} PROVE \E p \in 1..(n + 1) : w2[p] = x
  <2>1. CASE x \in K
    <3>1. PICK p \in 1..n : w[p] = x
      BY <2>1 DEF Enumerates, n
    <3> QED
      BY <1>2, <1>3, <3>1
  <2>2. CASE x = m
    BY <1>2, <1>3, <2>2
  <2> QED
    BY <2>1, <2>2
<1> QED
  BY <1>2, <1>4, <1>5 DEF Enumerates, n

\* The largest element of the set is on top of that stack.
LEMMA EnumeratesPop ==
    ASSUME NEW w, NEW K \in SUBSET Nat, Enumerates(w, K), NEW m \in K, \A x \in K : x <= m,
           NEW w2, w2 = SubSeq(w, 1, Len(w) - 1)
    PROVE  /\ Len(w) \in Nat /\ Len(w) >= 1 /\ w[Len(w)] = m
           /\ Enumerates(w2, K \ {m}) /\ Len(w2) = Len(w) - 1
           /\ \A p \in 1..(Len(w) - 1) : w2[p] = w[p]
<1> DEFINE n == Len(w)
<1>1. w \in Seq(K) /\ n \in Nat /\ \A p \in 1..n : w[p] \in K
  BY DEF Enumerates
<1>2. PICK c \in 1..n : w[c] = m
  BY DEF Enumerates
<1>3. \A p \in 1..n : w[p] \in Nat
  BY <1>1
<1>4. n \in 1..n /\ n >= 1
  BY <1>1
<1>5. /\ Len(w2) = n - 1 /\ \A p \in 1..(n - 1) : w2[p] = w[p]
      /\ w2 \in Seq(K)
  <2>1. w # <<>>
    BY <1>4
  <2> QED
    BY <1>1, <2>1, ButLast
<1> HIDE DEF n
<1>6. c = n
  <2> SUFFICES ASSUME c # n PROVE FALSE
    OBVIOUS
  <2>1. c < n
    BY <1>1, <1>2
  <2>2. w[c] < w[n]
    BY <1>2, <1>4, <2>1 DEF Enumerates, n
  <2>3. w[n] <= m
    BY <1>1, <1>4
  <2> QED
    BY <1>2, <1>3, <1>4, <2>2, <2>3
<1>7. \A p : p \in 1..n <=> p \in 1..(n - 1) \/ p = n
  BY <1>1, <1>4
<1>8. \A p \in 1..(n - 1) : p < n
  BY <1>1
<1>9. \A p \in 1..(n - 1) : w2[p] \in K \ {m}
  <2> SUFFICES ASSUME NEW p \in 1..(n - 1) PROVE w[p] \in K \ {m}
    BY <1>5
  <2>1. w[p] < w[n]
    BY <1>4, <1>7, <1>8 DEF Enumerates, n
  <2> QED
    BY <1>1, <1>2, <1>3, <1>6, <1>7, <2>1
<1>10. w2 \in Seq(K \ {m})
  <2>1. \A p \in 1..Len(w2) : w2[p] \in K \ {m}
    BY <1>5, <1>9
  <2> QED
    BY <1>5, <2>1
<1>11. \A p, q \in 1..(n - 1) : p < q => w2[p] < w2[q]
  BY <1>5, <1>7 DEF Enumerates, n
<1>12. ASSUME NEW x \in K \ {m} PROVE \E p \in 1..(n - 1) : w2[p] = x
  <2>1. PICK p \in 1..n : w[p] = x
    BY DEF Enumerates, n
  <2>2. p # n
    BY <1>2, <1>6, <2>1
  <2> QED
    BY <1>5, <1>7, <2>1, <2>2
<1> QED
  BY <1>1, <1>2, <1>4, <1>5, <1>6, <1>10, <1>11, <1>12 DEF Enumerates, n
\* A frame has two keys, and a key one frame.
LEMMA KeysAre ==
    ASSUME NEW stk \in Seq(Frame)
    PROVE  /\ Keys(stk) \in SUBSET Nat /\ OwingIn(stk, "loop_label") \in SUBSET Nat
           /\ \A i \in 1..Len(stk) : /\ 2 * i \in Keys(stk) <=> i \in OwingIn(stk, "end_label")
                                     /\ 2 * i + 1 \in Keys(stk) <=> i \in OwingIn(stk, "skip_label")
<1>1. \A k : OwingIn(stk, k) \subseteq 1..Len(stk)
  BY DEF OwingIn
<1>2. Len(stk) \in Nat
  OBVIOUS
<1> DEFINE n == Len(stk)
<1> HIDE DEF n
<1>3. \A i, j \in 1..n : (2 * i = 2 * j <=> i = j) /\ 2 * i # 2 * j + 1 /\ 2 * i \in Nat /\ 2 * i + 1 \in Nat
  BY <1>2 DEF n
<1> DEFINE E == OwingIn(stk, "end_label")
<1> DEFINE K == OwingIn(stk, "skip_label")
<1>4. E \subseteq 1..n /\ K \subseteq 1..n /\ OwingIn(stk, "loop_label") \subseteq 1..n
  BY <1>1 DEF n
<1>5. Keys(stk) = {2 * i : i \in E} \cup {2 * i + 1 : i \in K}
  BY DEF Keys
<1> HIDE DEF E, K
<1>6. OwingIn(stk, "loop_label") \in SUBSET Nat
  BY <1>2, <1>4 DEF n
<1>7. \A i \in 1..n : 2 * i \in Keys(stk) <=> i \in E
  BY <1>3, <1>4, <1>5
<1>8. \A i \in 1..n : 2 * i + 1 \in Keys(stk) <=> i \in K
  <2>1. \A i, j \in 1..n : 2 * i + 1 = 2 * j + 1 <=> i = j
    BY <1>2 DEF n
  <2> QED
    BY <1>3, <1>4, <1>5, <2>1
<1>9. Keys(stk) \in SUBSET Nat
  BY <1>3, <1>4, <1>5
<1> QED
  BY <1>6, <1>7, <1>8, <1>9 DEF E, K, n

\* The label stack stays right while the frames keep their labels.
LEMMA StackedSame ==
    ASSUME NEW stk, NEW stk2, NEW K, NEW blabels, Stacked(stk, K, blabels),
           \A key \in K : \A label : Labelled(stk, key, label) => Labelled(stk2, key, label)
    PROVE  Stacked(stk2, K, blabels)
<1>1. PICK w \in Seq(Nat) : /\ Enumerates(w, K) /\ Len(blabels) = Len(w)
                            /\ \A p \in 1..Len(w) : Labelled(stk, w[p], blabels[p])
  BY DEF Stacked
<1>2. \A p \in 1..Len(w) : w[p] \in K
  BY <1>1 DEF Enumerates
<1> QED
  BY <1>1, <1>2 DEF Stacked

\* A new label belongs to the frame that owes it last.
LEMMA StackedPush ==
    ASSUME NEW stk, NEW K \in SUBSET Nat, NEW blabels, Stacked(stk, K, blabels),
           NEW m \in Nat, \A x \in K : x < m,
           NEW label \in {"end", "skip"} \X Nat, Labelled(stk, m, label)
    PROVE  Stacked(stk, K \cup {m}, Append(blabels, label))
<1>1. PICK w \in Seq(Nat) : /\ Enumerates(w, K) /\ Len(blabels) = Len(w)
                            /\ \A p \in 1..Len(w) : Labelled(stk, w[p], blabels[p])
  BY DEF Stacked
<1> DEFINE w2 == Append(w, m)
<1> DEFINE b2 == Append(blabels, label)
<1> DEFINE n == Len(w)
<1>2. w2 \in Seq(Nat) /\ Longer(w, m, w2)
  BY LongerAppend
<1>3. blabels \in Seq({"end", "skip"} \X Nat)
  BY DEF Stacked
<1>4. b2 \in Seq({"end", "skip"} \X Nat) /\ Longer(blabels, label, b2)
  BY <1>3, LongerAppend
<1> HIDE DEF w2, b2
<1>5. Enumerates(w2, K \cup {m})
  BY <1>1, <1>2, EnumeratesPush
<1>6. /\ n \in Nat /\ Len(w2) = n + 1 /\ w2[n + 1] = m /\ \A p \in 1..n : w2[p] = w[p]
      /\ Len(b2) = n + 1 /\ b2[n + 1] = label /\ \A p \in 1..n : b2[p] = blabels[p]
  BY <1>1, <1>2, <1>4 DEF Longer
<1>7. \A p \in 1..n : Labelled(stk, w2[p], b2[p])
  BY <1>1, <1>6
<1> HIDE DEF n
<1>8. \A p \in 1..(n + 1) : p \in 1..n \/ p = n + 1
  BY <1>6
<1>9. \A p \in 1..(n + 1) : Labelled(stk, w2[p], b2[p])
  BY <1>6, <1>7, <1>8
<1>10. Stacked(stk, K \cup {m}, b2)
  BY <1>2, <1>4, <1>5, <1>6, <1>9 DEF Stacked
<1> QED
  BY <1>10 DEF b2

\* The label on top is the one the last frame owes.
LEMMA StackedPop ==
    ASSUME NEW stk, NEW K \in SUBSET Nat, NEW blabels, Stacked(stk, K, blabels),
           NEW m \in K, \A x \in K : x <= m
    PROVE  /\ blabels # <<>> /\ Len(blabels) \in Nat /\ Labelled(stk, m, Last(blabels))
           /\ Stacked(stk, K \ {m}, Popped(blabels)) /\ Len(Popped(blabels)) = Len(blabels) - 1
<1>1. PICK w \in Seq(Nat) : /\ Enumerates(w, K) /\ Len(blabels) = Len(w)
                            /\ \A p \in 1..Len(w) : Labelled(stk, w[p], blabels[p])
  BY DEF Stacked
<1> DEFINE w2 == SubSeq(w, 1, Len(w) - 1)
<1> DEFINE b2 == SubSeq(blabels, 1, Len(blabels) - 1)
<1> DEFINE n == Len(w)
<1>2. /\ n \in Nat /\ n >= 1 /\ w[n] = m
      /\ Enumerates(w2, K \ {m}) /\ Len(w2) = n - 1
      /\ \A p \in 1..(n - 1) : w2[p] = w[p]
  BY <1>1, EnumeratesPop
<1>3. blabels \in Seq({"end", "skip"} \X Nat) /\ blabels # <<>>
  BY <1>1, <1>2 DEF Stacked
<1>4. /\ b2 \in Seq({"end", "skip"} \X Nat) /\ Len(b2) = n - 1
      /\ \A p \in 1..(n - 1) : b2[p] = blabels[p]
  BY <1>1, <1>3, ButLast
<1>5. w2 \in Seq(Nat)
  <2>1. w # <<>>
    BY <1>2
  <2> QED
    BY <2>1, ButLast
<1>6. Last(blabels) = blabels[n] /\ Popped(blabels) = b2
  BY <1>1 DEF Last, Popped
<1> HIDE DEF w2, b2
<1>7. \A p \in 1..(n - 1) : p \in 1..n
  BY <1>2
<1>8. n \in 1..n
  BY <1>2
<1>9. \A p \in 1..(n - 1) : Labelled(stk, w2[p], b2[p])
  BY <1>1, <1>2, <1>4, <1>7
<1>10. Labelled(stk, m, blabels[n])
  BY <1>1, <1>2, <1>8
<1> HIDE DEF n
<1>11. Stacked(stk, K \ {m}, b2)
  BY <1>2, <1>4, <1>5, <1>9 DEF Stacked
<1>12. Len(blabels) = n
  BY <1>1 DEF n
<1> QED
  BY ONLY <1>2, <1>3, <1>4, <1>6, <1>10, <1>11, <1>12

\* branch_label_stack stays right while no frame makes or takes labels.
LEMMA BranchLabelsSame ==
    ASSUME NEW stk \in Seq(Frame), NEW stk2 \in Seq(Frame), NEW blabels, BranchLabelsOK(stk, blabels),
           SameFor(stk, stk2, "end_label"), SameFor(stk, stk2, "skip_label")
    PROVE  BranchLabelsOK(stk2, blabels)
<1>1. Keys(stk2) = Keys(stk)
  BY DEF Keys, SameFor
<1>2. ASSUME NEW key \in Keys(stk), NEW label, Labelled(stk, key, label)
      PROVE  Labelled(stk2, key, label)
  <2> SUFFICES ASSUME NEW i \in 1..Len(stk2)
               PROVE  /\ key = 2 * i => label = <<"end", stk2[i].at>>
                      /\ key = 2 * i + 1 => label = <<"skip", stk2[i].at>>
    BY DEF Labelled
  <2>1. ASSUME key = 2 * i PROVE label = <<"end", stk2[i].at>>
    <3>1. i \in OwingIn(stk, "end_label")
      BY <1>1, <2>1, KeysAre DEF SameFor
    <3>2. i \in 1..Len(stk) /\ stk2[i].at = stk[i].at
      BY <3>1 DEF SameFor, OwingIn
    <3> QED
      BY <1>2, <2>1, <3>2 DEF Labelled
  <2>2. ASSUME key = 2 * i + 1 PROVE label = <<"skip", stk2[i].at>>
    <3>1. i \in OwingIn(stk, "skip_label")
      BY <1>1, <2>2, KeysAre DEF SameFor
    <3>2. i \in 1..Len(stk) /\ stk2[i].at = stk[i].at
      BY <3>1 DEF SameFor, OwingIn
    <3> QED
      BY <1>2, <2>2, <3>2 DEF Labelled
  <2> QED
    BY <2>1, <2>2
<1>3. Stacked(stk2, Keys(stk), blabels)
  BY <1>2, StackedSame DEF BranchLabelsOK
<1> QED
  BY <1>1, <1>3 DEF BranchLabelsOK

\* A step of the top frame changes the frames' tokens and so their labels not.
LEMMA LabelledSteady ==
    ASSUME NEW stk \in Seq(Frame), NEW stk2 \in Seq(Frame), Steady(stk, stk2), NEW K, NEW blabels,
           Stacked(stk, K, blabels)
    PROVE  Stacked(stk2, K, blabels)
<1>1. \A key \in K : \A label : Labelled(stk, key, label) => Labelled(stk2, key, label)
  BY DEF Labelled, Steady
<1> QED
  BY <1>1, StackedSame

\* The keys of the frames below the top one come before its own.
LEMMA KeysBelow ==
    ASSUME NEW stk \in Seq(Frame), stk # <<>>, NEW n, n = Len(stk)
    PROVE  /\ n \in 1..n /\ n \in Nat /\ 2 * n \in Nat /\ 2 * n + 1 \in Nat /\ 2 * n < 2 * n + 1
           /\ \A x \in Keys(stk) : x < 2 * n \/ x = 2 * n \/ x = 2 * n + 1
           /\ \A label : Labelled(stk, 2 * n, label) <=> label = <<"end", stk[n].at>>
           /\ \A label : Labelled(stk, 2 * n + 1, label) <=> label = <<"skip", stk[n].at>>
<1>1. n \in Nat /\ n >= 1
  OBVIOUS
<1>2. \A k : OwingIn(stk, k) \subseteq 1..n
  BY DEF OwingIn
<1>3. \A i \in 1..n : /\ 2 * i < 2 * n \/ 2 * i = 2 * n
                      /\ 2 * i + 1 < 2 * n \/ 2 * i + 1 = 2 * n + 1
                      /\ 2 * n = 2 * i <=> i = n
                      /\ 2 * n + 1 = 2 * i + 1 <=> i = n
                      /\ 2 * n # 2 * i + 1 /\ 2 * n + 1 # 2 * i
  BY <1>1
<1>4. \A x \in Keys(stk) : x < 2 * n \/ x = 2 * n \/ x = 2 * n + 1
  BY <1>2, <1>3 DEF Keys
<1>5. \A label : Labelled(stk, 2 * n, label) <=> label = <<"end", stk[n].at>>
  BY <1>1, <1>3 DEF Labelled
<1>6. \A label : Labelled(stk, 2 * n + 1, label) <=> label = <<"skip", stk[n].at>>
  BY <1>1, <1>3 DEF Labelled
<1> QED
  BY <1>1, <1>4, <1>5, <1>6

\* gen_branch_labels(true), gen_branch_labels(false), gen_branch_if_end and
\* gen_branch_end.
LEMMA BranchLabelsStep ==
    ASSUME NEW stk \in Seq(Frame), stk # <<>>, NEW n, n = Len(stk), NEW stk2 \in Seq(Frame),
           Steady(stk, stk2), NEW blabels, BranchLabelsOK(stk, blabels)
    PROVE  /\ Opened(stk, stk2, "end_label") /\ Opened(stk, stk2, "skip_label") =>
                 BranchLabelsOK(stk2, blabels \o << <<"end", stk[n].at>>, <<"skip", stk[n].at>> >>)
           /\ SameFor(stk, stk2, "end_label") /\ Opened(stk, stk2, "skip_label") =>
                 BranchLabelsOK(stk2, blabels \o << <<"skip", stk[n].at>> >>)
           /\ SameFor(stk, stk2, "end_label") /\ Shut(stk, stk2, "skip_label") =>
                 /\ BranchLabelsOK(stk2, Popped(blabels))
                 /\ blabels # <<>> /\ Last(blabels) = <<"skip", stk[n].at>>
           /\ (/\ Shut(stk, stk2, "end_label") /\ SameFor(stk, stk2, "skip_label")
               /\ ~Owes(stk[n].todo, "skip_label")) =>
                 /\ BranchLabelsOK(stk2, Popped(blabels))
                 /\ blabels # <<>> /\ Last(blabels) = <<"end", stk[n].at>>
<1> DEFINE K == Keys(stk)
<1> DEFINE e == 2 * n
<1> DEFINE s == 2 * n + 1
<1> DEFINE end == <<"end", stk[n].at>>
<1> DEFINE skip == <<"skip", stk[n].at>>
<1>1. /\ n \in 1..n /\ e \in Nat /\ s \in Nat /\ e < s
      /\ \A x \in K : x < e \/ x = e \/ x = s
      /\ \A label : Labelled(stk, e, label) <=> label = end
      /\ \A label : Labelled(stk, s, label) <=> label = skip
  BY KeysBelow
<1>2. /\ K \in SUBSET Nat
      /\ e \in K <=> n \in OwingIn(stk, "end_label")
      /\ s \in K <=> n \in OwingIn(stk, "skip_label")
  BY <1>1, KeysAre
<1>3. end \in {"end", "skip"} \X Nat /\ skip \in {"end", "skip"} \X Nat
  <2>1. stk[n] \in Frame
    BY <1>1
  <2> QED
    BY <2>1, FrameTypes
<1>4. Stacked(stk, K, blabels) /\ blabels \in Seq({"end", "skip"} \X Nat)
  BY DEF BranchLabelsOK, Stacked
<1>5. n \in OwingIn(stk, "skip_label") <=> Owes(stk[n].todo, "skip_label")
  BY <1>1 DEF OwingIn
<1> DEFINE both == {e} \cup {s}
<1>6. /\ Opened(stk, stk2, "end_label") /\ Opened(stk, stk2, "skip_label") =>
            Keys(stk2) = (K \cup {e}) \cup {s} /\ e \notin K /\ s \notin K
      /\ SameFor(stk, stk2, "end_label") /\ Opened(stk, stk2, "skip_label") =>
            Keys(stk2) = K \cup {s} /\ s \notin K
  BY <1>1, <1>2 DEF Opened, SameFor, Keys
<1>7. /\ SameFor(stk, stk2, "end_label") /\ Shut(stk, stk2, "skip_label") =>
            Keys(stk2) = K \ {s} /\ s \in K
      /\ Shut(stk, stk2, "end_label") /\ SameFor(stk, stk2, "skip_label") =>
            Keys(stk2) = K \ {e} /\ e \in K
  <2>1. ASSUME SameFor(stk, stk2, "end_label"), Shut(stk, stk2, "skip_label")
        PROVE  Keys(stk2) = K \ {s} /\ s \in K
    <3>1. n \in OwingIn(stk, "skip_label") /\ OwingIn(stk2, "skip_label") = OwingIn(stk, "skip_label") \ {n}
      BY <2>1 DEF Shut
    <3>2. OwingIn(stk2, "end_label") = OwingIn(stk, "end_label")
      BY <2>1 DEF SameFor
    <3>3. \A i \in OwingIn(stk, "end_label") : 2 * i # s
      BY <1>1 DEF OwingIn
    <3>4. \A i \in OwingIn(stk, "skip_label") : 2 * i + 1 = s <=> i = n
      BY <1>1 DEF OwingIn
    <3> HIDE DEF s
    <3>5. Keys(stk2) = Keys(stk) \ {s}
      BY <3>1, <3>2, <3>3, <3>4 DEF Keys
    <3> QED
      BY <1>2, <3>1, <3>5
  <2>2. ASSUME Shut(stk, stk2, "end_label"), SameFor(stk, stk2, "skip_label")
        PROVE  Keys(stk2) = K \ {e} /\ e \in K
    <3>1. n \in OwingIn(stk, "end_label") /\ OwingIn(stk2, "end_label") = OwingIn(stk, "end_label") \ {n}
      BY <2>2 DEF Shut
    <3>2. OwingIn(stk2, "skip_label") = OwingIn(stk, "skip_label")
      BY <2>2 DEF SameFor
    <3>3. \A i \in OwingIn(stk, "skip_label") : 2 * i + 1 # e
      BY <1>1 DEF OwingIn
    <3>4. \A i \in OwingIn(stk, "end_label") : 2 * i = e <=> i = n
      BY <1>1 DEF OwingIn
    <3> HIDE DEF e
    <3>5. Keys(stk2) = Keys(stk) \ {e}
      BY <3>1, <3>2, <3>3, <3>4 DEF Keys
    <3> QED
      BY <1>2, <3>1, <3>5
  <2> QED
    BY <2>1, <2>2
<1> HIDE DEF K, e, s, end, skip
<1>8. ASSUME Opened(stk, stk2, "end_label"), Opened(stk, stk2, "skip_label")
      PROVE  BranchLabelsOK(stk2, blabels \o <<end, skip>>)
  <2>1. Keys(stk2) = (K \cup {e}) \cup {s} /\ \A x \in K : x < e
    BY <1>1, <1>6, <1>8
  <2>2. Stacked(stk, K \cup {e}, Append(blabels, end))
    BY <1>1, <1>2, <1>3, <1>4, <2>1, StackedPush
  <2>3. K \cup {e} \in SUBSET Nat /\ \A x \in K \cup {e} : x < s
    BY <1>1, <1>2, <2>1
  <2>4. Stacked(stk, (K \cup {e}) \cup {s}, Append(Append(blabels, end), skip))
    BY <1>1, <1>3, <2>2, <2>3, StackedPush
  <2>5. Append(Append(blabels, end), skip) = blabels \o <<end, skip>>
    BY <1>3, <1>4
  <2> QED
    BY <2>1, <2>4, <2>5, LabelledSteady DEF BranchLabelsOK
<1>9. ASSUME SameFor(stk, stk2, "end_label"), Opened(stk, stk2, "skip_label")
      PROVE  BranchLabelsOK(stk2, blabels \o <<skip>>)
  <2>1. Keys(stk2) = K \cup {s} /\ \A x \in K : x < s
    BY <1>1, <1>2, <1>6, <1>9
  <2>2. Stacked(stk, K \cup {s}, Append(blabels, skip))
    BY <1>1, <1>2, <1>3, <1>4, <2>1, StackedPush
  <2>3. Append(blabels, skip) = blabels \o <<skip>>
    BY <1>3, <1>4
  <2> QED
    BY <2>1, <2>2, <2>3, LabelledSteady DEF BranchLabelsOK
<1>10. ASSUME SameFor(stk, stk2, "end_label"), Shut(stk, stk2, "skip_label")
       PROVE  BranchLabelsOK(stk2, Popped(blabels)) /\ blabels # <<>> /\ Last(blabels) = skip
  <2>1. Keys(stk2) = K \ {s} /\ s \in K /\ \A x \in K : x <= s
    BY <1>1, <1>2, <1>7, <1>10
  <2>2. /\ Stacked(stk, K \ {s}, Popped(blabels)) /\ blabels # <<>>
        /\ Labelled(stk, s, Last(blabels))
    BY <1>2, <1>4, <2>1, StackedPop
  <2> QED
    BY <1>1, <2>1, <2>2, LabelledSteady DEF BranchLabelsOK
<1>11. ASSUME Shut(stk, stk2, "end_label"), SameFor(stk, stk2, "skip_label"),
              ~Owes(stk[n].todo, "skip_label")
       PROVE  BranchLabelsOK(stk2, Popped(blabels)) /\ blabels # <<>> /\ Last(blabels) = end
  <2>1. Keys(stk2) = K \ {e} /\ e \in K /\ \A x \in K : x <= e
    BY <1>1, <1>2, <1>5, <1>7, <1>11
  <2>2. /\ Stacked(stk, K \ {e}, Popped(blabels)) /\ blabels # <<>>
        /\ Labelled(stk, e, Last(blabels))
    BY <1>2, <1>4, <2>1, StackedPop
  <2> QED
    BY <1>1, <2>1, <2>2, LabelledSteady DEF BranchLabelsOK
<1>12. Opened(stk, stk2, "end_label") /\ Opened(stk, stk2, "skip_label") =>
          BranchLabelsOK(stk2, blabels \o << <<"end", stk[n].at>>, <<"skip", stk[n].at>> >>)
  BY <1>8 DEF end, skip
<1>13. SameFor(stk, stk2, "end_label") /\ Opened(stk, stk2, "skip_label") =>
          BranchLabelsOK(stk2, blabels \o << <<"skip", stk[n].at>> >>)
  BY <1>9 DEF skip
<1>14. SameFor(stk, stk2, "end_label") /\ Shut(stk, stk2, "skip_label") =>
          /\ BranchLabelsOK(stk2, Popped(blabels))
          /\ blabels # <<>> /\ Last(blabels) = <<"skip", stk[n].at>>
  BY ONLY <1>10 DEF skip
<1>15. (/\ Shut(stk, stk2, "end_label") /\ SameFor(stk, stk2, "skip_label")
        /\ ~Owes(stk[n].todo, "skip_label")) =>
          /\ BranchLabelsOK(stk2, Popped(blabels))
          /\ blabels # <<>> /\ Last(blabels) = <<"end", stk[n].at>>
  BY ONLY <1>11 DEF end
<1> QED
  BY ONLY <1>12, <1>13, <1>14, <1>15

\* The label stacks of loops stay right while no loop begins or ends.
LEMMA LoopLabelsSame ==
    ASSUME NEW stk, NEW stk2, NEW label, NEW is_for, NEW llabels, NEW kinds,
           LoopLabelsOK(stk, label, is_for, llabels, kinds), SameFor(stk, stk2, "loop_label")
    PROVE  LoopLabelsOK(stk2, label, is_for, llabels, kinds)
<1>1. /\ OwingIn(stk2, "loop_label") = OwingIn(stk, "loop_label")
      /\ \A i \in OwingIn(stk, "loop_label") : stk2[i].fn = stk[i].fn /\ stk2[i].at = stk[i].at
  BY DEF SameFor
<1>2. PICK w \in Seq(Nat) : /\ Enumerates(w, OwingIn(stk, "loop_label"))
                            /\ LoopList(stk, w, label, is_for, llabels, kinds)
  BY DEF LoopLabelsOK
<1>3. \A p \in 1..Len(w) : w[p] \in OwingIn(stk, "loop_label")
  BY <1>2 DEF Enumerates
<1>4. w # <<>> => Len(w) \in 1..Len(w)
  OBVIOUS
<1>5. \A p \in 1..(Len(w) - 1) : p \in 1..Len(w)
  OBVIOUS
<1>6. LoopList(stk2, w, label, is_for, llabels, kinds)
  BY <1>1, <1>2, <1>3, <1>4, <1>5 DEF LoopList
<1> QED
  BY <1>1, <1>2, <1>6 DEF LoopLabelsOK

\* gen_while_start and gen_for_start.
LEMMA LoopLabelsOpen ==
    ASSUME NEW stk \in Seq(Frame), stk # <<>>, NEW n, n = Len(stk), NEW stk2 \in Seq(Frame),
           \A i \in 1..n : stk[i].at # 0, Steady(stk, stk2), Opened(stk, stk2, "loop_label"),
           NEW label, NEW is_for, NEW llabels, NEW kinds,
           LoopLabelsOK(stk, label, is_for, llabels, kinds),
           NEW is_for2 \in BOOLEAN, is_for2 <=> stk[n].fn = "FOR_LOOP",
           NEW llabels2, llabels2 = IF label = 0 THEN llabels ELSE Append(llabels, label)
    PROVE  LoopLabelsOK(stk2, stk[n].at, is_for2, llabels2, Append(kinds, is_for))
<1> DEFINE K == OwingIn(stk, "loop_label")
<1>1. /\ label \in Nat /\ is_for \in BOOLEAN /\ llabels \in Seq(Nat) /\ kinds \in Seq(BOOLEAN)
  BY DEF LoopLabelsOK
<1>20. PICK w \in Seq(Nat) : /\ Enumerates(w, K)
                             /\ LoopList(stk, w, label, is_for, llabels, kinds)
  BY DEF LoopLabelsOK
<1>2. /\ Len(kinds) = Len(w)
      /\ w = <<>> => label = 0 /\ ~is_for /\ llabels = <<>>
      /\ w # <<>> =>
            /\ Len(llabels) = Len(w) - 1
            /\ label = stk[w[Len(w)]].at
            /\ is_for <=> stk[w[Len(w)]].fn = "FOR_LOOP"
            /\ ~kinds[1]
            /\ \A p \in 1..(Len(w) - 1) : /\ llabels[p] = stk[w[p]].at
                                          /\ kinds[p + 1] <=> stk[w[p]].fn = "FOR_LOOP"
  BY <1>20 DEF LoopList
<1> DEFINE m == Len(w)
<1> DEFINE w2 == Append(w, n)
<1> DEFINE k2 == Append(kinds, is_for)
<1>3. n \in Nat /\ n >= 1 /\ n \in 1..n /\ m \in Nat
  OBVIOUS
<1>4. stk[n].at \in Nat
  <2>1. stk[n] \in Frame
    BY <1>3
  <2> QED
    BY <2>1, FrameTypes
<1>5. /\ K \in SUBSET Nat /\ K \subseteq 1..n /\ n \notin K
      /\ OwingIn(stk2, "loop_label") = K \cup {n}
  BY KeysAre DEF Opened, OwingIn
<1>6. \A x \in K : x < n
  BY <1>3, <1>5
<1>7. w2 \in Seq(Nat) /\ Longer(w, n, w2)
  BY <1>3, LongerAppend
<1>8. k2 \in Seq(BOOLEAN) /\ Longer(kinds, is_for, k2)
  BY <1>1, LongerAppend
<1>9. \A p \in 1..m : w[p] \in K
  BY <1>20 DEF Enumerates
<1>10. \A i \in 1..n : stk2[i].fn = stk[i].fn /\ stk2[i].at = stk[i].at
  BY DEF Steady
<1>11. w # <<>> <=> m # 0
  BY EmptySeq
<1> HIDE DEF w2, k2, K
<1>12. Enumerates(w2, OwingIn(stk2, "loop_label"))
  <2>1. Enumerates(w2, K \cup {n})
    BY ONLY <1>3, <1>5, <1>6, <1>7, <1>20, EnumeratesPush
  <2> QED
    BY <1>5, <2>1
<1>13. /\ Len(w2) = m + 1 /\ w2[m + 1] = n /\ \A p \in 1..m : w2[p] = w[p]
       /\ Len(k2) = m + 1 /\ k2[m + 1] = is_for /\ \A p \in 1..m : k2[p] = kinds[p]
  BY <1>2, <1>7, <1>8 DEF Longer
<1>14. w2 # <<>>
  <2>1. Len(w2) # 0
    BY <1>3, <1>13
  <2> QED
    BY <2>1, EmptySeq
<1>15. stk2[w2[Len(w2)]].at = stk[n].at /\ (is_for2 <=> stk2[w2[Len(w2)]].fn = "FOR_LOOP")
  BY <1>3, <1>10, <1>13
<1>16. \A p \in 1..m : w2[p] \in 1..n /\ stk2[w2[p]].at = stk[w[p]].at /\ stk2[w2[p]].fn = stk[w[p]].fn
  BY <1>5, <1>9, <1>10, <1>13
<1>17. /\ llabels2 \in Seq(Nat) /\ Len(llabels2) = m /\ ~k2[1]
       /\ \A p \in 1..m : /\ llabels2[p] = stk[w[p]].at
                          /\ k2[p + 1] <=> stk[w[p]].fn = "FOR_LOOP"
  <2>1. CASE m = 0
    <3>1. llabels2 = <<>> /\ ~is_for
      BY <1>2, <1>11, <2>1
    <3>2. k2[1] = is_for
      <4>1. m + 1 = 1
        BY <2>1
      <4> QED
        BY <1>13, <4>1
    <3>3. \A p \in 1..m : FALSE
      BY <2>1
    <3>4. llabels2 \in Seq(Nat) /\ Len(llabels2) = 0
      BY ONLY <3>1
    <3> HIDE DEF m
    <3> QED
      BY <2>1, <3>1, <3>2, <3>3, <3>4
  <2>2. CASE m # 0
    <3>1. m \in 1..m /\ w[m] \in 1..n
      BY <1>3, <1>5, <1>9, <2>2
    <3>2. label = stk[w[m]].at /\ label # 0 /\ (is_for <=> stk[w[m]].fn = "FOR_LOOP")
      BY <1>2, <1>11, <2>2, <3>1
    <3>3. llabels2 \in Seq(Nat) /\ Longer(llabels, label, llabels2)
      BY <1>1, <3>2, LongerAppend
    <3>4. /\ Len(llabels) = m - 1 /\ ~kinds[1]
          /\ \A p \in 1..(m - 1) : /\ llabels[p] = stk[w[p]].at
                                   /\ kinds[p + 1] <=> stk[w[p]].fn = "FOR_LOOP"
      BY <1>2, <1>11, <2>2
    <3> HIDE DEF m
    <3>5. (m - 1) + 1 = m /\ \A p \in 1..m : p = m \/ (p \in 1..(m - 1) /\ p + 1 \in 1..m)
      BY <1>3
    <3>6. Len(llabels2) = m /\ llabels2[m] = label /\ \A p \in 1..(m - 1) : llabels2[p] = llabels[p]
      BY <3>3, <3>4, <3>5 DEF Longer
    <3>7. ~k2[1]
      <4>1. 1 \in 1..m
        BY <1>3, <2>2
      <4> QED
        BY <1>13, <3>4, <4>1
    <3>8. \A p \in 1..m : llabels2[p] = stk[w[p]].at
      BY <3>2, <3>4, <3>5, <3>6
    <3>9. \A p \in 1..m : k2[p + 1] <=> stk[w[p]].fn = "FOR_LOOP"
      <4> SUFFICES ASSUME NEW p \in 1..m PROVE k2[p + 1] <=> stk[w[p]].fn = "FOR_LOOP"
        OBVIOUS
      <4>1. CASE p = m
        BY <1>13, <3>2, <4>1
      <4>2. CASE p # m
        BY <1>13, <3>4, <3>5, <4>2
      <4> QED
        BY <4>1, <4>2
    <3> QED
      BY <3>3, <3>6, <3>7, <3>8, <3>9
  <2> QED
    BY <2>1, <2>2
<1> HIDE DEF m
<1>18. Len(w2) - 1 = m /\ Len(k2) = Len(w2)
  BY <1>3, <1>13
<1>19. LoopLabelsOK(stk2, stk[n].at, is_for2, llabels2, k2)
  <2>1. LoopList(stk2, w2, stk[n].at, is_for2, llabels2, k2)
    BY <1>14, <1>15, <1>16, <1>17, <1>18 DEF LoopList
  <2> QED
    BY <1>4, <1>7, <1>8, <1>12, <1>17, <2>1 DEF LoopLabelsOK
<1> QED
  BY <1>19 DEF k2

\* gen_while_end and gen_for_end.
LEMMA LoopLabelsShut ==
    ASSUME NEW stk \in Seq(Frame), stk # <<>>, NEW n, n = Len(stk), NEW stk2 \in Seq(Frame),
           Steady(stk, stk2), Shut(stk, stk2, "loop_label"),
           NEW label, NEW is_for, NEW llabels, NEW kinds,
           LoopLabelsOK(stk, label, is_for, llabels, kinds),
           NEW llabels2, llabels2 = IF llabels = <<>> THEN <<>> ELSE Popped(llabels),
           NEW label2, label2 = IF llabels = <<>> THEN 0 ELSE Last(llabels)
    PROVE  LoopLabelsOK(stk2, label2, Last(kinds), llabels2, Popped(kinds))
<1> DEFINE K == OwingIn(stk, "loop_label")
<1>1. /\ label \in Nat /\ is_for \in BOOLEAN /\ llabels \in Seq(Nat) /\ kinds \in Seq(BOOLEAN)
  BY DEF LoopLabelsOK
<1>20. PICK w \in Seq(Nat) : /\ Enumerates(w, K)
                             /\ LoopList(stk, w, label, is_for, llabels, kinds)
  BY DEF LoopLabelsOK
<1>2. /\ Len(kinds) = Len(w)
      /\ w # <<>> =>
            /\ Len(llabels) = Len(w) - 1
            /\ label = stk[w[Len(w)]].at
            /\ is_for <=> stk[w[Len(w)]].fn = "FOR_LOOP"
            /\ ~kinds[1]
            /\ \A p \in 1..(Len(w) - 1) : /\ llabels[p] = stk[w[p]].at
                                          /\ kinds[p + 1] <=> stk[w[p]].fn = "FOR_LOOP"
  BY <1>20 DEF LoopList
<1> DEFINE m == Len(w)
<1> DEFINE w2 == SubSeq(w, 1, Len(w) - 1)
<1> DEFINE k2 == SubSeq(kinds, 1, Len(kinds) - 1)
<1>3. n \in Nat /\ n >= 1 /\ n \in 1..n
  OBVIOUS
<1>4. /\ K \in SUBSET Nat /\ K \subseteq 1..n /\ n \in K
      /\ OwingIn(stk2, "loop_label") = K \ {n}
  BY KeysAre DEF Shut, OwingIn
<1>5. \A x \in K : x <= n
  BY <1>3, <1>4
<1> HIDE DEF K
<1>6. /\ m \in Nat /\ m >= 1
      /\ Enumerates(w2, K \ {n}) /\ Len(w2) = m - 1 /\ \A p \in 1..(m - 1) : w2[p] = w[p]
  BY ONLY <1>4, <1>5, <1>20, EnumeratesPop, ZenonT(60)
<1>7. w # <<>> /\ w2 \in Seq(Nat)
  <2>1. w # <<>>
    BY <1>6
  <2> QED
    BY <2>1, ButLast
<1>8. kinds # <<>>
  BY <1>2, <1>6
<1>9. k2 \in Seq(BOOLEAN) /\ Len(k2) = m - 1 /\ \A p \in 1..(m - 1) : k2[p] = kinds[p]
  BY <1>1, <1>2, <1>8, ButLast, SMTT(30)
<1>10. Last(kinds) = kinds[m] /\ Popped(kinds) = k2 /\ Last(kinds) \in BOOLEAN
  <2>1. m \in 1..Len(kinds)
    BY <1>2, <1>6
  <2>2. kinds[m] \in BOOLEAN
    BY <1>1, <2>1
  <2> QED
    BY <1>2, <2>2 DEF Last, Popped
<1>11. \A i \in 1..n : stk2[i].fn = stk[i].fn /\ stk2[i].at = stk[i].at
  BY DEF Steady
<1>12. \A p \in 1..m : w[p] \in 1..n
  BY <1>4, <1>20, SMTT(30) DEF Enumerates
<1>13. /\ Len(llabels) = m - 1 /\ ~kinds[1]
       /\ \A p \in 1..(m - 1) : /\ llabels[p] = stk[w[p]].at
                                /\ kinds[p + 1] <=> stk[w[p]].fn = "FOR_LOOP"
  BY <1>2, <1>7
<1>14. /\ Last(llabels) = llabels[m - 1] /\ Popped(llabels) = SubSeq(llabels, 1, Len(llabels) - 1)
  BY <1>13 DEF Last, Popped
<1>15. /\ llabels = <<>> <=> m - 1 = 0
       /\ w2 = <<>> <=> m - 1 = 0
  BY <1>1, <1>6, <1>7, <1>13, EmptySeq
<1> HIDE DEF w2, k2
<1>16. \A p \in 1..(m - 1) : p \in 1..m
  BY <1>6
<1>17. \A p \in 1..(m - 1) : stk2[w2[p]].at = stk[w[p]].at /\ stk2[w2[p]].fn = stk[w[p]].fn
  BY <1>6, <1>11, <1>12, <1>16
<1>18. CASE m = 1
  <2>1. llabels2 = <<>> /\ label2 = 0 /\ w2 = <<>>
    BY <1>15, <1>18
  <2>2. ~Last(kinds)
    BY <1>10, <1>13, <1>18
  <2>3. Len(k2) = Len(w2)
    BY <1>6, <1>9
  <2>4. LoopList(stk2, w2, label2, Last(kinds), llabels2, Popped(kinds))
    BY <1>10, <2>1, <2>2, <2>3 DEF LoopList
  <2>5. llabels2 \in Seq(Nat) /\ label2 \in Nat
    BY ONLY <2>1
  <2> QED
    BY ONLY <1>4, <1>6, <1>7, <1>9, <1>10, <2>4, <2>5 DEF LoopLabelsOK
<1>19. CASE m > 1
  <2>1. llabels # <<>> /\ w2 # <<>>
    <3> HIDE DEF m
    <3>1. m - 1 # 0
      BY <1>6, <1>19
    <3> QED
      BY <1>15, <3>1
  <2>2. /\ llabels2 \in Seq(Nat) /\ Len(llabels2) = (m - 1) - 1
        /\ \A p \in 1..((m - 1) - 1) : llabels2[p] = llabels[p]
    <3> DEFINE l2 == SubSeq(llabels, 1, Len(llabels) - 1)
    <3>1. llabels2 = l2 /\ llabels \in Seq(Nat)
      BY <1>1, <1>14, <2>1
    <3>4. llabels \in Seq(Nat) /\ llabels # <<>>
      BY <2>1, <3>1
    <3>2. /\ l2 \in Seq(Nat) /\ Len(l2) = Len(llabels) - 1
          /\ \A p \in 1..(Len(llabels) - 1) : l2[p] = llabels[p]
      <4>1. l2 \in Seq(Nat)
        BY ONLY <3>4, ButLast
      <4>2. Len(l2) = Len(llabels) - 1
        BY ONLY <3>4, ButLast
      <4>3. \A p \in 1..(Len(llabels) - 1) : l2[p] = llabels[p]
        BY ONLY <3>4, ButLast
      <4> QED
        BY <4>1, <4>2, <4>3
    <3> HIDE DEF l2, m
    <3>3. \A p \in 1..((m - 1) - 1) : l2[p] = llabels[p]
      BY <1>13, <3>2
    <3> QED
      BY <1>13, <3>1, <3>2, <3>3
  <2>3. label2 = llabels[m - 1]
    BY <1>14, <2>1
  <2> HIDE DEF m
  <2> DEFINE h == m - 1
  <2>4. h \in Nat /\ h \in 1..h /\ h + 1 = m /\ \A p \in 1..(h - 1) : p \in 1..h /\ p + 1 \in 1..h
    BY <1>6, <1>19
  <2>5. 1 \in 1..h
    BY <1>6, <1>19
  <2>6. /\ Len(w2) = h /\ Len(k2) = h /\ Len(llabels2) = h - 1
        /\ label2 = llabels[h] /\ k2[1] = kinds[1]
    BY <1>6, <1>9, <2>2, <2>3, <2>5
  <2> HIDE DEF h
  <2>7. /\ label2 = stk2[w2[h]].at /\ (kinds[m] <=> stk2[w2[h]].fn = "FOR_LOOP")
    BY <1>13, <1>17, <2>4, <2>6 DEF h
  <2>8. \A p \in 1..(h - 1) : /\ llabels2[p] = stk2[w2[p]].at
                              /\ k2[p + 1] <=> stk2[w2[p]].fn = "FOR_LOOP"
    BY <1>9, <1>13, <1>17, <2>2, <2>4 DEF h
  <2>9. label2 \in Nat
    <3>1. h \in 1..Len(llabels)
      BY <1>13, <2>4 DEF h
    <3> QED
      BY <1>1, <2>6, <3>1
  <2>10. LoopList(stk2, w2, label2, Last(kinds), llabels2, Popped(kinds))
    BY ONLY <1>10, <1>13, <2>1, <2>6, <2>7, <2>8 DEF LoopList
  <2> QED
    BY ONLY <1>4, <1>6, <1>7, <1>9, <1>10, <2>2, <2>9, <2>10 DEF LoopLabelsOK
<1> HIDE DEF m
<1>21. m = 1 \/ m > 1
  BY <1>6
<1> QED
  BY <1>18, <1>19, <1>21
-----------------------------------------------------------------------------
(* ignore_right_bracket *)

\* The frames inside the brackets of a call.
Ignoring(stk) == OwingIn(stk, "bracket") \cup OwingIn(stk, "argument")

\* The flag is set inside the brackets of a call; parse_expr saved what it was.
BracketsOK(stk, ignores) ==
    /\ ignores <=> Ignoring(stk) # {}
    /\ \A i \in OwingIn(stk, "argument") : stk[i].tmp <=> \E j \in Ignoring(stk) : j < i

\* ignore_right_bracket stays right while no call begins or ends.
LEMMA BracketsSame ==
    ASSUME NEW stk, NEW stk2, NEW ignores, BracketsOK(stk, ignores),
           SameFor(stk, stk2, "bracket"), SameFor(stk, stk2, "argument")
    PROVE  BracketsOK(stk2, ignores)
<1>1. Ignoring(stk2) = Ignoring(stk) /\ OwingIn(stk2, "argument") = OwingIn(stk, "argument")
  BY DEF Ignoring, SameFor
<1>2. \A i \in OwingIn(stk, "argument") : stk2[i].tmp = stk[i].tmp
  BY DEF SameFor
<1> QED
  BY <1>1, <1>2 DEF BracketsOK

\* The brackets of a call statement are in no other brackets.
LEMMA BracketsStatement ==
    ASSUME NEW stk, NEW stk2, NEW n, n = Len(stk), OwingIn(stk, "argument") = {},
           OwingIn(stk, "bracket") \subseteq {n}, SameFor(stk, stk2, "argument"), NEW ignores
    PROVE  /\ Opened(stk, stk2, "bracket") /\ ignores => BracketsOK(stk2, ignores)
           /\ Shut(stk, stk2, "bracket") /\ ~ignores => BracketsOK(stk2, ignores)
<1>1. OwingIn(stk2, "argument") = {}
  BY DEF SameFor
<1>2. ASSUME Opened(stk, stk2, "bracket"), ignores PROVE BracketsOK(stk2, ignores)
  BY <1>1, <1>2 DEF BracketsOK, Ignoring, Opened
<1>3. ASSUME Shut(stk, stk2, "bracket"), ~ignores PROVE BracketsOK(stk2, ignores)
  BY <1>1, <1>3 DEF BracketsOK, Ignoring, Shut
<1> QED
  BY <1>2, <1>3

\* The brackets of a call in an expression: the flag is saved, and restored.
ArgumentBrackets(stk, stk2, n, ignores, ignores2) ==
    /\ stk \in Seq(Frame) /\ stk # <<>> /\ n = Len(stk)
    /\ n \notin OwingIn(stk, "bracket") /\ SameFor(stk, stk2, "bracket")
    /\ \A i \in 1..(n - 1) : stk2[i].tmp = stk[i].tmp
    /\ BracketsOK(stk, ignores)
    /\ \/ Opened(stk, stk2, "argument") /\ (stk2[n].tmp <=> ignores) /\ ignores2
       \/ Shut(stk, stk2, "argument") /\ (ignores2 <=> stk[n].tmp)

\* It is set for the arguments of a call in an expression, whatever it was before.
LEMMA BracketsArguments ==
    ASSUME NEW stk, NEW stk2, NEW n, NEW ignores, NEW ignores2,
           ArgumentBrackets(stk, stk2, n, ignores, ignores2)
    PROVE  BracketsOK(stk2, ignores2)
<1> USE DEF ArgumentBrackets
<1>1. n \in Nat /\ n >= 1
  OBVIOUS
<1>2. \A k : OwingIn(stk, k) \subseteq 1..n
  BY DEF OwingIn
<1> DEFINE I == Ignoring(stk)
<1> DEFINE I2 == Ignoring(stk2)
<1> DEFINE A == OwingIn(stk, "argument")
<1> DEFINE A2 == OwingIn(stk2, "argument")
<1>3. I \subseteq 1..n /\ A \subseteq I /\ A2 \subseteq I2
  BY <1>2 DEF Ignoring
<1>4. \A i \in 1..n : i = n \/ (i \in 1..(n - 1) /\ i < n)
  BY <1>1
<1>5. OwingIn(stk2, "bracket") = OwingIn(stk, "bracket")
  BY DEF SameFor
<1>6. (ignores <=> I # {}) /\ \A i \in A : stk[i].tmp <=> \E j \in I : j < i
  BY DEF BracketsOK
<1>7. ASSUME Opened(stk, stk2, "argument"), stk2[n].tmp <=> ignores, ignores2
      PROVE  BracketsOK(stk2, ignores2)
  <2>1. A2 = A \cup {n} /\ I2 = I \cup {n} /\ n \notin I
    BY <1>5, <1>7 DEF Opened, Ignoring
  <2> HIDE DEF A, A2, I, I2
  <2>2. ASSUME NEW i \in A2 PROVE stk2[i].tmp <=> \E j \in I2 : j < i
    <3>1. CASE i = n
      <4>1. ASSUME NEW j \in I PROVE j \in I2 /\ j < n
        <5>1. j \in 1..n /\ j # n
          BY <1>3, <2>1
        <5> QED
          BY <1>4, <2>1, <5>1
      <4>2. (\E j \in I2 : j < n) => I # {}
        BY <1>1, <2>1
      <4>3. (\E j \in I2 : j < n) <=> I # {}
        BY <4>1, <4>2
      <4> QED
        BY <1>6, <1>7, <3>1, <4>3
    <3>2. CASE i # n
      <4>1. i \in A /\ i \in 1..(n - 1) /\ i < n
        BY <1>3, <1>4, <2>1, <3>2
      <4>2. (\E j \in I2 : j < i) <=> \E j \in I : j < i
        BY <1>1, <2>1, <4>1
      <4> QED
        BY <1>6, <4>1, <4>2
    <3> QED
      BY <3>1, <3>2
  <2>3. ignores2 <=> I2 # {}
    BY <1>7, <2>1
  <2> QED
    BY <2>2, <2>3 DEF BracketsOK, A2, I2
<1>8. ASSUME Shut(stk, stk2, "argument"), ignores2 <=> stk[n].tmp
      PROVE  BracketsOK(stk2, ignores2)
  <2>1. A2 = A \ {n} /\ I2 = I \ {n} /\ n \in A
    BY <1>5, <1>8 DEF Shut, Ignoring
  <2> HIDE DEF A, A2, I, I2
  <2>2. ASSUME NEW i \in A2 PROVE stk2[i].tmp <=> \E j \in I2 : j < i
    <3>1. i \in A /\ i \in 1..(n - 1) /\ i < n
      BY <1>3, <1>4, <2>1
    <3>2. (\E j \in I2 : j < i) <=> \E j \in I : j < i
      BY <1>1, <2>1, <3>1
    <3> QED
      BY <1>6, <3>1, <3>2
  <2>3. (\E j \in I : j < n) <=> I2 # {}
    <3>1. ASSUME NEW j \in I2 PROVE j \in I /\ j < n
      <4>1. j \in I /\ j \in 1..n /\ j # n
        BY <1>3, <2>1
      <4> QED
        BY <1>4, <4>1
    <3>2. (\E j \in I : j < n) => I2 # {}
      BY <1>1, <2>1
    <3> QED
      BY <3>1, <3>2
  <2>4. ignores2 <=> I2 # {}
    BY <1>6, <1>8, <2>1, <2>3
  <2> QED
    BY <2>2, <2>4 DEF BracketsOK, A2, I2
<1> QED
  BY <1>7, <1>8
-----------------------------------------------------------------------------
(* The steps *)

SameForAll(stk, stk2) == \A k \in Thing : SameFor(stk, stk2, k)

\* The top frame executes a statement.
Moves(stk, stk2, op) ==
    /\ Steady(stk, stk2)
    /\ \A i \in 1..Len(stk) : stk2[i].tmp = stk[i].tmp
    /\ \A k \in Thing : /\ op \in Openers(k) => Opened(stk, stk2, k)
                        /\ op = Closer(k) => Shut(stk, stk2, k)
                        /\ op \notin Openers(k) \cup {Closer(k)} => SameFor(stk, stk2, k)

\* A step to the next statement opens or closes what its operation says, and keeps
\* the frames good.
LEMMA AdvanceMoves ==
    ASSUME NEW stk, NEW toks, FramesOK(stk, toks), stk # <<>>, NEW top, top = stk[Len(stk)],
           top.todo # <<>>, NEW ok,
           NEW frame \in Frame, frame.fn = top.fn, frame.at = top.at, frame.tmp = top.tmp,
           frame.todo = Rest(Tail(top.todo), ok),
           NEW stk2, NewTop(stk, stk2, frame)
    PROVE  /\ FramesOK(stk2, toks) /\ Moves(stk, stk2, Head(top.todo).op)
           /\ stk2 # <<>> /\ Len(stk2) = Len(stk) /\ stk2[Len(stk2)] = frame
<1> DEFINE n == Len(stk)
<1> DEFINE op == Head(top.todo).op
<1>1. stk \in Seq(Frame) /\ n \in Nat /\ n >= 1 /\ n \in 1..n
  BY DEF FramesOK
<1>2. FrameOK(top, toks)
  BY <1>1 DEF FramesOK
<1> DEFINE kind == toks[top.at].kind
<1>3. Good(top.fn, kind, top.todo)
  BY <1>2 DEF FrameOK
<1>4. Good(top.fn, kind, Tail(top.todo))
  BY <1>3, GoodTail
<1>5. Good(top.fn, kind, frame.todo)
  BY <1>4, GoodRest
<1>6. FrameOK(frame, toks)
  BY <1>2, <1>5 DEF FrameOK
<1>7. /\ FramesOK(stk2, toks) /\ Len(stk2) = Len(stk) /\ stk2[Len(stk2)] = frame
      /\ \A i \in 1..(Len(stk) - 1) : stk2[i] = stk[i]
  <2>1. frame.fn = stk[Len(stk)].fn /\ frame.at = stk[Len(stk)].at
    OBVIOUS
  <2> QED
    BY <1>6, <2>1, FramesSetTop
<1>8. \A i \in 1..Len(stk) : stk2[i].tmp = stk[i].tmp
  <2>1. \A i \in 1..Len(stk) : i \in 1..(Len(stk) - 1) \/ i = Len(stk)
    BY <1>1
  <2> QED
    BY <1>7, <2>1
<1>9. ASSUME NEW k \in Thing
      PROVE  /\ op \in Openers(k) => ~Owes(top.todo, k) /\ Owes(frame.todo, k)
             /\ op = Closer(k) => Owes(top.todo, k) /\ ~Owes(frame.todo, k)
             /\ op \notin Openers(k) \cup {Closer(k)} => (Owes(frame.todo, k) <=> Owes(top.todo, k))
  <2>1. Touches(Head(top.todo), k) <=> op \in Openers(k) \cup {Closer(k)}
    BY DEF Touches
  <2> QED
    BY ONLY <1>3, top.todo # <<>>, k \in Thing, frame.todo = Rest(Tail(top.todo), ok), <2>1,
            AdvanceOwes DEF op
<1>10. /\ Steady(stk, stk2)
       /\ \A k : /\ (Owes(frame.todo, k) <=> Owes(top.todo, k)) => SameFor(stk, stk2, k)
                 /\ Owes(frame.todo, k) /\ ~Owes(top.todo, k) => Opened(stk, stk2, k)
                 /\ ~Owes(frame.todo, k) /\ Owes(top.todo, k) => Shut(stk, stk2, k)
  BY <1>1, OwingSetTop DEF NewTop
<1>11. Moves(stk, stk2, op)
  <2> HIDE DEF op
  <2> QED
    BY <1>8, <1>9, <1>10 DEF Moves
<1>12. stk2 # <<>>
  <2>1. Len(stk2) # 0
    BY <1>1, <1>7
  <2> QED
    BY <2>1, EmptySeq
<1> QED
  BY <1>7, <1>11, <1>12

\* How each operation changes the globals of parser.c, and that they stay right.
LEMMA CountsStep ==
    ASSUME NEW stk \in Seq(Frame), NEW stk2, NEW op, Moves(stk, stk2, op),
           NEW loops, NEW branches, NEW scopes, NEW in_func,
           CountsOK(stk, loops, branches, scopes, in_func), NEW x
    PROVE  /\ op \notin {"enter_func", "leave_func", "increase_scope", "decrease_scope",
                         "increase_inner_scope", "decrease_inner_scope", "enter_loop",
                         "leave_loop", "enter_branch", "leave_branch"} =>
                 CountsOK(stk2, loops, branches, scopes, in_func)
           /\ op = "enter_func" \/ (op = "leave_func" /\ ~x) =>
                 CountsOK(stk2, loops, branches, scopes, x)
           /\ op \in {"increase_scope", "increase_inner_scope"} =>
                 CountsOK(stk2, loops, branches, scopes + 1, in_func)
           /\ op \in {"decrease_scope", "decrease_inner_scope"} =>
                 CountsOK(stk2, loops, branches, scopes - 1, in_func)
           /\ op = "enter_loop" => CountsOK(stk2, loops + 1, branches, scopes, in_func)
           /\ op = "leave_loop" => CountsOK(stk2, loops - 1, branches, scopes, in_func)
           /\ op = "enter_branch" => CountsOK(stk2, loops, branches + 1, scopes, in_func)
           /\ op = "leave_branch" => CountsOK(stk2, loops, branches - 1, scopes, in_func)
<1> DEFINE C(k) == Cardinality(OwingIn(stk, k))
<1> DEFINE C2(k) == Cardinality(OwingIn(stk2, k))
<1>1. \A k : C(k) \in Nat
  BY OwingFinite
<1>2. \A k \in Thing : /\ op \in Openers(k) => C2(k) = C(k) + 1 /\ OwingIn(stk2, k) # {}
                       /\ op = Closer(k) => C2(k) = C(k) - 1
                       /\ op \notin Openers(k) \cup {Closer(k)} => OwingIn(stk2, k) = OwingIn(stk, k)
  <2> SUFFICES ASSUME NEW k \in Thing
               PROVE  /\ op \in Openers(k) => C2(k) = C(k) + 1 /\ OwingIn(stk2, k) # {}
                      /\ op = Closer(k) => C2(k) = C(k) - 1
                      /\ op \notin Openers(k) \cup {Closer(k)} => OwingIn(stk2, k) = OwingIn(stk, k)
    OBVIOUS
  <2>1. op \in Openers(k) => C2(k) = C(k) + 1 /\ OwingIn(stk2, k) # {}
    <3>1. op \in Openers(k) => Opened(stk, stk2, k)
      BY DEF Moves
    <3> QED
      BY <3>1, OpenedCounts DEF Opened
  <2>2. op = Closer(k) => C2(k) = C(k) - 1
    <3>1. op = Closer(k) => Shut(stk, stk2, k)
      BY DEF Moves
    <3> QED
      BY <3>1, ShutCounts
  <2>3. op \notin Openers(k) \cup {Closer(k)} => OwingIn(stk2, k) = OwingIn(stk, k)
    BY DEF Moves, SameFor
  <2> QED
    BY <2>1, <2>2, <2>3
<1>3. \A k \in Thing : op \notin Openers(k) \cup {Closer(k)} => C2(k) = C(k)
  BY <1>2
<1>4. /\ loops = C("loop") /\ branches = C("branch") /\ scopes = C("scope") + C("inner_scope")
      /\ in_func => OwingIn(stk, "func") # {}
  BY DEF CountsOK
<1> DEFINE F == OwingIn(stk, "func")
<1> DEFINE F2 == OwingIn(stk2, "func")
<1> HIDE DEF C, C2, F, F2
<1>5. /\ op = "enter_loop" => C2("loop") = C("loop") + 1
      /\ op = "leave_loop" => C2("loop") = C("loop") - 1
      /\ op \notin {"enter_loop", "leave_loop"} => C2("loop") = C("loop")
  BY <1>2, <1>3 DEF Thing, Openers, Closer
<1>6. /\ op = "enter_branch" => C2("branch") = C("branch") + 1
      /\ op = "leave_branch" => C2("branch") = C("branch") - 1
      /\ op \notin {"enter_branch", "leave_branch"} => C2("branch") = C("branch")
  BY <1>2, <1>3 DEF Thing, Openers, Closer
<1>7. /\ op = "increase_scope" => C2("scope") = C("scope") + 1
      /\ op = "decrease_scope" => C2("scope") = C("scope") - 1
      /\ op \notin {"increase_scope", "decrease_scope"} => C2("scope") = C("scope")
  BY <1>2, <1>3 DEF Thing, Openers, Closer
<1>8. /\ op = "increase_inner_scope" => C2("inner_scope") = C("inner_scope") + 1
      /\ op = "decrease_inner_scope" => C2("inner_scope") = C("inner_scope") - 1
      /\ op \notin {"increase_inner_scope", "decrease_inner_scope"} =>
            C2("inner_scope") = C("inner_scope")
  BY <1>2, <1>3 DEF Thing, Openers, Closer
<1>9. /\ op = "enter_func" => F2 # {}
      /\ op \notin {"enter_func", "leave_func"} => F2 = F
  BY <1>2 DEF Thing, Openers, Closer, F, F2
<1>10. \A l, b, s, f : CountsOK(stk2, l, b, s, f) <=>
          /\ l = C2("loop") /\ b = C2("branch") /\ s = C2("scope") + C2("inner_scope")
          /\ f => F2 # {}
  BY DEF CountsOK, C2, F2
<1>11. /\ C("loop") \in Nat /\ C("branch") \in Nat /\ C("scope") \in Nat
       /\ C("inner_scope") \in Nat /\ (in_func => F # {})
  BY <1>1, <1>4 DEF F
<1> DEFINE U == {"enter_func", "leave_func", "increase_scope", "decrease_scope",
                 "increase_inner_scope", "decrease_inner_scope", "enter_loop",
                 "leave_loop", "enter_branch", "leave_branch"}
<1>12. op \notin U => CountsOK(stk2, loops, branches, scopes, in_func)
  BY <1>4, <1>5, <1>6, <1>7, <1>8, <1>9, <1>10, <1>11
<1>13. op = "enter_func" \/ (op = "leave_func" /\ ~x) => CountsOK(stk2, loops, branches, scopes, x)
  BY <1>4, <1>5, <1>6, <1>7, <1>8, <1>9, <1>10
<1>14. op \in {"increase_scope", "increase_inner_scope"} =>
          CountsOK(stk2, loops, branches, scopes + 1, in_func)
  BY <1>4, <1>5, <1>6, <1>7, <1>8, <1>9, <1>10, <1>11
<1>15. op \in {"decrease_scope", "decrease_inner_scope"} =>
          CountsOK(stk2, loops, branches, scopes - 1, in_func)
  BY <1>4, <1>5, <1>6, <1>7, <1>8, <1>9, <1>10, <1>11
<1>16. op = "enter_loop" => CountsOK(stk2, loops + 1, branches, scopes, in_func)
  BY <1>4, <1>5, <1>6, <1>7, <1>8, <1>9, <1>10, <1>11
<1>17. op = "leave_loop" => CountsOK(stk2, loops - 1, branches, scopes, in_func)
  BY <1>4, <1>5, <1>6, <1>7, <1>8, <1>9, <1>10, <1>11
<1>18. op = "enter_branch" => CountsOK(stk2, loops, branches + 1, scopes, in_func)
  BY <1>4, <1>5, <1>6, <1>7, <1>8, <1>9, <1>10, <1>11
<1>19. op = "leave_branch" => CountsOK(stk2, loops, branches - 1, scopes, in_func)
  BY <1>4, <1>5, <1>6, <1>7, <1>8, <1>9, <1>10, <1>11
<1> QED
  BY <1>12, <1>13, <1>14, <1>15, <1>16, <1>17, <1>18, <1>19

\* What a function can owe.
LEMMA OwesFits ==
    ASSUME NEW frame, NEW toks, FrameOK(frame, toks)
    PROVE  /\ Owes(frame.todo, "argument") => frame.fn = "EXPR"
           /\ Owes(frame.todo, "bracket") =>
                 frame.fn = "NEXT_ID_CALL_OR_ASSIGN" /\ toks[frame.at].kind = "("
           /\ Owes(frame.todo, "end_label") => frame.fn = "BRANCH"
           /\ Owes(frame.todo, "skip_label") => frame.fn \in {"BRANCH", "ELSE_IF"}
<1> DEFINE kind == toks[frame.at].kind
<1>1. frame.todo \in Seq(Fitting(frame.fn, kind))
  BY DEF FrameOK, Good
<1>2. ASSUME NEW k, Owes(frame.todo, k)
      PROVE  \E st \in Fitting(frame.fn, kind) : st.op = Closer(k)
  <2>1. PICK i \in 1..Len(frame.todo) : frame.todo[i].op = Closer(k)
    BY <1>2 DEF Owes, Has
  <2>2. frame.todo[i] \in Fitting(frame.fn, kind)
    BY <1>1
  <2> QED
    BY <2>1, <2>2
<1>3. /\ Closer("argument") = "call_end" /\ Closer("bracket") = "ignore_off"
      /\ Closer("end_label") = "gen_branch_end" /\ Closer("skip_label") = "gen_branch_if_end"
  BY DEF Closer
<1>4. Owes(frame.todo, "argument") => frame.fn = "EXPR"
  BY <1>2, <1>3 DEF Fitting, ExprOp
<1>5. Owes(frame.todo, "bracket") => frame.fn = "NEXT_ID_CALL_OR_ASSIGN" /\ kind = "("
  BY <1>2, <1>3 DEF Fitting, BracketOp
<1>6. Owes(frame.todo, "end_label") => frame.fn = "BRANCH"
  BY <1>2, <1>3 DEF Fitting, BranchOp
<1>7. Owes(frame.todo, "skip_label") => frame.fn \in {"BRANCH", "ELSE_IF"}
  BY <1>2, <1>3 DEF Fitting, SkipOp
<1> QED
  BY <1>4, <1>5, <1>6, <1>7

\* A statement of the program is in no brackets but its own.
LEMMA NoBracketBelow ==
    ASSUME NEW stk, NEW toks, FramesOK(stk, toks), stk # <<>>, NEW n, n = Len(stk),
           stk[n].fn = "NEXT_ID_CALL_OR_ASSIGN"
    PROVE  OwingIn(stk, "argument") = {} /\ OwingIn(stk, "bracket") \subseteq {n}
<1>1. stk \in Seq(Frame) /\ n \in Nat /\ n >= 1 /\ n \in 1..n
  BY DEF FramesOK
<1>2. \A i \in 1..n : i < n \/ i = n
  BY <1>1
<1>3. ASSUME NEW i \in 1..n, i < n PROVE stk[i].fn \in Block
  BY <1>1, <1>3 DEF FramesOK, Below
<1>4. ASSUME NEW i \in 1..n
      PROVE  ~Owes(stk[i].todo, "argument") /\ (Owes(stk[i].todo, "bracket") => i = n)
  <2>1. FrameOK(stk[i], toks)
    BY DEF FramesOK
  <2>2. "EXPR" \notin Block /\ "NEXT_ID_CALL_OR_ASSIGN" \notin Block
    BY DEF Block
  <2>3. stk[i].fn \in Block \/ i = n
    BY <1>2, <1>3
  <2> QED
    BY <2>1, <2>2, <2>3, OwesFits
<1> QED
  BY <1>4 DEF OwingIn

\* Two steps that change nothing change nothing together.
LEMMA SameForAllTrans ==
    ASSUME NEW stk, NEW stk1, NEW stk2, SameForAll(stk, stk1), SameForAll(stk1, stk2)
    PROVE  SameForAll(stk, stk2)
BY SameForTrans DEF SameForAll

\* What the call of a function leaves to the caller.
LEMMA CallerWaits ==
    ASSUME NEW top, NEW toks, FrameOK(top, toks), top.todo # <<>>,
           NEW g, \/ Head(top.todo).op = "call" /\ g = Head(top.todo).arg
                  \/ Head(top.todo).op = "call_params" /\ g = "CALL_PARAM_LIST",
           NEW top2 \in Frame, top2.fn = top.fn, top2.todo = Tail(top.todo)
    PROVE  /\ Calls(top.fn, toks[top.at].kind, g) /\ Waits(top2, g)
           /\ \A k \in Thing : Owes(top2.todo, k) <=> Owes(top.todo, k)
           /\ Good(top.fn, toks[top.at].kind, top2.todo)
<1> DEFINE kind == toks[top.at].kind
<1> DEFINE t == top.todo
<1> DEFINE u == Tail(t)
<1>1. Good(top.fn, kind, t) /\ top \in Frame
  BY DEF FrameOK
<1>2. /\ Good(top.fn, kind, u) /\ Head(t) \in Fitting(top.fn, kind)
      /\ t \in Seq(Statements) /\ u \in Seq(Statements)
  BY <1>1, GoodTail
<1>3. Head(t) = t[1] /\ 1 \in 1..Len(t) /\ After(u, t, 1)
  BY <1>2, TailIsAfter
<1>4. Ordered(top.fn, kind, t)
  BY <1>1 DEF Good
<1> HIDE DEF u, kind
<1>5. /\ Head(t).op = "call_params" => top.fn = "EXPR"
      /\ Head(t).op = "call" => top.fn # "EXPR" /\ Calls(top.fn, kind, Head(t).arg)
  BY <1>2 DEF Fitting, ExprOp
<1>6. Calls("EXPR", kind, "CALL_PARAM_LIST")
  BY DEF Calls, Function, Block
<1>7. Calls(top.fn, kind, g)
  BY <1>5, <1>6
<1>8. Head(t).op \notin Pairing
  BY DEF Pairing, BlockOp, BranchOp, SkipOp, BracketOp
<1>9. ASSUME NEW k \in Thing PROVE Owes(u, k) <=> Owes(t, k)
  <2>1. ~Touches(Head(t), k)
    BY <1>8, TouchesPairing
  <2>2. Neat(t, k)
    BY <1>1 DEF Good
  <2> QED
    BY <1>2, <2>1, <2>2, NeatTail DEF u
<1>10. \A k : Pending(t, 1, k) => Owes(u, k)
  BY <1>2, PendingIsOwed DEF u
<1>11. ASSUME Head(t).op = "call" PROVE Waits(top2, g)
  <2>1. g = "CALL_PARAM_LIST" => Owes(u, "bracket")
    BY <1>3, <1>4, <1>5, <1>7, <1>10, <1>11 DEF Calls, Ordered
  <2>2. g = "ELSE" => ~Owes(u, "skip_label")
    <3>1. ASSUME g = "ELSE", Owes(u, "skip_label") PROVE FALSE
      <4>1. PICK i \in 1..Len(u) : u[i].op = "gen_branch_if_end"
        BY <3>1 DEF Owes, Has, Closer
      <4>2. i + 1 \in 2..Len(t) /\ u[i] = t[i + 1]
        BY <1>2, <1>3, <4>1 DEF After
      <4> QED
        BY <1>3, <1>4, <1>11, <3>1, <4>1, <4>2 DEF Ordered
    <3> QED
      BY <3>1
  <2>3. g = "ELSE" /\ top.fn = "BRANCH" => Owes(u, "end_label")
    BY <1>3, <1>4, <1>10, <1>11 DEF Ordered
  <2>4. g = "CODE" /\ top.fn \in {"WHILE_LOOP", "FOR_LOOP"} => Owes(u, "loop_label")
    BY <1>3, <1>4, <1>10, <1>11 DEF Ordered
  <2>5. top.fn = "CALL_PARAM" => Len(u) <= 1
    BY <1>2, <1>3, <1>4, <1>11 DEF Ordered, After
  <2> QED
    BY <1>5, <1>11, <2>1, <2>2, <2>3, <2>4, <2>5 DEF Waits, u
<1>12. ASSUME Head(t).op = "call_params" PROVE Waits(top2, g)
  <2>1. u # <<>> /\ Head(u).op = "call_end"
    BY <1>1, <1>5, <1>12, ExprNext DEF u
  <2>2. Head(u) = u[1] /\ 1 \in 1..Len(u)
    BY <1>2, <2>1, TailIsAfter
  <2>3. Owes(u, "argument")
    BY <2>1, <2>2 DEF Owes, Has, Closer, Openers
  <2> QED
    BY <1>5, <1>12, <2>1, <2>3 DEF Waits, u
<1> QED
  BY <1>2, <1>7, <1>9, <1>11, <1>12 DEF u, kind

\* top calls g, which runs in frame, on a token from its own on.
Calling(stk, toks, top, g, frame, top2, stk1, stk2) ==
    /\ stk # <<>> /\ top = stk[Len(stk)] /\ top.todo # <<>>
    /\ \/ Head(top.todo).op = "call" /\ g = Head(top.todo).arg
       \/ Head(top.todo).op = "call_params" /\ g = "CALL_PARAM_LIST"
    /\ frame \in Frame /\ frame.fn = g /\ frame.at \in 1..Len(toks)
    /\ toks[frame.at].kind \in Ahead /\ frame.todo = Body(g, toks[frame.at].kind)
    /\ top.at <= frame.at /\ (top.fn = "EXPR" => top.at < frame.at)
    /\ top2 \in Frame /\ top2.fn = top.fn /\ top2.at = top.at /\ top2.tmp = top.tmp
    /\ top2.todo = Tail(top.todo)
    /\ NewTop(stk, stk1, top2) /\ stk2 = Append(stk1, frame)

\* A call of another function opens and closes nothing.
LEMMA CallMoves ==
    ASSUME NEW stk, NEW toks, FramesOK(stk, toks), NEW top, NEW g, NEW frame, NEW top2, NEW stk1,
           NEW stk2, Calling(stk, toks, top, g, frame, top2, stk1, stk2)
    PROVE  /\ FramesOK(stk2, toks) /\ SameForAll(stk, stk2)
           /\ stk2 # <<>> /\ stk2[Len(stk2)] = frame
<1> USE DEF Calling
<1>1. stk \in Seq(Frame) /\ Len(stk) \in Nat /\ Len(stk) \in 1..Len(stk)
  BY DEF FramesOK
<1>2. FrameOK(top, toks) /\ top \in Frame /\ top.at \in Nat
  BY <1>1 DEF FramesOK, FrameOK
<1>3. /\ Calls(top.fn, toks[top.at].kind, g) /\ Waits(top2, g)
      /\ \A k \in Thing : Owes(top2.todo, k) <=> Owes(top.todo, k)
      /\ Good(top.fn, toks[top.at].kind, top2.todo)
  BY <1>2, CallerWaits
<1>4. FrameOK(top2, toks)
  BY <1>2, <1>3 DEF FrameOK
<1>5. /\ FramesOK(stk1, toks) /\ Len(stk1) = Len(stk) /\ stk1[Len(stk1)] = top2
  <2>1. top2.fn = stk[Len(stk)].fn /\ top2.at = stk[Len(stk)].at
    OBVIOUS
  <2> QED
    BY <1>4, <2>1, FramesSetTop
<1>6. SameForAll(stk, stk1)
  BY <1>1, <1>3, OwingSetTop DEF SameForAll, NewTop
<1>7. g \in Function
  BY <1>3 DEF Calls
<1>8. Fresh(g, toks[frame.at].kind, frame.todo)
  BY <1>7, FreshBody
<1>9. FrameOK(frame, toks)
  BY <1>8 DEF FrameOK, Fresh
<1>10. stk1 # <<>> /\ stk1 \in Seq(Frame)
  BY <1>1, <1>5, EmptySeq DEF FramesOK
<1>11. FramesOK(stk2, toks)
  <2>1. Below(stk1[Len(stk1)], frame)
    BY <1>3, <1>5 DEF Below, Calls
  <2>2. Waits(stk1[Len(stk1)], frame.fn)
    BY <1>3, <1>5
  <2>3. Calls(stk1[Len(stk1)].fn, toks[stk1[Len(stk1)].at].kind, frame.fn)
    BY <1>3, <1>5
  <2> QED
    BY <1>5, <1>9, <1>10, <2>1, <2>2, <2>3, FramesPush
<1>12. SameForAll(stk1, stk2)
  BY <1>8, <1>10, OwingPush DEF SameForAll, Fresh
<1>13. stk2 # <<>> /\ stk2[Len(stk2)] = frame
  BY <1>10
<1> QED
  BY <1>6, <1>11, <1>12, <1>13, SameForAllTrans

\* The function on top returns to caller, which goes on in frame.
Returning(stk, n, m, caller, ok, frame, low, stk2) ==
    /\ n = Len(stk) /\ n > 1 /\ stk[n].todo = <<>> /\ m = n - 1 /\ caller = stk[m]
    /\ frame \in Frame /\ frame.fn = caller.fn /\ frame.at = caller.at
    /\ frame.tmp = caller.tmp /\ frame.todo = Rest(caller.todo, ok)
    /\ low = SubSeq(stk, 1, n - 2) /\ stk2 = Append(low, frame)

\* A return opens and closes nothing: the function owes nothing any more.
LEMMA ReturnMoves ==
    ASSUME NEW stk, NEW toks, FramesOK(stk, toks), NEW n, NEW m, NEW caller, NEW ok, NEW frame,
           NEW low, NEW stk2, Returning(stk, n, m, caller, ok, frame, low, stk2)
    PROVE  /\ FramesOK(stk2, toks) /\ SameForAll(stk, stk2)
           /\ stk2 # <<>> /\ stk2[Len(stk2)] = frame
<1> USE DEF Returning
<1> DEFINE stk1 == SubSeq(stk, 1, n - 1)
<1>1. stk \in Seq(Frame) /\ n \in Nat /\ stk # <<>> /\ n - 1 \in 1..n
  BY DEF FramesOK
<1>2. /\ FramesOK(stk1, toks) /\ stk1 # <<>> /\ Len(stk1) = n - 1
      /\ \A i \in 1..Len(stk1) : stk1[i] = stk[i]
  <2>1. Len(stk) > 1 /\ stk1 = SubSeq(stk, 1, Len(stk) - 1) /\ Len(stk) - 1 = n - 1
    OBVIOUS
  <2> HIDE DEF stk1
  <2>2. /\ FramesOK(stk1, toks) /\ stk1 # <<>> /\ Len(stk1) = Len(stk) - 1
        /\ \A i \in 1..Len(stk1) : stk1[i] = stk[i]
    BY ONLY FramesOK(stk, toks), <2>1, FramesPop
  <2> QED
    BY <2>1, <2>2
<1>3. SameForAll(stk, stk1)
  <2>1. ASSUME NEW k \in Thing PROVE ~Owes(stk[Len(stk)].todo, k)
    BY EmptyOwesNothing
  <2> QED
    BY <1>1, <2>1, OwingPop DEF SameForAll
<1> HIDE DEF stk1
<1>4. stk1[Len(stk1)] = caller /\ stk1 \in Seq(Frame) /\ Len(stk1) \in Nat /\ Len(stk1) \in 1..Len(stk1)
  BY <1>1, <1>2 DEF FramesOK
<1>5. FrameOK(caller, toks)
  BY <1>2, <1>4 DEF FramesOK
<1>6. /\ FrameOK(frame, toks)
      /\ \A k \in Thing : Owes(frame.todo, k) <=> Owes(caller.todo, k)
  BY <1>5, GoodRest DEF FrameOK
<1>7. NewTop(stk1, stk2, frame)
  <2> DEFINE z == [stk1 EXCEPT ![Len(stk1)] = frame]
  <2>1. z \in Seq(Frame) /\ Len(z) = n - 1 /\ z[n - 1] = frame
    BY <1>2, <1>4
  <2>2. \A i \in 1..(n - 2) : z[i] = stk[i] /\ i \in 1..(n - 1)
    <3>1. \A i \in 1..(n - 2) : i \in 1..Len(stk1) /\ i # Len(stk1)
      BY <1>1, <1>2
    <3> QED
      BY <1>2, <3>1
  <2>3. low \in Seq(Frame) /\ Len(low) = n - 2 /\ \A i \in 1..(n - 2) : low[i] = stk[i]
    BY <1>1
  <2>4. /\ stk2 = Append(low, frame)
        /\ Append(low, frame) \in Seq(Frame) /\ Len(Append(low, frame)) = n - 1
        /\ Append(low, frame)[n - 1] = frame
        /\ \A i \in 1..(n - 2) : Append(low, frame)[i] = low[i]
    BY <1>1, <2>3
  <2>5. \A i \in 1..(n - 1) : i \in 1..(n - 2) \/ i = n - 1
    BY <1>1
  <2> HIDE DEF z
  <2>6. Len(stk2) = Len(z) /\ \A i \in 1..Len(stk2) : stk2[i] = z[i]
    <3>1. /\ Len(stk2) = n - 1 /\ stk2[n - 1] = frame
          /\ \A i \in 1..(n - 2) : stk2[i] = stk[i]
      BY <2>3, <2>4
    <3> QED
      BY ONLY <2>1, <2>2, <2>5, <3>1
  <2>7. stk2 = z
    BY <2>1, <2>4, <2>6, SeqEqual
  <2> QED
    BY <2>7 DEF NewTop, z
<1>8. FramesOK(stk2, toks) /\ Len(stk2) = Len(stk1) /\ stk2[Len(stk2)] = frame
  <2>1. frame.fn = stk1[Len(stk1)].fn /\ frame.at = stk1[Len(stk1)].at
    BY <1>4
  <2> QED
    BY <1>2, <1>6, <1>7, <2>1, FramesSetTop
<1>9. SameForAll(stk1, stk2)
  BY <1>2, <1>4, <1>6, <1>7, OwingSetTop DEF SameForAll, NewTop
<1>10. stk2 # <<>>
  <2>1. Len(stk2) # 0
    BY <1>2, <1>4, <1>8
  <2> QED
    BY <2>1, EmptySeq
<1> QED
  BY <1>3, <1>8, <1>9, <1>10, SameForAllTrans

\* A parse_expr that fails.
LEMMA FailMoves ==
    ASSUME NEW stk, NEW toks, FramesOK(stk, toks), stk # <<>>, NEW top, top = stk[Len(stk)],
           top.todo # <<>>, Head(top.todo).op \in {"operand", "after_operand", "fail"},
           NEW frame \in Frame, frame.fn = top.fn, frame.at = top.at, frame.tmp = top.tmp,
           frame.todo = <<>>, NEW stk2, NewTop(stk, stk2, frame)
    PROVE  /\ FramesOK(stk2, toks) /\ SameForAll(stk, stk2)
           /\ stk2 # <<>> /\ stk2[Len(stk2)] = frame
<1>1. stk \in Seq(Frame) /\ Len(stk) \in Nat /\ Len(stk) \in 1..Len(stk)
  BY DEF FramesOK
<1>2. FrameOK(top, toks)
  BY <1>1 DEF FramesOK
<1> DEFINE kind == toks[top.at].kind
<1>3. Good(top.fn, kind, top.todo)
  BY <1>2 DEF FrameOK
<1> HIDE DEF kind
<1>4. top.fn = "EXPR"
  <2>1. Head(top.todo) \in Fitting(top.fn, kind)
    BY <1>3, GoodTail
  <2> QED
    BY <2>1 DEF Fitting, ExprOp
<1>5. \A k \in Thing : ~Owes(top.todo, k)
  BY <1>3, <1>4, ExprOwes
<1>6. Good(top.fn, kind, <<>>)
  <2>1. <<>> \in Seq(Fitting(top.fn, kind)) /\ Len(<<>>) = 0 /\ 1..0 = {}
    OBVIOUS
  <2>2. \A k \in Thing : Neat(<<>>, k)
    BY <2>1 DEF Neat, Bare
  <2>3. Ordered(top.fn, kind, <<>>)
    BY <2>1 DEF Ordered
  <2>4. ExprList(<<>>)
    BY DEF ExprList
  <2> QED
    BY <2>1, <2>2, <2>3, <2>4 DEF Good
<1>7. FrameOK(frame, toks)
  BY <1>2, <1>6 DEF FrameOK, kind
<1>8. FramesOK(stk2, toks) /\ Len(stk2) = Len(stk) /\ stk2[Len(stk2)] = frame
  <2>1. frame.fn = stk[Len(stk)].fn /\ frame.at = stk[Len(stk)].at
    OBVIOUS
  <2> QED
    BY <1>7, <2>1, FramesSetTop
<1>9. SameForAll(stk, stk2)
  <2>1. \A k : ~Owes(frame.todo, k)
    BY EmptyOwesNothing
  <2> QED
    BY <1>1, <1>5, <2>1, OwingSetTop DEF SameForAll, NewTop
<1>10. stk2 # <<>>
  <2>1. Len(stk2) # 0
    BY <1>1, <1>8
  <2> QED
    BY <2>1, EmptySeq
<1> QED
  BY <1>8, <1>9, <1>10

\* The list of a parse_expr that makes a call.
LEMMA BeginList ==
    ASSUME NEW kind, NEW t, Good("EXPR", kind, t), t # <<>>, NEW then,
           \/ Head(t).op = "operand" /\ then = Tail(t)
           \/ Head(t).op = "after_operand" /\ then = <<Do("fail")>>,
           NEW u, u = <<Do("call_params"), Do("call_end")>> \o then
    PROVE  /\ Good("EXPR", kind, u) /\ u # <<>> /\ Head(u).op = "call_params"
           /\ \A k \in Thing : Owes(u, k) <=> k = "argument"
<1> DEFINE call2 == <<Do("call_params"), Do("call_end")>>
<1>1. \A x \in Op : Do(x) \in Statements /\ Do(x).op = x /\ Do(x).needs_s = FALSE
  BY Fields
<1>2. {"call_params", "call_end", "fail"} \subseteq Op \cap ExprOp
  BY DEF Op, ExprOp
<1>3. \A x \in {"call_params", "call_end", "fail"} : Do(x) \in Fitting("EXPR", kind)
  <2> SUFFICES ASSUME NEW x \in {"call_params", "call_end", "fail"}
               PROVE  Do(x) \in Fitting("EXPR", kind)
    OBVIOUS
  <2>1. Do(x) \in Statements /\ Do(x).op = x /\ Do(x).needs_s = FALSE /\ x \in ExprOp
    BY <1>1, <1>2
  <2>2. x \notin BlockOp \cup BranchOp \cup SkipOp \cup BracketOp
    BY DEF BlockOp, BranchOp, SkipOp, BracketOp
  <2>3. x \notin {"call", "match_colon_or_back", "gen_while_start", "gen_for_start"}
    OBVIOUS
  <2> HIDE DEF call2
  <2> QED
    BY <2>1, <2>2, <2>3 DEF Fitting
<1>4. call2 \in Seq(Fitting("EXPR", kind)) /\ Len(call2) = 2
      /\ call2[1].op = "call_params" /\ call2[2].op = "call_end"
  BY <1>1, <1>2, <1>3
<1>5. /\ then \in Seq(Fitting("EXPR", kind))
      /\ \/ Len(then) = 2 /\ then[1].op = "next_token" /\ then[2].op = "after_operand"
         \/ Len(then) = 1 /\ then[1].op = "fail"
  <2>1. CASE Head(t).op = "operand" /\ then = Tail(t)
    <3>1. t \in Seq(Fitting("EXPR", kind)) /\ ExprList(t)
      BY DEF Good
    <3>2. Head(t) = t[1]
      BY <3>1
    <3>3. Len(t) = 3 /\ t[2].op = "next_token" /\ t[3].op = "after_operand"
      BY <2>1, <3>1, <3>2 DEF ExprList
    <3> QED
      BY <2>1, <3>1, <3>3
  <2>2. CASE Head(t).op = "after_operand" /\ then = <<Do("fail")>>
    BY <1>1, <1>2, <1>3, <2>2
  <2> QED
    BY <2>1, <2>2
<1> HIDE DEF call2
<1>6. /\ u \in Seq(Fitting("EXPR", kind)) /\ Len(u) = 2 + Len(then)
      /\ u[1] = call2[1] /\ u[2] = call2[2]
      /\ \A i \in 1..Len(then) : u[i + 2] = then[i]
  BY <1>4, <1>5 DEF call2
<1>7. \/ /\ Len(u) = 4 /\ u[3].op = "next_token" /\ u[4].op = "after_operand"
      \/ Len(u) = 3 /\ u[3].op = "fail"
  <2>1. 1 \in 1..Len(then) /\ 1 + 2 = 3 /\ 2 + 2 = 4 /\ (Len(then) = 2 => 2 \in 1..Len(then))
    BY <1>5
  <2>2. u[3] = then[1] /\ (Len(then) = 2 => u[4] = then[2])
    BY <1>6, <2>1
  <2> QED
    BY <1>5, <1>6, <2>2
<1>8. u[1].op = "call_params" /\ u[2].op = "call_end"
  BY <1>4, <1>6
<1>9. \A i \in 1..Len(u) : /\ u[i].op = "call_end" <=> i = 2
                           /\ u[i].op \in {"call_params", "call_end", "next_token",
                                           "after_operand", "fail"}
  <2>1. \A i \in 1..Len(u) : i \in {1, 2, 3, 4} /\ (i = 4 => Len(u) = 4)
    BY <1>7
  <2> QED
    BY <1>7, <1>8, <2>1
<1>10. ASSUME NEW k \in Thing, k # "argument" PROVE Neat(u, k) /\ ~Owes(u, k)
  <2>1. u \in Seq(Statements)
    BY <1>6 DEF Fitting
  <2>2. \A i \in 1..Len(u) : ~Touches(u[i], k)
    <3> SUFFICES ASSUME NEW i \in 1..Len(u), Touches(u[i], k) PROVE FALSE
      OBVIOUS
    <3> QED
      BY <1>9, <1>10, ThingTouched
  <2> QED
    BY <2>1, <2>2, BareIsNeat DEF Bare
<1>11. Neat(u, "argument") /\ Owes(u, "argument")
  <2>1. Openers("argument") = {} /\ Closer("argument") = "call_end"
    BY DEF Openers, Closer
  <2>2. 2 \in 1..Len(u) /\ 0 \in 0..(2 - 1) /\ 2 \in 0..Len(u) /\ 0 \in 0..Len(u)
        /\ \A i \in 1..Len(u) : i # 0
    BY <1>7
  <2>3. Opens(u, "argument", 0, 2)
    BY <1>9, <2>1, <2>2 DEF Opens
  <2>4. Has(u, "call_end")
    BY <1>8, <2>2 DEF Has
  <2> QED
    BY <2>1, <2>2, <2>3, <2>4 DEF Neat, Owes
<1>12. Ordered("EXPR", kind, u)
  BY <1>9 DEF Ordered
<1>13. ExprList(u)
  BY <1>7, <1>8, <1>6 DEF ExprList
<1>14. u # <<>> /\ Head(u) = u[1]
  BY <1>6, <1>7
<1> QED
  BY <1>6, <1>8, <1>10, <1>11, <1>12, <1>13, <1>14 DEF Good

\* A parse_expr about to make a call.
Entering(stk, top, then, frame, stk2) ==
    /\ stk # <<>> /\ top = stk[Len(stk)] /\ top.todo # <<>>
    /\ \/ Head(top.todo).op = "operand" /\ then = Tail(top.todo)
       \/ Head(top.todo).op = "after_operand" /\ then = <<Do("fail")>>
    /\ frame \in Frame /\ frame.fn = top.fn /\ frame.at = top.at
    /\ frame.todo = <<Do("call_params"), Do("call_end")>> \o then
    /\ NewTop(stk, stk2, frame)

\* A call in an expression leaves its caller the flag to restore.
LEMMA BeginMoves ==
    ASSUME NEW stk, NEW toks, FramesOK(stk, toks), NEW top, NEW then, NEW frame, NEW stk2,
           Entering(stk, top, then, frame, stk2)
    PROVE  /\ FramesOK(stk2, toks) /\ Opened(stk, stk2, "argument")
           /\ \A k \in Thing \ {"argument"} : SameFor(stk, stk2, k)
           /\ stk2 # <<>> /\ stk2[Len(stk2)] = frame /\ Len(stk2) = Len(stk)
           /\ \A i \in 1..(Len(stk) - 1) : stk2[i] = stk[i]
           /\ frame.todo # <<>> /\ Head(frame.todo).op = "call_params"
           /\ Len(stk) \notin OwingIn(stk, "bracket")
<1> USE DEF Entering
<1>1. stk \in Seq(Frame) /\ Len(stk) \in Nat /\ Len(stk) \in 1..Len(stk)
  BY DEF FramesOK
<1>2. FrameOK(top, toks)
  BY <1>1 DEF FramesOK
<1> DEFINE kind == toks[top.at].kind
<1>3. Good(top.fn, kind, top.todo)
  BY <1>2 DEF FrameOK
<1> HIDE DEF kind
<1>4. top.fn = "EXPR"
  <2>1. Head(top.todo) \in Fitting(top.fn, kind)
    BY <1>3, GoodTail
  <2> QED
    BY <2>1 DEF Fitting, ExprOp
<1>5. \A k \in Thing : ~Owes(top.todo, k)
  BY <1>3, <1>4, ExprOwes
<1>6. /\ Good(top.fn, kind, frame.todo) /\ frame.todo # <<>>
      /\ Head(frame.todo).op = "call_params"
      /\ \A k \in Thing : Owes(frame.todo, k) <=> k = "argument"
  BY <1>3, <1>4, BeginList, ZenonT(60)
<1>7. FrameOK(frame, toks)
  BY <1>2, <1>6 DEF FrameOK, kind
<1>8. /\ FramesOK(stk2, toks) /\ Len(stk2) = Len(stk) /\ stk2[Len(stk2)] = frame
      /\ \A i \in 1..(Len(stk) - 1) : stk2[i] = stk[i]
  <2>1. frame.fn = stk[Len(stk)].fn /\ frame.at = stk[Len(stk)].at
    OBVIOUS
  <2> QED
    BY <1>7, <2>1, FramesSetTop
<1>9. \A k : /\ ~Owes(frame.todo, k) /\ ~Owes(top.todo, k) => SameFor(stk, stk2, k)
             /\ Owes(frame.todo, k) /\ ~Owes(top.todo, k) => Opened(stk, stk2, k)
  BY <1>1, OwingSetTop DEF NewTop
<1>10. "argument" \in Thing /\ "bracket" \in Thing
  BY DEF Thing
<1>11. stk2 # <<>>
  <2>1. Len(stk2) # 0
    BY <1>1, <1>8
  <2> QED
    BY <2>1, EmptySeq
<1>12. Len(stk) \notin OwingIn(stk, "bracket")
  BY <1>5, <1>10 DEF OwingIn
<1>13. /\ Opened(stk, stk2, "argument")
       /\ \A k \in Thing \ {"argument"} : SameFor(stk, stk2, k)
  BY <1>5, <1>6, <1>9, <1>10
<1> QED
  BY <1>6, <1>8, <1>11, <1>12, <1>13
=============================================================================
