--------------------------- MODULE SymtableProofs ---------------------------
(***************************************************************************)
(* Theorems about Symtable, for every set of names and types and every     *)
(* nesting depth: first those about the two stacks and the search, then    *)
(* those about what the declarations record.                               *)
(***************************************************************************)
EXTENDS Symtable, SequenceTheorems, TLAPS

\* The frame of symtable_find agrees with the two stacks.
FrameOK ==
    /\ Len(scopeStack) + Len(tmpScopeStack) = scopeDepth
    /\ IF find.pc = "idle"
       THEN find = Idle /\ Len(scopeStack) = scopeDepth
       ELSE /\ find.depth = Len(scopeStack)
            /\ find.key \in Name
            /\ find.op \in {"get", "redeclare"}
            /\ exit = 0 /\ ret = NULL

\* What the walk has learnt of the scopes it has visited.
VisitedFrom == IF find.pc = "down" THEN find.depth + 1 ELSE 1

SearchOK ==
    find.pc # "idle" =>
        /\ find.found = -1 =>
              \A i \in VisitedFrom..scopeDepth + 1 : ScopeAt(i)[find.key] = NULL
        /\ find.found # -1 =>
              /\ find.found \in 0..scopeDepth
              /\ \A i \in 1..scopeDepth + 1 :
                    /\ i = find.found + 1 => ScopeAt(i)[find.key] # NULL
                    /\ i > find.found + 1 => ScopeAt(i)[find.key] = NULL
        /\ find.op = "redeclare" => find.found = scopeDepth

\* The pointer handed out by the last look-up points at a declaration.
PointerOK ==
    ret # NULL => /\ ret.scope \in 0..scopeDepth
                  /\ \A i \in 1..scopeDepth + 1 :
                        i = ret.scope + 1 => ScopeAt(i)[ret.key] # NULL

IInv == TypeOK /\ FrameOK /\ SearchOK /\ PointerOK
-----------------------------------------------------------------------------
(* Lemmas about tables and stacks *)

\* A declaration made by the parser has the shape of one.
LEMMA NewEntryType ==
    ASSUME NEW k \in {"var", "let"}, NEW t \in Type, NEW i \in BOOLEAN,
           NEW r \in BOOLEAN, NEW d \in Int
    PROVE  Abstract!NewEntry(k, t, i, r, d) \in Abstract!Entry
BY DEF Abstract!NewEntry, Abstract!Entry, Abstract!INT_MAX

\* Recording a value keeps a declaration a declaration.
LEMMA InitialisedType ==
    ASSUME NEW e \in Abstract!Entry, NEW d \in Int
    PROVE  Abstract!Initialised(e, d) \in Abstract!Entry
BY DEF Abstract!Initialised, Abstract!Entry

\* A table with the entry of one name replaced is a table.
LEMMA TableExcept ==
    ASSUME NEW t \in Abstract!Table, NEW n \in Name, NEW e \in Abstract!Entry
    PROVE  [t EXCEPT ![n] = e] \in Abstract!Table
BY DEF Abstract!Table

\* The table with no declaration is a table.
LEMMA EmptyTableType == Abstract!EmptyTable \in Abstract!Table
BY DEF Abstract!EmptyTable, Abstract!Table

\* The top of a stack of tables, empty or not, is a table.
LEMMA StackTopType ==
    ASSUME NEW s \in Seq(Abstract!Table)
    PROVE  StackTop(s) \in Abstract!Table
BY EmptyTableType DEF StackTop

\* Popping a stack of tables removes its last element and nothing else.
LEMMA StackPopLemma ==
    ASSUME NEW s \in Seq(Abstract!Table), s # <<>>
    PROVE  /\ StackPop(s) \in Seq(Abstract!Table)
           /\ Len(StackPop(s)) = Len(s) - 1
           /\ \A i \in 1..Len(s) - 1 : StackPop(s)[i] = s[i]
<1>1. Len(s) \in Nat \ {0}
  BY EmptySeq
<1>2. \A i \in 1..Len(s) - 1 : s[i] \in Abstract!Table
  BY <1>1
<1>3. StackPop(s) = SubSeq(s, 1, Len(s) - 1)
  BY DEF StackPop
<1>4. /\ SubSeq(s, 1, Len(s) - 1) \in Seq(Abstract!Table)
      /\ Len(SubSeq(s, 1, Len(s) - 1)) =
            IF 1 <= Len(s) - 1 THEN (Len(s) - 1) - 1 + 1 ELSE 0
      /\ \A i \in 1..(Len(s) - 1) - 1 + 1 :
            SubSeq(s, 1, Len(s) - 1)[i] = s[1 + i - 1]
  <2>1. Len(s) - 1 \in Int
    BY <1>1
  <2> QED
    BY ONLY <1>2, <2>1, SubSeqProperties
<1>5. (Len(s) - 1) - 1 + 1 = Len(s) - 1 /\ \A i \in Int : 1 + i - 1 = i
  BY <1>1
<1> QED
  BY <1>1, <1>3, <1>4, <1>5

\* Pushing adds one element on top and nothing else.
LEMMA StackPush ==
    ASSUME NEW s \in Seq(Abstract!Table), NEW t \in Abstract!Table
    PROVE  /\ Append(s, t) \in Seq(Abstract!Table)
           /\ Len(Append(s, t)) = Len(s) + 1
           /\ \A i \in 1..Len(s) : Append(s, t)[i] = s[i]
           /\ Append(s, t)[Len(s) + 1] = t
OBVIOUS

\* Every scope that is open is a table.
LEMMA ScopeAtType ==
    ASSUME TypeOK, FrameOK, NEW i \in 1..scopeDepth + 1
    PROVE  ScopeAt(i) \in Abstract!Table
BY DEF TypeOK, FrameOK, ScopeAt
-----------------------------------------------------------------------------
(* The steps of the walk *)

\* Descend moves one scope across and loses none.
LEMMA DescendScopes ==
    ASSUME IInv, Descend
    PROVE  /\ scopeStack # <<>>
           /\ scopeDepth' = scopeDepth /\ currentScope' = currentScope
           /\ scopeStack' \in Seq(Abstract!Table)
           /\ tmpScopeStack' \in Seq(Abstract!Table)
           /\ Len(scopeStack') = Len(scopeStack) - 1
           /\ Len(tmpScopeStack') = Len(tmpScopeStack) + 1
           /\ \A i \in 1..scopeDepth + 1 : ScopeAt(i)' = ScopeAt(i)
<1> USE DEF IInv, TypeOK, FrameOK, Descend, Searching
<1>1. /\ scopeStack # <<>> /\ Len(scopeStack) \in Nat \ {0}
      /\ Len(tmpScopeStack) \in Nat /\ scopeDepth \in Nat
      /\ Len(scopeStack) + Len(tmpScopeStack) = scopeDepth
  BY EmptySeq, ConstantsAssumption
<1>2. StackTop(scopeStack) = scopeStack[Len(scopeStack)]
  BY <1>1 DEF StackTop
<1>3. /\ StackPop(scopeStack) \in Seq(Abstract!Table)
      /\ Len(StackPop(scopeStack)) = Len(scopeStack) - 1
      /\ \A i \in 1..Len(scopeStack) - 1 : StackPop(scopeStack)[i] = scopeStack[i]
  BY <1>1, StackPopLemma
<1>4. scopeStack[Len(scopeStack)] \in Abstract!Table
  BY <1>1
<1>5. /\ tmpScopeStack' = Append(tmpScopeStack, scopeStack[Len(scopeStack)])
      /\ scopeStack' = StackPop(scopeStack)
      /\ scopeDepth' = scopeDepth /\ currentScope' = currentScope
  BY <1>2
<1>6. /\ tmpScopeStack' \in Seq(Abstract!Table)
      /\ Len(tmpScopeStack') = Len(tmpScopeStack) + 1
      /\ \A i \in 1..Len(tmpScopeStack) : tmpScopeStack'[i] = tmpScopeStack[i]
      /\ tmpScopeStack'[Len(tmpScopeStack) + 1] = scopeStack[Len(scopeStack)]
  BY <1>4, <1>5, StackPush
<1>7. ASSUME NEW i \in 1..scopeDepth + 1
      PROVE  ScopeAt(i)' = ScopeAt(i)
  <2>1. CASE i = scopeDepth + 1
    BY <1>5, <2>1 DEF ScopeAt
  <2>2. CASE i < Len(scopeStack)
    BY <1>1, <1>3, <1>5, <2>2 DEF ScopeAt
  <2>3. CASE i = Len(scopeStack)
    <3>1. scopeDepth + 1 - i = Len(tmpScopeStack) + 1
      BY <1>1, <2>3
    <3>2. ~(i <= Len(scopeStack')) /\ i # scopeDepth' + 1
      BY <1>1, <1>3, <1>5, <2>3
    <3> QED
      BY <1>1, <1>5, <1>6, <2>3, <3>1, <3>2 DEF ScopeAt
  <2>4. CASE i > Len(scopeStack) /\ i # scopeDepth + 1
    <3>1. scopeDepth + 1 - i \in 1..Len(tmpScopeStack)
      <4>1. i \in 1..scopeDepth + 1
        OBVIOUS
      <4>2. i \in Int /\ i <= scopeDepth /\ i >= Len(scopeStack) + 1
        BY ONLY <1>1, <2>4, <4>1
      <4> QED
        BY ONLY <1>1, <4>2
    <3>2. ~(i <= Len(scopeStack')) /\ ~(i <= Len(scopeStack)) /\ i # scopeDepth' + 1
      BY <1>1, <1>3, <1>5, <2>4
    <3> QED
      BY <1>5, <1>6, <2>4, <3>1, <3>2 DEF ScopeAt
  <2> QED
    BY <1>1, <2>1, <2>2, <2>3, <2>4
<1> QED
  BY <1>1, <1>3, <1>5, <1>6, <1>7

\* Ascend moves one scope back and loses none.
LEMMA AscendScopes ==
    ASSUME IInv, Ascend
    PROVE  /\ scopeDepth' = scopeDepth /\ currentScope' = currentScope
           /\ scopeStack' \in Seq(Abstract!Table)
           /\ tmpScopeStack' \in Seq(Abstract!Table)
           /\ Len(scopeStack') = Len(scopeStack) + 1
           /\ Len(tmpScopeStack') = Len(tmpScopeStack) - 1
           /\ \A i \in 1..scopeDepth + 1 : ScopeAt(i)' = ScopeAt(i)
<1> USE DEF IInv, TypeOK, FrameOK, Ascend, Returning
<1>1. /\ tmpScopeStack # <<>> /\ Len(tmpScopeStack) \in Nat \ {0}
      /\ Len(scopeStack) \in Nat /\ scopeDepth \in Nat
      /\ Len(scopeStack) + Len(tmpScopeStack) = scopeDepth
  BY EmptySeq, ConstantsAssumption
<1>2. StackTop(tmpScopeStack) = tmpScopeStack[Len(tmpScopeStack)]
  BY <1>1 DEF StackTop
<1>3. /\ StackPop(tmpScopeStack) \in Seq(Abstract!Table)
      /\ Len(StackPop(tmpScopeStack)) = Len(tmpScopeStack) - 1
      /\ \A i \in 1..Len(tmpScopeStack) - 1 :
            StackPop(tmpScopeStack)[i] = tmpScopeStack[i]
  BY <1>1, StackPopLemma
<1>4. tmpScopeStack[Len(tmpScopeStack)] \in Abstract!Table
  BY <1>1
<1>5. /\ scopeStack' = Append(scopeStack, tmpScopeStack[Len(tmpScopeStack)])
      /\ tmpScopeStack' = StackPop(tmpScopeStack)
      /\ scopeDepth' = scopeDepth /\ currentScope' = currentScope
  BY <1>2
<1>6. /\ scopeStack' \in Seq(Abstract!Table)
      /\ Len(scopeStack') = Len(scopeStack) + 1
      /\ \A i \in 1..Len(scopeStack) : scopeStack'[i] = scopeStack[i]
      /\ scopeStack'[Len(scopeStack) + 1] = tmpScopeStack[Len(tmpScopeStack)]
  BY <1>4, <1>5, StackPush
<1>7. ASSUME NEW i \in 1..scopeDepth + 1
      PROVE  ScopeAt(i)' = ScopeAt(i)
  <2>1. CASE i = scopeDepth + 1
    BY <1>5, <2>1 DEF ScopeAt
  <2>2. CASE i <= Len(scopeStack)
    BY <1>1, <1>5, <1>6, <2>2 DEF ScopeAt
  <2>3. CASE i = Len(scopeStack) + 1 /\ i # scopeDepth + 1
    <3>1. scopeDepth + 1 - i = Len(tmpScopeStack)
      BY <1>1, <2>3
    <3>2. ~(i <= Len(scopeStack)) /\ i <= Len(scopeStack')
      BY <1>1, <1>6, <2>3
    <3> QED
      BY <1>5, <1>6, <2>3, <3>1, <3>2 DEF ScopeAt
  <2>4. CASE i > Len(scopeStack) + 1 /\ i # scopeDepth + 1
    <3>1. scopeDepth + 1 - i \in 1..Len(tmpScopeStack) - 1
      <4>1. i \in 1..scopeDepth + 1
        OBVIOUS
      <4>2. i \in Int /\ i <= scopeDepth /\ i >= Len(scopeStack) + 2
        BY ONLY <1>1, <2>4, <4>1
      <4> QED
        BY ONLY <1>1, <4>2
    <3>2. ~(i <= Len(scopeStack')) /\ ~(i <= Len(scopeStack)) /\ i # scopeDepth' + 1
      BY <1>1, <1>5, <1>6, <2>4
    <3> QED
      BY <1>3, <1>5, <2>4, <3>1, <3>2 DEF ScopeAt
  <2> QED
    BY <1>1, <2>1, <2>2, <2>3, <2>4
<1> QED
  BY <1>1, <1>3, <1>5, <1>6, <1>7
-----------------------------------------------------------------------------
(* Every step keeps the invariant *)

\* The type of the frame of symtable_find.
Frame == [pc : {"idle", "down", "up"}, op : {"none", "get", "redeclare"},
          key : Name \cup {NULL}, depth : Int, found : Int]

\* A look-up that visits one more scope keeps the invariant.
LEMMA DescendInv == IInv /\ Descend => IInv'
<1> SUFFICES ASSUME IInv, Descend PROVE IInv'
  OBVIOUS
<1>1. /\ scopeStack # <<>>
      /\ scopeDepth' = scopeDepth /\ currentScope' = currentScope
      /\ scopeStack' \in Seq(Abstract!Table)
      /\ tmpScopeStack' \in Seq(Abstract!Table)
      /\ Len(scopeStack') = Len(scopeStack) - 1
      /\ Len(tmpScopeStack') = Len(tmpScopeStack) + 1
      /\ \A i \in 1..scopeDepth + 1 : ScopeAt(i)' = ScopeAt(i)
  BY DescendScopes
<1>2. /\ find.pc = "down" /\ find.depth = Len(scopeStack) /\ find.key \in Name
      /\ find.op \in {"get", "redeclare"} /\ find.depth \in Nat /\ find.depth > 0
      /\ find.found = -1 /\ scopeDepth \in Nat /\ exit = 0 /\ ret = NULL
      /\ Len(scopeStack) + Len(tmpScopeStack) = scopeDepth
      /\ Len(scopeStack) \in Nat /\ Len(tmpScopeStack) \in Nat
  BY EmptySeq, ConstantsAssumption DEF IInv, TypeOK, FrameOK, Descend, Searching
<1>3. StackTop(scopeStack) = ScopeAt(find.depth)
  BY <1>1, <1>2 DEF StackTop, ScopeAt
<1> DEFINE f == TreeFind(ScopeAt(find.depth), find.key, TRUE, find.depth - 1)
<1>4. /\ f = IF ScopeAt(find.depth)[find.key] # NULL THEN find.depth - 1 ELSE -1
      /\ f \in Int /\ find.depth - 1 \in Int
      /\ find' = [find EXCEPT !.depth = find.depth - 1, !.found = f]
  BY <1>2, <1>3 DEF Descend, TreeFind
<1> HIDE DEF f
<1>5. UNCHANGED <<collect_funcs, functions, ret, exit>>
  BY DEF Descend
<1>6. find \in Frame
  BY DEF IInv, TypeOK, Frame
<1>7. /\ find' \in Frame
      /\ find'.pc = "down" /\ find'.key = find.key /\ find'.op = find.op
      /\ find'.depth = find.depth - 1 /\ find'.found = f
  BY ONLY <1>2, <1>4, <1>6 DEF Frame
<1>8. TypeOK'
  BY <1>1, <1>5, <1>7 DEF IInv, TypeOK, Frame
<1>9. FrameOK'
  BY <1>1, <1>2, <1>5, <1>7 DEF FrameOK
<1>10. SearchOK'
  <2>1. \A i \in find.depth + 1..scopeDepth + 1 : ScopeAt(i)[find.key] = NULL
    BY <1>2 DEF IInv, SearchOK, VisitedFrom
  <2>2. find.op # "redeclare"
    BY <1>2 DEF IInv, SearchOK
  <2>3. VisitedFrom' = find.depth
    BY <1>2, <1>7 DEF VisitedFrom
  <2>4. CASE f = -1
    <3>1. \A i \in find.depth..scopeDepth + 1 : ScopeAt(i)[find.key] = NULL
      BY <1>2, <1>4, <2>1, <2>4
    <3>2. \A i \in VisitedFrom'..scopeDepth' + 1 : ScopeAt(i)'[find'.key] = NULL
      BY <1>1, <1>2, <1>7, <2>3, <3>1
    <3> QED
      BY <1>7, <2>2, <2>4, <3>2 DEF SearchOK
  <2>5. CASE f # -1
    <3>1. f = find.depth - 1 /\ ScopeAt(find.depth)[find.key] # NULL
      BY <1>4, <2>5
    <3>2. f \in 0..scopeDepth
      BY <1>2, <3>1
    <3>3. \A i \in 1..scopeDepth + 1 :
            /\ i = f + 1 => ScopeAt(i)[find.key] # NULL
            /\ i > f + 1 => ScopeAt(i)[find.key] = NULL
      BY <1>2, <2>1, <3>1
    <3> QED
      BY <1>1, <1>7, <2>2, <2>5, <3>2, <3>3 DEF SearchOK
  <2> QED
    BY <2>4, <2>5
<1>11. PointerOK'
  BY <1>2, <1>5 DEF PointerOK
<1> QED
  BY <1>8, <1>9, <1>10, <1>11 DEF IInv

\* Leaving the first loop changes no scope and keeps the invariant.
LEMMA TurnBackInv == IInv /\ TurnBack => IInv'
<1> SUFFICES ASSUME IInv, TurnBack PROVE IInv'
  OBVIOUS
<1>1. /\ find.pc = "down" /\ (find.depth > 0 => find.found # -1)
      /\ find' = [find EXCEPT !.pc = "up"]
      /\ UNCHANGED <<collect_funcs, functions, currentScope, scopeStack,
                     tmpScopeStack, scopeDepth, ret, exit>>
  BY DEF TurnBack, Searching, tables
<1>2. find \in Frame /\ find.depth \in Nat
  BY <1>1, EmptySeq DEF IInv, TypeOK, FrameOK, Frame
<1>3. /\ find' \in Frame /\ find'.pc = "up" /\ find'.key = find.key
      /\ find'.op = find.op /\ find'.depth = find.depth /\ find'.found = find.found
  BY ONLY <1>1, <1>2 DEF Frame
<1>4. \A i : ScopeAt(i)' = ScopeAt(i)
  BY <1>1 DEF ScopeAt
<1>5. TypeOK'
  BY <1>1, <1>3 DEF IInv, TypeOK, Frame
<1>6. FrameOK'
  BY <1>1, <1>3 DEF IInv, FrameOK
<1>7. SearchOK'
  <2>1. VisitedFrom' = 1 /\ VisitedFrom = find.depth + 1
    BY <1>1, <1>3 DEF VisitedFrom
  <2>2. find.found = -1 => find.depth + 1 = 1
    BY <1>1, <1>2
  <2> QED
    BY <1>1, <1>3, <1>4, <2>1, <2>2 DEF IInv, SearchOK
<1>8. PointerOK'
  BY <1>1, <1>4 DEF IInv, PointerOK
<1> QED
  BY <1>5, <1>6, <1>7, <1>8 DEF IInv

\* Moving a scope back keeps the invariant.
LEMMA AscendInv == IInv /\ Ascend => IInv'
<1> SUFFICES ASSUME IInv, Ascend PROVE IInv'
  OBVIOUS
<1>1. /\ scopeDepth' = scopeDepth /\ currentScope' = currentScope
      /\ scopeStack' \in Seq(Abstract!Table)
      /\ tmpScopeStack' \in Seq(Abstract!Table)
      /\ Len(scopeStack') = Len(scopeStack) + 1
      /\ Len(tmpScopeStack') = Len(tmpScopeStack) - 1
      /\ \A i \in 1..scopeDepth + 1 : ScopeAt(i)' = ScopeAt(i)
  BY AscendScopes
<1>2. /\ find.pc = "up" /\ find.depth = Len(scopeStack) /\ find.key \in Name
      /\ find.depth + 1 \in Int
      /\ find.op \in {"get", "redeclare"} /\ exit = 0 /\ ret = NULL
      /\ Len(scopeStack) + Len(tmpScopeStack) = scopeDepth
      /\ Len(scopeStack) \in Nat /\ Len(tmpScopeStack) \in Nat
  BY EmptySeq DEF IInv, TypeOK, FrameOK, Ascend, Returning
<1>3. /\ find' = [find EXCEPT !.depth = find.depth + 1]
      /\ UNCHANGED <<collect_funcs, functions, ret, exit>>
  BY DEF Ascend, Returning
<1>4. find \in Frame
  BY DEF IInv, TypeOK, Frame
<1>5. /\ find' \in Frame /\ find'.pc = "up" /\ find'.key = find.key
      /\ find'.op = find.op /\ find'.depth = find.depth + 1 /\ find'.found = find.found
  BY ONLY <1>2, <1>3, <1>4 DEF Frame
<1>6. TypeOK'
  BY <1>1, <1>3, <1>5 DEF IInv, TypeOK, Frame
<1>7. FrameOK'
  BY <1>1, <1>2, <1>3, <1>5 DEF FrameOK
<1>8. SearchOK'
  <2>1. VisitedFrom' = 1 /\ VisitedFrom = 1
    BY <1>2, <1>5 DEF VisitedFrom
  <2> QED
    BY <1>1, <1>2, <1>5, <2>1 DEF IInv, SearchOK
<1>9. PointerOK'
  BY <1>2, <1>3 DEF PointerOK
<1> QED
  BY <1>6, <1>7, <1>8, <1>9 DEF IInv

\* The frame between two look-ups is a frame, and idle.
LEMMA IdleFrame == Idle \in Frame /\ Idle.pc = "idle"
BY DEF Idle, Frame

\* A look-up that ends leaves every scope back on its stack.
LEMMA ReturnGetInv == IInv /\ ReturnGet => IInv'
<1> SUFFICES ASSUME IInv, ReturnGet PROVE IInv'
  OBVIOUS
<1>1. /\ find.pc = "up" /\ find.depth = scopeDepth /\ find.depth = Len(scopeStack)
      /\ find.key \in Name /\ exit = 0 /\ ret = NULL
      /\ find' = Idle
      /\ UNCHANGED <<collect_funcs, functions, currentScope, scopeStack,
                     tmpScopeStack, scopeDepth>>
  BY DEF IInv, FrameOK, ReturnGet, Walked, tables
<1>2. \A i : ScopeAt(i)' = ScopeAt(i)
  BY <1>1 DEF ScopeAt
<1>3. \/ find.found = -1 /\ exit' = 5 /\ ret' = NULL
      \/ find.found # -1 /\ exit' = 0 /\ ret' = [scope |-> find.found, key |-> find.key]
  BY <1>1 DEF ReturnGet
<1>4. ret' \in Abstract!Pointer \cup {NULL}
  BY <1>1, <1>3 DEF IInv, TypeOK, Abstract!Pointer
<1>5. TypeOK'
  BY <1>1, <1>3, <1>4, IdleFrame DEF IInv, TypeOK, Frame
<1>6. FrameOK'
  BY <1>1, IdleFrame DEF IInv, FrameOK
<1>7. SearchOK'
  BY <1>1, IdleFrame DEF SearchOK
<1>8. PointerOK'
  <2>1. CASE find.found = -1
    BY <1>3, <2>1 DEF PointerOK
  <2>2. CASE find.found # -1
    <3>1. ret'.scope = find.found /\ ret'.key = find.key
      BY <1>3, <2>2
    <3>2. /\ find.found \in 0..scopeDepth
          /\ \A i \in 1..scopeDepth + 1 :
                i = find.found + 1 => ScopeAt(i)[find.key] # NULL
      BY <1>1, <2>2 DEF IInv, SearchOK
    <3> QED
      BY <1>1, <1>2, <3>1, <3>2 DEF PointerOK
  <2> QED
    BY <2>1, <2>2
<1> QED
  BY <1>5, <1>6, <1>7, <1>8 DEF IInv

\* A second declaration keeps the table a table.
LEMMA ReturnRedeclareInv == IInv /\ ReturnRedeclare => IInv'
<1> SUFFICES ASSUME IInv, ReturnRedeclare PROVE IInv'
  OBVIOUS
<1> DEFINE new == [currentScope[find.key] EXCEPT !.canBeRedefined = FALSE]
<1>1. /\ find.pc = "up" /\ find.depth = scopeDepth /\ find.depth = Len(scopeStack)
      /\ find.key \in Name /\ find.op = "redeclare" /\ exit = 0
      /\ find' = Idle /\ ret' = NULL /\ exit' \in {0, 3, 9}
      /\ currentScope' = [currentScope EXCEPT ![find.key] = new]
      /\ UNCHANGED <<collect_funcs, functions, scopeStack, tmpScopeStack, scopeDepth>>
  BY DEF IInv, FrameOK, ReturnRedeclare, Walked
<1>2. scopeDepth \in Nat
  BY ConstantsAssumption DEF IInv, TypeOK
<1>3. currentScope[find.key] # NULL
  <2>1. find.found = scopeDepth /\ find.found # -1
    BY <1>1, <1>2 DEF IInv, SearchOK
  <2>2. ScopeAt(scopeDepth + 1)[find.key] # NULL
    BY <1>1, <1>2, <2>1 DEF IInv, SearchOK
  <2> QED
    BY <2>2 DEF ScopeAt
<1>4. currentScope[find.key] \in Abstract!Entry
  BY <1>1, <1>3 DEF IInv, TypeOK, Abstract!Table
<1>5. new \in Abstract!Entry
  BY <1>4 DEF Abstract!Entry
<1>6. currentScope' \in Abstract!Table
  BY <1>1, <1>5, TableExcept DEF IInv, TypeOK
<1>7. TypeOK'
  BY <1>1, <1>6, IdleFrame DEF IInv, TypeOK, Frame
<1>8. FrameOK'
  BY <1>1, IdleFrame DEF IInv, FrameOK
<1>9. SearchOK' /\ PointerOK'
  BY <1>1, IdleFrame DEF SearchOK, PointerOK
<1> QED
  BY <1>7, <1>8, <1>9 DEF IInv
-----------------------------------------------------------------------------
\* Between two look-ups every scope is on scopeStack.
LEMMA ReadyScopes ==
    ASSUME IInv, Ready
    PROVE  /\ find = Idle /\ find.pc = "idle" /\ exit = 0
           /\ Len(scopeStack) = scopeDepth /\ scopeDepth \in Nat
           /\ Len(tmpScopeStack) = 0
<1>1. find = Idle /\ find.pc = "idle" /\ exit = 0
  BY IdleFrame DEF Ready
<1>2. scopeDepth \in Nat /\ Len(tmpScopeStack) \in Nat
  BY ConstantsAssumption, EmptySeq DEF IInv, TypeOK
<1> QED
  BY <1>1, <1>2 DEF IInv, FrameOK

\* Opening a scope keeps the invariant.
LEMMA IncreaseInv == IInv /\ increase_scope => IInv'
<1> SUFFICES ASSUME IInv, increase_scope PROVE IInv'
  OBVIOUS
<1>1. /\ find = Idle /\ find.pc = "idle" /\ Len(scopeStack) = scopeDepth
      /\ scopeDepth \in Nat /\ Len(tmpScopeStack) = 0
  BY ReadyScopes DEF increase_scope
<1>2. /\ scopeStack' = Append(scopeStack, currentScope)
      /\ currentScope' = Abstract!EmptyTable /\ scopeDepth' = scopeDepth + 1
      /\ ret' = NULL /\ scopeDepth < MaxDepth
      /\ UNCHANGED <<collect_funcs, functions, tmpScopeStack, find, exit>>
  BY DEF increase_scope
<1>3. scopeStack' \in Seq(Abstract!Table) /\ Len(scopeStack') = scopeDepth + 1
  BY <1>1, <1>2, StackPush DEF IInv, TypeOK
<1>4. TypeOK'
  BY <1>1, <1>2, <1>3, EmptyTableType, ConstantsAssumption DEF IInv, TypeOK
<1>5. FrameOK'
  BY <1>1, <1>2, <1>3 DEF FrameOK
<1>6. SearchOK' /\ PointerOK'
  BY <1>1, <1>2 DEF SearchOK, PointerOK
<1> QED
  BY <1>4, <1>5, <1>6 DEF IInv

\* Closing a scope keeps the invariant.
LEMMA DecreaseInv == IInv /\ decrease_scope => IInv'
<1> SUFFICES ASSUME IInv, decrease_scope PROVE IInv'
  OBVIOUS
<1>1. /\ find = Idle /\ find.pc = "idle" /\ Len(scopeStack) = scopeDepth
      /\ scopeDepth \in Nat /\ Len(tmpScopeStack) = 0
  BY ReadyScopes DEF decrease_scope
<1>2. /\ scopeStack' = StackPop(scopeStack)
      /\ currentScope' = StackTop(scopeStack) /\ scopeDepth' = scopeDepth - 1
      /\ ret' = NULL /\ scopeDepth > 0
      /\ UNCHANGED <<collect_funcs, functions, tmpScopeStack, find, exit>>
  BY DEF decrease_scope
<1>3. scopeStack # <<>>
  BY <1>1, <1>2, EmptySeq
<1>4. /\ scopeStack' \in Seq(Abstract!Table) /\ Len(scopeStack') = scopeDepth - 1
      /\ currentScope' \in Abstract!Table
  BY <1>1, <1>2, <1>3, StackPopLemma, StackTopType DEF IInv, TypeOK
<1>5. TypeOK'
  BY <1>1, <1>2, <1>4, ConstantsAssumption DEF IInv, TypeOK
<1>6. FrameOK'
  BY <1>1, <1>2, <1>4 DEF FrameOK
<1>7. SearchOK' /\ PointerOK'
  BY <1>1, <1>2 DEF SearchOK, PointerOK
<1> QED
  BY <1>5, <1>6, <1>7 DEF IInv

\* add_func and get_func keep the invariant: functions live apart from scopes.
LEMMA FuncInv ==
    ASSUME IInv, NEW n \in Name,
           \/ \E params \in {"paramless", "params", "sameNames"} : add_func(n, params)
           \/ get_func(n)
    PROVE  IInv'
<1>1. /\ find = Idle /\ find.pc = "idle" /\ Len(scopeStack) = scopeDepth
      /\ Len(tmpScopeStack) = 0
  BY ReadyScopes DEF add_func, get_func
<1>2. /\ ret' = NULL /\ exit' \in {0, 3, 9}
      /\ functions' \in [Name -> {"none", "paramless", "params"}]
      /\ UNCHANGED <<collect_funcs, currentScope, scopeStack, tmpScopeStack,
                     scopeDepth, find>>
  <2>1. CASE get_func(n)
    BY <2>1 DEF get_func, tables, IInv, TypeOK
  <2>2. ASSUME NEW params \in {"paramless", "params", "sameNames"}, add_func(n, params)
        PROVE  <1>2!1 /\ <1>2!2 /\ <1>2!3
    <3>1. /\ ret' = NULL /\ exit' \in {0, 3, 9}
          /\ UNCHANGED <<collect_funcs, currentScope, scopeStack, tmpScopeStack,
                         scopeDepth, find>>
      BY <2>2 DEF add_func, tables
    <3>2. CASE exit' = 0
      <4>1. CASE params = "sameNames"
        BY <2>2, <3>2, <4>1 DEF add_func
      <4>2. CASE params # "sameNames"
        BY <2>2, <3>1, <3>2, <4>2 DEF add_func, IInv, TypeOK
      <4> QED
        BY <4>1, <4>2
    <3>3. CASE exit' # 0
      BY <2>2, <3>1, <3>3 DEF add_func, IInv, TypeOK
    <3> QED
      BY <3>2, <3>3
  <2> QED
    BY <2>1, <2>2
<1>3. TypeOK' /\ FrameOK' /\ SearchOK' /\ PointerOK'
  BY <1>1, <1>2 DEF IInv, TypeOK, FrameOK, SearchOK, PointerOK
<1> QED
  BY <1>3 DEF IInv

\* The call of symtable_find, its first test included, keeps the invariant.
LEMMA StartFindInv ==
    ASSUME IInv, Ready, NEW n \in Name, NEW op \in {"get", "redeclare"},
           StartFind(op, n), op = "redeclare" => currentScope[n] # NULL,
           ret' = NULL, exit' = 0,
           UNCHANGED <<collect_funcs, functions, currentScope, scopeStack,
                       tmpScopeStack, scopeDepth>>
    PROVE  IInv'
<1>1. /\ Len(scopeStack) = scopeDepth /\ scopeDepth \in Nat
      /\ Len(tmpScopeStack) = 0
  BY ReadyScopes
<1> DEFINE f == TreeFind(currentScope, n, TRUE, scopeDepth)
<1>2. f = (IF currentScope[n] # NULL THEN scopeDepth ELSE -1) /\ f \in Int
  BY <1>1 DEF TreeFind
<1>3. find' = [pc |-> "down", op |-> op, key |-> n, depth |-> scopeDepth, found |-> f]
  BY DEF StartFind
<1> HIDE DEF f
<1>4. /\ find' \in Frame /\ find'.pc = "down" /\ find'.op = op /\ find'.key = n
      /\ find'.depth = scopeDepth /\ find'.found = f
  BY <1>1, <1>2, <1>3 DEF Frame
<1>5. TypeOK'
  BY <1>4 DEF IInv, TypeOK, Frame
<1>6. FrameOK'
  BY <1>1, <1>4 DEF FrameOK
<1>7. SearchOK'
  <2>1. \A i \in 1..scopeDepth + 1 : i >= scopeDepth + 1 => ScopeAt(i)' = currentScope
    BY <1>1 DEF ScopeAt
  <2>2. VisitedFrom' = scopeDepth + 1
    BY <1>4 DEF VisitedFrom
  <2>3. CASE currentScope[n] = NULL
    <3>1. f = -1 /\ op # "redeclare"
      BY <1>2, <2>3
    <3>2. \A i \in VisitedFrom'..scopeDepth' + 1 : ScopeAt(i)'[find'.key] = NULL
      BY <1>1, <1>4, <2>1, <2>2, <2>3
    <3> QED
      BY <1>4, <3>1, <3>2 DEF SearchOK
  <2>4. CASE currentScope[n] # NULL
    <3>1. f = scopeDepth /\ f # -1 /\ f \in 0..scopeDepth
      BY <1>1, <1>2, <2>4
    <3>2. \A i \in 1..scopeDepth' + 1 :
            /\ i = f + 1 => ScopeAt(i)'[find'.key] # NULL
            /\ i > f + 1 => ScopeAt(i)'[find'.key] = NULL
      BY <1>1, <1>4, <2>1, <2>4, <3>1
    <3> QED
      BY <1>4, <3>1, <3>2 DEF SearchOK
  <2> QED
    BY <2>3, <2>4
<1>8. PointerOK'
  BY DEF PointerOK
<1> QED
  BY <1>5, <1>6, <1>7, <1>8 DEF IInv

\* The start of get_var and get_let keeps the invariant.
LEMMA GetInv == ASSUME IInv, NEW n \in Name, get(n) PROVE IInv'
<1>1. /\ Ready /\ StartFind("get", n) /\ ret' = NULL /\ exit' = 0
      /\ UNCHANGED <<collect_funcs, functions, currentScope, scopeStack,
                     tmpScopeStack, scopeDepth>>
  BY DEF get, Ready, tables
<1> QED
  BY <1>1, StartFindInv

\* add_var and add_let keep the invariant, whether they add, refuse or search.
LEMMA AddInv ==
    ASSUME IInv, NEW kind \in {"var", "let"}, NEW n \in Name, NEW t \in Type,
           NEW i \in BOOLEAN, NEW r \in BOOLEAN, Add(kind, n, t, i, r)
    PROVE  IInv'
<1>1. /\ find = Idle /\ find.pc = "idle" /\ Len(scopeStack) = scopeDepth
      /\ Len(tmpScopeStack) = 0 /\ exit = 0 /\ scopeDepth \in Nat
  BY ReadyScopes DEF Add, Taken, CollidesWithFunction
<1>2. /\ Ready /\ ret' = NULL
      /\ UNCHANGED <<collect_funcs, functions, scopeStack, tmpScopeStack, scopeDepth>>
  BY DEF Add, Taken, CollidesWithFunction
<1>3. CASE functions[n] # "paramless" /\ currentScope[n] # NULL
  <2>1. StartFind("redeclare", n) /\ currentScope' = currentScope /\ exit' = 0
    BY <1>1, <1>3 DEF Add, Taken, CollidesWithFunction
  <2> QED
    BY <1>2, <1>3, <2>1, StartFindInv
<1>4. CASE functions[n] = "paramless" \/ currentScope[n] = NULL
  <2>1. find' = find /\ exit' \in {0, 9}
    BY <1>1, <1>4 DEF Add, Taken, CollidesWithFunction
  <2>2. currentScope' \in Abstract!Table
    <3>1. Abstract!NewEntry(kind, t, i, r, scopeDepth) \in Abstract!Entry
      BY <1>1, NewEntryType
    <3>2. \/ currentScope' = currentScope
          \/ currentScope' = [currentScope EXCEPT ![n] =
                                  Abstract!NewEntry(kind, t, i, r, scopeDepth)]
      BY <1>4 DEF Add, Taken, CollidesWithFunction
    <3> QED
      BY <3>1, <3>2, TableExcept DEF IInv, TypeOK
  <2>3. TypeOK' /\ FrameOK' /\ SearchOK' /\ PointerOK'
    BY <1>1, <1>2, <2>1, <2>2 DEF IInv, TypeOK, FrameOK, SearchOK, PointerOK
  <2> QED
    BY <2>3 DEF IInv
<1> QED
  BY <1>3, <1>4

\* Recording a value through the pointer of the last look-up keeps the
\* invariant.
LEMMA SetInitedInv == IInv /\ SetInited => IInv'
<1> SUFFICES ASSUME IInv, SetInited PROVE IInv'
  OBVIOUS
<1>1. /\ find = Idle /\ find.pc = "idle" /\ Len(scopeStack) = scopeDepth
      /\ Len(tmpScopeStack) = 0 /\ exit = 0 /\ scopeDepth \in Nat
  BY ReadyScopes DEF SetInited
<1>2. /\ ret # NULL /\ ret' = NULL /\ UNCHANGED <<collect_funcs, functions, find>>
      /\ ret.scope \in 0..scopeDepth /\ ret.key \in Name
  BY DEF SetInited, IInv, TypeOK, PointerOK, Abstract!Pointer
<1> DEFINE e == ScopeAt(ret.scope + 1)[ret.key]
           new == Abstract!Initialised(e, scopeDepth)
<1>3. ret.scope + 1 \in 1..scopeDepth + 1
  BY <1>1, <1>2
<1>4. e \in Abstract!Entry
  <2>1. ScopeAt(ret.scope + 1) \in Abstract!Table
    BY <1>3, ScopeAtType DEF IInv
  <2>2. e # NULL
    BY <1>2, <1>3 DEF IInv, PointerOK
  <2> QED
    BY <1>2, <2>1, <2>2 DEF Abstract!Table
<1>5. new \in Abstract!Entry
  BY <1>1, <1>4, InitialisedType
<1> HIDE DEF new
<1>6. \/ exit' = 9 /\ UNCHANGED tables
      \/ /\ ret.scope = scopeDepth
         /\ currentScope' = [currentScope EXCEPT ![ret.key] = new]
         /\ UNCHANGED <<scopeStack, tmpScopeStack, scopeDepth, exit>>
      \/ /\ ret.scope # scopeDepth
         /\ scopeStack' = [scopeStack EXCEPT ![ret.scope + 1][ret.key] = new]
         /\ UNCHANGED <<currentScope, tmpScopeStack, scopeDepth, exit>>
  BY DEF SetInited, new
<1>7. /\ scopeStack' \in Seq(Abstract!Table) /\ Len(scopeStack') = Len(scopeStack)
      /\ currentScope' \in Abstract!Table /\ exit' \in {0, 9}
      /\ UNCHANGED <<tmpScopeStack, scopeDepth>>
  <2>1. CASE exit' = 9 /\ UNCHANGED tables
    BY <2>1 DEF tables, IInv, TypeOK
  <2>2. CASE /\ ret.scope = scopeDepth
             /\ currentScope' = [currentScope EXCEPT ![ret.key] = new]
             /\ UNCHANGED <<scopeStack, tmpScopeStack, scopeDepth, exit>>
    BY <1>1, <1>2, <1>5, <2>2, TableExcept DEF IInv, TypeOK
  <2>3. CASE /\ ret.scope # scopeDepth
             /\ scopeStack' = [scopeStack EXCEPT ![ret.scope + 1][ret.key] = new]
             /\ UNCHANGED <<currentScope, tmpScopeStack, scopeDepth, exit>>
    <3>1. ret.scope + 1 \in 1..Len(scopeStack)
      BY <1>1, <1>2, <2>3
    <3>2. scopeStack[ret.scope + 1] \in Abstract!Table
      BY <3>1 DEF IInv, TypeOK
    <3>3. [scopeStack[ret.scope + 1] EXCEPT ![ret.key] = new] \in Abstract!Table
      BY <1>2, <1>5, <3>2, TableExcept
    <3>4. scopeStack' = [scopeStack EXCEPT ![ret.scope + 1] =
                            [scopeStack[ret.scope + 1] EXCEPT ![ret.key] = new]]
      BY <2>3
    <3> QED
      BY <1>1, <2>3, <3>1, <3>3, <3>4 DEF IInv, TypeOK
  <2> QED
    BY <1>6, <2>1, <2>2, <2>3
<1>8. TypeOK' /\ FrameOK' /\ SearchOK' /\ PointerOK'
  BY <1>1, <1>2, <1>7 DEF IInv, TypeOK, FrameOK, SearchOK, PointerOK
<1> QED
  BY <1>8 DEF IInv

\* The start of the second pass keeps the invariant.
LEMMA SecondPassInv == IInv /\ SecondPass => IInv'
<1> SUFFICES ASSUME IInv, SecondPass PROVE IInv'
  OBVIOUS
<1>1. find = Idle /\ find.pc = "idle" /\ exit = 0
  BY ReadyScopes DEF SecondPass
<1>2. <<>> \in Seq(Abstract!Table) /\ Len(<<>>) = 0
  BY EmptySeq
<1>3. TypeOK'
  BY <1>1, <1>2, EmptyTableType, ConstantsAssumption DEF SecondPass, IInv, TypeOK
<1>4. FrameOK' /\ SearchOK' /\ PointerOK'
  BY <1>1, <1>2 DEF SecondPass, FrameOK, SearchOK, PointerOK
<1> QED
  BY <1>3, <1>4 DEF IInv
-----------------------------------------------------------------------------
\* The invariant holds when the compiler starts its first pass.
LEMMA InitInv == Init => IInv
<1> SUFFICES ASSUME Init PROVE IInv
  OBVIOUS
<1>1. TypeOK
  BY EmptyTableType, ConstantsAssumption, EmptySeq, IdleFrame DEF Init, TypeOK, Frame
<1>2. FrameOK /\ SearchOK /\ PointerOK
  BY IdleFrame, EmptySeq DEF Init, FrameOK, SearchOK, PointerOK
<1> QED
  BY <1>1, <1>2 DEF IInv

\* Every step of the table keeps the invariant.
LEMMA NextInv == IInv /\ [Next]_vars => IInv'
<1> SUFFICES ASSUME IInv, [Next]_vars PROVE IInv'
  OBVIOUS
<1>1. CASE Walk
  BY <1>1, DescendInv, TurnBackInv, AscendInv, ReturnGetInv, ReturnRedeclareInv DEF Walk
<1>2. CASE increase_scope
  BY <1>2, IncreaseInv
<1>3. CASE decrease_scope
  BY <1>3, DecreaseInv
<1>4. CASE \E n \in Name, params \in {"paramless", "params", "sameNames"} : add_func(n, params)
  BY <1>4, FuncInv
<1>5. CASE \E n \in Name, t \in Type, i \in BOOLEAN : add_var(n, t, i)
  BY <1>5, AddInv DEF add_var
<1>6. CASE \E n \in Name, t \in Type, i, r \in BOOLEAN : add_let(n, t, i, r)
  BY <1>6, AddInv DEF add_let
<1>7. CASE \E n \in Name : get(n) \/ get_func(n)
  BY <1>7, GetInv, FuncInv
<1>8. CASE SetInited
  BY <1>8, SetInitedInv
<1>9. CASE SecondPass
  BY <1>9, SecondPassInv
<1>10. CASE UNCHANGED vars
  <2>1. \A i : ScopeAt(i)' = ScopeAt(i)
    BY <1>10 DEF vars, ScopeAt
  <2>2. VisitedFrom' = VisitedFrom
    BY <1>10 DEF vars, VisitedFrom
  <2> QED
    BY <1>10, <2>1, <2>2 DEF vars, IInv, TypeOK, FrameOK, SearchOK, PointerOK
<1> QED
  BY <1>1, <1>2, <1>3, <1>4, <1>5, <1>6, <1>7, <1>8, <1>9, <1>10 DEF Next, Call

\* The tables, the stacks and the frame of the look-up keep their types.
THEOREM TypeCorrect == Spec => []TypeOK
<1>1. IInv => TypeOK
  BY DEF IInv
<1> QED
  BY <1>1, InitInv, NextInv, PTL DEF Spec

\* However many scopes a look-up walks through, it loses none of them, and
\* all are back on their stack when it returns.
THEOREM WalkKeepsScopesCorrect == Spec => []WalkKeepsScopes
<1>1. IInv => WalkKeepsScopes
  BY DEF IInv, FrameOK, WalkKeepsScopes
<1> QED
  BY <1>1, InitInv, NextInv, PTL DEF Spec

\* A look-up reports a name as undeclared only when no open scope has it.
THEOREM MissIsUndeclaredCorrect == Spec => []MissIsUndeclared
<1>1. IInv => MissIsUndeclared
  BY DEF IInv, SearchOK, VisitedFrom, MissIsUndeclared
<1> QED
  BY <1>1, InitInv, NextInv, PTL DEF Spec
-----------------------------------------------------------------------------
(* The table implements a stack of scopes with an atomic look-up. *)

\* The open scopes are a sequence of tables, one more than the depth.
LEMMA OpenScopesSeq ==
    ASSUME IInv
    PROVE  /\ OpenScopes \in Seq(Abstract!Table)
           /\ Len(OpenScopes) = scopeDepth + 1
           /\ DOMAIN OpenScopes = 1..scopeDepth + 1
           /\ \A i \in 1..scopeDepth + 1 : OpenScopes[i] = ScopeAt(i)
           /\ scopeDepth \in Nat
<1>1. scopeDepth \in Nat
  BY ConstantsAssumption DEF IInv, TypeOK
<1>2. \A i \in 1..scopeDepth + 1 : ScopeAt(i) \in Abstract!Table
  BY ScopeAtType DEF IInv
<1> QED
  BY <1>1, <1>2 DEF OpenScopes

\* A step that touches no scope and keeps the depth keeps the open scopes.
LEMMA SameScopes ==
    ASSUME scopeDepth' = scopeDepth,
           \A i \in 1..scopeDepth + 1 : ScopeAt(i)' = ScopeAt(i)
    PROVE  OpenScopes' = OpenScopes
BY DEF OpenScopes

\* A step of the walk is no step of the abstract table, until it returns.
LEMMA WalkRefines ==
    ASSUME IInv, Descend \/ TurnBack \/ Ascend
    PROVE  UNCHANGED Abstract!vars
<1>1. CASE Descend
  BY <1>1, DescendScopes, SameScopes DEF Descend, Abstract!vars
<1>2. CASE TurnBack
  <2>1. scopeDepth' = scopeDepth /\ \A i : ScopeAt(i)' = ScopeAt(i)
    BY <1>2 DEF TurnBack, tables, ScopeAt
  <2> QED
    BY <1>2, <2>1, SameScopes DEF TurnBack, Abstract!vars
<1>3. CASE Ascend
  BY <1>3, AscendScopes, SameScopes DEF Ascend, Returning, Abstract!vars
<1> QED
  BY <1>1, <1>2, <1>3

\* The answer of a look-up is the innermost declaration.
LEMMA ReturnGetRefines ==
    ASSUME IInv, ReturnGet
    PROVE  Abstract!Lookup \/ UNCHANGED Abstract!vars
<1>1. /\ find.pc = "up" /\ find.key \in Name /\ ret = NULL /\ exit = 0
      /\ UNCHANGED <<currentScope, scopeStack, tmpScopeStack, scopeDepth>>
  BY DEF IInv, FrameOK, ReturnGet, Walked, tables
<1>2. OpenScopes' = OpenScopes
  BY <1>1 DEF OpenScopes, ScopeAt
<1>3. CASE find.found = -1
  BY <1>1, <1>2, <1>3 DEF ReturnGet, Abstract!vars
<1>4. CASE find.found # -1
  <2>1. /\ find.found \in 0..scopeDepth
        /\ \A i \in 1..scopeDepth + 1 :
              /\ i = find.found + 1 => OpenScopes[i][find.key] # NULL
              /\ i > find.found + 1 => OpenScopes[i][find.key] = NULL
    BY <1>1, <1>4, OpenScopesSeq DEF IInv, SearchOK
  <2>2. Len(OpenScopes) - 1 = scopeDepth /\ scopeDepth \in Nat
    BY OpenScopesSeq
  <2>3. Abstract!Resolves(find.key, find.found)
    BY <2>1, <2>2 DEF Abstract!Resolves, Abstract!Depth
  <2>4. find.found \in 0..Abstract!Depth
    BY <2>1, <2>2 DEF Abstract!Depth
  <2>5. ret' = [scope |-> find.found, key |-> find.key]
    BY <1>4 DEF ReturnGet
  <2> QED
    BY <1>1, <1>2, <2>3, <2>4, <2>5 DEF Abstract!Lookup
<1> QED
  BY <1>3, <1>4

\* Between look-ups the open scopes are the stack with the current one on top.
IdleScopes ==
    /\ OpenScopes = Append(scopeStack, currentScope)
    /\ scopeDepth \in Nat /\ Len(scopeStack) = scopeDepth
    /\ scopeStack \in Seq(Abstract!Table) /\ currentScope \in Abstract!Table

BetweenLookups == find.pc = "idle"

\* Between two look-ups the enclosing scopes are those of scopeStack.
LEMMA IdleOpenScopes == IInv /\ BetweenLookups => IdleScopes
<1> SUFFICES ASSUME IInv, find.pc = "idle" PROVE IdleScopes
  BY DEF BetweenLookups
<1>1. /\ Len(scopeStack) = scopeDepth /\ scopeDepth \in Nat
      /\ scopeStack \in Seq(Abstract!Table) /\ currentScope \in Abstract!Table
  BY ConstantsAssumption DEF IInv, TypeOK, FrameOK
<1>2. /\ OpenScopes \in Seq(Abstract!Table) /\ Len(OpenScopes) = scopeDepth + 1
      /\ \A i \in 1..scopeDepth + 1 : OpenScopes[i] = ScopeAt(i)
  BY OpenScopesSeq
<1>3. \A i \in 1..scopeDepth + 1 : OpenScopes[i] = Append(scopeStack, currentScope)[i]
  BY <1>1, <1>2, StackPush DEF ScopeAt
<1>4. /\ Append(scopeStack, currentScope) \in Seq(Abstract!Table)
      /\ Len(Append(scopeStack, currentScope)) = scopeDepth + 1
  BY <1>1, StackPush
<1> QED
  BY <1>1, <1>2, <1>3, <1>4, SeqEqual DEF IdleScopes

\* The same, before and after a step that starts and ends between look-ups.
LEMMA ReadyStep ==
    ASSUME IInv, IInv', Ready, find'.pc = "idle"
    PROVE  IdleScopes /\ IdleScopes'
<1>1. BetweenLookups /\ BetweenLookups'
  BY IdleFrame DEF Ready, BetweenLookups
<1> QED
  BY <1>1, IdleOpenScopes, PTL

\* Opening and closing a scope are Enter and Leave of the abstract table.
LEMMA DepthRefines ==
    ASSUME IInv, IInv', increase_scope \/ decrease_scope
    PROVE  Abstract!Enter \/ Abstract!Leave
<1>1. Ready /\ find'.pc = "idle"
  BY IdleFrame DEF increase_scope, decrease_scope, Ready
<1>2. /\ OpenScopes' = Append(scopeStack', currentScope')
      /\ OpenScopes = Append(scopeStack, currentScope)
      /\ Len(scopeStack) = scopeDepth /\ scopeDepth \in Nat
      /\ scopeStack \in Seq(Abstract!Table) /\ currentScope \in Abstract!Table
  BY <1>1, ReadyStep DEF IdleScopes
<1>3. CASE increase_scope
  BY <1>2, <1>3 DEF increase_scope, Abstract!Enter, Abstract!EmptyTable
<1>4. CASE decrease_scope
  <2>1. scopeStack # <<>> /\ scopeDepth > 0 /\ ret' = NULL
    BY <1>2, <1>4, EmptySeq DEF decrease_scope
  <2>2. scopeStack' = StackPop(scopeStack) /\ currentScope' = scopeStack[Len(scopeStack)]
    BY <1>4, <2>1 DEF decrease_scope, StackTop
  <2>3. scopeStack' = SubSeq(scopeStack, 1, Len(scopeStack) - 1)
    BY <2>1, <2>2 DEF StackPop
  <2>4. OpenScopes' = scopeStack
    BY <1>2, <2>1, <2>2, <2>3
  <2>5. Len(OpenScopes) - 1 = scopeDepth
    BY <1>2
  <2>6. SubSeq(OpenScopes, 1, scopeDepth) = scopeStack
    BY <1>2
  <2> QED
    BY <2>1, <2>4, <2>5, <2>6 DEF Abstract!Leave, Abstract!Depth
<1> QED
  BY <1>3, <1>4

\* Replacing the table on top of the stack.
LEMMA TopExcept ==
    ASSUME NEW s \in Seq(Abstract!Table), NEW t \in Abstract!Table,
           NEW u \in Abstract!Table
    PROVE  Append(s, u) = [Append(s, t) EXCEPT ![Len(Append(s, t))] = u]
<1> DEFINE a == Append(s, t)
           k == Len(s) + 1
           b == [a EXCEPT ![k] = u]
<1>1. /\ k \in Nat /\ Len(a) = k /\ DOMAIN a = 1..k /\ k \in 1..k
      /\ \A j \in 1..k : a[j] \in Abstract!Table
      /\ \A j \in 1..Len(s) : a[j] = s[j]
  BY StackPush
<1> HIDE DEF a
<1>2. b \in [1..k -> Abstract!Table]
  BY <1>1
<1>3. /\ b \in Seq(Abstract!Table) /\ Len(b) = k
      /\ \A j \in 1..k : b[j] = IF j = k THEN u ELSE a[j]
  BY <1>1, <1>2
<1>4. /\ Append(s, u) \in Seq(Abstract!Table) /\ Len(Append(s, u)) = k
      /\ \A j \in 1..k : Append(s, u)[j] = IF j = k THEN u ELSE a[j]
  BY <1>1, StackPush
<1>5. Append(s, u) = b
  <2> HIDE DEF b
  <2> QED
    BY <1>3, <1>4, SeqEqual
<1> QED
  BY <1>1, <1>5 DEF a

\* A call that only starts a look-up, or is refused, changes no scope.
LEMMA ForgetRefines ==
    ASSUME ret' = NULL,
           UNCHANGED <<currentScope, scopeStack, tmpScopeStack, scopeDepth>>
    PROVE  Abstract!Forget
<1>1. \A i : ScopeAt(i)' = ScopeAt(i)
  BY DEF ScopeAt
<1> QED
  BY <1>1, SameScopes DEF Abstract!Forget

\* A second declaration leaves the first one in place.
LEMMA RedeclareRefines ==
    ASSUME IInv, IInv', ReturnRedeclare
    PROVE  Abstract!Redeclare
<1> DEFINE new == [currentScope[find.key] EXCEPT !.canBeRedefined = FALSE]
           t == [currentScope EXCEPT ![find.key] = new]
<1>1. /\ find.pc = "up" /\ find.depth = scopeDepth /\ find.depth = Len(scopeStack)
      /\ find.key \in Name /\ find.op = "redeclare" /\ find' = Idle /\ ret' = NULL
      /\ currentScope' = t /\ scopeStack' = scopeStack /\ scopeDepth' = scopeDepth
  BY DEF IInv, FrameOK, ReturnRedeclare, Walked
<1>2. /\ scopeStack \in Seq(Abstract!Table) /\ currentScope \in Abstract!Table
      /\ t \in Abstract!Table /\ scopeDepth \in Nat
  BY <1>1, ConstantsAssumption DEF IInv, TypeOK
<1>3. IdleScopes'
  <2>1. BetweenLookups'
    BY <1>1, IdleFrame DEF BetweenLookups
  <2> QED
    BY <2>1, IdleOpenScopes, PTL
<1>4. OpenScopes = Append(scopeStack, currentScope)
  <2>1. /\ OpenScopes \in Seq(Abstract!Table) /\ Len(OpenScopes) = scopeDepth + 1
        /\ \A i \in 1..scopeDepth + 1 : OpenScopes[i] = ScopeAt(i)
    BY OpenScopesSeq
  <2>2. \A i \in 1..scopeDepth + 1 : OpenScopes[i] = Append(scopeStack, currentScope)[i]
    BY <1>1, <1>2, <2>1, StackPush DEF ScopeAt
  <2> QED
    BY <1>1, <1>2, <2>1, <2>2, SeqEqual, StackPush
<1>5. /\ Len(OpenScopes) = scopeDepth + 1
      /\ OpenScopes[Len(OpenScopes)] = currentScope
  BY <1>1, <1>2, <1>4
<1>6. currentScope[find.key] # NULL
  <2>1. find.found = scopeDepth /\ find.found # -1
    BY <1>1, <1>2 DEF IInv, SearchOK
  <2>2. ScopeAt(scopeDepth + 1)[find.key] # NULL
    BY <1>1, <1>2, <2>1 DEF IInv, SearchOK
  <2> QED
    BY <2>2 DEF ScopeAt
<1>7. OpenScopes' = [OpenScopes EXCEPT ![Len(OpenScopes)] = t]
  <2>1. OpenScopes' = Append(scopeStack, t)
    BY <1>1, <1>3 DEF IdleScopes
  <2> HIDE DEF t
  <2> QED
    BY <1>2, <1>4, <2>1, TopExcept
<1>8. OpenScopes' = [OpenScopes EXCEPT ![Len(OpenScopes)][find.key].canBeRedefined = FALSE]
  BY <1>5, <1>7
<1> QED
  BY <1>1, <1>5, <1>6, <1>8 DEF Abstract!Redeclare, Abstract!Innermost

\* A first declaration appears in the innermost scope; any other call of
\* add_var and add_let changes no scope yet.
LEMMA AddRefines ==
    ASSUME IInv, IInv', NEW kind \in {"var", "let"}, NEW n \in Name, NEW ty \in Type,
           NEW i \in BOOLEAN, NEW r \in BOOLEAN, Add(kind, n, ty, i, r)
    PROVE  Abstract!Declare \/ Abstract!Forget
<1> DEFINE e == Abstract!NewEntry(kind, ty, i, r, scopeDepth)
           t == [currentScope EXCEPT ![n] = e]
<1>1. /\ Ready /\ ret' = NULL
      /\ UNCHANGED <<scopeStack, tmpScopeStack, scopeDepth>>
  BY DEF Add, Taken, CollidesWithFunction
<1>2. CASE currentScope' = currentScope
  BY <1>1, <1>2, ForgetRefines
<1>3. CASE currentScope' # currentScope
  <2>1. currentScope[n] = NULL /\ currentScope' = t /\ find' = find
    BY <1>3 DEF Add, Taken, CollidesWithFunction
  <2>2. /\ OpenScopes = Append(scopeStack, currentScope)
        /\ OpenScopes' = Append(scopeStack, t)
        /\ scopeDepth \in Nat /\ Len(scopeStack) = scopeDepth
        /\ scopeStack \in Seq(Abstract!Table)
        /\ currentScope \in Abstract!Table /\ t \in Abstract!Table
    BY <1>1, <2>1, ReadyStep, ReadyScopes DEF IdleScopes
  <2>3. /\ Len(OpenScopes) = scopeDepth + 1 /\ Len(OpenScopes) - 1 = scopeDepth
        /\ OpenScopes[Len(OpenScopes)] = currentScope
    BY <2>2
  <2>4. OpenScopes' = [OpenScopes EXCEPT ![Len(OpenScopes)] = t]
    <3> HIDE DEF t
    <3> QED
      BY <2>2, TopExcept
  <2>5. OpenScopes' = [OpenScopes EXCEPT ![Len(OpenScopes)][n] = e]
    <3> HIDE DEF e
    <3> QED
      BY <2>3, <2>4
  <2>6. e = Abstract!NewEntry(kind, ty, i, r, Abstract!Depth)
    BY <2>3 DEF Abstract!Depth
  <2> HIDE DEF e
  <2> QED
    BY <1>1, <2>1, <2>3, <2>5, <2>6 DEF Abstract!Declare, Abstract!Innermost
<1> QED
  BY <1>2, <1>3

\* Replacing a table below the top of the stack.
LEMMA InnerExcept ==
    ASSUME NEW s \in Seq(Abstract!Table), NEW t \in Abstract!Table,
           NEW u \in Abstract!Table, NEW k \in 1..Len(s)
    PROVE  Append([s EXCEPT ![k] = u], t) = [Append(s, t) EXCEPT ![k] = u]
<1> DEFINE a == Append(s, t)
           b == [a EXCEPT ![k] = u]
           c == [s EXCEPT ![k] = u]
           m == Len(s) + 1
<1>1. /\ m \in Nat /\ Len(a) = m /\ DOMAIN a = 1..m /\ k \in 1..m /\ k # m
      /\ \A j \in 1..m : a[j] \in Abstract!Table
      /\ \A j \in 1..m : a[j] = IF j = m THEN t ELSE s[j]
  BY StackPush
<1>2. /\ c \in Seq(Abstract!Table) /\ Len(c) = Len(s)
      /\ \A j \in 1..Len(s) : c[j] = IF j = k THEN u ELSE s[j]
  OBVIOUS
<1> HIDE DEF a, c
<1>3. b \in [1..m -> Abstract!Table]
  BY <1>1
<1>4. /\ b \in Seq(Abstract!Table) /\ Len(b) = m
      /\ \A j \in 1..m : b[j] = IF j = k THEN u ELSE a[j]
  BY <1>1, <1>3
<1>5. /\ Append(c, t) \in Seq(Abstract!Table) /\ Len(Append(c, t)) = m
      /\ \A j \in 1..m : Append(c, t)[j] = IF j = m THEN t ELSE c[j]
  BY <1>1, <1>2, StackPush
<1>6. Append(c, t) = b
  <2>1. \A j \in 1..m : Append(c, t)[j] = b[j]
    BY <1>1, <1>2, <1>4, <1>5
  <2> HIDE DEF b
  <2> QED
    BY <1>4, <1>5, <2>1, SeqEqual
<1> QED
  BY <1>6 DEF a, c

\* Recording a value changes the declaration the pointer points at.
LEMMA SetInitedRefines ==
    ASSUME IInv, IInv', SetInited
    PROVE  Abstract!SetInited \/ Abstract!Forget
<1> DEFINE e == ScopeAt(ret.scope + 1)[ret.key]
           new == Abstract!Initialised(e, scopeDepth)
           k == ret.scope + 1
<1>1. /\ Ready /\ find' = find /\ ret # NULL /\ ret' = NULL
      /\ ret.scope \in 0..scopeDepth /\ ret.key \in Name
  BY DEF SetInited, IInv, TypeOK, PointerOK, Abstract!Pointer
<1>2. /\ IdleScopes /\ IdleScopes' /\ tmpScopeStack' = tmpScopeStack
      /\ k \in 1..scopeDepth + 1
  <2>1. find'.pc = "idle"
    BY <1>1, IdleFrame DEF Ready
  <2>2. IdleScopes /\ IdleScopes'
    BY <1>1, <2>1, ReadyStep
  <2> QED
    BY <1>1, <2>2 DEF SetInited, tables, IdleScopes
<1>3. OpenScopes[k] = ScopeAt(k) /\ Len(OpenScopes) = scopeDepth + 1
  BY <1>2, OpenScopesSeq
<1>4. new \in Abstract!Entry
  <2>1. ScopeAt(k) \in Abstract!Table
    BY <1>2, ScopeAtType DEF IInv
  <2>2. e # NULL
    BY <1>1, <1>2 DEF IInv, PointerOK
  <2>3. e \in Abstract!Entry
    BY <1>1, <2>1, <2>2 DEF Abstract!Table
  <2> QED
    BY <1>2, <2>3, InitialisedType DEF IdleScopes
<1>5. \/ UNCHANGED tables
      \/ /\ ret.scope = scopeDepth
         /\ currentScope' = [currentScope EXCEPT ![ret.key] = new]
         /\ UNCHANGED <<scopeStack, scopeDepth>>
      \/ /\ ret.scope # scopeDepth
         /\ scopeStack' = [scopeStack EXCEPT ![k][ret.key] = new]
         /\ UNCHANGED <<currentScope, scopeDepth>>
  BY DEF SetInited
<1> DEFINE u == [OpenScopes[k] EXCEPT ![ret.key] = new]
<1>6. CASE UNCHANGED tables
  BY <1>1, <1>6, ForgetRefines DEF tables
<1>7. CASE /\ ret.scope = scopeDepth
           /\ currentScope' = [currentScope EXCEPT ![ret.key] = new]
           /\ UNCHANGED <<scopeStack, scopeDepth>>
  <2> HIDE DEF new
  <2>1. OpenScopes[k] = currentScope /\ k = Len(OpenScopes)
    BY <1>2, <1>3, <1>7 DEF ScopeAt
  <2>2. currentScope' = u /\ u \in Abstract!Table
    BY <1>1, <1>2, <1>4, <1>7, <2>1, TableExcept DEF IdleScopes
  <2> HIDE DEF u
  <2>3. OpenScopes' = Append(scopeStack, u)
    BY <1>2, <1>7, <2>2 DEF IdleScopes
  <2>4. OpenScopes' = [OpenScopes EXCEPT ![k] = u]
    BY <1>2, <2>1, <2>2, <2>3, TopExcept DEF IdleScopes
  <2>5. new = Abstract!Initialised(OpenScopes[k][ret.key], Len(OpenScopes) - 1)
    BY <1>2, <1>3 DEF new, IdleScopes
  <2> QED
    BY <1>1, <2>4, <2>5 DEF u, Abstract!SetInited, Abstract!Depth
<1>8. CASE /\ ret.scope # scopeDepth
           /\ scopeStack' = [scopeStack EXCEPT ![k][ret.key] = new]
           /\ UNCHANGED <<currentScope, scopeDepth>>
  <2> HIDE DEF new
  <2>1. k \in 1..Len(scopeStack) /\ OpenScopes[k] = scopeStack[k]
    BY <1>1, <1>2, <1>3, <1>8 DEF ScopeAt, IdleScopes
  <2>2. u \in Abstract!Table
    BY <1>1, <1>2, <1>4, <2>1, TableExcept DEF IdleScopes
  <2>3. scopeStack' = [scopeStack EXCEPT ![k] = u]
    BY <1>8, <2>1
  <2> HIDE DEF u
  <2>4. OpenScopes' = Append([scopeStack EXCEPT ![k] = u], currentScope)
    BY <1>2, <1>8, <2>3 DEF IdleScopes
  <2>5. OpenScopes' = [OpenScopes EXCEPT ![k] = u]
    <3>1. /\ scopeStack \in Seq(Abstract!Table) /\ currentScope \in Abstract!Table
          /\ OpenScopes = Append(scopeStack, currentScope)
      BY <1>2 DEF IdleScopes
    <3>2. Append([scopeStack EXCEPT ![k] = u], currentScope)
          = [Append(scopeStack, currentScope) EXCEPT ![k] = u]
      BY <2>1, <2>2, <3>1, InnerExcept
    <3> QED
      BY ONLY <2>4, <3>1, <3>2
  <2>6. new = Abstract!Initialised(OpenScopes[k][ret.key], Len(OpenScopes) - 1)
    BY <1>2, <1>3 DEF new, IdleScopes
  <2> QED
    BY <1>1, <2>5, <2>6 DEF u, Abstract!SetInited, Abstract!Depth
<1> QED
  BY <1>5, <1>6, <1>7, <1>8

\* The second pass starts again from an empty global scope.
LEMMA SecondPassRefines ==
    ASSUME IInv, IInv', SecondPass
    PROVE  Abstract!Restart
<1>1. Ready /\ find' = find
  BY DEF SecondPass
<1>2. OpenScopes' = Append(scopeStack', currentScope')
  BY <1>1, ReadyStep, IdleFrame DEF Ready, IdleScopes
<1> QED
  BY <1>2 DEF SecondPass, Abstract!Restart, Abstract!EmptyTable

\* Every step of the table is a step of the stack of scopes or a stutter.
LEMMA StepRefines == IInv /\ IInv' /\ [Next]_vars => [Abstract!Next]_(Abstract!vars)
<1> SUFFICES ASSUME IInv, IInv', [Next]_vars PROVE [Abstract!Next]_(Abstract!vars)
  OBVIOUS
<1> USE DEF Abstract!Next
<1>1. CASE Descend \/ TurnBack \/ Ascend
  BY <1>1, WalkRefines
<1>2. CASE ReturnGet
  BY <1>2, ReturnGetRefines
<1>3. CASE ReturnRedeclare
  BY <1>3, RedeclareRefines
<1>4. CASE increase_scope \/ decrease_scope
  BY <1>4, DepthRefines
<1>5. CASE \E n \in Name, params \in {"paramless", "params", "sameNames"} : add_func(n, params)
  BY <1>5, ForgetRefines DEF add_func, tables
<1>6. CASE \E n \in Name, t \in Type, i \in BOOLEAN : add_var(n, t, i)
  BY <1>6, AddRefines DEF add_var
<1>7. CASE \E n \in Name, t \in Type, i, r \in BOOLEAN : add_let(n, t, i, r)
  BY <1>7, AddRefines DEF add_let
<1>8. CASE \E n \in Name : get(n) \/ get_func(n)
  BY <1>8, ForgetRefines DEF get, get_func, tables
<1>9. CASE SetInited
  BY <1>9, SetInitedRefines
<1>10. CASE SecondPass
  BY <1>10, SecondPassRefines
<1>11. CASE UNCHANGED vars
  BY <1>11 DEF vars, Abstract!vars, OpenScopes, ScopeAt
<1> QED
  BY <1>1, <1>2, <1>3, <1>4, <1>5, <1>6, <1>7, <1>8, <1>9, <1>10, <1>11
     DEF Next, Walk, Call

\* The two stacks, the walk and the pointers implement a stack of scopes with
\* an atomic look-up that answers the innermost declaration.
THEOREM Refinement == Spec => ImplementsScopes
<1>1. Init => Abstract!Init
  <2> SUFFICES ASSUME Init PROVE Abstract!Init
    OBVIOUS
  <2>1. BetweenLookups /\ IInv
    BY InitInv, IdleFrame DEF Init, BetweenLookups
  <2>2. OpenScopes = Append(scopeStack, currentScope)
    BY <2>1, IdleOpenScopes DEF IdleScopes
  <2> QED
    BY <2>2 DEF Init, Abstract!Init, Abstract!EmptyTable
<1> QED
  BY <1>1, InitInv, NextInv, StepRefines, PTL DEF Spec, ImplementsScopes, Abstract!Spec

-----------------------------------------------------------------------------
(***************************************************************************)
(* What the declarations record: the scope field, the depth a value was    *)
(* given at, and the one redefinition of an "if let" constant. These       *)
(* theorems rest on one lemma, EntrySteps: what a step of the table may do *)
(* to one declaration.                                                     *)
(***************************************************************************)

\* What the table says of name n in the open scope i.
EntryAt(i, n) == ScopeAt(i)[n]

Kept(i, n) == i <= scopeDepth + 1 /\ EntryAt(i, n)' = EntryAt(i, n)

\* Only a scope that was just opened, and the global scope of the second pass,
\* lose what they said of a name: they say nothing.
Cleared(i, n) ==
    /\ EntryAt(i, n)' = NULL
    /\ \/ i = scopeDepth + 2
       \/ collect_funcs /\ ~collect_funcs'

\* add_var and add_let write into the innermost scope only.
Declared(i, n) ==
    /\ i = scopeDepth + 1 /\ EntryAt(i, n) = NULL /\ functions[n] # "paramless"
    /\ \E k \in {"var", "let"}, t \in Type, inited, r \in BOOLEAN :
          EntryAt(i, n)' = Abstract!NewEntry(k, t, inited, r, scopeDepth)

Redeclared(i, n) ==
    /\ i <= scopeDepth + 1 /\ EntryAt(i, n) # NULL
    /\ EntryAt(i, n)' = [EntryAt(i, n) EXCEPT !.canBeRedefined = FALSE]

Inited(i, n) ==
    /\ i <= scopeDepth + 1 /\ EntryAt(i, n) # NULL
    /\ EntryAt(i, n)' = Abstract!Initialised(EntryAt(i, n), scopeDepth)

EntryStep(i, n) ==
    Kept(i, n) \/ Cleared(i, n) \/ Declared(i, n) \/ Redeclared(i, n) \/ Inited(i, n)

\* The second pass knows the functions the first one has collected.
FunctionsStep ==
    /\ ~collect_funcs => ~collect_funcs' /\ functions' = functions
    /\ collect_funcs /\ ~collect_funcs' =>
          \A i \in 1..scopeDepth' + 1, n \in Name : EntryAt(i, n)' = NULL
-----------------------------------------------------------------------------
\* A step that leaves a scope alone keeps all its declarations.
LEMMA SameScopeKept ==
    ASSUME NEW i \in 1..scopeDepth + 1, NEW n \in Name, ScopeAt(i)' = ScopeAt(i)
    PROVE  EntryStep(i, n)
BY DEF EntryStep, Kept, EntryAt

\* The walk, and the look-up that ends it, change no declaration.
LEMMA WalkEntries ==
    ASSUME IInv, Descend \/ TurnBack \/ Ascend \/ ReturnGet,
           NEW i \in 1..scopeDepth' + 1, NEW n \in Name
    PROVE  EntryStep(i, n)
<1>1. i \in 1..scopeDepth + 1 /\ ScopeAt(i)' = ScopeAt(i)
  <2>1. CASE Descend
    BY <2>1, DescendScopes
  <2>2. CASE Ascend
    BY <2>2, AscendScopes
  <2>3. CASE TurnBack \/ ReturnGet
    BY <2>3 DEF TurnBack, ReturnGet, tables, ScopeAt
  <2> QED
    BY <2>1, <2>2, <2>3
<1> QED
  BY <1>1, SameScopeKept

\* A second declaration changes one field of the first.
LEMMA RedeclareEntries ==
    ASSUME IInv, ReturnRedeclare, NEW i \in 1..scopeDepth' + 1, NEW n \in Name
    PROVE  EntryStep(i, n)
<1> DEFINE new == [currentScope[find.key] EXCEPT !.canBeRedefined = FALSE]
<1>1. /\ find.key \in Name /\ find.op = "redeclare" /\ find.pc = "up"
      /\ currentScope' = [currentScope EXCEPT ![find.key] = new]
      /\ UNCHANGED <<scopeStack, tmpScopeStack, scopeDepth>>
  BY DEF IInv, FrameOK, ReturnRedeclare, Walked
<1>2. scopeDepth \in Nat /\ currentScope \in Abstract!Table
  BY ConstantsAssumption DEF IInv, TypeOK
<1>3. CASE i # scopeDepth + 1 \/ n # find.key
  <2>1. EntryAt(i, n)' = EntryAt(i, n)
    BY <1>1, <1>2, <1>3 DEF EntryAt, ScopeAt, Abstract!Table
  <2> QED
    BY <1>1, <2>1 DEF EntryStep, Kept
<1>4. CASE i = scopeDepth + 1 /\ n = find.key
  <2>1. EntryAt(i, n) = currentScope[n] /\ EntryAt(i, n)' = new
    BY <1>1, <1>2, <1>4 DEF EntryAt, ScopeAt, Abstract!Table
  <2>2. currentScope[n] # NULL
    <3>1. find.found = scopeDepth /\ find.found # -1
      BY <1>1, <1>2 DEF IInv, SearchOK
    <3>2. ScopeAt(scopeDepth + 1)[find.key] # NULL
      BY <1>1, <1>2, <3>1 DEF IInv, SearchOK
    <3> QED
      BY <1>4, <3>2 DEF ScopeAt
  <2>3. EntryAt(i, n)' = [EntryAt(i, n) EXCEPT !.canBeRedefined = FALSE]
    BY <1>4, <2>1
  <2>4. i <= scopeDepth + 1 /\ EntryAt(i, n) # NULL
    BY <1>2, <1>4, <2>1, <2>2
  <2> HIDE DEF new
  <2> QED
    BY <2>3, <2>4 DEF EntryStep, Redeclared
<1> QED
  BY <1>3, <1>4

\* Opening a scope adds an empty one, closing one takes the innermost away.
LEMMA DepthEntries ==
    ASSUME IInv, increase_scope \/ decrease_scope,
           NEW i \in 1..scopeDepth' + 1, NEW n \in Name
    PROVE  EntryStep(i, n)
<1>1. /\ Len(scopeStack) = scopeDepth /\ scopeDepth \in Nat
      /\ scopeStack \in Seq(Abstract!Table) /\ currentScope \in Abstract!Table
  BY ReadyScopes DEF increase_scope, decrease_scope, IInv, TypeOK
<1>2. CASE increase_scope
  <2>1. /\ scopeStack' = Append(scopeStack, currentScope)
        /\ currentScope' = Abstract!EmptyTable /\ scopeDepth' = scopeDepth + 1
    BY <1>2 DEF increase_scope
  <2>2. CASE i = scopeDepth' + 1
    <3>1. i = scopeDepth + 2
      BY <1>1, <2>1, <2>2
    <3> QED
      BY <2>1, <2>2, <3>1 DEF EntryStep, Cleared, EntryAt, ScopeAt, Abstract!EmptyTable
  <2>3. CASE i # scopeDepth' + 1
    <3>1. i \in 1..scopeDepth + 1
      BY <1>1, <2>1, <2>3
    <3>2. /\ Len(scopeStack') = scopeDepth + 1
          /\ \A j \in 1..scopeDepth : scopeStack'[j] = scopeStack[j]
          /\ scopeStack'[scopeDepth + 1] = currentScope
      BY <1>1, <2>1, StackPush
    <3>3. ScopeAt(i)' = ScopeAt(i)
      BY <1>1, <2>1, <2>3, <3>1, <3>2 DEF ScopeAt
    <3> QED
      BY <3>1, <3>3, SameScopeKept
  <2> QED
    BY <2>2, <2>3
<1>3. CASE decrease_scope
  <2>1. scopeDepth > 0 /\ scopeStack # <<>> /\ scopeDepth' = scopeDepth - 1
    BY <1>1, <1>3, EmptySeq DEF decrease_scope
  <2>2. /\ scopeStack' = StackPop(scopeStack)
        /\ currentScope' = scopeStack[scopeDepth]
    BY <1>1, <1>3, <2>1 DEF decrease_scope, StackTop
  <2>3. /\ Len(scopeStack') = scopeDepth - 1
        /\ \A j \in 1..scopeDepth - 1 : scopeStack'[j] = scopeStack[j]
    BY <1>1, <2>1, <2>2, StackPopLemma
  <2>4. i \in 1..scopeDepth
    BY <1>1, <2>1
  <2>5. ScopeAt(i)' = ScopeAt(i)
    BY <1>1, <2>1, <2>2, <2>3, <2>4 DEF ScopeAt
  <2> QED
    BY <1>1, <2>4, <2>5, SameScopeKept
<1> QED
  BY <1>2, <1>3

\* add_var and add_let touch at most the name they declare, and only where
\* the innermost scope has nothing of that name and no function without
\* parameters does.
LEMMA AddEntries ==
    ASSUME IInv, NEW kind \in {"var", "let"}, NEW m \in Name, NEW t \in Type,
           NEW inited \in BOOLEAN, NEW r \in BOOLEAN, Add(kind, m, t, inited, r),
           NEW i \in 1..scopeDepth' + 1, NEW n \in Name
    PROVE  EntryStep(i, n)
<1>1. /\ UNCHANGED <<scopeStack, tmpScopeStack, scopeDepth>>
      /\ i \in 1..scopeDepth + 1 /\ currentScope \in Abstract!Table
      /\ scopeDepth \in Nat
  BY ConstantsAssumption DEF Add, Taken, CollidesWithFunction, IInv, TypeOK
<1>2. CASE currentScope' = currentScope
  BY <1>1, <1>2, SameScopeKept DEF ScopeAt
<1>3. CASE currentScope' # currentScope
  <2> DEFINE e == Abstract!NewEntry(kind, t, inited, r, scopeDepth)
  <2>1. /\ functions[m] # "paramless" /\ currentScope[m] = NULL
        /\ currentScope' = [currentScope EXCEPT ![m] = e]
    BY <1>3 DEF Add, Taken, CollidesWithFunction
  <2> HIDE DEF e
  <2>2. CASE i # scopeDepth + 1 \/ n # m
    <3>1. EntryAt(i, n)' = EntryAt(i, n)
      BY <1>1, <2>1, <2>2 DEF EntryAt, ScopeAt, Abstract!Table
    <3> QED
      BY <1>1, <3>1 DEF EntryStep, Kept
  <2>3. CASE i = scopeDepth + 1 /\ n = m
    <3>1. EntryAt(i, n) = NULL /\ EntryAt(i, n)' = e
      BY <1>1, <2>1, <2>3 DEF EntryAt, ScopeAt, Abstract!Table
    <3> QED
      BY <2>1, <2>3, <3>1 DEF EntryStep, Declared, e
  <2> QED
    BY <2>2, <2>3
<1> QED
  BY <1>2, <1>3

\* An assignment changes the declaration its look-up has found, no other.
LEMMA SetInitedEntries ==
    ASSUME IInv, SetInited, NEW i \in 1..scopeDepth' + 1, NEW n \in Name
    PROVE  EntryStep(i, n)
<1>1. /\ Len(scopeStack) = scopeDepth /\ scopeDepth \in Nat
      /\ scopeStack \in Seq(Abstract!Table) /\ currentScope \in Abstract!Table
      /\ ret # NULL /\ ret.scope \in 0..scopeDepth /\ ret.key \in Name
  BY ReadyScopes DEF SetInited, IInv, TypeOK, PointerOK, Abstract!Pointer
<1> DEFINE k == ret.scope + 1
           new == Abstract!Initialised(EntryAt(k, ret.key), scopeDepth)
<1>2. k \in 1..scopeDepth + 1 /\ EntryAt(k, ret.key) # NULL
  BY <1>1 DEF IInv, PointerOK, EntryAt
<1>3. /\ UNCHANGED <<tmpScopeStack, scopeDepth>>
      /\ \/ UNCHANGED <<currentScope, scopeStack>>
         \/ /\ k = scopeDepth + 1 /\ scopeStack' = scopeStack
            /\ currentScope' = [currentScope EXCEPT ![ret.key] = new]
         \/ /\ k # scopeDepth + 1 /\ currentScope' = currentScope
            /\ scopeStack' = [scopeStack EXCEPT ![k][ret.key] = new]
  BY <1>1 DEF SetInited, tables, EntryAt
<1>4. i \in 1..scopeDepth + 1
  BY <1>3
<1> HIDE DEF new
<1>5. CASE UNCHANGED <<currentScope, scopeStack>>
  BY <1>3, <1>4, <1>5, SameScopeKept DEF ScopeAt
<1>6. CASE /\ k = scopeDepth + 1 /\ scopeStack' = scopeStack
           /\ currentScope' = [currentScope EXCEPT ![ret.key] = new]
  <2>1. i # k \/ n # ret.key => EntryAt(i, n)' = EntryAt(i, n)
    BY <1>1, <1>3, <1>6 DEF EntryAt, ScopeAt, Abstract!Table
  <2>2. i = k /\ n = ret.key => EntryAt(i, n)' = new
    BY <1>1, <1>3, <1>6 DEF EntryAt, ScopeAt, Abstract!Table
  <2> QED
    BY <1>2, <1>4, <2>1, <2>2 DEF EntryStep, Kept, Inited, new
<1>7. CASE /\ k # scopeDepth + 1 /\ currentScope' = currentScope
           /\ scopeStack' = [scopeStack EXCEPT ![k][ret.key] = new]
  <2>1. k \in 1..Len(scopeStack) /\ scopeStack[k] \in Abstract!Table
    BY <1>1, <1>2, <1>7
  <2>2. /\ Len(scopeStack') = Len(scopeStack)
        /\ \A j \in 1..Len(scopeStack) : scopeStack'[j] =
              IF j = k THEN [scopeStack[k] EXCEPT ![ret.key] = new] ELSE scopeStack[j]
    BY <1>1, <1>7, <2>1
  <2>3. i # k => ScopeAt(i)' = ScopeAt(i)
    BY <1>1, <1>3, <1>4, <1>7, <2>2 DEF ScopeAt
  <2>4. i = k => /\ ScopeAt(i) = scopeStack[k]
                 /\ ScopeAt(i)' = [scopeStack[k] EXCEPT ![ret.key] = new]
    BY <1>1, <1>3, <1>7, <2>1, <2>2 DEF ScopeAt
  <2>5. CASE i # k
    BY <1>4, <2>3, <2>5, SameScopeKept
  <2>6. CASE i = k /\ n # ret.key
    <3>1. EntryAt(i, n)' = EntryAt(i, n)
      BY <2>1, <2>4, <2>6 DEF EntryAt, Abstract!Table
    <3> QED
      BY <1>4, <3>1 DEF EntryStep, Kept
  <2>7. CASE i = k /\ n = ret.key
    <3>1. EntryAt(i, n)' = new
      BY <1>1, <2>1, <2>4, <2>7 DEF EntryAt, Abstract!Table
    <3> QED
      BY <1>2, <1>4, <2>7, <3>1 DEF EntryStep, Inited, new
  <2> QED
    BY <2>5, <2>6, <2>7
<1> QED
  BY <1>3, <1>5, <1>6, <1>7

\* The second pass starts with the global scope alone, and it is empty.
LEMMA SecondPassEntries ==
    ASSUME IInv, SecondPass, NEW i \in 1..scopeDepth' + 1, NEW n \in Name
    PROVE  EntryAt(i, n)' = NULL /\ EntryStep(i, n)
<1>1. /\ i = 1 /\ scopeDepth' = 0 /\ currentScope' = Abstract!EmptyTable
      /\ collect_funcs /\ ~collect_funcs'
  BY DEF SecondPass
<1>2. EntryAt(i, n)' = NULL
  BY <1>1 DEF EntryAt, ScopeAt, Abstract!EmptyTable
<1> QED
  BY <1>1, <1>2 DEF EntryStep, Cleared

\* What a step of the table may do to a declaration.
LEMMA EntrySteps ==
    ASSUME IInv, [Next]_vars, NEW i \in 1..scopeDepth' + 1, NEW n \in Name
    PROVE  EntryStep(i, n)
<1>1. CASE Descend \/ TurnBack \/ Ascend \/ ReturnGet
  BY <1>1, WalkEntries
<1>2. CASE ReturnRedeclare
  BY <1>2, RedeclareEntries
<1>3. CASE increase_scope \/ decrease_scope
  BY <1>3, DepthEntries
<1>4. CASE \/ \E m \in Name, params \in {"paramless", "params", "sameNames"} :
                 add_func(m, params)
           \/ \E m \in Name : get(m) \/ get_func(m)
           \/ UNCHANGED vars
  <2>1. UNCHANGED <<currentScope, scopeStack, tmpScopeStack, scopeDepth>>
    BY <1>4 DEF add_func, get, get_func, tables, vars
  <2> QED
    BY <2>1, SameScopeKept DEF ScopeAt
<1>5. CASE \E m \in Name, t \in Type, inited \in BOOLEAN : add_var(m, t, inited)
  BY <1>5, AddEntries DEF add_var
<1>6. CASE \E m \in Name, t \in Type, inited, r \in BOOLEAN : add_let(m, t, inited, r)
  BY <1>6, AddEntries DEF add_let
<1>7. CASE SetInited
  BY <1>7, SetInitedEntries
<1>8. CASE SecondPass
  BY <1>8, SecondPassEntries
<1> QED
  BY <1>1, <1>2, <1>3, <1>4, <1>5, <1>6, <1>7, <1>8 DEF Next, Walk, Call

\* Functions are collected by the first pass only, and the pass that follows
\* it starts with no declaration.
LEMMA FunctionSteps ==
    ASSUME IInv, [Next]_vars
    PROVE  FunctionsStep
<1>1. CASE SecondPass
  <2>1. \A i \in 1..scopeDepth' + 1, n \in Name : EntryAt(i, n)' = NULL
    BY <1>1, SecondPassEntries
  <2> QED
    BY <1>1, <2>1 DEF SecondPass, FunctionsStep
<1>2. CASE ~SecondPass
  <2>1. collect_funcs' = collect_funcs
    BY <1>2 DEF Next, Walk, Call, Descend, TurnBack, Ascend, ReturnGet, ReturnRedeclare,
                increase_scope, decrease_scope, add_func, add_var, add_let, Add, get,
                get_func, SetInited, vars
  <2>2. ~collect_funcs => functions' = functions
    BY <1>2 DEF Next, Walk, Call, Descend, TurnBack, Ascend, ReturnGet, ReturnRedeclare,
                increase_scope, decrease_scope, add_func, add_var, add_let, Add, get,
                get_func, SetInited, vars
  <2> QED
    BY <2>1, <2>2 DEF FunctionsStep
<1> QED
  BY <1>1, <1>2
-----------------------------------------------------------------------------
(* The theorems *)

DInv == IInv /\ ScopeFieldIsDepth /\ InitDepthIsVisible /\ NoParamlessFunctionShadowed

\* A declaration of an open scope has the shape of one, before a step and
\* after it.
LEMMA EntryType ==
    ASSUME IInv, NEW i \in 1..scopeDepth + 1, NEW n \in Name, EntryAt(i, n) # NULL
    PROVE  EntryAt(i, n) \in Abstract!Entry
<1>1. ScopeAt(i) \in Abstract!Table
  BY ScopeAtType DEF IInv
<1> QED
  BY <1>1 DEF EntryAt, Abstract!Table

\* No declaration is in force before the first pass has read one.
LEMMA InitDInv == Init => DInv
<1> SUFFICES ASSUME Init PROVE DInv
  OBVIOUS
<1>1. \A i \in 1..scopeDepth + 1, n \in Name : ScopeAt(i)[n] = NULL
  <2> SUFFICES ASSUME NEW i \in 1..scopeDepth + 1, NEW n \in Name
               PROVE  ScopeAt(i)[n] = NULL
    OBVIOUS
  <2>1. i = scopeDepth + 1 /\ currentScope = Abstract!EmptyTable
    BY DEF Init
  <2> QED
    BY <2>1 DEF ScopeAt, Abstract!EmptyTable
<1> QED
  BY <1>1, InitInv DEF DInv, ScopeFieldIsDepth, InitDepthIsVisible,
                       NoParamlessFunctionShadowed

\* What a declaration of scope i records, where it is one.
Recorded(i, e) ==
    /\ e.scope = i - 1
    /\ IF e.isInited THEN e.minInitScope \in i - 1 .. MaxDepth
       ELSE e.minInitScope = Abstract!INT_MAX

\* Recording a value changes two fields of a declaration.
LEMMA InitialisedFields ==
    ASSUME NEW e \in Abstract!Entry, NEW d \in Int
    PROVE  /\ Abstract!Initialised(e, d).isInited
           /\ Abstract!Initialised(e, d).scope = e.scope
           /\ Abstract!Initialised(e, d).canBeRedefined = e.canBeRedefined
           /\ Abstract!Initialised(e, d).minInitScope =
                  IF e.minInitScope < d THEN e.minInitScope ELSE d
BY SMT DEF Abstract!Initialised, Abstract!Entry

\* The two invariants on what is recorded, in one formula.
LEMMA RecordedEquiv ==
    ScopeFieldIsDepth /\ InitDepthIsVisible <=>
        \A i \in 1..scopeDepth + 1, n \in Name :
            EntryAt(i, n) # NULL => Recorded(i, EntryAt(i, n))
BY DEF ScopeFieldIsDepth, InitDepthIsVisible, Recorded, EntryAt

\* INT_MAX bounds the depths.
LEMMA IntMaxType == Abstract!INT_MAX \in Nat
BY SMT DEF Abstract!INT_MAX

\* A value given in an open scope, and so at no smaller depth than the
\* declaration's own, never spoils the depth recorded before.
LEMMA RecordedKept ==
    ASSUME NEW i \in 1..MaxDepth + 1, NEW d \in 0..MaxDepth, i - 1 <= d,
           NEW e \in Abstract!Entry, Recorded(i, e), NEW f,
           \/ f = e
           \/ f = [e EXCEPT !.canBeRedefined = FALSE]
           \/ f = Abstract!Initialised(e, d)
    PROVE  Recorded(i, f)
<1>1. MaxDepth \in 0..Abstract!INT_MAX /\ Abstract!INT_MAX \in Nat
  BY ConstantsAssumption, IntMaxType
<1>2. CASE f = e
  BY <1>2
<1>3. CASE f = [e EXCEPT !.canBeRedefined = FALSE]
  BY <1>3 DEF Recorded, Abstract!Entry
<1>4. CASE f = Abstract!Initialised(e, d)
  <2>1. /\ f.isInited /\ f.scope = e.scope
        /\ f.minInitScope = IF e.minInitScope < d THEN e.minInitScope ELSE d
    BY <1>1, <1>4, InitialisedFields
  <2>2. e.isInited \in BOOLEAN /\ e.minInitScope \in Int
    BY DEF Abstract!Entry
  <2>3. CASE e.minInitScope < d
    <3>1. e.isInited
      BY <1>1, <2>2, <2>3 DEF Recorded
    <3> QED
      BY <2>1, <2>3, <3>1 DEF Recorded
  <2>4. CASE ~(e.minInitScope < d)
    <3>1. d \in i - 1 .. MaxDepth
      BY <1>1
    <3> QED
      BY <2>1, <2>4, <3>1 DEF Recorded
  <2> QED
    BY <2>3, <2>4
<1> QED
  BY <1>2, <1>3, <1>4

\* Every way a step may change a declaration keeps its record right.
LEMMA RecordedStep ==
    ASSUME DInv, IInv', NEW i \in 1..scopeDepth' + 1, NEW n \in Name,
           EntryStep(i, n), EntryAt(i, n)' # NULL
    PROVE  Recorded(i, EntryAt(i, n)')
<1>1. /\ scopeDepth \in 0..MaxDepth /\ scopeDepth' \in 0..MaxDepth
      /\ MaxDepth \in 0..Abstract!INT_MAX
  BY ConstantsAssumption DEF DInv, IInv, TypeOK
<1>2. CASE i <= scopeDepth + 1 /\ EntryAt(i, n) # NULL
  <2>1. i \in 1..scopeDepth + 1 /\ i \in 1..MaxDepth + 1 /\ i - 1 <= scopeDepth
    BY <1>1, <1>2
  <2>2. EntryAt(i, n) \in Abstract!Entry /\ Recorded(i, EntryAt(i, n))
    <3>1. ScopeFieldIsDepth /\ InitDepthIsVisible /\ IInv
      BY DEF DInv
    <3> QED
      BY <1>2, <2>1, <3>1, RecordedEquiv, EntryType
  <2>3. \/ EntryAt(i, n)' = EntryAt(i, n)
        \/ EntryAt(i, n)' = [EntryAt(i, n) EXCEPT !.canBeRedefined = FALSE]
        \/ EntryAt(i, n)' = Abstract!Initialised(EntryAt(i, n), scopeDepth)
    BY <1>2, <2>1 DEF EntryStep, Kept, Cleared, Declared, Redeclared, Inited
  <2> QED
    BY <1>1, <2>1, <2>2, <2>3, RecordedKept
<1>3. CASE ~(i <= scopeDepth + 1 /\ EntryAt(i, n) # NULL)
  <2>1. Declared(i, n)
    BY <1>3 DEF EntryStep, Kept, Cleared, Redeclared, Inited
  <2>2. PICK k \in {"var", "let"}, t \in Type, inited \in BOOLEAN, r \in BOOLEAN :
            EntryAt(i, n)' = Abstract!NewEntry(k, t, inited, r, scopeDepth)
    BY <2>1 DEF Declared
  <2>3. i = scopeDepth + 1 /\ scopeDepth = i - 1
    BY <1>1, <2>1 DEF Declared
  <2> QED
    BY <1>1, <2>2, <2>3 DEF Recorded, Abstract!NewEntry
<1> QED
  BY <1>2, <1>3

\* No step declares the name of a function without parameters in the second
\* pass, and none makes the name of a declaration such a function.
LEMMA ShadowStep ==
    ASSUME DInv, IInv', [Next]_vars
    PROVE  NoParamlessFunctionShadowed'
<1> SUFFICES ASSUME ~collect_funcs', NEW i \in 1..scopeDepth' + 1, NEW n \in Name,
                    EntryAt(i, n)' # NULL
             PROVE  functions'[n] # "paramless"
  BY DEF NoParamlessFunctionShadowed, EntryAt
<1>1. IInv /\ FunctionsStep
  BY FunctionSteps DEF DInv
<1>2. ~collect_funcs /\ functions' = functions
  BY <1>1 DEF FunctionsStep
<1>3. EntryStep(i, n)
  BY <1>1, EntrySteps
<1>4. CASE Declared(i, n)
  BY <1>2, <1>4 DEF Declared
<1>5. CASE ~Declared(i, n)
  <2>1. i <= scopeDepth + 1 /\ EntryAt(i, n) # NULL
    BY <1>2, <1>3, <1>5 DEF EntryStep, Kept, Cleared, Redeclared, Inited
  <2>2. scopeDepth \in Nat /\ scopeDepth' \in Nat
    BY <1>1, ConstantsAssumption DEF IInv, TypeOK
  <2>3. i \in 1..scopeDepth + 1
    BY <2>1, <2>2
  <2>4. functions[n] # "paramless"
    BY <1>2, <2>1, <2>3 DEF DInv, NoParamlessFunctionShadowed, EntryAt
  <2> QED
    BY <1>2, <2>4
<1> QED
  BY <1>4, <1>5

\* Every step keeps what the declarations record.
LEMMA NextDInv == DInv /\ [Next]_vars => DInv'
<1> SUFFICES ASSUME DInv, [Next]_vars PROVE DInv'
  OBVIOUS
<1>1. IInv /\ IInv'
  BY NextInv DEF DInv
<1>2. \A i \in 1..scopeDepth' + 1, n \in Name :
          EntryAt(i, n)' # NULL => Recorded(i, EntryAt(i, n)')
  BY <1>1, EntrySteps, RecordedStep
<1>3. (ScopeFieldIsDepth /\ InitDepthIsVisible)'
  BY <1>2 DEF ScopeFieldIsDepth, InitDepthIsVisible, Recorded, EntryAt
<1> QED
  BY <1>1, <1>3, ShadowStep DEF DInv

\* The generated names of two visible variables never collide: a declaration
\* carries the depth of the scope it is found in.
THEOREM ScopeFieldIsDepthCorrect == Spec => []ScopeFieldIsDepth
<1>1. DInv => ScopeFieldIsDepth
  BY DEF DInv
<1> QED
  BY <1>1, InitDInv, NextDInv, PTL DEF Spec

\* The depth at which a declaration got its first value lies between its
\* scope and the deepest scope there is.
THEOREM InitDepthIsVisibleCorrect == Spec => []InitDepthIsVisible
<1>1. DInv => InitDepthIsVisible
  BY DEF DInv
<1> QED
  BY <1>1, InitDInv, NextDInv, PTL DEF Spec

\* The second pass never hides a function without parameters.
THEOREM NoParamlessFunctionShadowedCorrect == Spec => []NoParamlessFunctionShadowed
<1>1. DInv => NoParamlessFunctionShadowed
  BY DEF DInv
<1> QED
  BY <1>1, InitDInv, NextDInv, PTL DEF Spec

\* Neither a further declaration nor a value makes a declaration redefinable.
LEMMA RedefinitionKept ==
    ASSUME NEW e \in Abstract!Entry, ~e.canBeRedefined, NEW d \in Int, NEW f,
           \/ f = e
           \/ f = [e EXCEPT !.canBeRedefined = FALSE]
           \/ f = Abstract!Initialised(e, d)
    PROVE  f # NULL /\ ~f.canBeRedefined
<1>1. f \in Abstract!Entry
  BY InitialisedType DEF Abstract!Entry
<1>2. CASE f = [e EXCEPT !.canBeRedefined = FALSE]
  BY <1>1, <1>2, ConstantsAssumption DEF Abstract!Entry
<1>3. CASE f # [e EXCEPT !.canBeRedefined = FALSE]
  BY <1>1, <1>3, InitialisedFields, ConstantsAssumption
<1> QED
  BY <1>2, <1>3

\* A scope below the new depth is still open.
LEMMA ScopeStaysOpen ==
    ASSUME NEW d \in Nat, NEW e \in Nat, NEW i \in 1..d + 1, e >= i - 1
    PROVE  i \in 1..e + 1
OBVIOUS

\* A declaration that may not be redefined stays, and stays so, for as long
\* as its scope is open.
LEMMA RedefinitionStep ==
    ASSUME IInv, [Next]_vars, NEW i \in 1..scopeDepth + 1, NEW n \in Name,
           scopeDepth' >= i - 1, collect_funcs' = collect_funcs,
           EntryAt(i, n) # NULL, ~EntryAt(i, n).canBeRedefined
    PROVE  EntryAt(i, n)' # NULL /\ ~EntryAt(i, n)'.canBeRedefined
<1>1. scopeDepth \in Nat /\ scopeDepth' \in Nat
  <2>1. IInv'
    BY NextInv
  <2> QED
    BY <2>1, ConstantsAssumption DEF IInv, TypeOK
<1>2. i \in 1..scopeDepth' + 1
  <2>1. i \in 1..scopeDepth + 1
    OBVIOUS
  <2> QED
    BY <1>1, <2>1, ScopeStaysOpen
<1>3. EntryStep(i, n)
  BY <1>2, EntrySteps
<1>4. ~Cleared(i, n) /\ ~Declared(i, n)
  BY <1>1 DEF Cleared, Declared
<1>5. \/ EntryAt(i, n)' = EntryAt(i, n)
      \/ EntryAt(i, n)' = [EntryAt(i, n) EXCEPT !.canBeRedefined = FALSE]
      \/ EntryAt(i, n)' = Abstract!Initialised(EntryAt(i, n), scopeDepth)
  BY <1>3, <1>4 DEF EntryStep, Kept, Redeclared, Inited
<1>6. EntryAt(i, n) \in Abstract!Entry
  BY EntryType
<1> QED
  BY <1>1, <1>5, <1>6, RedefinitionKept

\* An "if let" constant is declared again in its scope at most once.
THEOREM RedefinitionUsedOnceCorrect == Spec => RedefinitionUsedOnce
<1>1. IInv /\ [Next]_vars =>
          [\A i \in 1..scopeDepth + 1, n \in Name :
               /\ scopeDepth' >= i - 1
               /\ collect_funcs' = collect_funcs
               /\ ScopeAt(i)[n] # NULL
               /\ ~ScopeAt(i)[n].canBeRedefined
               => /\ ScopeAt(i)'[n] # NULL
                  /\ ~ScopeAt(i)'[n].canBeRedefined]_vars
  BY RedefinitionStep DEF EntryAt
<1> QED
  BY <1>1, InitInv, NextInv, PTL DEF Spec, RedefinitionUsedOnce
=============================================================================
