---------------------------- MODULE ParserProofs ----------------------------
(***************************************************************************)
(* Theorems about the parser, for programs of any length over any vocabu-  *)
(* lary.  What the functions on the call stack have opened and are yet to  *)
(* close is what the globals, the label stacks and the flags say.          *)
(***************************************************************************)
EXTENDS CallStack

\* The cursor and lookahead stay in the array, or one past its eof.
CursorOK(toks, cur, look, stk) ==
    /\ \E v \in Vocabulary : toks \in Programs(v)
    /\ cur \in 0..(Len(toks) + 1) /\ look \in 0..(Len(toks) + 1)
    /\ Past(toks, cur) \/ cur <= Len(toks)
    /\ stk # <<>> => 1 <= look /\ look <= cur /\ stk[Len(stk)].at <= look

\* Where the cursor is when the function on top is at its next statement.
TopOK(toks, cur, look, top) ==
    top.todo # <<>> =>
        LET op == Head(top.todo).op
        IN  /\ top.fn = "CALL_PARAM" /\ op = "match" => look = top.at
            /\ op \in {"match_colon_or_back", "call_params", "call_end"} => top.at < look
            /\ op = "next_token" /\ Len(top.todo) = 2 => top.at < cur
            /\ op = "operand" =>
                  top.at <= top.local /\ (Past(toks, top.local) \/ top.local < cur)
            /\ op = "after_operand" =>
                  top.at < top.local /\ (Past(toks, top.local) \/ top.local < cur)

Flags ==
    /\ nl_flag \in BOOLEAN /\ ignore_right_bracket \in BOOLEAN /\ collect_funcs \in BOOLEAN
    /\ inside_func \in BOOLEAN /\ has_return \in BOOLEAN /\ returnsVoid \in BOOLEAN
    /\ exit \in {"none", "success", "syntax", "semantic", "undefined"}

NoLabels(label, is_for, llabels, kinds, blabels) ==
    label = 0 /\ is_for = FALSE /\ llabels = <<>> /\ kinds = <<>> /\ blabels = <<>>

\* The first pass makes no labels.
LabelsOK(stk, first, label, is_for, llabels, kinds, blabels) ==
    IF first THEN NoLabels(label, is_for, llabels, kinds, blabels)
    ELSE BranchLabelsOK(stk, blabels) /\ LoopLabelsOK(stk, label, is_for, llabels, kinds)

\* The inductive invariant.
IInv ==
    /\ Flags
    /\ CursorOK(tokens, current, lookahead, stack)
    /\ FramesOK(stack, tokens)
    /\ stack # <<>> => TopOK(tokens, current, lookahead, Top)
    /\ CountsOK(stack, inside_loop, inside_branch, scopeDepth, inside_func)
    /\ BracketsOK(stack, ignore_right_bracket)
    /\ LabelsOK(stack, collect_funcs, current_loop, current_loop_is_for, loop_label_stack,
                cycle_type_stack, branch_label_stack)
-----------------------------------------------------------------------------
(* The token array *)

\* A program is a sequence of tokens.
LEMMA TokensAreTyped ==
    ASSUME NEW v \in Vocabulary
    PROVE  Programs(v) \subseteq Seq(Tok)
<1>1. Token(v) \subseteq Tok
  BY ParserAssumption DEF Token, Tok, Ahead
<1> QED
  BY <1>1 DEF Programs

\* What next reads and where it takes the cursor.
LEMMA NextReads ==
    ASSUME \E v \in Vocabulary : tokens \in Programs(v),
           current \in 0..(Len(tokens) + 1), Past(tokens, current) \/ current <= Len(tokens),
           NEW toks \in Read(current + 1), NEW cur, cur = nextToken
    PROVE  /\ Grows(tokens, toks) /\ \E v \in Vocabulary : toks \in Programs(v)
           /\ cur \in 0..(Len(toks) + 1) /\ (Past(toks, cur) \/ cur <= Len(toks))
           /\ current <= cur /\ (Past(tokens, current) \/ cur = current + 1)
           /\ \A i \in Nat : Past(tokens, i) => Past(toks, i)
           /\ Past(toks, cur) => Past(tokens, cur)
<1>1. tokens \in Seq(Tok) /\ Len(tokens) \in Nat /\ current \in Nat
  BY TokensAreTyped
<1>2. /\ Closed <=> tokens # <<>> /\ tokens[Len(tokens)].kind = "eof"
      /\ Garbage(current) <=> Past(tokens, current)
  BY DEF Closed, Garbage, Past
<1>3. CASE toks = tokens /\ (Past(tokens, current) \/ current + 1 <= Len(tokens) \/ Closed)
  <2>1. Grows(tokens, toks)
    BY <1>1, <1>3 DEF Grows
  <2>2. cur = IF Past(tokens, current) THEN current ELSE current + 1
    BY <1>2 DEF nextToken
  <2>3. cur \in 0..(Len(tokens) + 1) /\ current <= cur /\ (Past(tokens, current) \/ cur = current + 1)
    BY <1>1, <2>2
  <2>4. Past(tokens, cur) \/ cur <= Len(tokens)
    BY <1>1, <1>2, <1>3, <2>2 DEF Past
  <2> QED
    BY <1>3, <2>1, <2>3, <2>4
<1>4. CASE /\ ~Closed /\ current + 1 > Len(tokens)
           /\ \E v \in Vocabulary : \E t \in Token(v) : toks = Append(tokens, t) /\ toks \in Programs(v)
  <2>0. PICK v \in Vocabulary : \E t \in Token(v) : toks = Append(tokens, t) /\ toks \in Programs(v)
    BY <1>4
  <2>1. PICK t \in Token(v) : toks = Append(tokens, t) /\ toks \in Programs(v)
    BY <2>0
  <2>2. toks \in Seq(Tok) /\ t \in Tok
    BY <2>1, TokensAreTyped, ParserAssumption DEF Token, Tok, Ahead
  <2>3. Len(toks) = Len(tokens) + 1 /\ \A i \in 1..Len(tokens) : toks[i] = tokens[i]
    BY <1>1, <2>1, <2>2
  <2>4. Grows(tokens, toks)
    BY <1>1, <2>2, <2>3 DEF Grows
  <2>5. ~Past(tokens, current) /\ \A i : ~Past(tokens, i)
    BY <1>2, <1>4 DEF Past
  <2>6. cur = current + 1 /\ current = Len(tokens)
    BY <1>1, <1>2, <1>4, <2>5 DEF nextToken
  <2>7. cur \in 0..(Len(toks) + 1) /\ cur <= Len(toks) /\ current <= cur
    BY <1>1, <2>3, <2>6
  <2>8. ~Past(toks, cur)
    BY <1>1, <2>3, <2>6 DEF Past
  <2> QED
    BY <2>1, <2>4, <2>5, <2>6, <2>7, <2>8
<1>5. \/ toks = tokens /\ (current + 1 <= Len(tokens) \/ Closed)
      \/ /\ ~Closed /\ current + 1 > Len(tokens)
         /\ \E v \in Vocabulary : \E t \in Token(v) : toks = Append(tokens, t) /\ toks \in Programs(v)
  <2>1. CASE current + 1 <= Len(tokens) \/ Closed
    BY <2>1 DEF Read
  <2>2. CASE ~(current + 1 <= Len(tokens) \/ Closed)
    <3>1. PICK v \in Vocabulary : toks \in {ts \in {Append(tokens, t) : t \in Token(v)} : ts \in Programs(v)}
      BY <2>2 DEF Read
    <3>2. PICK t \in Token(v) : toks = Append(tokens, t)
      BY <3>1
    <3> QED
      BY <1>1, <2>2, <3>1, <3>2
  <2> QED
    BY <2>1, <2>2
<1> QED
  BY <1>3, <1>4, <1>5

\* A lookahead that is there.
LEMMA LookaheadIsThere ==
    ASSUME NEW toks, NEW cur, NEW look, NEW stk, CursorOK(toks, cur, look, stk), stk # <<>>,
           ~Past(toks, look)
    PROVE  /\ look \in 1..Len(toks) /\ toks[look] \in Tok /\ toks[look].kind \in Ahead
           /\ toks[look].nl \in BOOLEAN
<1>1. toks \in Seq(Tok) /\ Len(toks) \in Nat
  BY TokensAreTyped DEF CursorOK
<1>2. cur \in Nat /\ look \in Nat /\ 1 <= look /\ look <= cur
  BY <1>1 DEF CursorOK
<1>3. look <= Len(toks)
  <2>1. CASE cur <= Len(toks)
    BY <1>1, <1>2, <2>1
  <2>2. CASE Past(toks, cur)
    BY <1>1, <1>2, <2>2 DEF Past
  <2> QED
    BY <2>1, <2>2 DEF CursorOK
<1>4. look \in 1..Len(toks)
  BY <1>1, <1>2, <1>3
<1>5. toks[look] \in Tok
  BY <1>1, <1>4
<1>6. toks[look].kind \in Ahead /\ toks[look].nl \in BOOLEAN
  BY <1>5 DEF Tok
<1> QED
  BY <1>4, <1>5, <1>6
-----------------------------------------------------------------------------
(* What a step leaves as it was *)

\* Nothing is opened or closed.
LEMMA NothingOpened ==
    ASSUME NEW stk \in Seq(Frame), NEW stk2 \in Seq(Frame), SameForAll(stk, stk2)
    PROVE  /\ \A loops, branches, scopes, in_func :
                 CountsOK(stk, loops, branches, scopes, in_func) =>
                     CountsOK(stk2, loops, branches, scopes, in_func)
           /\ \A ignores : BracketsOK(stk, ignores) => BracketsOK(stk2, ignores)
           /\ \A first, label, is_for, llabels, kinds, blabels :
                 LabelsOK(stk, first, label, is_for, llabels, kinds, blabels) =>
                     LabelsOK(stk2, first, label, is_for, llabels, kinds, blabels)
<1>1. {"func", "scope", "inner_scope", "loop", "branch", "loop_label", "end_label", "skip_label",
       "bracket", "argument"} \subseteq Thing
  BY DEF Thing
<1>2. \A k \in {"func", "scope", "inner_scope", "loop", "branch", "loop_label", "end_label",
                "skip_label", "bracket", "argument"} : SameFor(stk, stk2, k)
  BY <1>1 DEF SameForAll
<1>3. \A loops, branches, scopes, in_func :
          CountsOK(stk, loops, branches, scopes, in_func) =>
              CountsOK(stk2, loops, branches, scopes, in_func)
  BY <1>2, CountsSame
<1>4. \A ignores : BracketsOK(stk, ignores) => BracketsOK(stk2, ignores)
  BY <1>2, BracketsSame
<1>5. \A first, label, is_for, llabels, kinds, blabels :
          LabelsOK(stk, first, label, is_for, llabels, kinds, blabels) =>
              LabelsOK(stk2, first, label, is_for, llabels, kinds, blabels)
  BY <1>2, BranchLabelsSame, LoopLabelsSame DEF LabelsOK
<1> QED
  BY <1>3, <1>4, <1>5

\* A statement that opens and closes no label, or no bracket.
LEMMA OtherStatement ==
    ASSUME NEW stk \in Seq(Frame), NEW stk2 \in Seq(Frame), NEW op, Moves(stk, stk2, op)
    PROVE  /\ op \notin {"gen_while_start", "gen_for_start", "gen_loop_end", "gen_branch_labels",
                         "gen_skip_label", "gen_branch_if_end", "gen_branch_end"} =>
                 \A first, label, is_for, llabels, kinds, blabels :
                     LabelsOK(stk, first, label, is_for, llabels, kinds, blabels) =>
                         LabelsOK(stk2, first, label, is_for, llabels, kinds, blabels)
           /\ op \notin {"ignore_on", "ignore_off", "call_end"} =>
                 \A ignores : BracketsOK(stk, ignores) => BracketsOK(stk2, ignores)
<1>1. {"loop_label", "end_label", "skip_label", "bracket", "argument"} \subseteq Thing
  BY DEF Thing
<1>2. ASSUME op \notin {"gen_while_start", "gen_for_start", "gen_loop_end", "gen_branch_labels",
                        "gen_skip_label", "gen_branch_if_end", "gen_branch_end"}
      PROVE  \A k \in {"loop_label", "end_label", "skip_label"} : SameFor(stk, stk2, k)
  BY <1>1, <1>2 DEF Moves, Openers, Closer
<1>3. ASSUME op \notin {"ignore_on", "ignore_off", "call_end"}
      PROVE  \A k \in {"bracket", "argument"} : SameFor(stk, stk2, k)
  BY <1>1, <1>3 DEF Moves, Openers, Closer
<1> QED
  BY <1>2, <1>3, BranchLabelsSame, LoopLabelsSame, BracketsSame DEF LabelsOK

\* The cursor and the next statement, outside parse_expr.
LEMMA NextStatement ==
    ASSUME NEW top, NEW toks, FrameOK(top, toks), top.todo # <<>>, top.fn # "EXPR",
           NEW frame, frame.fn = top.fn, frame.at = top.at, NEW ok,
           frame.todo = Rest(Tail(top.todo), ok), NEW toks2, NEW cur, NEW look,
           top.fn = "CALL_PARAM" /\ Head(top.todo).op = "match" => top.at < look
    PROVE  TopOK(toks2, cur, look, frame)
<1> DEFINE kind == toks[top.at].kind
<1> DEFINE u == frame.todo
<1>1. Good(top.fn, kind, top.todo)
  BY DEF FrameOK
<1>2. Good(top.fn, kind, u)
  BY <1>1, GoodTail, GoodRest
<1> HIDE DEF kind
<1>3. u # <<>> => Head(u) \in Fitting(top.fn, kind)
  BY <1>2, GoodTail
<1>4. u # <<>> => Head(u).op \notin ExprOp
  BY <1>3 DEF Fitting
<1>5. u # <<>> /\ Head(u).op = "match_colon_or_back" => top.fn = "CALL_PARAM"
  BY <1>3 DEF Fitting
<1>6. ASSUME top.fn = "CALL_PARAM", u # <<>>
      PROVE  Head(u).op # "match" /\ (Head(u).op = "match_colon_or_back" => Head(top.todo).op = "match")
  BY <1>1, <1>6, ArgumentNext
<1> QED
  BY <1>4, <1>5, <1>6 DEF TopOK, ExprOp
-----------------------------------------------------------------------------
(* The steps *)

\* The frame on top is one of the frames.
LEMMA TopIs ==
    ASSUME NEW stk, NEW toks, FramesOK(stk, toks), stk # <<>>, NEW top, top = stk[Len(stk)]
    PROVE  /\ stk \in Seq(Frame) /\ Len(stk) \in Nat /\ Len(stk) \in 1..Len(stk)
           /\ top \in Frame /\ FrameOK(top, toks)
           /\ top.at \in Nat /\ top.at \in 1..Len(toks) /\ top.todo \in Seq(Statements)
<1>1. stk \in Seq(Frame) /\ Len(stk) \in Nat /\ Len(stk) \in 1..Len(stk)
  BY DEF FramesOK
<1>2. FrameOK(top, toks)
  BY <1>1 DEF FramesOK
<1>3. top \in Frame /\ top.at \in 1..Len(toks)
  BY <1>2 DEF FrameOK
<1> QED
  BY <1>1, <1>2, <1>3, FrameTypes

\* The frame of a function one statement later.
LEMMA AdvancedIs ==
    ASSUME NEW top \in Frame, top.todo # <<>>, NEW ok \in BOOLEAN
    PROVE  LET frame == Advanced(top, ok)
           IN  /\ frame \in Frame /\ frame.fn = top.fn /\ frame.at = top.at
               /\ frame.tmp = top.tmp /\ frame.local = top.local
               /\ frame.todo = Rest(Tail(top.todo), ok) /\ frame.todo \in Seq(Statements)
<1>1. top.todo \in Seq(Statements)
  BY FrameTypes
<1>2. Tail(top.todo) \in Seq(Statements)
  BY <1>1
<1> DEFINE rest == Rest(Tail(top.todo), ok)
<1>3. rest \in Seq(Statements)
  BY <1>2, RestIsAfter
<1> HIDE DEF rest
<1>4. Advanced(top, ok) = [top EXCEPT !.todo = rest, !.s = ok]
  BY DEF Advanced, rest
<1>5. [top EXCEPT !.todo = rest, !.s = ok] \in Frame
  BY <1>3 DEF Frame
<1>6. LET frame == [top EXCEPT !.todo = rest, !.s = ok]
      IN  /\ frame.fn = top.fn /\ frame.at = top.at
          /\ frame.tmp = top.tmp /\ frame.local = top.local /\ frame.todo = rest
  BY DEF Frame
<1> QED
  BY <1>3, <1>4, <1>5, <1>6 DEF rest

\* The function on top executes a statement.
LEMMA TopMoves ==
    ASSUME NEW stk, NEW toks, FramesOK(stk, toks), stk # <<>>, NEW top, top = stk[Len(stk)],
           top.todo # <<>>, NEW ok,
           NEW frame \in Frame, frame.fn = top.fn, frame.at = top.at, frame.tmp = top.tmp,
           frame.todo = Rest(Tail(top.todo), ok),
           NEW stk2, NewTop(stk, stk2, frame), NEW toks2, Grows(toks, toks2)
    PROVE  /\ FramesOK(stk2, toks2) /\ Moves(stk, stk2, Head(top.todo).op)
           /\ stk2 # <<>> /\ stk2[Len(stk2)] = frame
           /\ stk \in Seq(Frame) /\ stk2 \in Seq(Frame)
<1>1. /\ FramesOK(stk2, toks) /\ Moves(stk, stk2, Head(top.todo).op)
      /\ stk2 # <<>> /\ stk2[Len(stk2)] = frame
  BY AdvanceMoves
<1> QED
  BY <1>1, FramesGrow DEF FramesOK

\* A token array is the beginning of itself.
LEMMA SameTokens ==
    ASSUME NEW toks, NEW cur, NEW look, NEW stk, CursorOK(toks, cur, look, stk)
    PROVE  Grows(toks, toks)
BY TokensAreTyped DEF CursorOK, Grows

\* A statement that does not touch the cursor.
LEMMA StaysHere ==
    ASSUME IInv, NEW op, Doing(op), op \notin ExprOp \cup {"match"},
           NEW ok \in BOOLEAN, Advance(ok), UNCHANGED cursor
    PROVE  /\ FramesOK(stack', tokens') /\ CursorOK(tokens', current', lookahead', stack')
           /\ TopOK(tokens', current', lookahead', stack'[Len(stack')])
           /\ Moves(stack, stack', op) /\ stack # <<>>
           /\ stack \in Seq(Frame) /\ stack' \in Seq(Frame)
<1> DEFINE top == stack[Len(stack)]
<1> DEFINE frame == Advanced(top, ok)
<1>1. stack # <<>> /\ top.todo # <<>> /\ Head(top.todo).op = op /\ Top = top
  BY DEF Doing, Top
<1>2. FramesOK(stack, tokens) /\ CursorOK(tokens, current, lookahead, stack)
  BY DEF IInv
<1>3. top \in Frame /\ FrameOK(top, tokens)
  BY <1>1, <1>2, TopIs
<1>4. NewTop(stack, stack', frame)
  BY <1>1 DEF Advance, SetTop, NewTop
<1> HIDE DEF top
<1>5. /\ frame \in Frame /\ frame.fn = top.fn /\ frame.at = top.at
      /\ frame.tmp = top.tmp /\ frame.todo = Rest(Tail(top.todo), ok)
  BY <1>1, <1>3, AdvancedIs
<1> HIDE DEF frame
<1>6. /\ FramesOK(stack', tokens) /\ Moves(stack, stack', op)
      /\ stack' # <<>> /\ stack'[Len(stack')] = frame
      /\ stack \in Seq(Frame) /\ stack' \in Seq(Frame)
  <2>1. Grows(tokens, tokens)
    BY <1>2, SameTokens
  <2>2. top = stack[Len(stack)]
    BY DEF top
  <2>3. /\ FramesOK(stack', tokens) /\ Moves(stack, stack', Head(top.todo).op)
        /\ stack' # <<>> /\ stack'[Len(stack')] = frame
        /\ stack \in Seq(Frame) /\ stack' \in Seq(Frame)
    BY ONLY <1>1, <1>2, <1>4, <1>5, <2>1, <2>2, TopMoves
  <2> QED
    BY <1>1, <2>3
<1>7. tokens' = tokens /\ current' = current /\ lookahead' = lookahead
  BY DEF cursor
<1>8. CursorOK(tokens, current, lookahead, stack')
  BY <1>1, <1>2, <1>5, <1>6 DEF CursorOK, top
<1>9. top.fn # "EXPR"
  <2>1. Head(top.todo) \in Fitting(top.fn, tokens[top.at].kind)
    BY <1>1, <1>3, GoodTail DEF FrameOK
  <2> QED
    BY <1>1, <2>1 DEF Fitting
<1>10. TopOK(tokens, current, lookahead, frame)
  BY <1>1, <1>3, <1>5, <1>9, NextStatement
<1> QED
  BY <1>1, <1>6, <1>7, <1>8, <1>10

\* The compiler stops.
LEMMA ExitStep ==
    ASSUME IInv, NEW code \in {"success", "syntax", "semantic", "undefined"}, Exit(code)
    PROVE  IInv'
<1>1. Flags'
  BY DEF IInv, Flags, Exit, cursor, context
<1> QED
  BY <1>1 DEF IInv, Exit, cursor, context, labels, Top

\* The flags of a frame and of the parser are Booleans.
LEMMA Booleans ==
    ASSUME IInv
    PROVE  /\ nl_flag \in BOOLEAN
           /\ stack # <<>> => Top.s \in BOOLEAN /\ Top.tmp \in BOOLEAN
BY TopIs, FrameTypes DEF IInv, Flags, Top

\* A statement that opens and closes nothing, or no label in the first pass.
LEMMA QuietStep ==
    ASSUME IInv, NEW op, Doing(op), op \notin ExprOp \cup {"match"}, NEW ok \in BOOLEAN, Advance(ok),
           \/ op \notin Pairing
           \/ op \in {"gen_while_start", "gen_for_start", "gen_loop_end", "gen_branch_labels",
                      "gen_skip_label", "gen_branch_if_end", "gen_branch_end"} /\ collect_funcs,
           UNCHANGED <<cursor, ignore_right_bracket, collect_funcs, inside_func, inside_loop,
                       inside_branch, scopeDepth, labels>>, Flags'
    PROVE  IInv'
<1>1. UNCHANGED cursor
  OBVIOUS
<1>2. /\ FramesOK(stack', tokens') /\ CursorOK(tokens', current', lookahead', stack')
      /\ TopOK(tokens', current', lookahead', stack'[Len(stack')])
      /\ Moves(stack, stack', op) /\ stack \in Seq(Frame) /\ stack' \in Seq(Frame)
  BY <1>1, StaysHere
<1>3. op \notin {"enter_func", "leave_func", "increase_scope", "decrease_scope",
                 "increase_inner_scope", "decrease_inner_scope", "enter_loop",
                 "leave_loop", "enter_branch", "leave_branch", "ignore_on", "ignore_off", "call_end"}
  BY DEF Pairing, BlockOp, BracketOp
<1>4. CountsOK(stack', inside_loop, inside_branch, scopeDepth, inside_func)
  BY <1>2, <1>3, CountsStep DEF IInv
<1>5. BracketsOK(stack', ignore_right_bracket)
  BY <1>2, <1>3, OtherStatement DEF IInv
<1>6. LabelsOK(stack', collect_funcs, current_loop, current_loop_is_for, loop_label_stack,
               cycle_type_stack, branch_label_stack)
  <2>1. CASE collect_funcs
    BY <2>1 DEF IInv, LabelsOK
  <2>2. CASE ~collect_funcs
    <3>1. op \notin {"gen_while_start", "gen_for_start", "gen_loop_end", "gen_branch_labels",
                     "gen_skip_label", "gen_branch_if_end", "gen_branch_end"}
      BY <2>2 DEF Pairing, BlockOp, BranchOp, SkipOp
    <3> QED
      BY <1>2, <3>1, OtherStatement DEF IInv
  <2> QED
    BY <2>1, <2>2
<1> QED
  BY <1>2, <1>4, <1>5, <1>6 DEF IInv, Top, labels

\* The actions that open and close nothing and leave the cursor keep the invariant.
LEMMA QuietActions ==
    ASSUME IInv,
           \/ reject \/ nl_check \/ check_fails \/ check_passes \/ bad_argument
           \/ needs_type \/ add_for_let \/ has_return_true \/ return_type \/ end_of_func
           \/ gen_jump \/ generates_nothing
    PROVE  IInv'
<1> DEFINE plain == {"reject", "nl_check", "check", "check_arg", "check_first_pass",
                     "check_both_passes", "needs_type", "add_for_let", "has_return", "void",
                     "typed", "end_of_func", "gen_break", "gen_continue"}
<1>1. \A op \in plain : op \notin ExprOp \cup {"match"} /\ op \notin Pairing
  BY DEF ExprOp, Pairing, BlockOp, BranchOp, SkipOp, BracketOp
<1>2. nl_flag \in BOOLEAN /\ TRUE \in BOOLEAN /\ FALSE \in BOOLEAN
      /\ \A op : Doing(op) => Top.s \in BOOLEAN
  BY Booleans DEF Doing
<1> HIDE DEF plain
<1>3. ASSUME NEW op \in plain, Doing(op), NEW ok \in BOOLEAN, GoOn(ok) PROVE IInv'
  <2>1. Flags'
    BY <1>3 DEF GoOn, cursor, context, IInv, Flags
  <2> QED
    BY <1>1, <1>3, <2>1, QuietStep DEF GoOn, context
<1>4. ASSUME NEW op \in plain, Here(op),
             UNCHANGED <<inside_func, inside_loop, inside_branch, scopeDepth, labels>>, Flags'
      PROVE  IInv'
  BY <1>1, <1>2, <1>4, QuietStep DEF Here
<1>5. CASE reject
  BY <1>2, <1>3, <1>5 DEF reject, GoOn, plain
<1>6. CASE nl_check
  BY <1>2, <1>3, <1>6 DEF nl_check, GoOn, plain
<1>7. CASE check_fails
  BY <1>7, ExitStep DEF check_fails, MaySemanticExit
<1>8. CASE check_passes
  <2>1. PICK op \in {"check", "check_arg", "check_first_pass", "check_both_passes"} :
            Here(op) /\ UNCHANGED <<context, scopeDepth, labels>>
    BY <1>8 DEF check_passes
  <2>2. op \in plain
    BY DEF plain
  <2>3. Flags'
    BY <2>1 DEF Here, cursor, context, IInv, Flags
  <2> QED
    BY <1>4, <2>1, <2>2, <2>3 DEF context
<1>9. CASE bad_argument
  BY <1>9, ExitStep DEF bad_argument
<1>10. CASE needs_type
  <2>1. Doing("needs_type") /\ (Exit("syntax") \/ GoOn(TRUE))
    BY <1>10 DEF needs_type
  <2> QED
    BY <1>2, <1>3, <2>1, ExitStep DEF plain
<1>11. CASE add_for_let
  <2>1. Doing("add_for_let") /\ (Exit("undefined") \/ Exit("semantic") \/ GoOn(Top.s))
    BY <1>11 DEF add_for_let, MaySemanticExit
  <2>2. "add_for_let" \in plain
    BY DEF plain
  <2> QED
    BY <1>2, <1>3, <2>1, <2>2, ExitStep
<1>12. CASE has_return_true
  <2>1. Flags'
    BY <1>12 DEF has_return_true, Here, cursor, IInv, Flags
  <2> QED
    BY <1>4, <1>12, <2>1 DEF has_return_true, plain
<1>13. CASE return_type
  <2>1. Flags'
    BY <1>13 DEF return_type, Here, cursor, IInv, Flags
  <2> QED
    BY <1>4, <1>13, <2>1 DEF return_type, plain
<1>14. CASE end_of_func
  <2>1. Doing("end_of_func") /\ (Exit("semantic") \/ GoOn(TRUE))
    BY <1>14 DEF end_of_func
  <2> QED
    BY <1>2, <1>3, <2>1, ExitStep DEF plain
<1>15. CASE gen_jump
  <2>1. PICK op \in {"gen_break", "gen_continue"} : Generates(op) /\ UNCHANGED labels
    BY <1>15 DEF gen_jump
  <2>2. Flags'
    BY <2>1 DEF Generates, Here, cursor, context, IInv, Flags
  <2>3. op \in plain
    BY DEF plain
  <2> QED
    BY <1>4, <2>1, <2>2, <2>3 DEF Generates, context
<1>16. CASE generates_nothing
  <2>1. PICK op \in {"gen_while_start", "gen_for_start", "gen_loop_end",
                  "gen_branch_labels", "gen_skip_label", "gen_branch_if_end",
                  "gen_branch_end", "gen_break", "gen_continue"} : Here(op)
    BY <1>16 DEF generates_nothing
  <2>2. Flags'
    BY <1>16, <2>1 DEF generates_nothing, Here, cursor, context, IInv, Flags
  <2>3. op \notin ExprOp \cup {"match"}
    BY DEF ExprOp
  <2>4. \/ op \notin Pairing
        \/ op \in {"gen_while_start", "gen_for_start", "gen_loop_end", "gen_branch_labels",
                      "gen_skip_label", "gen_branch_if_end", "gen_branch_end"} /\ collect_funcs
    BY <1>16, <1>1 DEF generates_nothing, plain
  <2> QED
    BY <1>2, <1>16, <2>1, <2>2, <2>3, <2>4, QuietStep DEF generates_nothing, Here, context
<1> QED
  BY <1>5, <1>6, <1>7, <1>8, <1>9, <1>10, <1>11, <1>12, <1>13, <1>14, <1>15, <1>16

\* What a statement that does not touch the cursor leaves to prove.
LEMMA HereStep ==
    ASSUME IInv, NEW op, Here(op), op \notin ExprOp \cup {"match"}
    PROVE  /\ Moves(stack, stack', op) /\ stack # <<>>
           /\ stack \in Seq(Frame) /\ stack' \in Seq(Frame) /\ Doing(op)
           /\ (/\ UNCHANGED <<context, scopeDepth, labels>> \/ Flags'
               /\ CountsOK(stack', inside_loop', inside_branch', scopeDepth', inside_func')
               /\ LabelsOK(stack', collect_funcs', current_loop', current_loop_is_for',
                           loop_label_stack', cycle_type_stack', branch_label_stack')
               /\ op \notin BracketOp) => IInv'
<1>1. Doing(op) /\ Advance(Top.s) /\ UNCHANGED cursor /\ Top.s \in BOOLEAN
  BY Booleans DEF Here, Doing
<1>2. /\ FramesOK(stack', tokens') /\ CursorOK(tokens', current', lookahead', stack')
      /\ TopOK(tokens', current', lookahead', stack'[Len(stack')])
      /\ Moves(stack, stack', op) /\ stack # <<>>
      /\ stack \in Seq(Frame) /\ stack' \in Seq(Frame)
  BY <1>1, StaysHere
<1>3. op \notin BracketOp => BracketsOK(stack', ignore_right_bracket')
  <2>1. op # "call_end" /\ ignore_right_bracket' = ignore_right_bracket
    BY DEF ExprOp, Here
  <2> QED
    BY <1>2, <2>1, OtherStatement DEF BracketOp, IInv
<1>4. UNCHANGED <<context, scopeDepth, labels>> => Flags'
  BY DEF Here, IInv, Flags, cursor, context
<1> QED
  BY <1>1, <1>2, <1>3, <1>4 DEF IInv, Top

\* The globals that count: what is opened and not closed.
LEMMA ContextActions ==
    ASSUME IInv, enter_func \/ leave_func \/ scope \/ loop \/ branch
    PROVE  IInv'
<1> DEFINE Counting == {"enter_func", "leave_func", "increase_scope", "decrease_scope",
                        "increase_inner_scope", "decrease_inner_scope", "enter_loop",
                        "leave_loop", "enter_branch", "leave_branch"}
<1>1. \A op \in Counting : /\ op \notin ExprOp \cup {"match"} /\ op \notin BracketOp
                           /\ op \notin {"gen_while_start", "gen_for_start", "gen_loop_end",
                                         "gen_branch_labels", "gen_skip_label",
                                         "gen_branch_if_end", "gen_branch_end"}
  BY DEF ExprOp, BracketOp
<1> HIDE DEF Counting
<1>2. ASSUME NEW op \in Counting, Here(op), UNCHANGED labels, Flags',
             CountsOK(stack', inside_loop', inside_branch', scopeDepth', inside_func')
      PROVE  IInv'
  <2>1. Moves(stack, stack', op) /\ stack \in Seq(Frame) /\ stack' \in Seq(Frame)
    BY <1>1, <1>2, HereStep
  <2>2. collect_funcs' = collect_funcs
    BY <1>2 DEF Here
  <2>3. LabelsOK(stack', collect_funcs', current_loop', current_loop_is_for',
                 loop_label_stack', cycle_type_stack', branch_label_stack')
    BY <1>1, <1>2, <2>1, <2>2, OtherStatement DEF IInv, labels
  <2> QED
    BY <1>1, <1>2, <2>3, HereStep
<1>3. ASSUME NEW op \in Counting, Here(op)
      PROVE  Moves(stack, stack', op) /\ stack \in Seq(Frame)
  BY <1>1, <1>3, HereStep
<1>4. CountsOK(stack, inside_loop, inside_branch, scopeDepth, inside_func)
  BY DEF IInv
<1>5. CASE enter_func
  <2>1. Here("enter_func") /\ "enter_func" \in Counting /\ UNCHANGED labels /\ Flags'
    BY <1>5 DEF enter_func, Counting, Here, IInv, Flags, cursor
  <2>2. CountsOK(stack', inside_loop, inside_branch, scopeDepth, inside_func')
    BY <1>3, <1>4, <2>1, CountsStep
  <2> QED
    BY <1>2, <1>5, <2>1, <2>2 DEF enter_func
<1>6. CASE leave_func
  <2>1. /\ Here("leave_func") /\ "leave_func" \in Counting /\ UNCHANGED labels /\ Flags'
        /\ ~inside_func'
    BY <1>6 DEF leave_func, Counting, Here, IInv, Flags, cursor
  <2>2. CountsOK(stack', inside_loop, inside_branch, scopeDepth, inside_func')
    BY <1>3, <1>4, <2>1, CountsStep
  <2> QED
    BY <1>2, <1>6, <2>1, <2>2 DEF leave_func
<1>7. CASE scope
  <2>1. Flags' /\ UNCHANGED labels
    BY <1>7 DEF scope, Here, IInv, Flags, cursor, context
  <2>2. ASSUME NEW op \in {"increase_scope", "increase_inner_scope"}, Here(op), scopeDepth' = scopeDepth + 1
        PROVE  IInv'
    <3>1. op \in Counting
      BY DEF Counting
    <3>2. CountsOK(stack', inside_loop, inside_branch, scopeDepth + 1, inside_func)
      BY <1>3, <1>4, <2>2, <3>1, CountsStep
    <3> QED
      BY <1>2, <1>7, <2>1, <2>2, <3>1, <3>2 DEF scope, context
  <2>3. ASSUME NEW op \in {"decrease_scope", "decrease_inner_scope"}, Here(op), scopeDepth' = scopeDepth - 1
        PROVE  IInv'
    <3>1. op \in Counting
      BY DEF Counting
    <3>2. CountsOK(stack', inside_loop, inside_branch, scopeDepth - 1, inside_func)
      BY <1>3, <1>4, <2>3, <3>1, CountsStep
    <3> QED
      BY <1>2, <1>7, <2>1, <2>3, <3>1, <3>2 DEF scope, context
  <2> QED
    BY <1>7, <2>2, <2>3 DEF scope
<1>8. CASE loop
  <2>1. Flags' /\ UNCHANGED labels /\ {"enter_loop", "leave_loop"} \subseteq Counting
    BY <1>8 DEF loop, Here, IInv, Flags, cursor, Counting
  <2>2. CASE Here("enter_loop") /\ inside_loop' = inside_loop + 1
    <3>1. CountsOK(stack', inside_loop + 1, inside_branch, scopeDepth, inside_func)
      BY <1>3, <1>4, <2>1, <2>2, CountsStep
    <3> QED
      BY <1>2, <1>8, <2>1, <2>2, <3>1 DEF loop
  <2>3. CASE Here("leave_loop") /\ inside_loop' = inside_loop - 1
    <3>1. CountsOK(stack', inside_loop - 1, inside_branch, scopeDepth, inside_func)
      BY <1>3, <1>4, <2>1, <2>3, CountsStep
    <3> QED
      BY <1>2, <1>8, <2>1, <2>3, <3>1 DEF loop
  <2> QED
    BY <1>8, <2>2, <2>3 DEF loop
<1>9. CASE branch
  <2>1. Flags' /\ UNCHANGED labels /\ {"enter_branch", "leave_branch"} \subseteq Counting
    BY <1>9 DEF branch, Here, IInv, Flags, cursor, Counting
  <2>2. CASE Here("enter_branch") /\ inside_branch' = inside_branch + 1
    <3>1. CountsOK(stack', inside_loop, inside_branch + 1, scopeDepth, inside_func)
      BY <1>3, <1>4, <2>1, <2>2, CountsStep
    <3> QED
      BY <1>2, <1>9, <2>1, <2>2, <3>1 DEF branch
  <2>3. CASE Here("leave_branch") /\ inside_branch' = inside_branch - 1
    <3>1. CountsOK(stack', inside_loop, inside_branch - 1, scopeDepth, inside_func)
      BY <1>3, <1>4, <2>1, <2>3, CountsStep
    <3> QED
      BY <1>2, <1>9, <2>1, <2>3, <3>1 DEF branch
  <2> QED
    BY <1>9, <2>2, <2>3 DEF branch
<1> QED
  BY <1>5, <1>6, <1>7, <1>8, <1>9

\* The brackets of a call statement.
LEMMA IgnoreActions ==
    ASSUME IInv, ignore
    PROVE  IInv'
<1>1. PICK op \in BracketOp : /\ Doing(op) /\ ignore_right_bracket' \in BOOLEAN
                              /\ ignore_right_bracket' <=> op = "ignore_on"
  BY DEF ignore, BracketOp
<1>2. /\ Advance(Top.s) /\ Top.s \in BOOLEAN
      /\ UNCHANGED cursor /\ UNCHANGED <<collect_funcs, context, scopeDepth, labels, exit>>
  BY <1>1, Booleans DEF ignore, Doing
<1>3. op \notin ExprOp \cup {"match"} /\ op \in {"ignore_on", "ignore_off"}
  BY DEF ExprOp, BracketOp
<1>4. /\ FramesOK(stack', tokens') /\ CursorOK(tokens', current', lookahead', stack')
      /\ TopOK(tokens', current', lookahead', stack'[Len(stack')])
      /\ Moves(stack, stack', op) /\ stack # <<>>
      /\ stack \in Seq(Frame) /\ stack' \in Seq(Frame)
  BY <1>1, <1>2, <1>3, StaysHere
<1>5. CountsOK(stack', inside_loop, inside_branch, scopeDepth, inside_func)
  BY <1>3, <1>4, CountsStep DEF IInv
<1>6. LabelsOK(stack', collect_funcs, current_loop, current_loop_is_for, loop_label_stack,
               cycle_type_stack, branch_label_stack)
  BY <1>3, <1>4, OtherStatement DEF IInv
<1>7. Flags'
  BY <1>1, <1>2 DEF IInv, Flags, cursor, context
<1>8. Top.fn = "NEXT_ID_CALL_OR_ASSIGN" /\ FramesOK(stack, tokens)
  <2>1. FrameOK(Top, tokens) /\ FramesOK(stack, tokens)
    BY <1>4, TopIs DEF IInv, Top
  <2>2. Head(Top.todo) \in Fitting(Top.fn, tokens[Top.at].kind)
    BY <1>1, <2>1, GoodTail DEF FrameOK, Doing
  <2> QED
    BY <1>1, <2>1, <2>2 DEF Fitting, Doing
<1>9. BracketsOK(stack', ignore_right_bracket')
  <2>1. OwingIn(stack, "argument") = {} /\ OwingIn(stack, "bracket") \subseteq {Len(stack)}
    BY <1>4, <1>8, NoBracketBelow DEF Top
  <2>2. "argument" \in Thing /\ "bracket" \in Thing
    BY DEF Thing
  <2>3. SameFor(stack, stack', "argument")
    BY <1>3, <1>4, <2>2 DEF Moves, Openers, Closer
  <2>4. /\ op = "ignore_on" => Opened(stack, stack', "bracket")
        /\ op = "ignore_off" => Shut(stack, stack', "bracket")
    BY <1>4, <2>2 DEF Moves, Openers, Closer
  <2> QED
    BY <1>1, <1>3, <2>1, <2>3, <2>4, BracketsStatement
<1> QED
  BY <1>2, <1>4, <1>5, <1>6, <1>7, <1>9 DEF IInv, Top, context, labels

\* What code generation is told: the statement, the frame and the labels so far.
LEMMA GeneratesStep ==
    ASSUME IInv, NEW op, Generates(op),
           op \in {"gen_while_start", "gen_for_start", "gen_loop_end", "gen_branch_labels",
                   "gen_skip_label", "gen_branch_if_end", "gen_branch_end"}
    PROVE  /\ Here(op) /\ op \notin ExprOp \cup {"match"} /\ op \notin BracketOp
           /\ Steady(stack, stack') /\ stack # <<>> /\ Top = stack[Len(stack)]
           /\ stack \in Seq(Frame) /\ stack' \in Seq(Frame) /\ FrameOK(Top, tokens)
           /\ \A i \in 1..Len(stack) : stack[i].at # 0
           /\ Head(Top.todo) \in Fitting(Top.fn, tokens[Top.at].kind) /\ Head(Top.todo).op = op
           /\ \A k \in {"loop_label", "end_label", "skip_label"} :
                 /\ op \in Openers(k) => Opened(stack, stack', k)
                 /\ op = Closer(k) => Shut(stack, stack', k)
                 /\ op \notin Openers(k) \cup {Closer(k)} => SameFor(stack, stack', k)
           /\ BranchLabelsOK(stack, branch_label_stack)
           /\ LoopLabelsOK(stack, current_loop, current_loop_is_for, loop_label_stack,
                           cycle_type_stack)
           /\ (/\ BranchLabelsOK(stack', branch_label_stack')
               /\ LoopLabelsOK(stack', current_loop', current_loop_is_for', loop_label_stack',
                               cycle_type_stack')) => IInv'
<1>1. Here(op) /\ ~collect_funcs /\ UNCHANGED <<context, scopeDepth>> /\ collect_funcs' = collect_funcs
  BY DEF Generates, Here
<1>2. op \notin ExprOp \cup {"match"} /\ op \notin BracketOp
  BY DEF ExprOp, BracketOp
<1>3. /\ Moves(stack, stack', op) /\ stack # <<>>
      /\ stack \in Seq(Frame) /\ stack' \in Seq(Frame) /\ Doing(op)
  BY <1>1, <1>2, HereStep
<1>4. FramesOK(stack, tokens) /\ FrameOK(Top, tokens)
  BY <1>3, TopIs DEF IInv, Top
<1>5. Head(Top.todo) \in Fitting(Top.fn, tokens[Top.at].kind) /\ Head(Top.todo).op = op
  BY <1>3, <1>4, GoodTail DEF FrameOK, Doing
<1>6. \A i \in 1..Len(stack) : stack[i].at # 0
  BY <1>4 DEF FramesOK, FrameOK
<1>7. {"loop_label", "end_label", "skip_label"} \subseteq Thing
  BY DEF Thing
<1>8. \A k \in {"loop_label", "end_label", "skip_label"} :
         /\ op \in Openers(k) => Opened(stack, stack', k)
         /\ op = Closer(k) => Shut(stack, stack', k)
         /\ op \notin Openers(k) \cup {Closer(k)} => SameFor(stack, stack', k)
  BY <1>3, <1>7 DEF Moves
<1>9. /\ BranchLabelsOK(stack, branch_label_stack)
      /\ LoopLabelsOK(stack, current_loop, current_loop_is_for, loop_label_stack,
                      cycle_type_stack)
  BY <1>1 DEF IInv, LabelsOK
<1>10. CountsOK(stack', inside_loop', inside_branch', scopeDepth', inside_func') /\ Flags'
  <2>1. op \notin {"enter_func", "leave_func", "increase_scope", "decrease_scope",
                   "increase_inner_scope", "decrease_inner_scope", "enter_loop",
                   "leave_loop", "enter_branch", "leave_branch"}
    OBVIOUS
  <2>2. CountsOK(stack', inside_loop, inside_branch, scopeDepth, inside_func)
    BY <1>3, <2>1, CountsStep DEF IInv
  <2> QED
    BY <1>1, <2>2 DEF context, Here, cursor, IInv, Flags
<1>11. ASSUME BranchLabelsOK(stack', branch_label_stack'),
              LoopLabelsOK(stack', current_loop', current_loop_is_for', loop_label_stack',
                           cycle_type_stack')
       PROVE  IInv'
  <2>1. LabelsOK(stack', collect_funcs', current_loop', current_loop_is_for',
                 loop_label_stack', cycle_type_stack', branch_label_stack')
    BY <1>1, <1>11 DEF LabelsOK
  <2> QED
    BY <1>1, <1>2, <1>10, <2>1, HereStep
<1> QED
  BY <1>1, <1>2, <1>3, <1>4, <1>5, <1>6, <1>8, <1>9, <1>11 DEF Moves, Top

\* The labels of loops.
LEMMA LoopLabelActions ==
    ASSUME IInv, gen_while_start \/ gen_for_start \/ gen_loop_end
    PROVE  IInv'
<1>1. /\ \A op \in {"gen_while_start", "gen_for_start"} :
            op \in Openers("loop_label") /\ op # Closer("loop_label")
      /\ Closer("loop_label") = "gen_loop_end"
      /\ \A op \in {"gen_while_start", "gen_for_start", "gen_loop_end"} :
            \A k \in {"end_label", "skip_label"} : op \notin Openers(k) \cup {Closer(k)}
  BY DEF Openers, Closer
<1>2. ASSUME NEW op \in {"gen_while_start", "gen_for_start", "gen_loop_end"}, Generates(op),
             UNCHANGED branch_label_stack
      PROVE  BranchLabelsOK(stack', branch_label_stack')
  BY <1>1, <1>2, GeneratesStep, BranchLabelsSame
<1>3. ASSUME NEW is_for \in BOOLEAN, LoopStart(is_for),
             NEW op \in {"gen_while_start", "gen_for_start"}, Generates(op),
             is_for <=> op = "gen_for_start"
      PROVE  IInv'
  <2>1. is_for <=> Top.fn = "FOR_LOOP"
    <3>1. Head(Top.todo) \in Fitting(Top.fn, tokens[Top.at].kind) /\ Head(Top.todo).op = op
      BY <1>3, GeneratesStep
    <3> QED
      BY <1>3, <3>1 DEF Fitting
  <2>2. /\ Steady(stack, stack') /\ stack # <<>> /\ Top = stack[Len(stack)]
        /\ stack \in Seq(Frame) /\ stack' \in Seq(Frame)
        /\ \A i \in 1..Len(stack) : stack[i].at # 0
        /\ Opened(stack, stack', "loop_label")
        /\ LoopLabelsOK(stack, current_loop, current_loop_is_for, loop_label_stack,
                        cycle_type_stack)
    BY <1>1, <1>3, GeneratesStep
  <2>3. /\ current_loop' = stack[Len(stack)].at /\ current_loop_is_for' = is_for
        /\ cycle_type_stack' = Append(cycle_type_stack, current_loop_is_for)
        /\ loop_label_stack' = IF current_loop = 0 THEN loop_label_stack
                               ELSE Append(loop_label_stack, current_loop)
        /\ UNCHANGED branch_label_stack
    BY <1>3, <2>2 DEF LoopStart
  <2>4. LoopLabelsOK(stack', stack[Len(stack)].at, is_for, loop_label_stack',
                     Append(cycle_type_stack, current_loop_is_for))
    BY <2>1, <2>2, <2>3, LoopLabelsOpen
  <2>5. LoopLabelsOK(stack', current_loop', current_loop_is_for', loop_label_stack',
                     cycle_type_stack')
    BY <2>3, <2>4
  <2> QED
    BY <1>2, <1>3, <2>3, <2>5, GeneratesStep
<1>4. CASE gen_while_start
  BY <1>3, <1>4 DEF gen_while_start
<1>5. CASE gen_for_start
  BY <1>3, <1>5 DEF gen_for_start
<1>6. CASE gen_loop_end
  <2>1. Generates("gen_loop_end") /\ OuterLoop /\ UNCHANGED branch_label_stack
    BY <1>6 DEF gen_loop_end
  <2>2. /\ Steady(stack, stack') /\ stack # <<>>
        /\ stack \in Seq(Frame) /\ stack' \in Seq(Frame)
        /\ Shut(stack, stack', "loop_label")
        /\ LoopLabelsOK(stack, current_loop, current_loop_is_for, loop_label_stack,
                        cycle_type_stack)
    BY <1>1, <2>1, GeneratesStep
  <2>3. LoopLabelsOK(stack', current_loop', Last(cycle_type_stack), loop_label_stack',
                     Popped(cycle_type_stack))
    BY <2>1, <2>2, LoopLabelsShut DEF OuterLoop
  <2>4. LoopLabelsOK(stack', current_loop', current_loop_is_for', loop_label_stack',
                     cycle_type_stack')
    BY <2>1, <2>3 DEF OuterLoop
  <2> QED
    BY <1>2, <2>1, <2>4, GeneratesStep
<1> QED
  BY <1>4, <1>5, <1>6

\* gen_branch_end runs when the block of the if has ended.
LEMMA BranchEndOwesNoSkip ==
    ASSUME NEW top, NEW toks, FrameOK(top, toks), top.todo # <<>>,
           Head(top.todo).op = "gen_branch_end"
    PROVE  ~Owes(top.todo, "skip_label")
<1> DEFINE t == top.todo
<1>1. Good(top.fn, toks[top.at].kind, t)
  BY DEF FrameOK
<1>2. t \in Seq(Statements) /\ Ordered(top.fn, toks[top.at].kind, t)
  BY <1>1, GoodTail DEF Good
<1>3. Head(t) = t[1] /\ 1 \in 1..Len(t) /\ Len(t) \in Nat
  BY <1>2
<1>4. \A i \in (1 + 1)..Len(t) : t[i].op # "gen_branch_if_end"
  BY <1>2, <1>3 DEF Ordered
<1>5. \A i \in 1..Len(t) : i = 1 \/ i \in (1 + 1)..Len(t)
  BY <1>3
<1>6. \A i \in 1..Len(t) : t[i].op # "gen_branch_if_end"
  BY <1>3, <1>4, <1>5
<1> QED
  BY <1>6 DEF Owes, Has, Closer

\* The labels of if and else.
LEMMA BranchLabelActions ==
    ASSUME IInv, gen_branch_labels \/ gen_branch_if_end \/ gen_branch_end
    PROVE  IInv'
<1> DEFINE Branching == {"gen_branch_labels", "gen_skip_label", "gen_branch_if_end",
                         "gen_branch_end"}
<1>1. /\ "gen_branch_labels" \in Openers("end_label") /\ "gen_branch_labels" \in Openers("skip_label")
      /\ "gen_skip_label" \notin Openers("end_label") \cup {Closer("end_label")}
      /\ "gen_skip_label" \in Openers("skip_label")
      /\ "gen_branch_if_end" \notin Openers("end_label") \cup {Closer("end_label")}
      /\ "gen_branch_if_end" = Closer("skip_label")
      /\ "gen_branch_end" = Closer("end_label")
      /\ "gen_branch_end" \notin Openers("skip_label") \cup {Closer("skip_label")}
      /\ \A op \in Branching : op \notin Openers("loop_label") \cup {Closer("loop_label")}
  BY DEF Openers, Closer
<1>2. ASSUME NEW op \in Branching, Generates(op),
             UNCHANGED <<current_loop, current_loop_is_for, loop_label_stack, cycle_type_stack>>,
             BranchLabelsOK(stack', branch_label_stack')
      PROVE  IInv'
  <2>1. LoopLabelsOK(stack', current_loop', current_loop_is_for', loop_label_stack',
                     cycle_type_stack')
    BY <1>1, <1>2, GeneratesStep, LoopLabelsSame
  <2> QED
    BY <1>2, <2>1, GeneratesStep
<1>3. ASSUME NEW op \in Branching, Generates(op)
      PROVE  /\ Steady(stack, stack') /\ stack # <<>> /\ Top = stack[Len(stack)]
             /\ stack \in Seq(Frame) /\ stack' \in Seq(Frame)
             /\ BranchLabelsOK(stack, branch_label_stack)
             /\ \A k \in {"end_label", "skip_label"} :
                   /\ op \in Openers(k) => Opened(stack, stack', k)
                   /\ op = Closer(k) => Shut(stack, stack', k)
                   /\ op \notin Openers(k) \cup {Closer(k)} => SameFor(stack, stack', k)
  BY <1>3, GeneratesStep
<1>4. ASSUME NEW op \in Branching, Generates(op),
             NEW new, PushLabels(new) \/ PopLabel
      PROVE  UNCHANGED <<current_loop, current_loop_is_for, loop_label_stack, cycle_type_stack>>
  BY <1>4 DEF PushLabels, PopLabel
<1>5. CASE Generates("gen_branch_labels") /\ PushLabels(<< <<"end", Top.at>>, <<"skip", Top.at>> >>)
  <2>1. /\ Steady(stack, stack') /\ stack # <<>> /\ Top = stack[Len(stack)]
        /\ stack \in Seq(Frame) /\ stack' \in Seq(Frame)
        /\ BranchLabelsOK(stack, branch_label_stack)
        /\ Opened(stack, stack', "end_label") /\ Opened(stack, stack', "skip_label")
    BY <1>1, <1>3, <1>5
  <2>2. BranchLabelsOK(stack', branch_label_stack \o << <<"end", stack[Len(stack)].at>>,
                                                        <<"skip", stack[Len(stack)].at>> >>)
    BY <2>1, BranchLabelsStep
  <2>3. BranchLabelsOK(stack', branch_label_stack')
    BY <1>5, <2>1, <2>2 DEF PushLabels
  <2> QED
    BY <1>2, <1>5, <2>3 DEF PushLabels
<1>6. CASE Generates("gen_skip_label") /\ PushLabels(<< <<"skip", Top.at>> >>)
  <2>1. /\ Steady(stack, stack') /\ stack # <<>> /\ Top = stack[Len(stack)]
        /\ stack \in Seq(Frame) /\ stack' \in Seq(Frame)
        /\ BranchLabelsOK(stack, branch_label_stack)
        /\ SameFor(stack, stack', "end_label") /\ Opened(stack, stack', "skip_label")
    BY <1>1, <1>3, <1>6
  <2>2. BranchLabelsOK(stack', branch_label_stack \o << <<"skip", stack[Len(stack)].at>> >>)
    BY <2>1, BranchLabelsStep
  <2>3. BranchLabelsOK(stack', branch_label_stack')
    BY <1>6, <2>1, <2>2 DEF PushLabels
  <2> QED
    BY <1>2, <1>6, <2>3 DEF PushLabels
<1>7. CASE gen_branch_if_end
  <2>1. Generates("gen_branch_if_end") /\ PopLabel
    BY <1>7 DEF gen_branch_if_end
  <2>2. /\ Steady(stack, stack') /\ stack # <<>>
        /\ stack \in Seq(Frame) /\ stack' \in Seq(Frame)
        /\ BranchLabelsOK(stack, branch_label_stack)
        /\ SameFor(stack, stack', "end_label") /\ Shut(stack, stack', "skip_label")
    BY <1>1, <1>3, <2>1
  <2>3. BranchLabelsOK(stack', Popped(branch_label_stack))
    BY <2>2, BranchLabelsStep
  <2> QED
    BY <1>2, <2>1, <2>3 DEF PopLabel
<1>8. CASE gen_branch_end
  <2>1. Generates("gen_branch_end") /\ PopLabel
    BY <1>8 DEF gen_branch_end
  <2>2. /\ Steady(stack, stack') /\ stack # <<>> /\ Top = stack[Len(stack)]
        /\ stack \in Seq(Frame) /\ stack' \in Seq(Frame)
        /\ BranchLabelsOK(stack, branch_label_stack)
        /\ Shut(stack, stack', "end_label") /\ SameFor(stack, stack', "skip_label")
    BY <1>1, <1>3, <2>1
  <2>3. ~Owes(stack[Len(stack)].todo, "skip_label")
    <3>1. FrameOK(Top, tokens) /\ Head(Top.todo).op = "gen_branch_end" /\ Doing("gen_branch_end")
      BY <2>1, GeneratesStep DEF Here
    <3> QED
      BY <2>2, <3>1, BranchEndOwesNoSkip DEF Doing
  <2>4. BranchLabelsOK(stack', Popped(branch_label_stack))
    BY <2>2, <2>3, BranchLabelsStep
  <2> QED
    BY <1>2, <2>1, <2>4 DEF PopLabel
<1> QED
  BY <1>5, <1>6, <1>7, <1>8 DEF gen_branch_labels
-----------------------------------------------------------------------------
(* The steps that move the cursor *)

\* next, and lookahead with it.
LEMMA NextMoves ==
    ASSUME CursorOK(tokens, current, lookahead, stack), FramesOK(stack, tokens), stack # <<>>, next
    PROVE  /\ Grows(tokens, tokens') /\ \A i \in Nat : Past(tokens, i) => Past(tokens', i)
           /\ CursorOK(tokens', current', lookahead, stack) /\ current <= current'
           /\ Past(tokens, current) \/ current' = current + 1
           /\ current' = nextToken
           /\ lookahead' = nextToken =>
                 /\ CursorOK(tokens', current', lookahead', stack)
                 /\ lookahead <= lookahead'
                 /\ ~Past(tokens, lookahead) => lookahead < lookahead'
<1> DEFINE toks == tokens'
<1> DEFINE cur == current'
<1>1. /\ \E v \in Vocabulary : tokens \in Programs(v)
      /\ current \in 0..(Len(tokens) + 1) /\ lookahead \in 0..(Len(tokens) + 1)
      /\ Past(tokens, current) \/ current <= Len(tokens)
      /\ 1 <= lookahead /\ lookahead <= current /\ stack[Len(stack)].at <= lookahead
  BY DEF CursorOK
<1>2. toks \in Read(current + 1) /\ cur = nextToken
  BY DEF next, nextToken
<1> HIDE DEF toks, cur
<1>3. /\ Grows(tokens, toks) /\ \E v \in Vocabulary : toks \in Programs(v)
      /\ cur \in 0..(Len(toks) + 1) /\ (Past(toks, cur) \/ cur <= Len(toks))
      /\ current <= cur /\ (Past(tokens, current) \/ cur = current + 1)
      /\ \A i \in Nat : Past(tokens, i) => Past(toks, i)
  BY <1>1, <1>2, NextReads
<1>4. tokens \in Seq(Tok) /\ toks \in Seq(Tok) /\ Len(tokens) <= Len(toks)
  BY <1>3 DEF Grows
<1>5. Len(tokens) \in Nat /\ Len(toks) \in Nat /\ lookahead \in Nat /\ current \in Nat /\ cur \in Nat
  BY <1>1, <1>3, <1>4
<1>6. lookahead \in 0..(Len(toks) + 1) /\ lookahead <= cur
  BY <1>1, <1>3, <1>4, <1>5
<1>7. CursorOK(toks, cur, lookahead, stack)
  BY <1>1, <1>3, <1>6 DEF CursorOK
<1> DEFINE at == stack[Len(stack)].at
<1>8. 1 <= cur /\ (at \in Nat => at <= cur)
  BY <1>1, <1>5, <1>6
<1>9. ~Past(tokens, lookahead) => lookahead < cur
  <2>1. CASE Past(tokens, current)
    BY <1>1, <1>3, <1>5, <2>1 DEF Past
  <2>2. CASE cur = current + 1
    BY <1>1, <1>5, <2>2
  <2> QED
    BY <1>3, <2>1, <2>2
<1>10. at \in Nat => CursorOK(toks, cur, cur, stack)
  BY <1>3, <1>5, <1>8 DEF CursorOK
<1>11. at \in Nat
  BY TopIs
<1>12. lookahead' = nextToken =>
           /\ CursorOK(toks, cur, lookahead', stack)
           /\ lookahead <= lookahead'
           /\ ~Past(tokens, lookahead) => lookahead < lookahead'
  <2>1. ASSUME lookahead' = cur PROVE CursorOK(toks, cur, lookahead', stack)
    BY <1>10, <1>11, <2>1
  <2> QED
    BY <1>2, <1>6, <1>9, <2>1
<1> QED
  BY <1>2, <1>3, <1>7, <1>12 DEF toks, cur

\* A statement after which the cursor is elsewhere.
LEMMA MovingStep ==
    ASSUME IInv, NEW op, Doing(op), op \notin ExprOp, op \notin Pairing,
           NEW ok \in BOOLEAN, Advance(ok),
           Grows(tokens, tokens'), CursorOK(tokens', current', lookahead', stack),
           Top.fn = "CALL_PARAM" /\ op = "match" => Top.at < lookahead',
           nl_flag' \in BOOLEAN,
           UNCHANGED <<ignore_right_bracket, collect_funcs, context, scopeDepth, labels, exit>>
    PROVE  IInv'
<1> DEFINE top == stack[Len(stack)]
<1> DEFINE frame == Advanced(top, ok)
<1>1. stack # <<>> /\ top.todo # <<>> /\ Head(top.todo).op = op /\ Top = top
  BY DEF Doing, Top
<1>2. FramesOK(stack, tokens)
  BY DEF IInv
<1>3. top \in Frame /\ FrameOK(top, tokens)
  BY <1>1, <1>2, TopIs
<1>4. NewTop(stack, stack', frame)
  BY <1>1 DEF Advance, SetTop, NewTop
<1>5. top = stack[Len(stack)]
  OBVIOUS
<1> HIDE DEF top
<1>6. /\ frame \in Frame /\ frame.fn = top.fn /\ frame.at = top.at
      /\ frame.tmp = top.tmp /\ frame.todo = Rest(Tail(top.todo), ok)
  BY <1>1, <1>3, AdvancedIs
<1> HIDE DEF frame
<1>7. /\ FramesOK(stack', tokens') /\ Moves(stack, stack', Head(top.todo).op)
      /\ stack' # <<>> /\ stack'[Len(stack')] = frame
      /\ stack \in Seq(Frame) /\ stack' \in Seq(Frame)
  BY ONLY <1>1, <1>2, <1>4, <1>5, <1>6, Grows(tokens, tokens'), TopMoves
<1>8. CursorOK(tokens', current', lookahead', stack')
  BY <1>1, <1>5, <1>6, <1>7 DEF CursorOK
<1>9. top.fn # "EXPR"
  <2>1. Head(top.todo) \in Fitting(top.fn, tokens[top.at].kind)
    BY <1>1, <1>3, GoodTail DEF FrameOK
  <2> QED
    BY <1>1, <2>1 DEF Fitting
<1>10. TopOK(tokens', current', lookahead', frame)
  BY <1>1, <1>3, <1>6, <1>9, NextStatement
<1>11. Moves(stack, stack', op)
  BY <1>1, <1>7
<1>12. op \notin {"enter_func", "leave_func", "increase_scope", "decrease_scope",
                  "increase_inner_scope", "decrease_inner_scope", "enter_loop",
                  "leave_loop", "enter_branch", "leave_branch", "ignore_on", "ignore_off",
                  "call_end", "gen_while_start", "gen_for_start", "gen_loop_end",
                  "gen_branch_labels", "gen_skip_label", "gen_branch_if_end", "gen_branch_end"}
  BY DEF Pairing, BlockOp, BracketOp, BranchOp, SkipOp
<1>13. CountsOK(stack', inside_loop, inside_branch, scopeDepth, inside_func)
  BY <1>7, <1>11, <1>12, CountsStep DEF IInv
<1>14. /\ BracketsOK(stack', ignore_right_bracket)
       /\ LabelsOK(stack', collect_funcs, current_loop, current_loop_is_for, loop_label_stack,
                   cycle_type_stack, branch_label_stack)
  BY <1>7, <1>11, <1>12, OtherStatement DEF IInv
<1>15. Flags'
  BY DEF IInv, Flags, context
<1> QED
  BY <1>7, <1>8, <1>10, <1>13, <1>14, <1>15 DEF IInv, Top, context, labels

\* A slot that holds garbage is one behind eof.
LEMMA PastIsGarbage ==
    ASSUME NEW i
    PROVE  Garbage(i) <=> Past(tokens, i)
BY DEF Garbage, Closed, Past

\* match and match_id_or_underscore keep the invariant.
LEMMA MatchActions ==
    ASSUME IInv, match \/ match_id_or_underscore
    PROVE  IInv'
<1>1. PICK op \in {"match", "match_id_or_underscore"} : Doing(op)
  BY DEF match, match_id_or_underscore
<1>2. op \notin ExprOp /\ op \notin Pairing
  BY DEF ExprOp, Pairing, BlockOp, BracketOp, BranchOp, SkipOp
<1>3. stack # <<>> /\ FramesOK(stack, tokens) /\ CursorOK(tokens, current, lookahead, stack)
  BY <1>1 DEF Doing, IInv
<1>4. CASE Garbage(lookahead)
  BY <1>4, ExitStep DEF match, match_id_or_underscore
<1>5. ASSUME ~Garbage(lookahead), Advance(TRUE), nl_flag' = tokens[lookahead].nl,
             lookahead' = nextToken, next,
             UNCHANGED <<ignore_right_bracket, collect_funcs, context, scopeDepth, labels, exit>>
      PROVE  IInv'
  <2>1. ~Past(tokens, lookahead)
    BY <1>5, PastIsGarbage
  <2>2. nl_flag' \in BOOLEAN
    BY <1>3, <1>5, <2>1, LookaheadIsThere
  <2>3. /\ Grows(tokens, tokens') /\ CursorOK(tokens', current', lookahead', stack)
        /\ lookahead < lookahead'
    BY <1>3, <1>5, <2>1, NextMoves
  <2>4. Top.fn = "CALL_PARAM" /\ op = "match" => Top.at < lookahead'
    BY <1>1, <1>3, <2>3 DEF IInv, TopOK, Doing
  <2> QED
    BY <1>1, <1>2, <1>5, <2>2, <2>3, <2>4, MovingStep
<1>6. ASSUME ~Garbage(lookahead), Advance(FALSE), UNCHANGED cursor,
             op = "match" => ~Matches(Arg),
             UNCHANGED <<ignore_right_bracket, collect_funcs, context, scopeDepth, labels, exit>>
      PROVE  IInv'
  <2>1. Grows(tokens, tokens') /\ CursorOK(tokens', current', lookahead', stack)
    BY <1>3, <1>6, SameTokens DEF cursor
  <2>2. nl_flag' \in BOOLEAN
    BY <1>6, Booleans DEF cursor
  <2>3. ASSUME Top.fn = "CALL_PARAM", op = "match" PROVE FALSE
    <3>1. FrameOK(Top, tokens) /\ Top.todo # <<>> /\ Head(Top.todo).op = "match"
      BY <1>1, <1>3, <2>3, TopIs DEF Doing, Top
    <3>2. lookahead = Top.at
      BY <1>3, <2>3, <3>1 DEF IInv, TopOK
    <3>3. Good("CALL_PARAM", tokens[Top.at].kind, Top.todo)
      BY <2>3, <3>1 DEF FrameOK
    <3>4. Head(Top.todo) = Top.todo[1] /\ 1 \in 1..Len(Top.todo)
      BY <3>1, <3>3, GoodTail, TailIsAfter
    <3>5. Top.todo[1].arg = "id" /\ tokens[Top.at].kind = "id"
      BY <3>1, <3>3, <3>4 DEF Good, Ordered
    <3> QED
      BY <1>6, <2>3, <3>2, <3>4, <3>5 DEF Matches, OutOfPlace, TokenKind, Arg
  <2> QED
    BY <1>1, <1>2, <1>6, <2>1, <2>2, <2>3, MovingStep
<1>7. CASE match /\ ~Garbage(lookahead)
  <2>1. op = "match"
    BY <1>1, <1>7 DEF match, Doing
  <2>2. CASE Matches(Arg)
    <3>1. Advance(Matches(Arg)) /\ Matches(Arg) = TRUE
      BY <1>7, <2>2 DEF match, Matches, OutOfPlace
    <3>2. Advance(TRUE)
      BY <3>1
    <3> QED
      BY <1>5, <1>7, <2>2, <3>2 DEF match
  <2>3. CASE ~Matches(Arg)
    <3>1. Advance(Matches(Arg)) /\ Matches(Arg) = FALSE
      BY <1>7, <2>3 DEF match, Matches, OutOfPlace
    <3>2. Advance(FALSE)
      BY <3>1
    <3> QED
      BY <1>6, <1>7, <2>3, <3>2 DEF match
  <2> QED
    BY <2>2, <2>3
<1>8. CASE match_id_or_underscore /\ ~Garbage(lookahead)
  <2> DEFINE fits == TokenKind(lookahead) \in {"id", "underscore"}
  <2>1. op = "match_id_or_underscore"
    BY <1>1, <1>8 DEF match_id_or_underscore, Doing
  <2>2. /\ Advance(fits)
        /\ IF fits THEN nl_flag' = tokens[lookahead].nl /\ lookahead' = nextToken /\ next
           ELSE UNCHANGED cursor
        /\ UNCHANGED <<ignore_right_bracket, collect_funcs, context, scopeDepth, labels, exit>>
    BY <1>8 DEF match_id_or_underscore
  <2>3. fits = TRUE \/ fits = FALSE
    OBVIOUS
  <2> HIDE DEF fits
  <2>4. CASE fits = TRUE
    BY <1>5, <1>8, <2>2, <2>4
  <2>5. CASE fits = FALSE
    BY <1>6, <1>8, <2>1, <2>2, <2>5
  <2> QED
    BY <2>3, <2>4, <2>5
<1> QED
  BY <1>4, <1>7, <1>8

\* The cursor goes back by one, lookahead with it.
LEMMA StepBack ==
    ASSUME NEW toks, NEW cur, NEW look, NEW stk, CursorOK(toks, cur, look, stk), stk # <<>>,
           NEW at \in 1..Len(toks), at = stk[Len(stk)].at, at < cur, NEW cur2, cur2 = cur - 1
    PROVE  CursorOK(toks, cur2, cur2, stk)
<1>1. toks \in Seq(Tok) /\ Len(toks) \in Nat
  BY TokensAreTyped DEF CursorOK
<1>2. cur \in Nat /\ cur <= Len(toks) + 1
  BY <1>1 DEF CursorOK
<1>3. cur2 \in Nat /\ 1 <= cur2 /\ at <= cur2 /\ cur2 <= Len(toks) /\ cur2 \in 0..(Len(toks) + 1)
  BY <1>1, <1>2
<1> QED
  BY <1>3 DEF CursorOK

\* The step back of CALL_PARAM keeps the invariant: it goes to a token that was
\* read.
LEMMA ColonAction ==
    ASSUME IInv, match_colon_or_back
    PROVE  IInv'
<1> DEFINE op == "match_colon_or_back"
<1>1. Doing(op)
  BY DEF match_colon_or_back
<1>2. op \notin ExprOp /\ op \notin Pairing
  BY DEF ExprOp, Pairing, BlockOp, BracketOp, BranchOp, SkipOp
<1>3. stack # <<>> /\ FramesOK(stack, tokens) /\ CursorOK(tokens, current, lookahead, stack)
  BY <1>1 DEF Doing, IInv
<1>4. CASE Garbage(lookahead)
  BY <1>4, ExitStep DEF match_colon_or_back
<1>5. CASE ~Garbage(lookahead)
  <2>1. /\ Advance(Top.s) /\ Top.s \in BOOLEAN
        /\ UNCHANGED <<ignore_right_bracket, collect_funcs, context, scopeDepth, labels, exit>>
    BY <1>1, <1>5, Booleans DEF match_colon_or_back, Doing
  <2>2. ~Past(tokens, lookahead)
    BY <1>5, PastIsGarbage
  <2>3. CASE TokenKind(lookahead) = ":"
    <3>1. nl_flag' = tokens[lookahead].nl /\ lookahead' = nextToken /\ next
      BY <1>5, <2>3 DEF match_colon_or_back
    <3>2. nl_flag' \in BOOLEAN
      BY <1>3, <2>2, <3>1, LookaheadIsThere
    <3>3. Grows(tokens, tokens') /\ CursorOK(tokens', current', lookahead', stack)
      BY <1>3, <3>1, NextMoves
    <3> QED
      BY <1>1, <1>2, <2>1, <3>2, <3>3, MovingStep
  <2>4. CASE TokenKind(lookahead) # ":"
    <3>1. current' = current - 1 /\ lookahead' = current' /\ tokens' = tokens /\ nl_flag' = nl_flag
      BY <1>5, <2>4 DEF match_colon_or_back
    <3>2. Top.at < lookahead
      BY <1>1, <1>3 DEF IInv, TopOK, Doing
    <3>3. Top.at \in 1..Len(tokens) /\ Top.at \in Nat /\ Top = stack[Len(stack)]
      BY <1>3, TopIs DEF Top
    <3>4. lookahead \in Nat /\ current \in Nat /\ lookahead <= current
      <4>1. tokens \in Seq(Tok)
        BY <1>3, TokensAreTyped DEF CursorOK
      <4> QED
        BY <1>3, <4>1 DEF CursorOK
    <3>5. Top.at < current
      BY <3>2, <3>3, <3>4
    <3>6. CursorOK(tokens, current', current', stack)
      BY ONLY <1>3, <3>1, <3>3, <3>5, StepBack
    <3>7. Grows(tokens, tokens') /\ CursorOK(tokens', current', lookahead', stack)
      BY <1>3, <3>1, <3>6, SameTokens
    <3>8. nl_flag' \in BOOLEAN
      BY <3>1, Booleans
    <3> QED
      BY <1>1, <1>2, <2>1, <3>7, <3>8, MovingStep
  <2> QED
    BY <2>3, <2>4
<1> QED
  BY <1>4, <1>5
-----------------------------------------------------------------------------
(* Calls and returns *)

\* The call stack changes and nothing is opened or closed.
LEMMA StackStep ==
    ASSUME IInv, stack # <<>>, stack' # <<>>, FramesOK(stack', tokens), SameForAll(stack, stack'),
           NEW frame, frame = stack'[Len(stack')], frame.at <= lookahead,
           TopOK(tokens, current, lookahead, frame),
           UNCHANGED <<cursor, ignore_right_bracket, collect_funcs, context, scopeDepth,
                       labels, exit>>
    PROVE  IInv'
<1>1. stack \in Seq(Frame) /\ stack' \in Seq(Frame)
  BY DEF IInv, FramesOK
<1>2. /\ CountsOK(stack', inside_loop, inside_branch, scopeDepth, inside_func)
      /\ BracketsOK(stack', ignore_right_bracket)
      /\ LabelsOK(stack', collect_funcs, current_loop, current_loop_is_for, loop_label_stack,
                  cycle_type_stack, branch_label_stack)
  BY <1>1, NothingOpened DEF IInv
<1>3. CursorOK(tokens, current, lookahead, stack')
  BY DEF CursorOK, IInv
<1>4. Flags'
  BY DEF IInv, Flags, cursor, context
<1> QED
  BY <1>2, <1>3, <1>4 DEF IInv, Top, cursor, context, labels

\* The function just called is at its first statement.
LEMMA BodyStarts ==
    ASSUME NEW f \in Function, NEW kind \in Ahead, NEW frame, frame.fn = f,
           frame.todo = Body(f, kind), NEW toks, NEW cur
    PROVE  TopOK(toks, cur, frame.at, frame)
<1> DEFINE t == Body(f, kind)
<1>1. Good(f, kind, t)
  BY FreshBody DEF Fresh
<1> HIDE DEF t
<1>2. t # <<>> => Head(t) \in Fitting(f, kind) /\ t \in Seq(Statements)
  BY <1>1, GoodTail
<1>3. t # <<>> /\ f # "EXPR" => Head(t).op \notin ExprOp
  BY <1>2 DEF Fitting
<1>4. t # <<>> => Head(t).op # "match_colon_or_back"
  <2>1. CASE f = "CALL_PARAM" /\ t # <<>>
    <3>1. t = CALL_PARAM(kind)
      BY <2>1 DEF Body, t
    <3>2. CASE kind = "id"
      BY <3>1, <3>2, Fields DEF CALL_PARAM
    <3>3. CASE kind \in FirstOfExpr \ {"id"}
      BY <3>1, <3>3, Fields DEF CALL_PARAM
    <3>4. CASE kind \notin FirstOfExpr /\ kind # "id"
      <4>1. t = Reject
        BY <3>1, <3>4 DEF CALL_PARAM
      <4> QED
        BY <4>1, Fields DEF Reject
    <3> QED
      BY <3>2, <3>3, <3>4
  <2>2. CASE f # "CALL_PARAM"
    BY <1>2, <2>2 DEF Fitting
  <2> QED
    BY <2>1, <2>2
<1>5. f = "EXPR" => t # <<>> /\ Head(t).op = "next_token" /\ Len(t) = 4
  BY Fields DEF Body, EXPR, t
<1>6. frame.todo = t
  BY DEF t
<1> QED
  BY <1>3, <1>4, <1>5, <1>6 DEF TopOK, ExprOp

\* A call, of parse_expr too, keeps the invariant.
LEMMA CallActions ==
    ASSUME IInv, call \/ call_params
    PROVE  IInv'
<1>0. PICK g : \E heed \in BOOLEAN :
          /\ stack # <<>> /\ Top.todo # <<>> /\ CallInto(g, heed)
          /\ \/ Head(Top.todo).op = "call" /\ g = Head(Top.todo).arg
             \/ Head(Top.todo).op = "call_params" /\ g = "CALL_PARAM_LIST"
  <2>1. CASE call
    BY <2>1 DEF call, Doing, Arg
  <2>2. CASE call_params
    BY <2>2 DEF call_params, Doing
  <2> QED
    BY <2>1, <2>2
<1>1. PICK heed \in BOOLEAN :
          /\ stack # <<>> /\ Top.todo # <<>> /\ CallInto(g, heed)
          /\ \/ Head(Top.todo).op = "call" /\ g = Head(Top.todo).arg
             \/ Head(Top.todo).op = "call_params" /\ g = "CALL_PARAM_LIST"
  BY <1>0
<1>2. CASE Garbage(lookahead)
  BY <1>1, <1>2, ExitStep DEF CallInto
<1>3. CASE ~Garbage(lookahead)
  <2> DEFINE top == stack[Len(stack)]
  <2> DEFINE top2 == [top EXCEPT !.todo = Tail(top.todo)]
  <2> DEFINE frame == NewFrame(g, heed)
  <2> DEFINE stk1 == [stack EXCEPT ![Len(stack)] = top2]
  <2>1. FramesOK(stack, tokens) /\ CursorOK(tokens, current, lookahead, stack) /\ Top = top
        /\ TopOK(tokens, current, lookahead, top) /\ top.todo # <<>>
    BY <1>1 DEF IInv, Top
  <2>2. /\ stack' = Append([stack EXCEPT ![Len(stack)].todo = Tail(@)], frame)
        /\ UNCHANGED <<cursor, ignore_right_bracket, collect_funcs, context,
                       scopeDepth, labels, exit>>
    BY <1>1, <1>3 DEF CallInto
  <2>3. [stack EXCEPT ![Len(stack)].todo = Tail(@)] = stk1
    OBVIOUS
  <2>4. NewTop(stack, stk1, top2) /\ top = stack[Len(stack)] /\ stack' = Append(stk1, frame)
    BY <2>2, <2>3 DEF NewTop
  <2>5. lookahead \in 1..Len(tokens) /\ tokens[lookahead].kind \in Ahead
    BY <1>1, <1>3, <2>1, PastIsGarbage, LookaheadIsThere
  <2>6. /\ top \in Frame /\ FrameOK(top, tokens) /\ top.at \in Nat /\ top.at \in 1..Len(tokens)
    BY <1>1, <2>1, TopIs
  <2> HIDE DEF top
  <2>7. /\ top2 \in Frame /\ top2.fn = top.fn /\ top2.at = top.at /\ top2.tmp = top.tmp
        /\ top2.todo = Tail(top.todo)
    <3>1. Tail(top.todo) \in Seq(Statements)
      BY <2>1, <2>6, FrameTypes
    <3> QED
      BY <2>6, <3>1 DEF Frame
  <2>8. g \in Function
    <3>1. /\ Calls(top.fn, tokens[top.at].kind, g)
      BY <1>1, <2>1, <2>6, <2>7, CallerWaits
    <3> QED
      BY <3>1 DEF Calls
  <2>9. /\ frame \in Frame /\ frame.fn = g /\ frame.at = lookahead
        /\ frame.todo = Body(g, tokens[lookahead].kind)
    <3>1. Body(g, tokens[lookahead].kind) \in Seq(Statements)
      <4> DEFINE kind == tokens[lookahead].kind
      <4> DEFINE t == Body(g, kind)
      <4>1. Good(g, kind, t)
        BY <2>5, <2>8, FreshBody DEF Fresh
      <4> HIDE DEF t, kind
      <4>2. t \in Seq(Fitting(g, kind)) /\ Fitting(g, kind) \subseteq Statements
        BY <4>1 DEF Good, Fitting
      <4>3. t \in Seq(Statements)
        BY <4>2
      <4> QED
        BY <4>3 DEF t, kind
    <3>2. lookahead \in Nat
      BY <2>5
    <3> QED
      BY <2>8, <3>1, <3>2 DEF NewFrame, Frame, TokenKind
  <2> HIDE DEF top2, frame, stk1
  <2>10. top.at <= lookahead
    BY <1>1, <2>1, <2>4 DEF CursorOK
  <2>11. top.fn = "EXPR" => top.at < lookahead
    <3>1. ASSUME top.fn = "EXPR" PROVE Head(top.todo).op = "call_params"
      <4>1. Head(top.todo) \in Fitting(top.fn, tokens[top.at].kind)
        BY <2>1, <2>6, GoodTail DEF FrameOK
      <4> QED
        BY <1>1, <2>1, <3>1, <4>1 DEF Fitting, ExprOp
    <3> QED
      BY <2>1, <3>1 DEF TopOK
  <2>12. \/ Head(top.todo).op = "call" /\ g = Head(top.todo).arg
         \/ Head(top.todo).op = "call_params" /\ g = "CALL_PARAM_LIST"
    BY <1>1, <2>1
  <2>13. /\ FramesOK(stack', tokens) /\ SameForAll(stack, stack')
         /\ stack' # <<>> /\ stack'[Len(stack')] = frame
    <3>1. /\ frame.at \in 1..Len(tokens) /\ tokens[frame.at].kind \in Ahead
          /\ frame.todo = Body(g, tokens[frame.at].kind)
          /\ top.at <= frame.at /\ (top.fn = "EXPR" => top.at < frame.at)
      BY <2>5, <2>9, <2>10, <2>11
    <3> QED
      <4>1. Calling(stack, tokens, top, g, frame, top2, stk1, stack')
        BY ONLY <1>1, <2>1, <2>4, <2>7, <2>9, <2>12, <3>1 DEF Calling
      <4> QED
        BY ONLY <2>1, <4>1, CallMoves
  <2>14. TopOK(tokens, current, lookahead, frame) /\ frame.at <= lookahead
    BY <2>5, <2>8, <2>9, BodyStarts
  <2> QED
    BY <1>1, <2>2, <2>13, <2>14, StackStep
<1> QED
  BY <1>2, <1>3

\* A return keeps the invariant.
LEMMA ReturnAction ==
    ASSUME IInv, return
    PROVE  IInv'
<1> DEFINE n == Len(stack)
<1> DEFINE top == stack[n]
<1> DEFINE m == n - 1
<1> DEFINE low == SubSeq(stack, 1, n - 2)
<1> DEFINE caller == stack[m]
<1> DEFINE ok == IF top.heed THEN top.s ELSE caller.s
<1> DEFINE frame == [caller EXCEPT !.todo = Rest(caller.todo, ok), !.s = ok]
<1>1. /\ n > 1 /\ top.todo = <<>>
      /\ stack' = Append(low, frame)
      /\ UNCHANGED <<cursor, ignore_right_bracket, collect_funcs, context,
                     scopeDepth, labels, exit>>
  BY DEF return, Top
<1>2. FramesOK(stack, tokens) /\ stack \in Seq(Frame) /\ n \in Nat /\ n \in 1..n /\ n - 1 \in 1..n
      /\ stack # <<>> /\ n - 1 \in 1..(n - 1) /\ n - 1 < n /\ (n - 1) + 1 = n
  <2>1. FramesOK(stack, tokens) /\ stack \in Seq(Frame)
    BY DEF IInv, FramesOK
  <2>2. n \in Nat /\ n > 1 /\ stack # <<>>
    BY <1>1, <2>1
  <2> HIDE DEF n
  <2> QED
    BY <2>1, <2>2
<1> HIDE DEF n
<1>3. FrameOK(caller, tokens) /\ caller \in Frame /\ top \in Frame /\ caller.at \in Nat /\ top.at \in Nat
  <2>1. FrameOK(caller, tokens) /\ caller \in Frame /\ top \in Frame
    BY <1>2 DEF FramesOK, FrameOK, n
  <2> QED
    BY <2>1, FrameTypes
<1>4. Below(caller, top) /\ Waits(caller, top.fn)
  BY <1>2 DEF FramesOK, n
<1>5. ok \in BOOLEAN
  BY <1>3, FrameTypes
<1> HIDE DEF ok
<1>6. /\ frame \in Frame /\ frame.fn = caller.fn /\ frame.at = caller.at
      /\ frame.tmp = caller.tmp /\ frame.todo = Rest(caller.todo, ok)
  <2> DEFINE rest == Rest(caller.todo, ok)
  <2>1. rest \in Seq(Statements)
    BY <1>3, FrameTypes, RestIsAfter
  <2> HIDE DEF rest
  <2>2. frame = [caller EXCEPT !.todo = rest, !.s = ok]
    BY DEF rest
  <2>3. [caller EXCEPT !.todo = rest, !.s = ok] \in Frame
    BY <1>3, <1>5, <2>1 DEF Frame
  <2>4. LET new == [caller EXCEPT !.todo = rest, !.s = ok]
        IN  /\ new.fn = caller.fn /\ new.at = caller.at
            /\ new.tmp = caller.tmp /\ new.todo = rest
    BY <1>3 DEF Frame
  <2> QED
    BY <2>2, <2>3, <2>4 DEF rest
<1> HIDE DEF frame
<1>7. /\ caller = stack[m] /\ n = Len(stack) /\ stack[n].todo = <<>>
      /\ m = n - 1 /\ low = SubSeq(stack, 1, n - 2)
  BY <1>1 DEF n
<1> HIDE DEF caller, low, m
<1>8. /\ FramesOK(stack', tokens) /\ SameForAll(stack, stack')
      /\ stack' # <<>> /\ stack'[Len(stack')] = frame
  <2>1. Returning(stack, n, m, caller, ok, frame, low, stack')
    BY ONLY <1>1, <1>6, <1>7 DEF Returning
  <2> QED
    BY ONLY <1>2, <2>1, ReturnMoves
<1>9. /\ top.at <= lookahead /\ lookahead \in Nat
  <2>1. tokens \in Seq(Tok)
    BY TokensAreTyped DEF IInv, CursorOK
  <2> QED
    BY <1>2, <2>1 DEF IInv, CursorOK, n
<1>10. frame.at <= lookahead
  BY <1>3, <1>4, <1>6, <1>9 DEF Below
<1>11. TopOK(tokens, current, lookahead, frame)
  <2> DEFINE u == frame.todo
  <2> DEFINE kind == tokens[caller.at].kind
  <2>1. Good(caller.fn, kind, caller.todo)
    BY <1>3 DEF FrameOK
  <2>2. Good(caller.fn, kind, u) /\ (caller.fn = "EXPR" => u = caller.todo)
    BY <1>6, <2>1, GoodRest
  <2> HIDE DEF kind
  <2>3. u # <<>> => Head(u) \in Fitting(caller.fn, kind) /\ u \in Seq(Statements)
    BY <2>2, GoodTail
  <2>4. CASE caller.fn = "EXPR"
    <3>1. u # <<>> /\ Head(u).op = "call_end" /\ caller.at < top.at
      BY <1>4, <2>2, <2>4 DEF Waits, Below
    <3>2. frame.at < lookahead
      BY <1>3, <1>6, <1>9, <3>1
    <3> QED
      BY <1>6, <2>4, <3>1, <3>2 DEF TopOK
  <2>5. CASE caller.fn = "CALL_PARAM"
    <3>1. Len(caller.todo) <= 1 /\ caller.todo \in Seq(Statements)
      BY <1>3, <1>4, <2>5, FrameTypes DEF Waits
    <3>2. Len(u) <= 1
      BY <1>6, <3>1, RestIsAfter DEF After
    <3>3. u # <<>> => Head(u).op \notin ExprOp /\ Head(u).op \notin {"match", "match_colon_or_back"}
      <4>1. ASSUME u # <<>> PROVE Head(u) = u[1] /\ 1 \in 1..Len(u) /\ Len(u) = 1
        <5>1. u \in Seq(Statements) /\ Len(u) \in Nat /\ Len(u) >= 1
          BY <2>3, <4>1
        <5> HIDE DEF u
        <5> QED
          BY <3>2, <5>1
      <4>2. Ordered("CALL_PARAM", kind, u)
        BY <2>2, <2>5 DEF Good
      <4>3. u # <<>> => Head(u).op \notin {"match", "match_colon_or_back"}
        BY <4>1, <4>2 DEF Ordered
      <4> QED
        BY <2>3, <2>5, <4>3 DEF Fitting
    <3> QED
      BY <3>3 DEF TopOK, ExprOp
  <2>6. CASE caller.fn \notin {"EXPR", "CALL_PARAM"}
    <3>1. u # <<>> => Head(u).op \notin ExprOp /\ Head(u).op # "match_colon_or_back"
      BY <2>3, <2>6 DEF Fitting
    <3> QED
      BY <1>6, <2>6, <3>1 DEF TopOK, ExprOp
  <2> QED
    BY <2>4, <2>5, <2>6
<1> QED
  BY <1>1, <1>2, <1>8, <1>10, <1>11, StackStep
-----------------------------------------------------------------------------
(* parse_expr *)

\* The function on top is parse_expr.
LEMMA ExprIsTop ==
    ASSUME IInv, NEW op \in ExprOp, Doing(op)
    PROVE  /\ stack # <<>> /\ FramesOK(stack, tokens) /\ CursorOK(tokens, current, lookahead, stack)
           /\ Top = stack[Len(stack)] /\ Top \in Frame /\ FrameOK(Top, tokens)
           /\ Top.todo # <<>> /\ Head(Top.todo).op = op /\ Top.fn = "EXPR"
           /\ Good("EXPR", tokens[Top.at].kind, Top.todo)
           /\ Top.at \in Nat /\ Top.at \in 1..Len(tokens) /\ Top.local \in Nat /\ Top.s \in BOOLEAN
           /\ Top.tmp \in BOOLEAN /\ Top.todo \in Seq(Statements)
           /\ TopOK(tokens, current, lookahead, Top)
           /\ tokens \in Seq(Tok) /\ Len(tokens) \in Nat
           /\ current \in Nat /\ lookahead \in Nat /\ Top.at <= lookahead /\ lookahead <= current
<1>1. /\ stack # <<>> /\ FramesOK(stack, tokens) /\ CursorOK(tokens, current, lookahead, stack)
      /\ TopOK(tokens, current, lookahead, Top) /\ Top = stack[Len(stack)]
      /\ Top.todo # <<>> /\ Head(Top.todo).op = op
  BY DEF Doing, IInv, Top
<1>2. /\ Top \in Frame /\ FrameOK(Top, tokens) /\ Top.at \in Nat /\ Top.at \in 1..Len(tokens)
  BY <1>1, TopIs
<1>3. Good(Top.fn, tokens[Top.at].kind, Top.todo)
  BY <1>2 DEF FrameOK
<1>4. Head(Top.todo) \in Fitting(Top.fn, tokens[Top.at].kind)
  BY <1>1, <1>3, GoodTail
<1>5. Top.fn = "EXPR"
  BY <1>1, <1>4 DEF Fitting
<1>6. Top.local \in Nat /\ Top.s \in BOOLEAN /\ Top.tmp \in BOOLEAN /\ Top.todo \in Seq(Statements)
  BY <1>2, FrameTypes
<1>7. tokens \in Seq(Tok) /\ Len(tokens) \in Nat
  BY <1>1, TokensAreTyped DEF CursorOK
<1>8. current \in Nat /\ lookahead \in Nat /\ Top.at <= lookahead /\ lookahead <= current
  BY <1>1, <1>7 DEF CursorOK
<1> QED
  BY <1>1, <1>2, <1>3, <1>5, <1>6, <1>7, <1>8

\* parse_expr executes a statement.
LEMMA ExprStep ==
    ASSUME IInv, NEW op \in ExprOp, Doing(op), NEW ok, NEW frame \in Frame,
           frame.fn = Top.fn, frame.at = Top.at, frame.tmp = Top.tmp,
           frame.todo = Rest(Tail(Top.todo), ok), SetTop(frame), Grows(tokens, tokens'),
           CursorOK(tokens', current', lookahead', stack),
           TopOK(tokens', current', lookahead', frame),
           nl_flag' \in BOOLEAN, ignore_right_bracket' \in BOOLEAN,
           \/ op # "call_end" /\ UNCHANGED ignore_right_bracket
           \/ BracketsOK(stack', ignore_right_bracket'),
           UNCHANGED <<collect_funcs, context, scopeDepth, labels, exit>>
    PROVE  IInv' /\ Moves(stack, stack', op)
<1>1. /\ stack # <<>> /\ FramesOK(stack, tokens) /\ Top = stack[Len(stack)]
      /\ Top.todo # <<>> /\ Head(Top.todo).op = op
  BY ExprIsTop
<1>2. NewTop(stack, stack', frame)
  BY DEF SetTop, NewTop
<1>3. /\ FramesOK(stack', tokens') /\ Moves(stack, stack', Head(Top.todo).op)
      /\ stack' # <<>> /\ stack'[Len(stack')] = frame
      /\ stack \in Seq(Frame) /\ stack' \in Seq(Frame)
  BY ONLY <1>1, <1>2, frame \in Frame, frame.fn = Top.fn, frame.at = Top.at,
          frame.tmp = Top.tmp, frame.todo = Rest(Tail(Top.todo), ok), Grows(tokens, tokens'),
          TopMoves
<1>4. CursorOK(tokens', current', lookahead', stack')
  BY <1>1, <1>3 DEF CursorOK
<1>5. Moves(stack, stack', op)
  BY <1>1, <1>3
<1>6. op \notin {"enter_func", "leave_func", "increase_scope", "decrease_scope",
                 "increase_inner_scope", "decrease_inner_scope", "enter_loop",
                 "leave_loop", "enter_branch", "leave_branch", "ignore_on", "ignore_off",
                 "gen_while_start", "gen_for_start", "gen_loop_end",
                 "gen_branch_labels", "gen_skip_label", "gen_branch_if_end", "gen_branch_end"}
  BY DEF ExprOp
<1>7. CountsOK(stack', inside_loop, inside_branch, scopeDepth, inside_func)
  BY <1>3, <1>5, <1>6, CountsStep DEF IInv
<1>8. LabelsOK(stack', collect_funcs, current_loop, current_loop_is_for, loop_label_stack,
               cycle_type_stack, branch_label_stack)
  BY <1>3, <1>5, <1>6, OtherStatement DEF IInv
<1>9. BracketsOK(stack', ignore_right_bracket')
  BY <1>3, <1>5, <1>6, OtherStatement DEF IInv
<1>10. Flags'
  BY DEF IInv, Flags, context
<1> QED
  BY <1>3, <1>4, <1>5, <1>7, <1>8, <1>9, <1>10 DEF IInv, Top, context, labels

\* A parse_expr that fails keeps the invariant: it owes no call its end.
LEMMA FailStep ==
    ASSUME IInv, NEW op \in {"operand", "after_operand", "fail"}, Doing(op), Fail
    PROVE  IInv'
<1>1. op \in ExprOp
  BY DEF ExprOp
<1>2. /\ stack # <<>> /\ FramesOK(stack, tokens) /\ Top = stack[Len(stack)] /\ Top \in Frame
      /\ Top.todo # <<>> /\ Head(Top.todo).op = op /\ Top.at <= lookahead
  BY <1>1, ExprIsTop
<1> DEFINE frame == [Top EXCEPT !.todo = <<>>, !.s = FALSE]
<1>3. /\ frame \in Frame /\ frame.fn = Top.fn /\ frame.at = Top.at
      /\ frame.tmp = Top.tmp /\ frame.todo = <<>>
  <2>1. <<>> \in Seq(Statements)
    OBVIOUS
  <2> QED
    BY <1>2, <2>1 DEF Frame
<1>4. SetTop(frame) /\ UNCHANGED <<cursor, ignore_right_bracket, collect_funcs, context,
                                   scopeDepth, labels, exit>>
  BY DEF Fail
<1> HIDE DEF frame
<1>5. NewTop(stack, stack', frame)
  BY <1>4 DEF SetTop, NewTop
<1>6. /\ FramesOK(stack', tokens) /\ SameForAll(stack, stack')
      /\ stack' # <<>> /\ stack'[Len(stack')] = frame
  BY <1>2, <1>3, <1>5, FailMoves
<1>7. TopOK(tokens, current, lookahead, frame)
  BY <1>3 DEF TopOK
<1> QED
  BY <1>2, <1>3, <1>4, <1>6, <1>7, StackStep

\* next_token of expr_parser.c keeps the invariant.
LEMMA NextTokenAction ==
    ASSUME IInv, next_token
    PROVE  IInv'
<1> DEFINE op == "next_token"
<1>1. Doing(op) /\ op \in ExprOp
  BY DEF next_token, ExprOp
<1>2. /\ stack # <<>> /\ FramesOK(stack, tokens) /\ CursorOK(tokens, current, lookahead, stack)
      /\ Top = stack[Len(stack)] /\ Top \in Frame /\ Top.todo # <<>> /\ Head(Top.todo).op = op
      /\ Top.fn = "EXPR" /\ Good("EXPR", tokens[Top.at].kind, Top.todo)
      /\ Top.at \in Nat /\ Top.s \in BOOLEAN /\ TopOK(tokens, current, lookahead, Top)
      /\ current \in Nat /\ lookahead \in Nat /\ Top.at <= lookahead /\ lookahead <= current
      /\ Top.todo \in Seq(Statements)
  BY <1>1, ExprIsTop
<1> DEFINE later == Advanced(Top, Top.s)
<1> DEFINE ends == Top.local # 0 /\ ~Garbage(Top.local) /\ tokens[Top.local].nl
<1> DEFINE frame == [later EXCEPT !.local = current, !.line_ends = ends]
<1>3. /\ SetTop(frame) /\ next
      /\ UNCHANGED <<lookahead, nl_flag, ignore_right_bracket, collect_funcs,
                     context, scopeDepth, labels, exit>>
  BY DEF next_token
<1>4. /\ later \in Frame /\ later.fn = Top.fn /\ later.at = Top.at
      /\ later.tmp = Top.tmp /\ later.todo = Rest(Tail(Top.todo), Top.s)
  BY <1>2, AdvancedIs
<1>5. ends \in BOOLEAN
  OBVIOUS
<1> HIDE DEF later, ends
<1>6. /\ frame \in Frame /\ frame.fn = Top.fn /\ frame.at = Top.at
      /\ frame.tmp = Top.tmp /\ frame.todo = Rest(Tail(Top.todo), Top.s) /\ frame.local = current
  <2>1. frame \in Frame
    BY <1>2, <1>4, <1>5 DEF Frame
  <2>2. /\ frame.fn = later.fn /\ frame.at = later.at
        /\ frame.tmp = later.tmp /\ frame.todo = later.todo /\ frame.local = current
    BY <1>4 DEF Frame
  <2> QED
    BY <1>4, <2>1, <2>2
<1> HIDE DEF frame
<1>7. /\ Grows(tokens, tokens') /\ \A i \in Nat : Past(tokens, i) => Past(tokens', i)
      /\ CursorOK(tokens', current', lookahead, stack) /\ current <= current'
      /\ Past(tokens, current) \/ current' = current + 1
  BY <1>2, <1>3, NextMoves
<1>8. Past(tokens', current) \/ current < current'
  BY <1>2, <1>7
<1>9. TopOK(tokens', current', lookahead', frame)
  <2> DEFINE u == Tail(Top.todo)
  <2>1. /\ u # <<>>
        /\ \/ Len(Top.todo) # 2 /\ Head(u).op = "operand"
           \/ Len(Top.todo) = 2 /\ Head(u).op = "after_operand"
    BY <1>2, ExprNext
  <2>2. frame.todo = u
    <3>1. Good("EXPR", tokens[Top.at].kind, u)
      BY <1>2, GoodTail
    <3> QED
      BY <1>6, <3>1, GoodRest
  <2> HIDE DEF u
  <2>3. Len(Top.todo) = 2 => Top.at < current
    BY <1>2 DEF TopOK
  <2>4. Top.at <= current
    BY <1>2
  <2> QED
    BY <1>6, <1>8, <2>1, <2>2, <2>3, <2>4 DEF TopOK
<1>10. nl_flag' \in BOOLEAN /\ ignore_right_bracket' \in BOOLEAN
  BY <1>3 DEF IInv, Flags
<1>11. CursorOK(tokens', current', lookahead', stack)
  BY <1>3, <1>7
<1> QED
  BY <1>1, <1>3, <1>6, <1>7, <1>9, <1>10, <1>11, ExprStep

\* The expression has ended.
LEMMA EndStep ==
    ASSUME IInv, Doing("after_operand"), ~Garbage(Top.local), EndOfExpr
    PROVE  IInv'
<1> DEFINE op == "after_operand"
<1>1. Doing(op) /\ op \in ExprOp /\ op # "call_end"
  BY DEF ExprOp
<1>2. /\ stack # <<>> /\ FramesOK(stack, tokens) /\ CursorOK(tokens, current, lookahead, stack)
      /\ Top = stack[Len(stack)] /\ Top \in Frame /\ Top.todo # <<>> /\ Head(Top.todo).op = op
      /\ Top.fn = "EXPR" /\ Good("EXPR", tokens[Top.at].kind, Top.todo)
      /\ Top.at \in Nat /\ Top.at \in 1..Len(tokens) /\ Top.local \in Nat
      /\ TopOK(tokens, current, lookahead, Top)
      /\ tokens \in Seq(Tok) /\ Len(tokens) \in Nat /\ current \in Nat
  BY <1>1, ExprIsTop
<1> DEFINE frame == Advanced(Top, TRUE)
<1>3. /\ SetTop(frame) /\ current' = current - 1 /\ lookahead' = current' /\ tokens' = tokens
      /\ nl_flag' = tokens[current - 2].nl
      /\ UNCHANGED <<ignore_right_bracket, collect_funcs, context, scopeDepth, labels, exit>>
  BY DEF EndOfExpr, LastOfExpr
<1>4. /\ frame \in Frame /\ frame.fn = Top.fn /\ frame.at = Top.at
      /\ frame.tmp = Top.tmp /\ frame.todo = Rest(Tail(Top.todo), TRUE)
  BY <1>2, AdvancedIs
<1> HIDE DEF frame
<1>5. Top.at < Top.local /\ Top.local < current
  BY <1>2, PastIsGarbage DEF TopOK
<1>6. current <= Len(tokens) + 1
  BY <1>2 DEF CursorOK
<1>7. Top.at < current /\ current - 2 \in 1..Len(tokens)
  BY <1>2, <1>5, <1>6
<1>8. nl_flag' \in BOOLEAN
  <2>1. tokens[current - 2] \in Tok
    BY <1>2, <1>7
  <2> QED
    BY <1>3, <2>1 DEF Tok
<1>9. CursorOK(tokens, current', current', stack)
  BY ONLY <1>2, <1>3, <1>7, StepBack
<1>10. Grows(tokens, tokens') /\ CursorOK(tokens', current', lookahead', stack)
  BY <1>2, <1>3, <1>9, SameTokens
<1>11. TopOK(tokens', current', lookahead', frame)
  <2>1. Tail(Top.todo) = <<>>
    BY <1>2, ExprNext
  <2>2. frame.todo = <<>>
    BY <1>4, <2>1 DEF Rest
  <2> QED
    BY <2>2 DEF TopOK
<1>12. ignore_right_bracket' \in BOOLEAN /\ UNCHANGED ignore_right_bracket
  BY <1>3 DEF IInv, Flags
<1>13. UNCHANGED <<collect_funcs, context, scopeDepth, labels, exit>>
  BY <1>3
<1> QED
  BY ONLY IInv, <1>1, <1>3, <1>4, <1>8, <1>10, <1>11, <1>12, <1>13, ExprStep

\* A call in an expression: the brackets are entered.
LEMMA BeginStep ==
    ASSUME IInv, NEW op \in {"operand", "after_operand"}, Doing(op), NEW then, BeginCall(then),
           \/ op = "operand" /\ then = Tail(Top.todo)
           \/ op = "after_operand" /\ then = <<Do("fail")>>
    PROVE  IInv'
<1>1. op \in ExprOp
  BY DEF ExprOp
<1>2. /\ stack # <<>> /\ FramesOK(stack, tokens) /\ CursorOK(tokens, current, lookahead, stack)
      /\ Top = stack[Len(stack)] /\ Top \in Frame /\ Top.todo # <<>> /\ Head(Top.todo).op = op
      /\ Top.fn = "EXPR" /\ Good("EXPR", tokens[Top.at].kind, Top.todo)
      /\ Top.at \in Nat /\ current \in Nat /\ lookahead \in Nat /\ Top.at <= lookahead
      /\ lookahead <= current
  BY <1>1, ExprIsTop
<1>3. CASE Garbage(current)
  BY <1>3, ExitStep DEF BeginCall
<1>4. CASE ~Garbage(current)
  <2> DEFINE u == <<Do("call_params"), Do("call_end")>> \o then
  <2> DEFINE frame == [Top EXCEPT !.todo = u, !.tmp = ignore_right_bracket]
  <2>1. /\ next /\ lookahead' = nextToken /\ SetTop(frame) /\ ignore_right_bracket' = TRUE
        /\ UNCHANGED <<nl_flag, collect_funcs, context, scopeDepth, labels, exit>>
    BY <1>4 DEF BeginCall
  <2>2. u \in Seq(Statements)
    <3> DEFINE kind == tokens[Top.at].kind
    <3>1. Good("EXPR", kind, u)
      BY <1>2, BeginList, ZenonT(60)
    <3> HIDE DEF u, kind
    <3>2. u \in Seq(Fitting("EXPR", kind)) /\ Fitting("EXPR", kind) \subseteq Statements
      BY <3>1 DEF Good, Fitting
    <3> QED
      BY <3>2
  <2>3. u = <<Do("call_params"), Do("call_end")>> \o then /\ ignore_right_bracket \in BOOLEAN
    BY DEF IInv, Flags
  <2> HIDE DEF u
  <2>4. /\ frame \in Frame /\ frame.fn = Top.fn /\ frame.at = Top.at
        /\ frame.tmp = ignore_right_bracket /\ frame.todo = u
    BY <1>2, <2>2, <2>3 DEF Frame
  <2> HIDE DEF frame
  <2>5. NewTop(stack, stack', frame)
    BY <2>1 DEF SetTop, NewTop
  <2>6. /\ FramesOK(stack', tokens) /\ Opened(stack, stack', "argument")
        /\ \A k \in Thing \ {"argument"} : SameFor(stack, stack', k)
        /\ stack' # <<>> /\ stack'[Len(stack')] = frame /\ Len(stack') = Len(stack)
        /\ \A i \in 1..(Len(stack) - 1) : stack'[i] = stack[i]
        /\ frame.todo # <<>> /\ Head(frame.todo).op = "call_params"
        /\ Len(stack) \notin OwingIn(stack, "bracket")
    <3>1. frame.todo = <<Do("call_params"), Do("call_end")>> \o then
      BY <2>3, <2>4
    <3>2. \/ Head(Top.todo).op = "operand" /\ then = Tail(Top.todo)
          \/ Head(Top.todo).op = "after_operand" /\ then = <<Do("fail")>>
      BY <1>2
    <3> QED
      <4>1. Entering(stack, Top, then, frame, stack')
        BY ONLY <1>2, <2>4, <2>5, <3>1, <3>2 DEF Entering
      <4> QED
        BY ONLY <1>2, <4>1, BeginMoves
  <2>7. stack \in Seq(Frame) /\ stack' \in Seq(Frame)
    BY <1>2, <2>6 DEF FramesOK
  <2>8. /\ Grows(tokens, tokens') /\ CursorOK(tokens', current', lookahead', stack)
        /\ lookahead' = current + 1
    <3>1. ~Past(tokens, current)
      BY <1>4, PastIsGarbage
    <3> QED
      BY <1>2, <2>1, <3>1, NextMoves
  <2>9. FramesOK(stack', tokens')
    BY <2>6, <2>8, FramesGrow
  <2>10. CursorOK(tokens', current', lookahead', stack')
    BY <1>2, <2>4, <2>6, <2>8 DEF CursorOK
  <2>11. TopOK(tokens', current', lookahead', frame)
    <3>1. Top.at < current + 1
      BY <1>2
    <3> QED
      BY <2>4, <2>6, <2>8, <3>1 DEF TopOK
  <2>12. "bracket" \in Thing \ {"argument"} /\ \A k \in {"func", "scope", "inner_scope", "loop",
             "branch", "loop_label", "end_label", "skip_label"} : k \in Thing \ {"argument"}
    BY DEF Thing
  <2>13. CountsOK(stack', inside_loop, inside_branch, scopeDepth, inside_func)
    BY <2>6, <2>12, CountsSame DEF IInv
  <2>14. LabelsOK(stack', collect_funcs, current_loop, current_loop_is_for, loop_label_stack,
                  cycle_type_stack, branch_label_stack)
    BY <2>6, <2>7, <2>12, BranchLabelsSame, LoopLabelsSame DEF IInv, LabelsOK
  <2>15. BracketsOK(stack', ignore_right_bracket')
    <3>1. BracketsOK(stack, ignore_right_bracket) /\ SameFor(stack, stack', "bracket")
      BY <2>6, <2>12 DEF IInv
    <3>2. \A i \in 1..(Len(stack) - 1) : stack'[i].tmp = stack[i].tmp
      BY <2>6
    <3>3. stack'[Len(stack)].tmp <=> ignore_right_bracket
      BY <2>4, <2>6
    <3>4. ArgumentBrackets(stack, stack', Len(stack), ignore_right_bracket,
                           ignore_right_bracket')
      BY <1>2, <2>1, <2>6, <2>7, <3>1, <3>2, <3>3 DEF ArgumentBrackets
    <3> QED
      BY ONLY <3>4, BracketsArguments
  <2>16. Flags'
    BY <2>1 DEF IInv, Flags, context
  <2> QED
    BY <2>1, <2>6, <2>9, <2>10, <2>11, <2>13, <2>14, <2>15, <2>16 DEF IInv, Top, context, labels
<1> QED
  BY <1>3, <1>4

\* The operand of an expression, or the call it begins, keeps the invariant.
LEMMA OperandAction ==
    ASSUME IInv, operand
    PROVE  IInv'
<1> DEFINE op == "operand"
<1>1. Doing(op) /\ op \in ExprOp /\ op # "call_end" /\ op \in {"operand", "after_operand", "fail"}
  BY DEF operand, ExprOp
<1>2. /\ stack # <<>> /\ FramesOK(stack, tokens) /\ CursorOK(tokens, current, lookahead, stack)
      /\ Top \in Frame /\ Top.todo # <<>> /\ Head(Top.todo).op = op
      /\ Top.fn = "EXPR" /\ Good("EXPR", tokens[Top.at].kind, Top.todo)
      /\ Top.at \in Nat /\ Top.local \in Nat /\ TopOK(tokens, current, lookahead, Top)
      /\ current \in Nat
  BY <1>1, ExprIsTop
<1>3. CASE Garbage(Top.local)
  BY <1>3, ExitStep DEF operand
<1>4. ASSUME ~Garbage(Top.local), BeginCall(Tail(Top.todo)) PROVE IInv'
  BY <1>1, <1>4, BeginStep
<1>5. ASSUME ~Garbage(Top.local), GoOn(TRUE) PROVE IInv'
  <2> DEFINE frame == Advanced(Top, TRUE)
  <2>1. /\ SetTop(frame)
        /\ UNCHANGED <<cursor, ignore_right_bracket, collect_funcs, context,
                       scopeDepth, labels, exit>>
    BY <1>5 DEF GoOn, Advance
  <2>2. /\ frame \in Frame /\ frame.fn = Top.fn /\ frame.at = Top.at
        /\ frame.tmp = Top.tmp /\ frame.todo = Rest(Tail(Top.todo), TRUE)
    BY <1>2, AdvancedIs
  <2> HIDE DEF frame
  <2>3. Top.at < current
    BY <1>2, <1>5, PastIsGarbage DEF TopOK
  <2>4. Tail(Top.todo) # <<>> /\ Head(Tail(Top.todo)).op \in {"next_token", "fail"}
    BY <1>2, ExprNext
  <2>5. TopOK(tokens, current, lookahead, frame)
    <3>1. frame.todo = Tail(Top.todo)
      BY <2>2 DEF Rest
    <3> QED
      BY <2>2, <2>3, <2>4, <3>1 DEF TopOK
  <2>6. Grows(tokens, tokens') /\ CursorOK(tokens', current', lookahead', stack)
        /\ TopOK(tokens', current', lookahead', frame)
    BY <1>2, <2>1, <2>5, SameTokens DEF cursor
  <2>7. nl_flag' \in BOOLEAN /\ ignore_right_bracket' \in BOOLEAN /\ UNCHANGED ignore_right_bracket
        /\ UNCHANGED <<collect_funcs, context, scopeDepth, labels, exit>>
    BY <2>1 DEF IInv, Flags, cursor
  <2> QED
    BY ONLY IInv, <1>1, <2>1, <2>2, <2>6, <2>7, ExprStep
<1>6. ASSUME Fail PROVE IInv'
  BY <1>1, <1>6, FailStep
<1>7. ASSUME MaySemanticExit PROVE IInv'
  BY <1>7, ExitStep DEF MaySemanticExit
<1>8. CASE ~Garbage(Top.local) /\ IsCall
  BY <1>4, <1>8 DEF operand
<1>9. CASE ~Garbage(Top.local) /\ ~IsCall /\ TokenKind(Top.local) \in FirstOfExpr
  BY <1>5, <1>7, <1>9 DEF operand
<1>10. CASE ~Garbage(Top.local) /\ ~IsCall /\ TokenKind(Top.local) \notin FirstOfExpr
  BY <1>6, <1>10 DEF operand
<1> QED
  BY <1>3, <1>8, <1>9, <1>10

\* The end of an expression, with its step back, keeps the invariant.
LEMMA AfterOperandAction ==
    ASSUME IInv, after_operand
    PROVE  IInv'
<1> DEFINE op == "after_operand"
<1>1. Doing(op) /\ op \in {"operand", "after_operand", "fail"}
  BY DEF after_operand
<1>2. CASE Garbage(Top.local)
  BY <1>2, ExitStep DEF after_operand
<1>3. ASSUME ~Garbage(Top.local), EndOfExpr PROVE IInv'
  BY <1>1, <1>3, EndStep
<1>4. ASSUME BeginCall(<<Do("fail")>>) PROVE IInv'
  BY <1>1, <1>4, BeginStep
<1>5. ASSUME Fail PROVE IInv'
  BY <1>1, <1>5, FailStep
<1>6. CASE ~Garbage(Top.local)
  <2>1. EndOfExpr \/ BeginCall(<<Do("fail")>>) \/ Fail
    BY <1>6 DEF after_operand
  <2> QED
    BY <1>3, <1>4, <1>5, <1>6, <2>1
<1> QED
  BY <1>2, <1>6

\* A refused second operand keeps the invariant.
LEMMA FailAction ==
    ASSUME IInv, fail
    PROVE  IInv'
<1> DEFINE op == "fail"
<1>1. Doing(op) /\ op \in {"operand", "after_operand", "fail"} /\ Fail
  BY DEF fail
<1> QED
  BY <1>1, FailStep

\* The end of a call: the flag is again what it was before the brackets.
LEMMA CallEndAction ==
    ASSUME IInv, call_end
    PROVE  IInv'
<1> DEFINE op == "call_end"
<1>1. Doing(op) /\ op \in ExprOp
  BY DEF call_end, ExprOp
<1>2. /\ stack # <<>> /\ FramesOK(stack, tokens) /\ CursorOK(tokens, current, lookahead, stack)
      /\ Top = stack[Len(stack)] /\ Top \in Frame /\ FrameOK(Top, tokens)
      /\ Top.todo # <<>> /\ Head(Top.todo).op = op
      /\ Top.fn = "EXPR" /\ Good("EXPR", tokens[Top.at].kind, Top.todo)
      /\ Top.at \in Nat /\ Top.s \in BOOLEAN /\ Top.tmp \in BOOLEAN
      /\ TopOK(tokens, current, lookahead, Top)
      /\ current \in Nat /\ lookahead \in Nat /\ lookahead <= current
  BY <1>1, ExprIsTop
<1>3. CASE MaySemanticExit
  BY <1>3, ExitStep DEF MaySemanticExit
<1> DEFINE later == Advanced(Top, Top.s)
<1> DEFINE frame == [later EXCEPT !.local = lookahead]
<1>4. CASE /\ next /\ SetTop(frame) /\ ignore_right_bracket' = Top.tmp
           /\ UNCHANGED <<lookahead, nl_flag, collect_funcs, context, scopeDepth,
                          labels, exit>>
  <2>1. /\ later \in Frame /\ later.fn = Top.fn /\ later.at = Top.at
        /\ later.tmp = Top.tmp /\ later.todo = Rest(Tail(Top.todo), Top.s)
    BY <1>2, AdvancedIs
  <2>2. SetTop(frame)
    BY <1>4
  <2> HIDE DEF later
  <2>3. /\ frame \in Frame /\ frame.fn = Top.fn /\ frame.at = Top.at
        /\ frame.tmp = Top.tmp /\ frame.todo = Rest(Tail(Top.todo), Top.s)
        /\ frame.local = lookahead
    <3>1. frame \in Frame
      BY <1>2, <2>1 DEF Frame
    <3>2. /\ frame.fn = later.fn /\ frame.at = later.at
          /\ frame.tmp = later.tmp /\ frame.todo = later.todo /\ frame.local = lookahead
      BY <2>1 DEF Frame
    <3> QED
      BY <2>1, <3>1, <3>2
  <2> HIDE DEF frame
  <2>4. /\ Grows(tokens, tokens') /\ \A i \in Nat : Past(tokens, i) => Past(tokens', i)
        /\ CursorOK(tokens', current', lookahead, stack)
        /\ current <= current' /\ (Past(tokens, current) \/ current' = current + 1)
    BY <1>2, <1>4, NextMoves
  <2>5. Past(tokens', lookahead) \/ lookahead < current'
    <3>1. current' = current + 1 => lookahead < current'
      BY <1>2
    <3>2. ASSUME Past(tokens, current), ~Past(tokens, lookahead) PROVE lookahead < current'
      <4>1. current \in Nat /\ lookahead \in Nat /\ Len(tokens) \in Nat
        BY <1>1, <1>2, ExprIsTop
      <4>2. lookahead < current
        BY <3>2, <4>1 DEF Past
      <4>3. current' \in Nat
        <5>1. tokens' \in Seq(Tok)
          BY <2>4 DEF Grows
        <5> QED
          BY <2>4, <5>1 DEF CursorOK
      <4> QED
        BY <2>4, <4>1, <4>2, <4>3
    <3> QED
      BY <1>2, <2>4, <3>1, <3>2
  <2>6. TopOK(tokens', current', lookahead', frame)
    <3> DEFINE u == Tail(Top.todo)
    <3>1. u # <<>> /\ Head(u).op \in {"next_token", "fail"}
      BY <1>2, ExprNext
    <3>2. frame.todo = u
      <4>1. Good("EXPR", tokens[Top.at].kind, u)
        BY <1>2, GoodTail
      <4> QED
        BY <2>3, <4>1, GoodRest
    <3> HIDE DEF u
    <3>3. Top.at < lookahead
      BY <1>2 DEF TopOK
    <3>4. Top.at < current'
      <4>1. current' \in Nat
        <5>1. tokens' \in Seq(Tok)
          BY <2>4 DEF Grows
        <5> QED
          BY <2>4, <5>1 DEF CursorOK
      <4> QED
        BY <1>2, <2>4, <3>3, <4>1
    <3> QED
      BY <2>3, <3>1, <3>2, <3>4 DEF TopOK
  <2>7. NewTop(stack, stack', frame)
    BY <2>2 DEF SetTop, NewTop
  <2>8. /\ FramesOK(stack', tokens') /\ Moves(stack, stack', Head(Top.todo).op)
        /\ stack \in Seq(Frame)
    <3>1. /\ FramesOK(stack, tokens) /\ stack # <<>> /\ Top = stack[Len(stack)]
          /\ Top.todo # <<>> /\ Grows(tokens, tokens')
      BY <1>2, <2>4
    <3>2. /\ FramesOK(stack', tokens') /\ Moves(stack, stack', Head(Top.todo).op)
          /\ stack' # <<>> /\ stack'[Len(stack')] = frame
          /\ stack \in Seq(Frame) /\ stack' \in Seq(Frame)
      BY ONLY <2>3, <2>7, <3>1, TopMoves
    <3> QED
      BY <3>2
  <2>9. BracketsOK(stack', ignore_right_bracket')
    <3>1. Moves(stack, stack', op) /\ BracketsOK(stack, ignore_right_bracket)
      BY <1>2, <2>8 DEF IInv
    <3>2. /\ "bracket" \in Thing /\ "argument" \in Thing
          /\ Closer("argument") = op /\ op \notin Openers("bracket") \cup {Closer("bracket")}
      BY DEF Thing, Closer, Openers
    <3>3. Shut(stack, stack', "argument") /\ SameFor(stack, stack', "bracket")
      BY <3>1, <3>2 DEF Moves
    <3>4. Len(stack) \notin OwingIn(stack, "bracket")
      <4>1. ~Owes(Top.todo, "bracket")
        BY <1>2, OwesFits
      <4> QED
        BY <1>2, <4>1 DEF OwingIn
    <3>5. \A i \in 1..(Len(stack) - 1) : stack'[i].tmp = stack[i].tmp
      <4>1. \A i \in 1..Len(stack) : stack'[i].tmp = stack[i].tmp
        BY <3>1 DEF Moves
      <4> QED
        BY <2>8, <4>1
    <3>6. ignore_right_bracket' <=> stack[Len(stack)].tmp
      BY <1>2, <1>4
    <3>7. ArgumentBrackets(stack, stack', Len(stack), ignore_right_bracket,
                           ignore_right_bracket')
      BY <1>2, <2>8, <3>1, <3>3, <3>4, <3>5, <3>6 DEF ArgumentBrackets
    <3> QED
      BY ONLY <3>7, BracketsArguments
  <2>10. CursorOK(tokens', current', lookahead', stack)
    BY <1>4, <2>4
  <2>11. nl_flag' \in BOOLEAN /\ ignore_right_bracket' \in BOOLEAN
         /\ UNCHANGED <<collect_funcs, context, scopeDepth, labels, exit>>
    BY <1>2, <1>4 DEF IInv, Flags
  <2> QED
    BY ONLY IInv, <1>1, <2>2, <2>3, <2>4, <2>6, <2>9, <2>10, <2>11, ExprStep
<1> QED
  BY <1>3, <1>4 DEF call_end, RestoredIgnore
-----------------------------------------------------------------------------
(* The two passes *)

\* When nothing is open no label is on a stack.
LEMMA LabelsAtEnd ==
    ASSUME NEW stk, \A k \in Thing : OwingIn(stk, k) = {}, NEW first, NEW label, NEW is_for,
           NEW llabels, NEW kinds, NEW blabels
    PROVE  LabelsOK(stk, first, label, is_for, llabels, kinds, blabels) <=>
               NoLabels(label, is_for, llabels, kinds, blabels)
<1>1. Keys(stk) = {} /\ OwingIn(stk, "loop_label") = {}
  BY DEF Keys, Thing
<1>2. \A w \in Seq(Nat) : Enumerates(w, {}) <=> w = <<>>
  <2>1. ASSUME NEW w \in Seq(Nat), Enumerates(w, {}) PROVE w = <<>>
    <3>1. Len(w) \in Nat /\ \A p \in 1..Len(w) : w[p] \in {}
      BY <2>1 DEF Enumerates
    <3>2. Len(w) = 0
      BY <3>1
    <3> QED
      BY <3>2, EmptySeq
  <2>2. <<>> \in Seq({}) /\ Len(<<>>) = 0
    OBVIOUS
  <2>3. Enumerates(<<>>, {})
    BY <2>2 DEF Enumerates
  <2> QED
    BY <2>1, <2>3
<1>3. <<>> \in Seq(Nat) /\ <<>> \in Seq(BOOLEAN) /\ <<>> \in Seq({"end", "skip"} \X Nat)
      /\ Len(<<>>) = 0
  OBVIOUS
<1>4. BranchLabelsOK(stk, blabels) <=> blabels = <<>>
  <2>1. ASSUME BranchLabelsOK(stk, blabels) PROVE blabels = <<>>
    <3>1. blabels \in Seq({"end", "skip"} \X Nat) /\ Len(blabels) = 0
      BY <1>1, <1>2, <2>1 DEF BranchLabelsOK, Stacked
    <3> QED
      BY <3>1, EmptySeq
  <2>2. ASSUME blabels = <<>> PROVE BranchLabelsOK(stk, blabels)
    <3> DEFINE w == <<>>
    <3>1. w \in Seq(Nat) /\ Len(w) = 0 /\ Enumerates(w, {})
      BY <1>2, <1>3
    <3> HIDE DEF w
    <3>2. \A p \in 1..Len(w) : Labelled(stk, w[p], blabels[p])
      BY <3>1
    <3>3. blabels \in Seq({"end", "skip"} \X Nat) /\ Len(blabels) = Len(w)
      BY <1>3, <2>2, <3>1
    <3> QED
      BY <1>1, <3>1, <3>2, <3>3 DEF BranchLabelsOK, Stacked
  <2> QED
    BY <2>1, <2>2
<1>5. LoopLabelsOK(stk, label, is_for, llabels, kinds) <=>
          label = 0 /\ is_for = FALSE /\ llabels = <<>> /\ kinds = <<>>
  <2>1. ASSUME LoopLabelsOK(stk, label, is_for, llabels, kinds)
        PROVE  label = 0 /\ is_for = FALSE /\ llabels = <<>> /\ kinds = <<>>
    <3>1. /\ is_for \in BOOLEAN /\ kinds \in Seq(BOOLEAN)
          /\ LoopList(stk, <<>>, label, is_for, llabels, kinds)
      BY <1>1, <1>2, <2>1 DEF LoopLabelsOK
    <3>2. Len(kinds) = 0 /\ label = 0 /\ ~is_for /\ llabels = <<>>
      BY <1>3, <3>1 DEF LoopList
    <3> QED
      BY <3>1, <3>2, EmptySeq
  <2>2. ASSUME label = 0, is_for = FALSE, llabels = <<>>, kinds = <<>>
        PROVE  LoopLabelsOK(stk, label, is_for, llabels, kinds)
    <3>1. LoopList(stk, <<>>, label, is_for, llabels, kinds)
      BY <1>3, <2>2 DEF LoopList
    <3> QED
      BY <1>1, <1>2, <1>3, <2>2, <3>1 DEF LoopLabelsOK
  <2> QED
    BY <2>1, <2>2
<1> QED
  BY <1>4, <1>5 DEF LabelsOK, NoLabels

\* No function is on the stack, or S alone and at its end.
LEMMA NothingOwed ==
    ASSUME NEW stk, \A i \in 1..Len(stk) : stk[i].todo = <<>>
    PROVE  \A k : OwingIn(stk, k) = {}
BY EmptyOwesNothing DEF OwingIn

\* Two stacks that owe nothing owe the same.
LEMMA BothOweNothing ==
    ASSUME NEW stk, NEW stk2, \A k \in Thing : OwingIn(stk, k) = {},
           \A k \in Thing : OwingIn(stk2, k) = {}
    PROVE  SameForAll(stk, stk2)
BY DEF SameForAll, SameFor

\* main calls S.
Beginning(toks, frame, stk) ==
    /\ toks \in Seq(Tok) /\ frame \in Frame /\ frame.fn = "S" /\ frame.at \in 1..Len(toks)
    /\ frame.todo = Body("S", toks[frame.at].kind) /\ stk = <<frame>>

\* The frame of S owes nothing.
LEMMA FirstFrame ==
    ASSUME NEW toks, NEW frame, NEW stk, Beginning(toks, frame, stk)
    PROVE  /\ FramesOK(stk, toks) /\ \A k \in Thing : OwingIn(stk, k) = {}
           /\ stk # <<>> /\ Len(stk) = 1 /\ stk[Len(stk)] = frame
<1> USE DEF Beginning
<1>1. stk \in Seq(Frame) /\ Len(stk) = 1 /\ stk[1] = frame /\ stk # <<>>
  OBVIOUS
<1>2. "S" \in Function /\ toks[frame.at].kind \in Ahead
  <2>1. toks[frame.at] \in Tok
    OBVIOUS
  <2> QED
    BY <2>1 DEF Tok, Function
<1>3. Good("S", toks[frame.at].kind, frame.todo) /\ \A k \in Thing : ~Owes(frame.todo, k)
  BY <1>2, FreshBody DEF Fresh
<1>4. FrameOK(frame, toks)
  BY <1>3 DEF FrameOK
<1>5. FramesOK(stk, toks)
  BY <1>1, <1>4 DEF FramesOK
<1>6. \A k \in Thing : OwingIn(stk, k) = {}
  BY <1>1, <1>3 DEF OwingIn
<1> QED
  BY <1>1, <1>5, <1>6

\* Both passes begin with the invariant.
LEMMA StartPassAction ==
    ASSUME IInv, StartPass
    PROVE  IInv'
<1>1. CASE Garbage(nextToken)
  BY <1>1, ExitStep DEF StartPass
<1>2. CASE ~Garbage(nextToken)
  <2> DEFINE toks == tokens'
  <2> DEFINE cur == current'
  <2> DEFINE stk == stack'
  <2> DEFINE frame == [fn |-> "S", at |-> nextToken, todo |-> S(toks[nextToken].kind),
                       s |-> TRUE, heed |-> TRUE, local |-> 0, line_ends |-> FALSE,
                       tmp |-> FALSE]
  <2>1. /\ stack = <<>> /\ collect_funcs' = ~collect_funcs /\ scopeDepth' = 0
        /\ toks \in Read(current + 1) /\ cur = nextToken /\ lookahead' = nextToken
        /\ stk = <<frame>> /\ UNCHANGED <<nl_flag, ignore_right_bracket, context, exit>>
        /\ UNCHANGED <<current_loop, current_loop_is_for>>
        /\ \/ ~collect_funcs /\ UNCHANGED <<loop_label_stack, cycle_type_stack, branch_label_stack>>
           \/ /\ loop_label_stack' = <<>> /\ cycle_type_stack' = <<>>
              /\ branch_label_stack' = <<>>
    BY <1>2 DEF StartPass, BeginS, ThisPass, next, nextToken, labels
  <2>2. /\ \E v \in Vocabulary : tokens \in Programs(v)
        /\ current \in 0..(Len(tokens) + 1)
        /\ Past(tokens, current) \/ current <= Len(tokens)
        /\ collect_funcs \in BOOLEAN
    BY DEF IInv, CursorOK, Flags
  <2> HIDE DEF toks, cur
  <2>3. /\ \E v \in Vocabulary : toks \in Programs(v)
        /\ cur \in 0..(Len(toks) + 1) /\ (Past(toks, cur) \/ cur <= Len(toks))
        /\ Past(tokens, current) \/ cur = current + 1
        /\ Past(toks, cur) => Past(tokens, cur)
    BY <2>1, <2>2, NextReads
  <2>4. ~Past(tokens, cur) /\ ~Past(tokens, current)
    <3>1. ~Past(tokens, cur)
      BY <1>2, <2>1, PastIsGarbage
    <3>2. Past(tokens, current) => cur = current
      BY <2>1, PastIsGarbage DEF nextToken
    <3> QED
      BY <3>1, <3>2
  <2>5. toks \in Seq(Tok) /\ Len(toks) \in Nat /\ cur \in Nat /\ current \in Nat
    <3>1. toks \in Seq(Tok) /\ tokens \in Seq(Tok)
      BY <2>2, <2>3, TokensAreTyped
    <3> QED
      BY <2>2, <2>3, <3>1
  <2>6. cur \in 1..Len(toks)
    BY <2>3, <2>4, <2>5
  <2>7. toks[cur] \in Tok /\ toks[cur].kind \in Ahead
    <3>1. toks[cur] \in Tok
      BY <2>5, <2>6
    <3> QED
      BY <3>1 DEF Tok
  <2>8. frame.fn = "S" /\ frame.at = cur /\ frame.todo = Body("S", toks[cur].kind)
    BY <2>1 DEF Body
  <2>9. frame \in Frame
    <3>1. "S" \in Function
      BY DEF Function
    <3>2. S(toks[nextToken].kind) \in Seq(Statements)
      <4> DEFINE t == Body("S", toks[cur].kind)
      <4> DEFINE F == Fitting("S", toks[cur].kind)
      <4>1. t \in Seq(F)
        BY <2>7, <3>1, FreshBody DEF Fresh, Good
      <4>2. F \subseteq Statements
        BY DEF Fitting
      <4> HIDE DEF F, t
      <4>3. t \in Seq(Statements)
        BY <4>1, <4>2
      <4> QED
        BY <2>8, <4>3 DEF t
    <3>3. nextToken \in Nat
      BY <2>1, <2>5
    <3> QED
      BY <3>1, <3>2, <3>3 DEF Frame
  <2> HIDE DEF frame
  <2>10. frame.at \in 1..Len(toks) /\ frame.todo = Body("S", toks[frame.at].kind)
    BY <2>6, <2>8
  <2>11. /\ FramesOK(stk, toks) /\ \A k \in Thing : OwingIn(stk, k) = {}
         /\ stk # <<>> /\ Len(stk) = 1 /\ stk[Len(stk)] = frame
    <3>1. Beginning(toks, frame, stk)
      BY <2>1, <2>5, <2>8, <2>9, <2>10 DEF Beginning
    <3> QED
      BY ONLY <3>1, FirstFrame
  <2>12. \A k \in Thing : OwingIn(stack, k) = {}
    <3>1. stack = <<>> /\ Len(<<>>) = 0
      BY <2>1
    <3>2. \A i \in 1..Len(stack) : stack[i].todo = <<>>
      BY <3>1
    <3> QED
      BY <3>2, NothingOwed
  <2>13. SameForAll(stack, stk) /\ stack \in Seq(Frame) /\ stk \in Seq(Frame)
    BY <2>11, <2>12, BothOweNothing DEF FramesOK, IInv
  <2>14. CursorOK(toks, cur, lookahead', stk)
    BY <2>1, <2>3, <2>6, <2>8, <2>11 DEF CursorOK
  <2>15. TopOK(toks, cur, lookahead', frame)
    <3>1. TopOK(toks, cur, frame.at, frame)
      BY <2>7, <2>8, BodyStarts DEF Function
    <3> QED
      BY <2>1, <2>8, <3>1
  <2>16. CountsOK(stk, inside_loop, inside_branch, scopeDepth', inside_func)
    <3>1. scopeDepth = 0
      BY <2>12, CountsAtEnd DEF IInv
    <3>2. CountsOK(stk, inside_loop, inside_branch, scopeDepth, inside_func)
      BY <2>13, NothingOpened DEF IInv
    <3> QED
      BY <2>1, <3>1, <3>2
  <2>17. BracketsOK(stk, ignore_right_bracket)
    BY <2>13, NothingOpened DEF IInv
  <2>18. LabelsOK(stk, collect_funcs', current_loop', current_loop_is_for', loop_label_stack',
                  cycle_type_stack', branch_label_stack')
    <3>1. NoLabels(current_loop, current_loop_is_for, loop_label_stack, cycle_type_stack,
                   branch_label_stack)
      <4>1. LabelsOK(stack, collect_funcs, current_loop, current_loop_is_for, loop_label_stack,
                     cycle_type_stack, branch_label_stack)
        BY DEF IInv
      <4> QED
        BY ONLY <2>12, <4>1, LabelsAtEnd
    <3>2. NoLabels(current_loop', current_loop_is_for', loop_label_stack', cycle_type_stack',
                   branch_label_stack')
      BY <2>1, <3>1 DEF NoLabels
    <3> QED
      BY <2>11, <3>2, LabelsAtEnd
  <2>19. Flags'
    BY <2>1, <2>2 DEF IInv, Flags, context
  <2> QED
    BY <2>1, <2>11, <2>14, <2>15, <2>16, <2>17, <2>18, <2>19 DEF IInv, Top, context, toks, cur
<1> QED
  BY <1>1, <1>2

\* The end of a pass keeps the invariant: nothing is owed there.
LEMMA EndOfPassAction ==
    ASSUME IInv, EndOfPass
    PROVE  IInv'
<1>1. CASE Exit(IF Top.s THEN "success" ELSE "syntax")
  BY <1>1, ExitStep
<1>2. CASE /\ stack' = <<>> /\ current' = Start /\ Len(stack) = 1 /\ Top.todo = <<>>
           /\ UNCHANGED <<tokens, lookahead, nl_flag, ignore_right_bracket,
                          collect_funcs, context, scopeDepth, labels, exit>>
  <2>1. SameForAll(stack, stack') /\ stack \in Seq(Frame) /\ stack' \in Seq(Frame)
    <3>1. \A k \in Thing : OwingIn(stack, k) = {} /\ OwingIn(stack', k) = {}
      <4>1. Len(stack) = 1 /\ stack[1].todo = <<>> /\ stack' = <<>> /\ Len(<<>>) = 0
        BY <1>2 DEF Top
      <4>2. \A i \in 1..Len(stack) : stack[i].todo = <<>>
        BY <4>1
      <4>3. \A i \in 1..Len(stack') : stack'[i].todo = <<>>
        BY <4>1
      <4> QED
        BY <4>2, <4>3, NothingOwed
    <3>2. <<>> \in Seq(Frame)
      OBVIOUS
    <3> QED
      BY <1>2, <3>1, <3>2, BothOweNothing DEF IInv, FramesOK
  <2>2. /\ CountsOK(stack', inside_loop, inside_branch, scopeDepth, inside_func)
        /\ BracketsOK(stack', ignore_right_bracket)
        /\ LabelsOK(stack', collect_funcs, current_loop, current_loop_is_for, loop_label_stack,
                    cycle_type_stack, branch_label_stack)
    BY <2>1, NothingOpened DEF IInv
  <2>3. FramesOK(<<>>, tokens)
    <3>1. <<>> \in Seq(Frame) /\ Len(<<>>) = 0
      OBVIOUS
    <3> QED
      BY <3>1 DEF FramesOK
  <2>4. CursorOK(tokens, 0, lookahead, <<>>)
    <3>1. CursorOK(tokens, current, lookahead, stack) /\ tokens \in Seq(Tok) /\ Len(tokens) \in Nat
      BY TokensAreTyped DEF IInv, CursorOK
    <3> QED
      BY <3>1 DEF CursorOK
  <2>5. Flags'
    BY <1>2 DEF IInv, Flags, context
  <2> QED
    BY <1>2, <2>2, <2>3, <2>4, <2>5 DEF IInv, Start, Top, context, labels
<1> QED
  BY <1>1, <1>2 DEF EndOfPass

\* The initial state satisfies the invariant.
LEMMA Starts ==
    ASSUME Init
    PROVE  IInv
<1>1. \E v \in Vocabulary : <<>> \in Programs(v)
  <2>1. PICK v \in Vocabulary : v.max \in Nat \ {0}
    BY ParserAssumption
  <2>2. <<>> \in Seq(Token(v)) /\ Len(<<>>) = 0
    OBVIOUS
  <2> QED
    BY <2>1, <2>2 DEF Programs
<1>2. stack = <<>> /\ Len(stack) = 0 /\ stack \in Seq(Frame)
  <2>1. <<>> \in Seq(Frame) /\ Len(<<>>) = 0
    OBVIOUS
  <2> QED
    BY <2>1 DEF Init
<1>3. \A k : OwingIn(stack, k) = {}
  <2>1. \A i \in 1..Len(stack) : stack[i].todo = <<>>
    BY <1>2
  <2> QED
    BY <2>1, NothingOwed
<1>4. FramesOK(stack, tokens)
  BY <1>2 DEF FramesOK
<1>5. CursorOK(tokens, current, lookahead, stack)
  <2>1. Len(<<>>) = 0
    OBVIOUS
  <2> QED
    BY <1>1, <2>1 DEF CursorOK, Init
<1>6. CountsOK(stack, inside_loop, inside_branch, scopeDepth, inside_func)
  BY <1>3, CountsAtEnd DEF Init
<1>7. BracketsOK(stack, ignore_right_bracket)
  BY <1>3 DEF BracketsOK, Ignoring, Init
<1>8. LabelsOK(stack, collect_funcs, current_loop, current_loop_is_for, loop_label_stack,
               cycle_type_stack, branch_label_stack)
  BY <1>3, LabelsAtEnd DEF Init, NoLabels
<1>9. Flags
  BY DEF Flags, Init
<1> QED
  BY <1>2, <1>4, <1>5, <1>6, <1>7, <1>8, <1>9 DEF IInv
-----------------------------------------------------------------------------
(* The theorems *)

\* Every step keeps the invariant.
LEMMA NextPreserves ==
    ASSUME IInv, [Next]_vars
    PROVE  IInv'
<1>1. CASE UNCHANGED vars
  BY <1>1 DEF IInv, Flags, Top, vars, cursor, context, labels
<1>2. CASE StartPass \/ EndOfPass
  BY <1>2, StartPassAction, EndOfPassAction
<1>3. CASE match \/ call \/ call_params \/ return \/ match_id_or_underscore \/ match_colon_or_back
  BY <1>3, MatchActions, CallActions, ReturnAction, ColonAction
<1>4. CASE next_token \/ operand \/ call_end \/ after_operand \/ fail
  BY <1>4, NextTokenAction, OperandAction, CallEndAction, AfterOperandAction, FailAction
<1>5. CASE \/ reject \/ nl_check \/ check_fails \/ check_passes \/ bad_argument
           \/ needs_type \/ add_for_let \/ has_return_true \/ return_type \/ end_of_func
           \/ gen_jump \/ generates_nothing
  BY <1>5, QuietActions
<1>6. CASE enter_func \/ leave_func \/ scope \/ loop \/ branch
  BY <1>6, ContextActions
<1>7. CASE ignore
  BY <1>7, IgnoreActions
<1>8. CASE gen_while_start \/ gen_for_start \/ gen_loop_end
  BY <1>8, LoopLabelActions
<1>9. CASE gen_branch_labels \/ gen_branch_if_end \/ gen_branch_end
  BY <1>9, BranchLabelActions
<1> QED
  BY <1>1, <1>2, <1>3, <1>4, <1>5, <1>6, <1>7, <1>8, <1>9 DEF Next, Stopped

\* In every state: the flags are flags; the cursor is in the token array or one past
\* its end; each frame has statements of its function left, and closes what it has
\* opened; and what the frames owe is what the counters, ignore_right_bracket and the
\* label stacks of codegen.c say.
THEOREM Invariant == Spec => []IInv
<1>1. Init => IInv
  BY Starts
<1>2. IInv /\ [Next]_vars => IInv'
  BY NextPreserves
<1> QED
  BY <1>1, <1>2, PTL DEF Spec

\* The types of the parser's state: the cursor stays in the token array or one
\* past its eof, and none of the counters of parser.c goes below zero.
THEOREM Types == Spec => []TypeOK
<1>1. IInv => TypeOK
  <2> SUFFICES ASSUME IInv PROVE TypeOK
    OBVIOUS
  <2>1. /\ \E v \in Vocabulary : tokens \in Programs(v)
        /\ {current, lookahead} \subseteq 0..(Len(tokens) + 1)
    BY DEF IInv, CursorOK
  <2>2. stack \in Seq(Frame)
    BY DEF IInv, FramesOK
  <2>3. {inside_loop, inside_branch, scopeDepth} \subseteq Nat
    <3>1. \A k : Cardinality(OwingIn(stack, k)) \in Nat
      BY <2>2, OwingFinite
    <3>2. /\ inside_loop \in Nat /\ inside_branch \in Nat
          /\ \E a, b \in Nat : scopeDepth = a + b
      BY <3>1 DEF IInv, CountsOK
    <3> QED
      BY <3>2
  <2>4. /\ current_loop \in Nat /\ current_loop_is_for \in BOOLEAN
        /\ loop_label_stack \in Seq(Nat) /\ cycle_type_stack \in Seq(BOOLEAN)
        /\ branch_label_stack \in Seq({"end", "skip"} \X Nat)
    <3>1. LabelsOK(stack, collect_funcs, current_loop, current_loop_is_for, loop_label_stack,
                   cycle_type_stack, branch_label_stack)
      BY DEF IInv
    <3>2. <<>> \in Seq(Nat) /\ <<>> \in Seq(BOOLEAN) /\ <<>> \in Seq({"end", "skip"} \X Nat)
      OBVIOUS
    <3>3. CASE NoLabels(current_loop, current_loop_is_for, loop_label_stack, cycle_type_stack,
                        branch_label_stack)
      BY <3>2, <3>3 DEF NoLabels
    <3>4. CASE /\ BranchLabelsOK(stack, branch_label_stack)
               /\ LoopLabelsOK(stack, current_loop, current_loop_is_for, loop_label_stack,
                               cycle_type_stack)
      BY <3>4 DEF BranchLabelsOK, Stacked, LoopLabelsOK
    <3> QED
      BY <3>1, <3>3, <3>4 DEF LabelsOK
  <2> QED
    BY <2>1, <2>2, <2>3, <2>4 DEF IInv, Flags, TypeOK
<1> QED
  BY <1>1, Invariant, PTL

\* A pass that accepts the program has closed everything it opened: the second
\* pass of main starts with the globals the first one started with.
THEOREM GlobalsRestored == Spec => []PassRestoresGlobals
<1>1. IInv => PassRestoresGlobals
  <2> SUFFICES ASSUME IInv, Len(stack) = 1, Top.todo = <<>>
               PROVE  /\ ~inside_func /\ inside_loop = 0 /\ inside_branch = 0 /\ scopeDepth = 0
                      /\ ~ignore_right_bracket
                      /\ current_loop = 0 /\ ~current_loop_is_for
                      /\ loop_label_stack = <<>> /\ cycle_type_stack = <<>>
                      /\ branch_label_stack = <<>>
    BY DEF PassRestoresGlobals
  <2>1. \A k : OwingIn(stack, k) = {}
    <3>1. \A i \in 1..Len(stack) : stack[i].todo = <<>>
      BY DEF Top
    <3> QED
      BY <3>1, NothingOwed
  <2>2. ~inside_func /\ inside_loop = 0 /\ inside_branch = 0 /\ scopeDepth = 0
    <3>1. CountsOK(stack, inside_loop, inside_branch, scopeDepth, inside_func)
      BY DEF IInv
    <3> QED
      BY <2>1, <3>1, CountsAtEnd
  <2>3. ~ignore_right_bracket
    BY <2>1 DEF IInv, BracketsOK, Ignoring
  <2>4. NoLabels(current_loop, current_loop_is_for, loop_label_stack, cycle_type_stack,
                 branch_label_stack)
    <3>1. LabelsOK(stack, collect_funcs, current_loop, current_loop_is_for, loop_label_stack,
                   cycle_type_stack, branch_label_stack)
      BY DEF IInv
    <3> QED
      BY ONLY <2>1, <3>1, LabelsAtEnd
  <2> QED
    BY <2>2, <2>3, <2>4 DEF NoLabels
<1> QED
  BY <1>1, Invariant, PTL

\* Inside the brackets of a call are the functions that parse its arguments.
LEMMA BracketsAreCalls ==
    ASSUME NEW stk, NEW toks, FramesOK(stk, toks), stk # <<>>, NEW n, n = Len(stk),
           stk[n].fn = "EXPR", ~Owes(stk[n].todo, "argument")
    PROVE  Ignoring(stk) # {} <=>
               \E i \in 1..n : \/ stk[i].fn = "CALL_PARAM_LIST"
                               \/ /\ stk[i].fn = "NEXT_ID_CALL_OR_ASSIGN"
                                  /\ toks[stk[i].at].kind = "("
<1>1. stk \in Seq(Frame) /\ n \in Nat /\ n >= 1 /\ \A i \in 1..n : FrameOK(stk[i], toks)
  BY DEF FramesOK
<1>2. \A i \in 1..n : i = n \/ (i \in 1..(n - 1) /\ i + 1 \in 1..n)
  BY <1>1
<1>3. \A i \in 1..n : i = 1 \/ (i - 1 \in 1..(n - 1) /\ (i - 1) + 1 = i /\ i - 1 \in 1..n)
  BY <1>1
<1>4. \A i \in 1..(n - 1) : /\ Calls(stk[i].fn, toks[stk[i].at].kind, stk[i + 1].fn)
                            /\ Waits(stk[i], stk[i + 1].fn)
  BY DEF FramesOK
<1>5. \A i \in 1..n : i \in Ignoring(stk) <=>
                          Owes(stk[i].todo, "bracket") \/ Owes(stk[i].todo, "argument")
  BY DEF Ignoring, OwingIn
<1>6. ASSUME NEW i \in Ignoring(stk)
      PROVE  \E j \in 1..n : \/ stk[j].fn = "CALL_PARAM_LIST"
                             \/ /\ stk[j].fn = "NEXT_ID_CALL_OR_ASSIGN"
                                /\ toks[stk[j].at].kind = "("
  <2>1. i \in 1..n /\ (Owes(stk[i].todo, "bracket") \/ Owes(stk[i].todo, "argument"))
    BY DEF Ignoring, OwingIn
  <2>2. CASE Owes(stk[i].todo, "bracket")
    BY <1>1, <2>1, <2>2, OwesFits
  <2>3. CASE Owes(stk[i].todo, "argument")
    <3>1. i \in 1..(n - 1) /\ i + 1 \in 1..n /\ stk[i].fn = "EXPR"
      BY <1>1, <1>2, <2>1, <2>3, OwesFits
    <3>2. stk[i + 1].fn = "CALL_PARAM_LIST"
      BY <1>4, <3>1 DEF Calls
    <3> QED
      BY <3>1, <3>2
  <2> QED
    BY <2>1, <2>2, <2>3
<1>7. ASSUME NEW i \in 1..n, stk[i].fn = "CALL_PARAM_LIST" PROVE Ignoring(stk) # {}
  <2>1. i # 1
    BY <1>7 DEF FramesOK
  <2>2. i - 1 \in 1..(n - 1) /\ (i - 1) + 1 = i /\ i - 1 \in 1..n
    BY <1>3, <2>1
  <2>3. Waits(stk[i - 1], stk[i].fn)
    BY <1>4, <2>2
  <2> QED
    BY <1>5, <1>7, <2>2, <2>3 DEF Waits
<1>8. ASSUME NEW i \in 1..n, stk[i].fn = "NEXT_ID_CALL_OR_ASSIGN", toks[stk[i].at].kind = "("
      PROVE  Ignoring(stk) # {}
  <2>1. i \in 1..(n - 1)
    BY <1>2, <1>8
  <2>2. stk[i + 1].fn = "CALL_PARAM_LIST" /\ Waits(stk[i], stk[i + 1].fn)
    BY <1>4, <1>8, <2>1 DEF Calls
  <2> QED
    BY <1>5, <2>2 DEF Waits
<1> QED
  BY <1>6, <1>7, <1>8

\* ignore_right_bracket, which next_token sets for a call, saves and restores, is
\* set exactly inside the brackets of a call.
THEOREM BracketsEndArguments == Spec => []BracketEndsArguments
<1>1. IInv => BracketEndsArguments
  <2> SUFFICES ASSUME IInv, Doing("after_operand")
               PROVE  ignore_right_bracket <=>
                          \E i \in 1 .. Len(stack) :
                              \/ stack[i].fn = "CALL_PARAM_LIST"
                              \/ /\ stack[i].fn = "NEXT_ID_CALL_OR_ASSIGN"
                                 /\ tokens[stack[i].at].kind = "("
    BY DEF BracketEndsArguments
  <2> DEFINE op == "after_operand"
  <2>1. Doing(op) /\ op \in ExprOp
    BY DEF ExprOp
  <2>2. /\ stack # <<>> /\ FramesOK(stack, tokens) /\ Top = stack[Len(stack)]
        /\ Top.todo # <<>> /\ Head(Top.todo).op = op
        /\ Top.fn = "EXPR" /\ Good("EXPR", tokens[Top.at].kind, Top.todo)
    BY <2>1, ExprIsTop
  <2>3. ~Owes(Top.todo, "argument")
    BY <2>2, ExprOwes
  <2>4. ignore_right_bracket <=> Ignoring(stack) # {}
    BY DEF IInv, BracketsOK
  <2>5. stack[Len(stack)].fn = "EXPR" /\ ~Owes(stack[Len(stack)].todo, "argument")
    BY <2>2, <2>3
  <2> QED
    BY ONLY <2>2, <2>4, <2>5, BracketsAreCalls
<1> QED
  BY <1>1, Invariant, PTL

\* The if whose chain of else the function on top belongs to.
InnerIf(stk, n, j) ==
    /\ n = Len(stk) /\ j \in 1..n /\ stk[j].fn = "BRANCH"
    /\ \A i \in 1..n : stk[i].fn = "BRANCH" => i <= j
    /\ j \in OwingIn(stk, "end_label") /\ n \in OwingIn(stk, "skip_label")
    /\ \A i \in 1..n : /\ i \in OwingIn(stk, "end_label") => i <= j
                       /\ i \in OwingIn(stk, "skip_label") => i = n \/ i < j

\* From the block of an else up to the if before it there are only that else and
\* the ones between.
LEMMA ChainOfElse ==
    ASSUME NEW stk, NEW toks, FramesOK(stk, toks), stk # <<>>, NEW n, n = Len(stk),
           stk[n].todo # <<>>, Head(stk[n].todo).op = "gen_branch_if_end"
    PROVE  \E j \in 1..n : InnerIf(stk, n, j)
<1>1. stk \in Seq(Frame) /\ n \in Nat /\ n >= 1 /\ n \in 1..n /\ \A i \in 1..n : FrameOK(stk[i], toks)
  BY DEF FramesOK
<1>2. \A i \in 1..(n - 1) : /\ Calls(stk[i].fn, toks[stk[i].at].kind, stk[i + 1].fn)
                            /\ Waits(stk[i], stk[i + 1].fn)
  BY DEF FramesOK
<1> DEFINE top == stk[n]
<1> DEFINE t == top.todo
<1>3. /\ Good(top.fn, toks[top.at].kind, t) /\ t # <<>> /\ t \in Seq(Statements)
      /\ Head(t) = t[1] /\ 1 \in 1..Len(t) /\ t[1].op = "gen_branch_if_end"
  BY <1>1, GoodTail, TailIsAfter DEF FrameOK
<1>4. Owes(t, "skip_label")
  <2>1. "skip_label" \in Thing /\ Closer("skip_label") = "gen_branch_if_end"
    BY DEF Thing, Closer
  <2> DEFINE kind == toks[top.at].kind
  <2> DEFINE f == top.fn
  <2>2. Good(f, kind, t)
    BY <1>3
  <2> HIDE DEF t, top, kind, f
  <2> QED
    BY <1>3, <2>1, <2>2, AdvanceOwes
<1>5. top.fn \in {"BRANCH", "ELSE_IF"}
  BY <1>1, <1>4, OwesFits
<1>6. top.fn = "BRANCH" => Owes(t, "end_label")
  <2>1. top.fn = "BRANCH" => Pending(t, 1, "end_label")
    BY <1>3 DEF Good, Ordered
  <2>2. ASSUME Pending(t, 1, "end_label") PROVE Owes(t, "end_label")
    <3>1. \A i \in 1..Len(t) : i = 1 \/ i \in (1 + 1)..Len(t)
      BY <1>3
    <3>2. \A i \in (1 + 1)..Len(t) : i \in 1..Len(t)
      BY <1>3
    <3>3. "gen_branch_if_end" \notin Openers("end_label")
      BY DEF Openers
    <3> QED
      BY <1>3, <2>2, <3>1, <3>2, <3>3 DEF Pending, Owes, Has
  <2> QED
    BY <2>1, <2>2
<1> HIDE DEF t
<1> DEFINE Chain == {"ELSE", "ELSE_IF"}
<1>7. PICK j \in 1..n : stk[j].fn \notin Chain /\ \A i \in 1..n : j < i => stk[i].fn \in Chain
  <2> DEFINE T == {m \in Nat : \E i \in 1..n : m + i = n /\ stk[i].fn \notin Chain}
  <2>1. stk[1].fn = "S" /\ n - 1 \in Nat /\ (n - 1) + 1 = n /\ 1 \in 1..n
    BY <1>1 DEF FramesOK
  <2>2. n - 1 \in T
    BY <2>1
  <2>3. PICK m \in T : \A k \in T : m <= k
    BY <2>2, Least, ZenonT(60)
  <2>4. m \in Nat
    BY <2>3
  <2>5. PICK j \in 1..n : m + j = n /\ stk[j].fn \notin Chain
    BY <2>3
  <2>6. ASSUME NEW i \in 1..n, j < i, stk[i].fn \notin Chain PROVE FALSE
    <3>1. n - i \in Nat /\ (n - i) + i = n /\ n - i < m
      BY <1>1, <2>4, <2>5, <2>6
    <3>2. n - i \in T
      BY <2>6, <3>1
    <3> HIDE DEF T
    <3>3. m <= n - i
      BY <2>3, <3>2
    <3> QED
      BY <2>4, <3>1, <3>3
  <2> QED
    BY <2>5, <2>6
<1>8. \A i \in 1..n : i = n \/ (i \in 1..(n - 1) /\ i + 1 \in 1..n /\ i < n)
  BY <1>1
<1>9. ASSUME j # n
      PROVE  stk[j].fn = "BRANCH" /\ Owes(stk[j].todo, "end_label") /\ ~Owes(stk[j].todo, "skip_label")
  <2>1. j \in 1..(n - 1) /\ j + 1 \in 1..n /\ j < j + 1
    BY <1>1, <1>8, <1>9
  <2>2. stk[j + 1].fn \in Chain
    BY <1>7, <2>1
  <2>3. stk[j + 1].fn = "ELSE" /\ stk[j].fn = "BRANCH"
    BY <1>2, <1>7, <2>1, <2>2 DEF Calls
  <2> QED
    BY <1>2, <2>1, <2>3 DEF Waits
<1>10. ASSUME j = n
       PROVE  stk[j].fn = "BRANCH" /\ Owes(stk[j].todo, "end_label")
  BY <1>5, <1>6, <1>7, <1>10 DEF t
<1>11. stk[j].fn = "BRANCH" /\ Owes(stk[j].todo, "end_label")
  BY <1>9, <1>10
<1>12. \A i \in 1..n : i < j \/ i = j \/ j < i
  BY <1>1
<1>13. ASSUME NEW i \in 1..n, stk[i].fn = "BRANCH" PROVE i <= j
  BY <1>1, <1>7, <1>12, <1>13
<1>14. ASSUME NEW i \in 1..n, Owes(stk[i].todo, "end_label") PROVE i <= j
  BY <1>1, <1>13, <1>14, OwesFits
<1>15. ASSUME NEW i \in 1..n, Owes(stk[i].todo, "skip_label") PROVE i = n \/ i < j
  <2>1. CASE i # n /\ j < i
    <3>1. stk[i].fn \in Chain /\ stk[i].fn \in {"BRANCH", "ELSE_IF"}
      BY <1>1, <1>7, <1>15, <2>1, OwesFits
    <3>2. i \in 1..(n - 1) /\ i + 1 \in 1..n /\ j < i + 1
      BY <1>1, <1>8, <2>1
    <3>3. stk[i + 1].fn \in Chain /\ stk[i].fn = "ELSE_IF"
      BY <1>7, <3>1, <3>2
    <3>4. stk[i + 1].fn = "ELSE"
      BY <1>2, <3>2, <3>3 DEF Calls
    <3> QED
      BY <1>2, <1>15, <3>2, <3>4 DEF Waits
  <2>2. CASE i # n /\ i = j
    BY <1>9, <1>15, <2>2
  <2> QED
    BY <1>12, <2>1, <2>2
<1>16. \A i \in 1..n : \A k : i \in OwingIn(stk, k) <=> Owes(stk[i].todo, k)
  BY DEF OwingIn
<1>17. InnerIf(stk, n, j)
  BY <1>1, <1>4, <1>11, <1>13, <1>14, <1>15, <1>16 DEF InnerIf, t
<1> QED
  BY <1>17

\* The labels on top of the stack where the block of an if ends.
LEMMA LabelsOfIf ==
    ASSUME NEW stk \in Seq(Frame), stk # <<>>, NEW n, NEW j, InnerIf(stk, n, j),
           NEW blabels, BranchLabelsOK(stk, blabels)
    PROVE  /\ Len(blabels) > 1 /\ Last(blabels) = <<"skip", stk[n].at>>
           /\ Last(Popped(blabels)) = <<"end", stk[j].at>>
<1> DEFINE K == Keys(stk)
<1> DEFINE m == 2 * n + 1
<1> DEFINE l == 2 * j
<1> DEFINE K2 == K \ {m}
<1>1. /\ n = Len(stk) /\ n \in Nat /\ j \in Nat /\ j \in 1..n /\ n \in 1..n
      /\ j \in OwingIn(stk, "end_label") /\ n \in OwingIn(stk, "skip_label")
      /\ \A i \in 1..n : /\ i \in OwingIn(stk, "end_label") => i <= j
                         /\ i \in OwingIn(stk, "skip_label") => i = n \/ i < j
  BY DEF InnerIf
<1>2. K \in SUBSET Nat /\ m \in K /\ l \in K
  BY <1>1, KeysAre
<1>3. \A k : OwingIn(stk, k) \subseteq 1..n
  BY <1>1 DEF OwingIn
<1>4. \A i \in 1..n : /\ i <= j => 2 * i <= 2 * j /\ 2 * i <= 2 * n + 1 /\ 2 * i # 2 * n + 1
                      /\ i < j => 2 * i + 1 <= 2 * j /\ 2 * i + 1 <= 2 * n + 1
                      /\ i = n => 2 * i + 1 = 2 * n + 1
  BY <1>1
<1>5. \A x \in K : x = m \/ (x <= l /\ x <= m)
  BY <1>1, <1>3, <1>4 DEF Keys
<1>6. l # m /\ m <= m
  BY <1>1
<1>7. Labelled(stk, m, <<"skip", stk[n].at>>) /\ \A label : Labelled(stk, m, label) =>
          label = <<"skip", stk[n].at>>
  BY <1>1, KeysBelow
<1>8. \A label : Labelled(stk, l, label) => label = <<"end", stk[j].at>>
  BY <1>1 DEF Labelled
<1>9. Stacked(stk, K, blabels)
  BY DEF BranchLabelsOK
<1> HIDE DEF K, m, l
<1>10. \A x \in K : x <= m
  BY <1>5, <1>6
<1>11. /\ blabels # <<>> /\ Len(blabels) \in Nat /\ Labelled(stk, m, Last(blabels))
       /\ Stacked(stk, K2, Popped(blabels)) /\ Len(Popped(blabels)) = Len(blabels) - 1
  BY <1>2, <1>9, <1>10, StackedPop
<1>12. K2 \in SUBSET Nat /\ l \in K2 /\ \A x \in K2 : x <= l
  BY <1>2, <1>5, <1>6
<1> HIDE DEF K2
<1>13. Popped(blabels) # <<>> /\ Labelled(stk, l, Last(Popped(blabels)))
  BY <1>11, <1>12, StackedPop
<1>14. Len(Popped(blabels)) # 0
  <2>1. Popped(blabels) \in Seq({"end", "skip"} \X Nat)
    BY <1>11 DEF Stacked
  <2> QED
    BY <1>13, <2>1, EmptySeq
<1>15. Len(blabels) > 1
  <2>1. Len(Popped(blabels)) \in Nat
    BY <1>11 DEF Stacked
  <2> QED
    BY <1>11, <1>14, <2>1
<1> QED
  BY <1>7, <1>8, <1>11, <1>13, <1>15

\* The labels codegen.c keeps on one stack for all chains of if and else are, at
\* every gen_branch_if_end and gen_branch_end, those of the if the parser is at.
THEOREM BranchLabels == Spec => []BranchLabelsNest
<1>1. IInv => BranchLabelsNest
  <2> SUFFICES ASSUME IInv, ~collect_funcs PROVE BranchLabelsNest
    BY DEF BranchLabelsNest
  <2> DEFINE n == Len(stack)
  <2>1. /\ FramesOK(stack, tokens) /\ BranchLabelsOK(stack, branch_label_stack)
        /\ stack \in Seq(Frame)
    BY DEF IInv, LabelsOK, FramesOK
  <2>2. ASSUME Doing("gen_branch_if_end")
        PROVE  LET chain == {i \in 1 .. n : stack[i].fn = "BRANCH"}
                   inner == CHOOSE i \in chain : \A j \in chain : j <= i
               IN  /\ Len(branch_label_stack) > 1
                   /\ Last(branch_label_stack) = <<"skip", Top.at>>
                   /\ Last(Popped(branch_label_stack)) = <<"end", stack[inner].at>>
    <3> DEFINE chain == {i \in 1 .. n : stack[i].fn = "BRANCH"}
    <3> DEFINE inner == CHOOSE i \in chain : \A j \in chain : j <= i
    <3>1. /\ stack # <<>> /\ Top = stack[n]
          /\ stack[n].todo # <<>> /\ Head(stack[n].todo).op = "gen_branch_if_end"
      BY <2>2 DEF Doing, Top
    <3>2. PICK j \in 1..n : InnerIf(stack, n, j)
      BY <2>1, <3>1, ChainOfElse
    <3>3. inner = j
      <4>1. j \in chain /\ \A i \in chain : i <= j
        BY <3>2 DEF InnerIf
      <4>2. chain \subseteq Nat
        BY <2>1
      <4>3. \A i \in chain : (\A k \in chain : k <= i) => i = j
        <5> HIDE DEF chain
        <5> QED
          BY <4>1, <4>2
      <4> QED
        BY <4>1, <4>3
    <3>4. /\ Len(branch_label_stack) > 1 /\ Last(branch_label_stack) = <<"skip", stack[n].at>>
          /\ Last(Popped(branch_label_stack)) = <<"end", stack[j].at>>
      <4> HIDE DEF n
      <4> QED
        BY <2>1, <3>1, <3>2, LabelsOfIf
    <3> QED
      BY <3>1, <3>3, <3>4
  <2>3. ASSUME Doing("gen_branch_end")
        PROVE  branch_label_stack # <<>> /\ Last(branch_label_stack) = <<"end", Top.at>>
    <3> DEFINE K == Keys(stack)
    <3> DEFINE m == 2 * n
    <3>1. /\ stack # <<>> /\ Top = stack[n] /\ n \in 1..n
          /\ Top.todo # <<>> /\ Head(Top.todo).op = "gen_branch_end" /\ FrameOK(Top, tokens)
      <4>1. stack # <<>> /\ Top = stack[n] /\ Top.todo # <<>> /\ Head(Top.todo).op = "gen_branch_end"
        BY <2>3 DEF Doing, Top
      <4> QED
        BY <2>1, <4>1, TopIs
    <3>2. ~Owes(Top.todo, "skip_label") /\ Owes(Top.todo, "end_label")
      <4>1. "end_label" \in Thing /\ Closer("end_label") = "gen_branch_end"
        BY DEF Thing, Closer
      <4>2. Good(Top.fn, tokens[Top.at].kind, Top.todo)
        BY <3>1 DEF FrameOK
      <4> QED
        BY <3>1, <4>1, <4>2, BranchEndOwesNoSkip, AdvanceOwes
    <3>3. n \in OwingIn(stack, "end_label") /\ n \notin OwingIn(stack, "skip_label")
      BY <3>1, <3>2 DEF OwingIn
    <3>4. K \in SUBSET Nat /\ m \in K /\ 2 * n + 1 \notin K
      BY <2>1, <3>1, <3>3, KeysAre
    <3>5. /\ \A x \in K : x < m \/ x = m \/ x = 2 * n + 1
          /\ \A label : Labelled(stack, m, label) => label = <<"end", stack[n].at>>
      BY <2>1, <3>1, KeysBelow
    <3>6. Stacked(stack, K, branch_label_stack)
      BY <2>1 DEF BranchLabelsOK
    <3> HIDE DEF K, m
    <3>7. \A x \in K : x <= m
      BY <3>4, <3>5
    <3>8. branch_label_stack # <<>> /\ Labelled(stack, m, Last(branch_label_stack))
      BY <3>4, <3>6, <3>7, StackedPop
    <3> QED
      BY <3>1, <3>5, <3>8
  <2> QED
    BY <2>2, <2>3 DEF BranchLabelsNest
<1> QED
  BY <1>1, Invariant, PTL
=============================================================================
