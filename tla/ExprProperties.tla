---------------------------- MODULE ExprProperties ----------------------------
(***************************************************************************)
(* What modules Expr and Uses promise about which tokens are accepted, and *)
(* an independent definition of the expressions of the language: a region  *)
(* of the tokens is divided at its weakest operator outside brackets.  The *)
(* precedences and associativities are those prec_gen.py was given to      *)
(* generate prec_table; it also lets a postfix "!" (unwrap) follow only an *)
(* operand, never a ")".                                                   *)
(***************************************************************************)
EXTENDS Uses

Level(kind) ==
    CASE kind \in {"*", "/"} -> 3 [] kind \in {"+", "-"} -> 4 [] kind = "??" -> 5
      [] kind \in {"<", "<=", "=="} -> 6 [] kind = "&&" -> 7 [] kind = "||" -> 8
      [] OTHER -> 0

RightAssociative == {5}
NotAssociative == {6}

\* The brackets open before token i of ts.
OpenBefore(ts, i) ==
    LET Number_(kind) == Len(SelectSeq(SubSeq(ts, 1, i - 1), LAMBDA t : t.kind = kind))
    IN  Number_("(") - Number_(")")

NoTree == <<0>>

\* The tree of tokens lo .. hi of ts, or NoTree if they are no expression.
RECURSIVE Tree(_, _, _)
Tree(ts, lo, hi) ==
    LET outside == {i \in lo .. hi :
            Level(ts[i].kind) > 0 /\ OpenBefore(ts, i) = OpenBefore(ts, lo)}
        weakest == Max({Level(ts[i].kind) : i \in outside})
        splits == {i \in outside : Level(ts[i].kind) = weakest}
        split == IF weakest \in RightAssociative THEN Min(splits) ELSE Max(splits)
        Node(i, kids) == IF NoTree \in ToSet(kids) THEN NoTree ELSE <<i>> \o kids
    IN  CASE lo > hi -> NoTree
          [] outside # {} ->
                IF weakest \in NotAssociative /\ Cardinality(splits) > 1 THEN NoTree
                ELSE Node(split, <<Tree(ts, lo, split - 1), Tree(ts, split + 1, hi)>>)
          [] outside = {} /\ ts[lo].kind = "!" -> Node(lo, <<Tree(ts, lo + 1, hi)>>)
          [] hi = lo + 1 /\ ts[lo].kind = "i" /\ ts[hi].kind = "unwrap" -> <<hi, <<lo>>>>
          [] outside = {} /\ ts[lo].kind = "(" /\ ts[hi].kind = ")" -> Tree(ts, lo + 1, hi - 1)
          [] lo = hi /\ ts[lo].kind = "i" -> <<lo>>
          [] OTHER -> NoTree

IsExpression(ts) ==
    /\ \A i \in DOMAIN ts : OpenBefore(ts, i + 1) >= 0
    /\ OpenBefore(ts, Len(ts) + 1) = 0
    /\ Tree(ts, 1, Len(ts)) # NoTree

\* Some expression begins with ts: an operand may be missing, and brackets.
Begins(ts) ==
    LET operand == CHOOSE o \in UNION {v.operands : v \in Vocabulary} : TRUE
        close(n) == [i \in 1 .. n |-> Other(")")]
        depth == OpenBefore(ts, Len(ts) + 1)
    IN  depth >= 0 /\ \E missing \in {<<>>, <<operand>>} :
            IsExpression(ts \o missing \o close(depth))

\* The tokens of the expression: those read but the one that ended it.
Parsed == Front(tokens)
-----------------------------------------------------------------------------
(* The second pass accepts only expressions, and evaluates the operators   *)
(* in the order the language gives them; a newline and the ")" of a call   *)
(* end an expression only where it is complete.                            *)
ParsesByPrecedence ==
    exit = "accepted" /\ ~collect_funcs =>
        /\ IsExpression(Parsed)
        /\ pushdown_stack[2].tree = Tree(Parsed, 1, Len(Parsed))

\* The last token cannot belong to the expression.
Ended ==
    \/ Last(tokens).kind = "end"
    \/ Last(tokens).kind = ")" /\ ignore_right_bracket /\ OpenBefore(tokens, Len(tokens)) = 0

(* Both passes reject only what no expression begins with, and what ends   *)
(* before it is an expression.                                             *)
RejectsOnlyIllFormed ==
    exit = "syntax" =>
        /\ a.class = DOLLAR => ~IsExpression(Parsed)
        /\ ~Ended => ~Begins(tokens)

(* Nothing is refused that could have been stored: a use ends with a type  *)
(* error only if the expression may have a value the target has no room    *)
(* for, and is no integer literal for a Double.                            *)
RefusesOnlyMisfits ==
    use.error # 0 /\ use.type # none_type =>
        /\ ~(Value(Result.type) \subseteq Value(use.type))
        /\ ~(LiteralInt(Result) /\ "float" \in Value(use.type))
=============================================================================
