------------------------------ MODULE Grammar ------------------------------
(***************************************************************************)
(* The language the parser is meant to accept, stated without it: the      *)
(* productions of src/src/parts/parser/gen_scripts/grammar, "eol" being a  *)
(* token followed by a newline, and the places parser.c names in the       *)
(* messages of match for return, break, continue and func.                 *)
(***************************************************************************)
EXTENDS Integers, Sequences

LOCAL INSTANCE SequencesExt

Block == <<"lbrace", "CODE", "rbrace">>

Production ==
  [ S |-> {<<"CODE", "eof">>},
    CODE |-> {<<"VAR_DECL", "eol", "CODE">>, <<"LET_DECL", "eol", "CODE">>,
              <<"FUNC_DECL", "eol", "CODE">>, <<"WHILE_LOOP", "eol", "CODE">>,
              <<"FOR_LOOP", "eol", "CODE">>, <<"BRANCH", "eol", "CODE">>,
              <<"ID_CALL_OR_ASSIGN", "eol", "CODE">>, <<"return", "RET_EXPR">>,
              <<"break">>, <<"continue">>, <<>>},
    RET_EXPR |-> {<<"EXPR">>, <<>>},
    VAR_DECL |-> {<<"var", "id", "VAR_LET_TYPE", "VAR_LET_EXP">>},
    LET_DECL |-> {<<"let", "id", "VAR_LET_TYPE", "VAR_LET_EXP">>},
    VAR_LET_TYPE |-> {<<":", "type">>, <<>>},
    VAR_LET_EXP |-> {<<"=", "EXPR">>, <<>>},
    FUNC_DECL |-> {<<"func", "id", "(", "PARAM_LIST", ")", "FUNC_RET_TYPE">> \o Block},
    FUNC_RET_TYPE |-> {<<"->", "type">>, <<>>},
    PARAM_LIST |-> {<<"PARAM", "NEXT_PARAM">>, <<>>},
    \* parser.c takes "_" for the second name too
    PARAM |-> {<<name, second, ":", "type">> :
                  name \in {"id", "underscore"}, second \in {"id", "underscore"}},
    NEXT_PARAM |-> {<<"comma", "PARAM", "NEXT_PARAM">>, <<>>},
    BRANCH |-> {<<"if", "BR_EXPR">> \o Block \o <<"ELSE_">>},
    BR_EXPR |-> {<<"EXPR">>, <<"let", "id">>},
    ELSE_ |-> {<<"else", "ELSE_IF">>, <<>>},
    ELSE_IF |-> {<<"if", "BR_EXPR">> \o Block \o <<"ELSE_">>, Block, <<>>},
    WHILE_LOOP |-> {<<"while", "EXPR">> \o Block},
    FOR_LOOP |-> {<<"for", name, "in", "EXPR", "RANGE">> \o Block : name \in {"id", "underscore"}},
    RANGE |-> {<<"...", "EXPR">>},
    CALL_PARAM_LIST |-> {<<"CALL_PARAM", "NEXT_CALL_PARAM">>, <<>>},
    CALL_PARAM |-> {<<"id", ":", "EXPR">>, <<"EXPR">>},
    NEXT_CALL_PARAM |-> {<<"comma", "CALL_PARAM", "NEXT_CALL_PARAM">>, <<>>},
    ID_CALL_OR_ASSIGN |-> {<<"id", "(", "CALL_PARAM_LIST", ")">>, <<"id", "=", "EXPR">>},
    EXPR |-> {<<"id">>, <<"literal">>, <<"(">>, <<"id", "(", "CALL_PARAM_LIST", ")">>} ]

\* The ends of the texts, from the i-th token on, that the symbols w derive;
\* a text the known tokens only begin ends past the last of them.
RECURSIVE Ends(_, _, _)
Ends(tokens, w, i) ==
    IF w = <<>> THEN {i}
    ELSE LET first == Head(w)
             rest == Tail(w)
         IN  CASE first = "eol" ->
                    IF i > 1 /\ tokens[i - 1].nl THEN Ends(tokens, rest, i) ELSE {}
               [] first # "eol" /\ i > Len(tokens) -> {i}
               [] first \in DOMAIN Production /\ i <= Len(tokens) ->
                    UNION {Ends(tokens, p \o rest, i) : p \in Production[first]}
               [] OTHER ->
                    IF tokens[i].kind = first THEN Ends(tokens, rest, i + 1) ELSE {}

\* The tokens begin, or if eof is among them are, a text of the grammar.
Derivable(tokens) == Len(tokens) + 1 \in Ends(tokens, <<"S">>, 1)

\* The statements whose braces are open before the i-th token, outermost first.
Enclosing(tokens, i) ==
    LET read(acc, t) ==
            CASE t.kind \in {"func", "if", "else", "while", "for"} ->
                   [acc EXCEPT !.next = t]
              [] t.kind = "lbrace" -> [acc EXCEPT !.open = Append(@, acc.next)]
              [] t.kind = "rbrace" /\ acc.open # <<>> -> [acc EXCEPT !.open = Front(@)]
              [] OTHER -> acc
        placed == [j \in 1 .. i - 1 |-> [kind |-> tokens[j].kind, at |-> j]]
    IN  FoldLeft(read, [next |-> [kind |-> "none", at |-> 0], open |-> <<>>], placed).open

Inside(kinds, tokens, i) ==
    SelectSeq(Enclosing(tokens, i), LAMBDA e : e.kind \in kinds)

Loops == {"while", "for"}

\* return inside a function, break and continue inside a loop, func outside all.
InPlace(tokens) ==
    \A i \in 1 .. Len(tokens) :
        CASE tokens[i].kind = "return" -> Inside({"func"}, tokens, i) # <<>>
          [] tokens[i].kind \in {"break", "continue"} -> Inside(Loops, tokens, i) # <<>>
          [] tokens[i].kind = "func" -> Enclosing(tokens, i) = <<>>
          [] OTHER -> TRUE

\* A declaration has a type or a value.
Declares(tokens) ==
    \A i \in 1 .. Len(tokens) - 2 :
        tokens[i].kind \in {"let", "var"} /\ (i = 1 \/ tokens[i - 1].kind # "if")
            => tokens[i + 2].kind \in {":", "="}
=============================================================================
