------------------------------- MODULE Lexemes -------------------------------
(***************************************************************************)
(* The marks, numbers and words of the language as sets of texts, without  *)
(* an automaton, and what module Scanner promises about them.              *)
(***************************************************************************)
EXTENDS Scanner

Slice(from, to) == SubSeq(text, from, to)

\* The marks of the language, by the names of their tokens.
Marks == {<<"+", <<"+">>>>, <<"*", <<"*">>>>, <<"/", <<"/">>>>, <<"-", <<"-">>>>,
          <<"=", <<"=">>>>, <<"<", <<"<">>>>, <<">", <<">">>>>, <<"lbrace", <<"lbrace">>>>,
          <<"rbrace", <<"rbrace">>>>, <<"(", <<"(">>>>, <<")", <<")">>>>, <<":", <<":">>>>,
          <<"comma", <<"comma">>>>, <<"->", <<"-", ">">>>>, <<"==", <<"=", "=">>>>,
          <<"!=", <<"!", "=">>>>, <<"<=", <<"<", "=">>>>, <<">=", <<">", "=">>>>,
          <<"??", <<"?", "?">>>>, <<"&&", <<"&", "&">>>>, <<"||", <<"|", "|">>>>,
          <<"...", <<".", ".", ".">>>>, <<"..<", <<".", ".", "<">>>>,
          <<"not", <<"!">>>>, <<"unwrap", <<"!">>>>}

Run(s, chars) == s # <<>> /\ ToSet(s) \subseteq chars
IsInt(s) == Run(s, Digit)

\* There are digits, one at least, from place m to place n of s.
Digits(s, m, n) == m <= n /\ \A k \in m .. n : s[k] \in Digit

IsExponent(s, m) ==
    /\ m < Len(s) /\ s[m] = "e"
    /\ Digits(s, m + 1, Len(s)) \/ (s[m + 1] \in {"+", "-"} /\ Digits(s, m + 2, Len(s)))

\* Digits up to place i, then a fraction up to place j, an exponent or both.
IsReal(s) ==
    \E i \in 1 .. Len(s) - 1 : \E j \in i .. Len(s) :
        /\ Digits(s, 1, i)
        /\ j = i \/ (s[i + 1] = "." /\ Digits(s, i + 2, j))
        /\ j = Len(s) \/ IsExponent(s, j + 1)

IsWord(s) == Run(s, Letter \cup Digit) /\ s[1] \in Letter
IsType(s) == s \in {<<"T">>, <<"T", "?">>}

\* Not only a type may be marked: the automaton takes any keyword with a "?"
\* for a token (scanner.c:499-510).
MarkedKeyword == <<"underscore", "?">>

\* s is a mark, a number or a word of a kind.
PlainLexeme(s, kind) ==
    \/ <<kind, s>> \in Marks
    \/ kind = "int" /\ IsInt(s)
    \/ kind = "real" /\ IsReal(s)
    \/ kind = "type" /\ IsType(s)
    \/ kind = "underscore" /\ s \in {<<"underscore">>, MarkedKeyword}
    \/ kind = "id" /\ IsWord(s) /\ ~IsType(s) /\ s # <<"underscore">>

PlainKinds == {mark[1] : mark \in Marks} \cup {"int", "real", "type", "underscore", "id"}
IsPlainLexeme(s) == \E kind \in PlainKinds : PlainLexeme(s, kind)
-----------------------------------------------------------------------------
State ==
    {"START_S", "EXCL_MARK_S", "IS_NIL_1_S", "LOGICAL_AND1_S", "LOGICAL_OR1_S",
     "RANGE_START_S", "RANGE_START_1_S", "INTEGER_S", "ID_S", "TYPE_NIL_S", "REAL_S",
     "REAL_NUM_S", "REAL_E_S", "EXP_SIGN_S", "REAL_EXP_S", "STR_START_S", "STR_1_END_S",
     "STR_2_START_S", "STR_MULT_S", "STR_LF_S", "STR_2_E_S", "STR_2_EE_S", "STR_2_END_S",
     "ESC_S", "U_SEC_S", "U_SEC_START_S", "U_SEC_NUM_S", "COM_SINGLE_S",
     "COM_MULT_START_S", "COM_MULT_NEW_S", "COM_MULT_S", "COM_HALF_END_S",
     "COM_MULT_END_S", "COM_END_SINGLE_S"} \cup DOMAIN Spelled

Kinds == PlainKinds \cup {"string", "eof"}

\* Every variable has its type; a comment is open in the states of one only,
\* and a lexeme is collected only for a word, a number or a string.
TypeOK ==
    /\ text \in Seq(Character) /\ position \in 0 .. Len(text)
    /\ fsm_state \in State /\ lexeme \in Seq(Character)
    /\ prev \in Character /\ prev_prev \in Character
    /\ count \in 0 .. 9 /\ multiline \in BOOLEAN /\ token_added \in BOOLEAN
    /\ \A i \in DOMAIN tokens :
          /\ tokens[i].kind \in Kinds /\ tokens[i].nl \in BOOLEAN
          /\ tokens[i].nillable \in BOOLEAN
    /\ exit \in {"none", "success", "lexical", "undefined"}
    /\ comment_cnt \in Nat
    /\ fsm_state = "START_S" => comment_cnt = 0 /\ lexeme = <<>>

\* A token that is a mark, a number or a word is one of its kind, no longer one
\* begins where it does, and no character is in two tokens, also where one was
\* put back (scanner.c:227-236, 253-609).
TokensAreLexemes ==
    \A i \in DOMAIN tokens :
        /\ i > 1 => tokens[i - 1].to < tokens[i].from
        /\ tokens[i].kind \in PlainKinds =>
              /\ PlainLexeme(Slice(tokens[i].from, tokens[i].to), tokens[i].kind)
              /\ \A n \in tokens[i].to + 1 .. Len(text) :
                    ~IsPlainLexeme(Slice(tokens[i].from, n))

\* The first place behind token i.
From(i) == IF i = 0 THEN 1 ELSE tokens[i].to + 1

\* A "!" is a negation exactly if nothing but white space or a comment is
\* before it, or an operand begins directly behind it, however it was read:
\* prev_prev is the character before it only if it was not put back
\* (scanner.c:357).
ExclamationsAreTold ==
    \A i \in DOMAIN tokens :
        tokens[i].kind \in {"not", "unwrap"} =>
            LET at == tokens[i].from
            IN  tokens[i].kind = "not" <=>
                    \/ From(i - 1) < at \/ at = 1
                    \/ text[at + 1] \in Letter \cup Digit \cup {"("}
=============================================================================
