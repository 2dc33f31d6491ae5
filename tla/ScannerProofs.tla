---------------------------- MODULE ScannerProofs ----------------------------
(***************************************************************************)
(* Theorems about the tokens of source_code_to_tokens, for texts of any    *)
(* length over any vocabulary.                                             *)
(***************************************************************************)
EXTENDS Lexemes, SequenceTheorems, TLAPS

\* The states in which a block comment is open and counted.
Nested == {"COM_MULT_NEW_S", "COM_MULT_S", "COM_HALF_END_S", "COM_MULT_END_S"}

\* The states in which nothing is collected.
Unlettered ==
    {"START_S", "EXCL_MARK_S", "IS_NIL_1_S", "LOGICAL_AND1_S", "LOGICAL_OR1_S",
     "RANGE_START_S", "RANGE_START_1_S", "COM_SINGLE_S", "COM_MULT_START_S",
     "COM_END_SINGLE_S"} \cup Nested \cup DOMAIN Spelled

\* The states of marks, numbers and words.
Spoken ==
    {"EXCL_MARK_S", "IS_NIL_1_S", "LOGICAL_AND1_S", "LOGICAL_OR1_S", "RANGE_START_S",
     "RANGE_START_1_S", "INTEGER_S", "ID_S", "TYPE_NIL_S", "REAL_S", "REAL_NUM_S",
     "REAL_E_S", "EXP_SIGN_S", "REAL_EXP_S"} \cup DOMAIN Spelled

Point(s) == Digits(s, 1, Len(s) - 1) /\ s[Len(s)] = "."
Fraction(s, i) == Digits(s, 1, i) /\ Digits(s, i + 2, Len(s)) /\ s[i + 1] = "."
Mantissa(s, i, j) == Digits(s, 1, i) /\ (j = i \/ (Digits(s, i + 2, j) /\ s[i + 1] = "."))

\* A keyword and its "?".
Questioned(s) == s \in {<<"T", "?">>, MarkedKeyword}

\* c is no character with which the mark, number or word s goes on.
Ended(s, c) ==
    /\ s \in {<<"!">>, <<"<">>, <<">">>, <<"=">>} => c # "="
    /\ s = <<"-">> => c # ">"
    /\ s[1] \in Digit =>
          \/ Digits(s, 1, Len(s)) /\ c \notin Digit \cup {"e", "."}
          \/ (\E i \in 1..Len(s) : Fraction(s, i)) /\ c \notin Digit \cup {"e"}
          \/ (\E i, j \in 1..Len(s) : Mantissa(s, i, j) /\ IsExponent(s, j + 1)) /\ c \notin Digit
    /\ s[1] \in Letter =>
          \/ Questioned(s)
          \/ c \notin Letter \cup Digit /\ (s \in {<<"T">>, <<"underscore">>} => c # "?")

\* t begins with s and goes on with c.
Longer(t, s, c) ==
    Len(t) > Len(s) /\ t[Len(s) + 1] = c /\ \A k \in 1..Len(s) : t[k] = s[k]

\* What has been read of a token in state st.
Reads(st, s) ==
    /\ st \in DOMAIN Spelled => <<Spelled[st], s>> \in Marks
    /\ st = "EXCL_MARK_S" => s = <<"!">>
    /\ st = "IS_NIL_1_S" => s = <<"?">>
    /\ st = "LOGICAL_AND1_S" => s = <<"&">>
    /\ st = "LOGICAL_OR1_S" => s = <<"|">>
    /\ st = "RANGE_START_S" => s = <<".">>
    /\ st = "RANGE_START_1_S" => s = <<".", ".">>
    /\ st = "INTEGER_S" => Digits(s, 1, Len(s))
    /\ st = "ID_S" => s # <<>> /\ s[1] \in Letter /\ \A k \in 1..Len(s) : s[k] \in Letter \cup Digit
    /\ st = "TYPE_NIL_S" => s \in {<<"T", "?">>, MarkedKeyword}
    /\ st = "REAL_S" => Point(s)
    /\ st = "REAL_NUM_S" => \E i \in 1..Len(s) : Fraction(s, i)
    /\ st = "REAL_E_S" => s[Len(s)] = "e" /\ \E i \in 1..Len(s) : Mantissa(s, i, Len(s) - 1)
    /\ st = "EXP_SIGN_S" => /\ s[Len(s)] \in {"+", "-"} /\ s[Len(s) - 1] = "e"
                            /\ \E i \in 1..Len(s) : Mantissa(s, i, Len(s) - 2)
    /\ st = "REAL_EXP_S" => \E i, j \in 1..Len(s) : Mantissa(s, i, j) /\ IsExponent(s, j + 1)

-----------------------------------------------------------------------------
(* The invariant *)

\* The first place behind the first i of the tokens ts.
Behind(ts, i) == IF i = 0 THEN 1 ELSE ts[i].to + 1

IsToken(t) ==
    /\ t = [field \in {"kind", "from", "to", "nl", "nillable", "value"} |-> t[field]]
    /\ t.kind \in Kinds /\ t.nl \in BOOLEAN /\ t.nillable \in BOOLEAN
    /\ t.from \in Nat /\ t.to \in Nat

\* The mark, number or word s is not longer in the text txt, where it ends at
\* place to.
Stopped(txt, s, to) ==
    \/ Ended(s, txt[to + 1])
    \/ Digits(s, 1, Len(s)) /\ txt[to + 1] = "." /\ to + 1 < Len(txt) /\ txt[to + 2] = "."

\* The token t of txt comes after the places before b, is what it says, and
\* has the character behind it in txt.
Good(txt, t, b) ==
    /\ IsToken(t) /\ b <= t.from
    /\ t.kind # "eof" => t.from <= t.to /\ t.to < Len(txt)
    /\ t.kind \in PlainKinds =>
          /\ PlainLexeme(SubSeq(txt, t.from, t.to), t.kind)
          /\ Stopped(txt, SubSeq(txt, t.from, t.to), t.to)
    /\ t.kind \in {"not", "unwrap"} =>
          (t.kind = "not" <=> \/ b < t.from \/ t.from = 1
                              \/ txt[t.from + 1] \in Letter \cup Digit \cup {"("})

TokensOK(txt, ts) ==
    /\ ts \in Seq(ToSet(ts))
    /\ \A i \in 1..Len(ts) : Behind(ts, i - 1) \in Nat \ {0} /\ Good(txt, ts[i], Behind(ts, i - 1))

\* The state of the automaton.
StateOK ==
    /\ fsm_state \in State /\ lexeme \in Seq(Character)
    /\ count \in 0 .. 9 /\ multiline \in BOOLEAN /\ token_added \in BOOLEAN
    /\ exit \in {"none", "success", "lexical", "undefined"}
    /\ comment_cnt \in Nat
    /\ fsm_state \in Nested => comment_cnt > 0
    /\ fsm_state \notin Nested \cup {"COM_MULT_START_S"} => comment_cnt = 0
    /\ fsm_state \in Unlettered => lexeme = <<>>
    /\ token_added => Len(tokens) > 0

\* The cursor and the text.
TextOK ==
    /\ text \in Seq(Character) /\ position \in 0 .. Len(text)
    /\ prev \in Character /\ prev_prev \in Character

\* Where the token begins that is being read, and what has been read of it.
Place == Behind(tokens, Len(tokens))

ReadingOK ==
    fsm_state # "START_S" =>
        /\ first \in Nat /\ Place <= first /\ first <= position
        /\ Reads(fsm_state, Slice(first, position))
        /\ fsm_state \notin Unlettered => lexeme = Slice(first, position)
        /\ fsm_state = "EXCL_MARK_S" => (prev_prev \in Space <=> Place < first \/ first = 1)

BetweenOK ==
    fsm_state = "START_S" =>
        /\ Place <= position + 1
        /\ prev \in Space <=> Place <= position \/ position = 0

ScannerInv ==
    /\ StateOK /\ TextOK /\ TokensOK(text, tokens) /\ Place \in Nat \ {0}
    /\ exit = "none" => ReadingOK /\ BetweenOK
-----------------------------------------------------------------------------
(* The tables *)

\* The states that spell a mark.
LEMMA DomSpelled == 
    DOMAIN Spelled = {"PLUS_S", "MUL_S", "NOT_EQUAL_S", "IS_NIL_2_S", "GREATER_S",
       "GREATER_EQUAL_S", "LESS_S", "LESS_EQUAL_S", "MINUS_S", "ARROW_S", "ASSIGN_S",
       "EQUAL_S", "DIV_S", "BRACE_L_S", "BRACE_R_S", "BRACKET_L_S", "BRACKET_R_S", "COLON_S",
       "COMMA_S", "LOGICAL_AND2_S", "LOGICAL_OR2_S", "RANGE_HALF_OPEN_S", "RANGE_CLOSED_S"}
BY DEF Spelled

\* In the other states nothing is claimed of what was read.
LEMMA UnspokenReads == \A st, s : st \notin Spoken => Reads(st, s)
BY DEF Spoken, Reads

\* The rows of the automaton that leave its start state.
LEMMA StartRows ==
    ASSUME NEW row \in StartMoves, NEW c \in row[2]
    PROVE  /\ row[1] = "START_S" /\ row[3] \in State \ Nested
           /\ c \in Character
           /\ row[3] \in Unlettered <=> c \notin Digit \cup Letter \cup {"quote"}
           /\ row[3] = "START_S" <=> c \in Space
BY DomSpelled DEF StartMoves, Space, Digit, Letter, Character, Mark, State, Nested, Unlettered

\* They read the first character of what the new state has read.
LEMMA StartReads ==
    ASSUME NEW row \in StartMoves, NEW c \in row[2]
    PROVE  Reads(row[3], <<c>>)
BY DomSpelled DEF StartMoves, Space, Digit, Letter, Reads, Marks, Spelled, Digits

\* The rows of operators.
LEMMA OperatorRows ==
    ASSUME NEW row \in OperatorMoves, NEW c \in row[2]
    PROVE  /\ row[1] \in Unlettered \ (Nested \cup {"START_S", "COM_MULT_START_S"})
           /\ row[3] \in (State \cap Unlettered) \ (Nested \cup {"START_S", "EXCL_MARK_S"})
           /\ c \in Character
BY DomSpelled DEF OperatorMoves, Character, Mark, State, Nested, Unlettered

\* Append, by its elements.
LEMMA AppendedTo ==
    ASSUME NEW S, NEW s \in Seq(S), NEW c \in S
    PROVE  /\ Append(s, c) \in Seq(S) /\ Len(Append(s, c)) = Len(s) + 1
           /\ \A k \in 1..Len(s) : Append(s, c)[k] = s[k]
           /\ Append(s, c)[Len(s) + 1] = c
BY AppendProperties

\* Append to one and to two characters.
LEMMA Appended ==
    ASSUME NEW S, NEW s \in Seq(S), NEW c \in S
    PROVE  /\ Len(s) = 1 => Append(s, c) = <<s[1], c>>
           /\ Len(s) = 2 => Append(s, c) = <<s[1], s[2], c>>
<1> DEFINE t == Append(s, c)
<1>1. /\ t \in Seq(S) /\ Len(t) = Len(s) + 1
      /\ \A k \in 1..Len(s) : t[k] = s[k]
      /\ t[Len(s) + 1] = c
  BY AppendedTo
<1> HIDE DEF t
<1>2. ASSUME Len(s) = 1
      PROVE  t = <<s[1], c>>
  <2>1. Len(t) = 2 /\ t[1] = s[1] /\ t[2] = c
    BY <1>1, <1>2
  <2> QED
    BY <2>1, <1>1
<1>3. ASSUME Len(s) = 2
      PROVE  t = <<s[1], s[2], c>>
  <2>1. Len(t) = 3 /\ t[1] = s[1] /\ t[2] = s[2] /\ t[3] = c
    BY <1>1, <1>3
  <2> QED
    BY <2>1, <1>1
<1> QED
  BY <1>2, <1>3 DEF t

\* What a state that spells a mark has read.
LEMMA SpelledReads ==
    ASSUME NEW st, NEW s
    PROVE  /\ st = "GREATER_S" /\ Reads(st, s) => s = <<">">>
           /\ st = "LESS_S" /\ Reads(st, s) => s = <<"<">>
           /\ st = "MINUS_S" /\ Reads(st, s) => s = <<"-">>
           /\ st = "ASSIGN_S" /\ Reads(st, s) => s = <<"=">>
           /\ st \in DOMAIN Spelled /\ <<Spelled[st], s>> \in Marks => Reads(st, s)
           /\ st = "RANGE_START_1_S" /\ s = <<".", ".">> => Reads(st, s)
           /\ st \in {"COM_SINGLE_S", "COM_MULT_START_S"} => Reads(st, s)
BY DomSpelled DEF Reads, Marks, Spelled

\* The rows of operators read on as the states say.
LEMMA OperatorReads ==
    ASSUME NEW row \in OperatorMoves, NEW c \in row[2], NEW s \in Seq(Character), Reads(row[1], s)
    PROVE  Reads(row[3], Append(s, c))
<1> DEFINE st == row[1]
           t == row[3]
           m == Append(s, c)
<1>1. \/ st = "EXCL_MARK_S" /\ c = "=" /\ t = "NOT_EQUAL_S"
      \/ st = "IS_NIL_1_S" /\ c = "?" /\ t = "IS_NIL_2_S"
      \/ st = "GREATER_S" /\ c = "=" /\ t = "GREATER_EQUAL_S"
      \/ st = "LESS_S" /\ c = "=" /\ t = "LESS_EQUAL_S"
      \/ st = "MINUS_S" /\ c = ">" /\ t = "ARROW_S"
      \/ st = "ASSIGN_S" /\ c = "=" /\ t = "EQUAL_S"
      \/ st = "LOGICAL_AND1_S" /\ c = "&" /\ t = "LOGICAL_AND2_S"
      \/ st = "LOGICAL_OR1_S" /\ c = "|" /\ t = "LOGICAL_OR2_S"
      \/ st = "RANGE_START_S" /\ c = "." /\ t = "RANGE_START_1_S"
      \/ st = "RANGE_START_1_S" /\ c = "<" /\ t = "RANGE_HALF_OPEN_S"
      \/ st = "RANGE_START_1_S" /\ c = "." /\ t = "RANGE_CLOSED_S"
      \/ t \in {"COM_SINGLE_S", "COM_MULT_START_S"}
  BY DEF OperatorMoves
<1>2. /\ st = "EXCL_MARK_S" => s = <<"!">>
      /\ st = "IS_NIL_1_S" => s = <<"?">>
      /\ st = "LOGICAL_AND1_S" => s = <<"&">>
      /\ st = "LOGICAL_OR1_S" => s = <<"|">>
      /\ st = "RANGE_START_S" => s = <<".">>
      /\ st = "RANGE_START_1_S" => s = <<".", ".">>
  BY DEF Reads
<1>3. /\ st = "GREATER_S" => s = <<">">>
      /\ st = "LESS_S" => s = <<"<">>
      /\ st = "MINUS_S" => s = <<"-">>
      /\ st = "ASSIGN_S" => s = <<"=">>
  BY SpelledReads
<1>4. c \in Character
  BY OperatorRows
<1> HIDE DEF st, t, m
<1>5. /\ \A d : s = <<d>> => m = <<d, c>>
      /\ \A d, e : s = <<d, e>> => m = <<d, e, c>>
  <2>1. \A d : s = <<d>> => Len(s) = 1 /\ s[1] = d
    OBVIOUS
  <2>2. \A d, e : s = <<d, e>> => Len(s) = 2 /\ s[1] = d /\ s[2] = e
    OBVIOUS
  <2> QED
    BY <1>4, <2>1, <2>2, Appended DEF m
<1>6. \/ t = "NOT_EQUAL_S" /\ m = <<"!", "=">>
      \/ t = "IS_NIL_2_S" /\ m = <<"?", "?">>
      \/ t = "GREATER_EQUAL_S" /\ m = <<">", "=">>
      \/ t = "LESS_EQUAL_S" /\ m = <<"<", "=">>
      \/ t = "ARROW_S" /\ m = <<"-", ">">>
      \/ t = "EQUAL_S" /\ m = <<"=", "=">>
      \/ t = "LOGICAL_AND2_S" /\ m = <<"&", "&">>
      \/ t = "LOGICAL_OR2_S" /\ m = <<"|", "|">>
      \/ t = "RANGE_START_1_S" /\ m = <<".", ".">>
      \/ t = "RANGE_HALF_OPEN_S" /\ m = <<".", ".", "<">>
      \/ t = "RANGE_CLOSED_S" /\ m = <<".", ".", ".">>
      \/ t \in {"COM_SINGLE_S", "COM_MULT_START_S"}
  BY <1>1, <1>2, <1>3, <1>5
<1>7. \/ t \in DOMAIN Spelled /\ <<Spelled[t], m>> \in Marks
      \/ t = "RANGE_START_1_S" /\ m = <<".", ".">>
      \/ t \in {"COM_SINGLE_S", "COM_MULT_START_S"}
  BY <1>6, DomSpelled DEF Marks, Spelled
<1>8. Reads(t, m)
  BY <1>7, SpelledReads
<1> QED
  BY <1>8 DEF t, m

\* The rows of numbers.
LEMMA NumberRows ==
    ASSUME NEW row \in NumberMoves, NEW c \in row[2]
    PROVE  /\ row[1] \in State \ Unlettered /\ row[3] \in State \ Unlettered
           /\ c \in Character
BY DomSpelled DEF NumberMoves, Character, Digit, Letter, Mark, State, Nested, Unlettered

\* The rows of words.
LEMMA WordRows ==
    ASSUME NEW row \in WordMoves, NEW c \in row[2]
    PROVE  /\ row[1] \in State \ Unlettered /\ row[3] \in State \ Unlettered
           /\ c \in Character
BY DomSpelled DEF WordMoves, Character, Digit, Letter, Mark, State, Nested, Unlettered

\* The rows of strings.
LEMMA StringRows ==
    ASSUME NEW row \in StringMoves, NEW c \in row[2]
    PROVE  /\ row[1] \in State \ Unlettered /\ row[3] \in State \ Unlettered
           /\ c \in Character /\ row[3] \notin Spoken
BY DomSpelled DEF StringMoves, Character, Visible, InString, Digit, Letter, Mark, Space, State,
                  Nested, Unlettered, Spoken

\* The rows of escapes.
LEMMA EscapeRows ==
    ASSUME NEW row \in EscapeMoves, NEW c \in row[2]
    PROVE  /\ row[1] \in State \ Unlettered /\ row[3] \in State \ Unlettered
           /\ c \in Character
           /\ row[1] = "U_SEC_NUM_S" => ~TooLong
           /\ row[3] \notin Spoken
BY DomSpelled DEF Spoken, EscapeMoves, Body, Character, HexDigit, Digit, Letter, Mark, Space, State,
                  Nested, Unlettered

\* The rows of comments.
LEMMA CommentRows ==
    ASSUME NEW row \in CommentMoves, NEW c \in row[2]
    PROVE  /\ row[1] \in {"COM_SINGLE_S", "COM_MULT_START_S"} \cup (Nested \ {"COM_MULT_END_S"})
           /\ row[1] = "COM_SINGLE_S" => row[3] \in {"COM_SINGLE_S", "COM_END_SINGLE_S"}
           /\ row[1] # "COM_SINGLE_S" => row[3] \in Nested \cup {"COM_MULT_START_S"}
           /\ row[1] = "COM_MULT_START_S" => row[3] \in Nested
           /\ c \in Character
BY DEF CommentMoves, Rest, Character, Mark, Space, Nested

\* The rows of numbers read on as the states say.
LEMMA NumberReads ==
    ASSUME NEW row \in NumberMoves, NEW c \in row[2], NEW s \in Seq(Character), Reads(row[1], s)
    PROVE  Reads(row[3], Append(s, c))
<1> DEFINE st == row[1]
           t == row[3]
           m == Append(s, c)
           n == Len(s)
<1>1. \/ st = "INTEGER_S" /\ c \in Digit /\ t = "INTEGER_S"
      \/ st = "INTEGER_S" /\ c = "e" /\ t = "REAL_E_S"
      \/ st = "INTEGER_S" /\ c = "." /\ t = "REAL_S"
      \/ st = "REAL_S" /\ c \in Digit /\ t = "REAL_NUM_S"
      \/ st = "REAL_NUM_S" /\ c \in Digit /\ t = "REAL_NUM_S"
      \/ st = "REAL_NUM_S" /\ c = "e" /\ t = "REAL_E_S"
      \/ st = "REAL_E_S" /\ c \in Digit /\ t = "REAL_EXP_S"
      \/ st = "REAL_E_S" /\ c \in {"+", "-"} /\ t = "EXP_SIGN_S"
      \/ st = "EXP_SIGN_S" /\ c \in Digit /\ t = "REAL_EXP_S"
      \/ st = "REAL_EXP_S" /\ c \in Digit /\ t = "REAL_EXP_S"
  BY DEF NumberMoves
<1>2. /\ st = "INTEGER_S" => Digits(s, 1, Len(s))
      /\ st = "REAL_S" => Point(s)
      /\ st = "REAL_NUM_S" => \E i \in 1..Len(s) : Fraction(s, i)
      /\ st = "REAL_E_S" => s[Len(s)] = "e" /\ \E i \in 1..Len(s) : Mantissa(s, i, Len(s) - 1)
      /\ st = "EXP_SIGN_S" => /\ s[Len(s)] \in {"+", "-"} /\ s[Len(s) - 1] = "e"
                              /\ \E i \in 1..Len(s) : Mantissa(s, i, Len(s) - 2)
      /\ st = "REAL_EXP_S" => \E i, j \in 1..Len(s) : Mantissa(s, i, j) /\ IsExponent(s, j + 1)
  BY DEF Reads
<1>3. /\ n \in Nat /\ n = Len(s) /\ Len(m) = n + 1 /\ m[n + 1] = c
      /\ \A k \in 1..n : m[k] = s[k]
  BY NumberRows, AppendedTo
<1> HIDE DEF st, t, m, n
<1>4. CASE st = "INTEGER_S"
  <2>1. Digits(s, 1, n)
    BY <1>2, <1>3, <1>4
  <2>2. c \in Digit => Digits(m, 1, Len(m))
    BY <2>1, <1>3 DEF Digits
  <2>3. c = "." => Point(m)
    BY <2>1, <1>3 DEF Digits, Point
  <2>4. c = "e" => m[Len(m)] = "e" /\ Mantissa(m, n, Len(m) - 1) /\ n \in 1..Len(m)
    BY <2>1, <1>3 DEF Digits, Mantissa
  <2> QED
    BY <2>2, <2>3, <2>4, <1>1, <1>4, DomSpelled DEF Reads, t, m
<1>5. CASE st = "REAL_S"
  <2>1. Point(s)
    BY <1>2, <1>5
  <2>2. c \in Digit /\ t = "REAL_NUM_S"
    BY <1>1, <1>5
  <2>3. n - 1 \in 1..Len(m) /\ Fraction(m, n - 1)
    BY <2>1, <2>2, <1>3 DEF Digits, Point, Fraction
  <2> QED
    BY <2>3, <2>2, DomSpelled DEF Reads, t, m
<1>6. CASE st = "REAL_NUM_S"
  <2>1. PICK i \in 1..n : Fraction(s, i)
    BY <1>2, <1>3, <1>6
  <2>2. i \in 1..Len(m)
    BY <1>3
  <2>3. c \in Digit => Fraction(m, i)
    BY <2>1, <1>3 DEF Digits, Fraction
  <2>4. c = "e" => m[Len(m)] = "e" /\ Mantissa(m, i, Len(m) - 1)
    BY <2>1, <1>3 DEF Digits, Fraction, Mantissa
  <2> QED
    BY <2>2, <2>3, <2>4, <1>1, <1>6, DomSpelled DEF Reads, t, m
<1>7. CASE st = "REAL_E_S"
  <2>1. s[n] = "e" /\ \E i \in 1..n : Mantissa(s, i, n - 1)
    BY <1>2, <1>3, <1>7
  <2>2. PICK i \in 1..n : Mantissa(s, i, n - 1)
    BY <2>1
  <2>3. i \in 1..Len(m) /\ n - 1 \in 1..Len(m) /\ i <= n - 1
    BY <2>2, <1>3 DEF Mantissa, Digits
  <2>4. Mantissa(m, i, n - 1)
    BY <2>2, <2>3, <1>3 DEF Mantissa, Digits
  <2>5. c \in Digit => IsExponent(m, n - 1 + 1)
    BY <2>1, <2>3, <1>3 DEF IsExponent, Digits
  <2>6. c \in {"+", "-"} => /\ m[Len(m)] \in {"+", "-"} /\ m[Len(m) - 1] = "e"
                            /\ Mantissa(m, i, Len(m) - 2)
    BY <2>1, <2>3, <2>4, <1>3
  <2> QED
    BY <2>3, <2>4, <2>5, <2>6, <1>1, <1>7, DomSpelled DEF Reads, t, m
<1>8. CASE st = "EXP_SIGN_S"
  <2>1. s[n] \in {"+", "-"} /\ s[n - 1] = "e" /\ \E i \in 1..n : Mantissa(s, i, n - 2)
    BY <1>2, <1>3, <1>8
  <2>2. PICK i \in 1..n : Mantissa(s, i, n - 2)
    BY <2>1
  <2>3. i \in 1..Len(m) /\ n - 2 \in 1..Len(m) /\ i <= n - 2
    BY <2>2, <1>3 DEF Mantissa, Digits
  <2>4. Mantissa(m, i, n - 2)
    <3> DEFINE h == n - 2
    <3>1. i <= h /\ h <= n /\ i \in 1..n /\ h \in Nat /\ Mantissa(s, i, h)
      BY <2>2, <2>3, <1>3
    <3> HIDE DEF h
    <3>2. Mantissa(m, i, h)
      BY <3>1, <1>3 DEF Mantissa, Digits
    <3> QED
      BY <3>2 DEF h
  <2>5. c \in Digit => IsExponent(m, n - 2 + 1)
    BY <2>1, <2>3, <1>3 DEF IsExponent, Digits
  <2> QED
    BY <2>3, <2>4, <2>5, <1>1, <1>8, DomSpelled DEF Reads, t, m
<1>9. CASE st = "REAL_EXP_S"
  <2>1. PICK i, j \in 1..n : Mantissa(s, i, j) /\ IsExponent(s, j + 1)
    BY <1>2, <1>3, <1>9
  <2>2. i \in 1..Len(m) /\ j \in 1..Len(m) /\ i <= j /\ j + 1 < n
    BY <2>1, <1>3 DEF Mantissa, Digits, IsExponent
  <2>3. Mantissa(m, i, j)
    BY <2>1, <2>2, <1>3 DEF Mantissa, Digits
  <2>4. c \in Digit => IsExponent(m, j + 1)
    BY <2>1, <2>2, <1>3 DEF IsExponent, Digits
  <2> QED
    BY <2>2, <2>3, <2>4, <1>1, <1>9, DomSpelled DEF Reads, t, m
<1> QED
  BY <1>1, <1>4, <1>5, <1>6, <1>7, <1>8, <1>9

\* The rows of words read on as the states say.
LEMMA WordReads ==
    ASSUME NEW row \in WordMoves, NEW c \in row[2], lexeme \in Seq(Character), Reads(row[1], lexeme)
    PROVE  Reads(row[3], Append(lexeme, c))
<1> DEFINE t == row[3]
           m == Append(lexeme, c)
           n == Len(lexeme)
<1>1. /\ row[1] = "ID_S"
      /\ \/ c \in Letter \cup Digit /\ t = "ID_S"
         \/ c = "?" /\ t = "TYPE_NIL_S" /\ is_keyword(lexeme) # "id"
  BY DEF WordMoves
<1>2. /\ lexeme # <<>> /\ lexeme[1] \in Letter
      /\ \A k \in 1..n : lexeme[k] \in Letter \cup Digit
  BY <1>1 DEF Reads
<1>3. /\ n \in Nat /\ n > 0 /\ Len(m) = n + 1 /\ m[n + 1] = c /\ m # <<>>
      /\ \A k \in 1..n : m[k] = lexeme[k]
  BY <1>2, WordRows, AppendedTo, AppendProperties
<1>4. \A d : lexeme = <<d>> => m = <<d, c>>
  <2>1. \A d : lexeme = <<d>> => Len(lexeme) = 1 /\ lexeme[1] = d
    OBVIOUS
  <2>2. c \in Character
    BY WordRows
  <2> QED
    BY <2>1, <2>2, Appended
<1> HIDE DEF t, m, n
<1>5. CASE c \in Letter \cup Digit /\ t = "ID_S"
  <2>1. m[1] \in Letter /\ \A k \in 1..n + 1 : m[k] \in Letter \cup Digit
    BY <1>2, <1>3, <1>5
  <2> QED
    BY <2>1, <1>3, <1>5, DomSpelled DEF Reads, t, m
<1>6. CASE c = "?" /\ t = "TYPE_NIL_S" /\ is_keyword(lexeme) # "id"
  <2>1. lexeme = <<"T">> \/ lexeme = <<"underscore">>
    BY <1>6 DEF is_keyword
  <2>2. m \in {<<"T", "?">>, MarkedKeyword}
    BY <2>1, <1>4, <1>6 DEF MarkedKeyword
  <2> QED
    BY <2>2, <1>6, DomSpelled DEF Reads, t, m
<1> QED
  BY <1>1, <1>5, <1>6 DEF t
-----------------------------------------------------------------------------
(* A token is the longest *)

IsMark(s) == \E mark \in Marks : s = mark[2]
IsNumber(s) == Digits(s, 1, Len(s)) \/ IsReal(s)
IsName(s) == \/ Questioned(s)
             \/ \A k \in 1..Len(s) : s[k] \in Letter \cup Digit

\* The marks, by their first two characters and length.
LEMMA Marked ==
    ASSUME NEW s, IsMark(s)
    PROVE  /\ s[1] \in Mark
           /\ \/ Len(s) = 1 /\ s[1] \notin {"?", "&", "|", "."}
              \/ Len(s) = 2 /\ s[1] \in {"=", "!", "<", ">"} /\ s[2] = "="
              \/ Len(s) = 2 /\ s[1] = "-" /\ s[2] = ">"
              \/ Len(s) = 2 /\ s[1] \in {"?", "&", "|"}
              \/ Len(s) = 3 /\ s[1] = "." /\ s[2] = "."
<1>1. PICK mark \in Marks : s = mark[2]
  BY DEF IsMark
<1> QED
  BY <1>1 DEF Marks, Mark

\* A run of characters, by its elements.
LEMMA RunIs ==
    ASSUME NEW s \in Seq(Character), NEW chars
    PROVE  Run(s, chars) <=> Len(s) > 0 /\ \A k \in 1..Len(s) : s[k] \in chars
BY DEF Run, ToSet

\* A keyword with a "?".
LEMMA QuestionedIs ==
    ASSUME NEW s, Questioned(s)
    PROVE  Len(s) = 2 /\ Len(s) <= 2 /\ s[1] \in {"T", "underscore"} /\ s[2] = "?"
<1>1. s = <<"T", "?">> \/ s = <<"underscore", "?">>
  BY DEF Questioned, MarkedKeyword
<1> QED
  BY <1>1

\* The first character of a lexeme tells a mark, a number and a name.
LEMMA LexemeIs ==
    ASSUME NEW s \in Seq(Character), NEW kind, PlainLexeme(s, kind)
    PROVE  /\ Len(s) > 0
           /\ \/ s[1] \in Mark /\ IsMark(s)
              \/ s[1] \in Digit /\ IsNumber(s)
              \/ s[1] \in Letter /\ IsName(s)
<1>1. CASE <<kind, s>> \in Marks
  <2>1. IsMark(s)
    BY <1>1 DEF IsMark
  <2> QED
    BY <2>1, Marked
<1>2. CASE IsInt(s)
  <2>1. Len(s) > 0 /\ \A k \in 1..Len(s) : s[k] \in Digit
    BY <1>2, RunIs DEF IsInt
  <2> QED
    BY <2>1 DEF IsNumber, Digits
<1>3. CASE IsReal(s)
  <2>1. PICK i \in 1 .. Len(s) - 1 : Digits(s, 1, i)
    BY <1>3 DEF IsReal
  <2> QED
    BY <2>1, <1>3 DEF IsNumber, Digits
<1>4. CASE Questioned(s)
  <2>1. Len(s) > 0 /\ s[1] \in Letter
    BY <1>4, QuestionedIs DEF Letter
  <2> QED
    BY <2>1, <1>4 DEF IsName
<1>6. CASE s = <<"T">> \/ s = <<"underscore">>
  BY <1>6 DEF IsName, Letter
<1>5. CASE IsWord(s)
  <2>1. Len(s) > 0 /\ \A k \in 1..Len(s) : s[k] \in Letter \cup Digit
    BY <1>5, RunIs DEF IsWord
  <2> QED
    BY <2>1, <1>5 DEF IsWord, IsName
<1> QED
  BY <1>1, <1>2, <1>3, <1>4, <1>5, <1>6 DEF PlainLexeme, IsType, Questioned

\* No character begins two of them.
LEMMA Classes == Mark \cap Digit = {} /\ Mark \cap Letter = {} /\ Digit \cap Letter = {}
BY DEF Mark, Digit, Letter

\* A mark that has ended is no beginning of a longer one.
LEMMA NoLongerMark ==
    ASSUME NEW s \in Seq(Character), NEW t \in Seq(Character), NEW c, Longer(t, s, c),
           IsMark(s), IsMark(t), Ended(s, c)
    PROVE  FALSE
<1>1. /\ Len(s) < Len(t) /\ t[Len(s) + 1] = c /\ \A k \in 1..Len(s) : t[k] = s[k]
      /\ Len(s) \in Nat /\ Len(t) \in Nat
  BY DEF Longer
<1>2. /\ \/ Len(s) = 1 /\ s[1] \notin {"?", "&", "|", "."}
         \/ Len(s) = 2 /\ s[1] # "."
         \/ Len(s) = 3
      /\ \/ Len(t) = 1
         \/ Len(t) = 2 /\ t[1] \in {"=", "!", "<", ">"} /\ t[2] = "="
         \/ Len(t) = 2 /\ t[1] = "-" /\ t[2] = ">"
         \/ Len(t) = 2 /\ t[1] \in {"?", "&", "|"}
         \/ Len(t) = 3 /\ t[1] = "."
  BY Marked
<1>3. CASE Len(s) = 1
  <2>1. t[1] = s[1] /\ t[2] = c /\ s = <<s[1]>>
    BY <1>1, <1>3
  <2>2. s[1] \in {"!", "<", ">", "="} => c # "="
    BY <2>1 DEF Ended
  <2>3. s[1] = "-" => c # ">"
    BY <2>1 DEF Ended
  <2> QED
    BY <2>1, <2>2, <2>3, <1>1, <1>2, <1>3
<1>4. CASE Len(s) = 2
  <2>1. t[1] = s[1]
    BY <1>1, <1>4
  <2> QED
    BY <2>1, <1>1, <1>2, <1>4
<1>5. CASE Len(s) = 3
  BY <1>1, <1>2, <1>5
<1> QED
  BY <1>2, <1>3, <1>4, <1>5

\* The digits a number begins with end where another character stands.
LEMMA NoLongerNumber ==
    ASSUME NEW s \in Seq(Character), NEW t \in Seq(Character), NEW c, Longer(t, s, c),
           s[1] \in Digit, IsNumber(t), Ended(s, c) 
    PROVE  FALSE
<1> DEFINE n == Len(s)
<1>1. /\ n < Len(t) /\ t[n + 1] = c /\ \A k \in 1..n : t[k] = s[k]
      /\ n \in Nat /\ Len(t) \in Nat
  BY DEF Longer
<1>0. n = Len(s)
  OBVIOUS
<1> HIDE DEF n
<1>2. c \notin Digit
  BY DEF Ended
<1>3. PICK i \in 1..Len(t), j \in 1..Len(t) :
          /\ i < Len(t) /\ i <= j
          /\ \A k \in 1..i : t[k] \in Digit
          /\ j = i \/ (t[i + 1] = "." /\ i + 2 <= j /\ \A k \in i + 2 .. j : t[k] \in Digit)
          /\ \/ j = Len(t)
             \/ /\ t[j + 1] = "e"
                /\ \/ \A k \in j + 2 .. Len(t) : t[k] \in Digit
                   \/ t[j + 2] \in {"+", "-"} /\ \A k \in j + 3 .. Len(t) : t[k] \in Digit
  <2>1. IsReal(t)
    BY <1>1, <1>2 DEF IsNumber, Digits
  <2>2. PICK i \in 1 .. Len(t) - 1 : \E j \in i .. Len(t) :
            /\ Digits(t, 1, i)
            /\ j = i \/ (t[i + 1] = "." /\ Digits(t, i + 2, j))
            /\ j = Len(t) \/ IsExponent(t, j + 1)
    BY <2>1 DEF IsReal
  <2>3. PICK j \in i .. Len(t) :
            /\ Digits(t, 1, i)
            /\ j = i \/ (t[i + 1] = "." /\ Digits(t, i + 2, j))
            /\ j = Len(t) \/ IsExponent(t, j + 1)
    BY <2>2
  <2>4. i \in 1..Len(t) /\ j \in 1..Len(t) /\ i < Len(t) /\ i <= j
    BY <1>1
  <2>5. j # Len(t) => /\ t[j + 1] = "e"
                      /\ \/ \A k \in j + 2 .. Len(t) : t[k] \in Digit
                         \/ t[j + 2] \in {"+", "-"} /\ \A k \in j + 3 .. Len(t) : t[k] \in Digit
    BY <2>3, <2>4, <1>1 DEF IsExponent, Digits
  <2>6. j = i \/ (t[i + 1] = "." /\ i + 2 <= j /\ \A k \in i + 2 .. j : t[k] \in Digit)
    BY <2>3 DEF Digits
  <2> QED
    BY <2>3, <2>4, <2>5, <2>6 DEF Digits
<1>4. "." \notin Digit /\ "e" \notin Digit /\ "+" \notin Digit /\ "-" \notin Digit
  BY DEF Digit
<1>5. CASE Digits(s, 1, n) /\ c \notin Digit \cup {"e", "."}
  <2>1. \A k \in 1..n : t[k] \in Digit
    BY <1>1, <1>5 DEF Digits
  <2> QED
    BY <2>1, <1>1, <1>3, <1>4, <1>5
<1>6. CASE (\E m \in 1..n : Fraction(s, m)) /\ c \notin Digit \cup {"e"}
  <2>1. PICK m \in 1..n : Fraction(s, m)
    BY <1>6
  <2>2. /\ \A k \in 1..m : t[k] \in Digit
        /\ t[m + 1] = "." /\ m + 2 <= n /\ \A k \in m + 2 .. n : t[k] \in Digit
    BY <2>1, <1>0, <1>1 DEF Fraction, Digits
  <2>3. i = m
    BY <2>2, <1>1, <1>3, <1>4
  <2> QED
    BY <2>2, <2>3, <1>1, <1>3, <1>4, <1>6
<1>7. CASE (\E m, p \in 1..n : Mantissa(s, m, p) /\ IsExponent(s, p + 1)) /\ c \notin Digit
  <2>1. PICK m \in 1..n, p \in 1..n : Mantissa(s, m, p) /\ IsExponent(s, p + 1)
    BY <1>7
  <2>0. m <= p /\ p + 1 < n
    BY <2>1, <1>0, <1>1 DEF Mantissa, IsExponent, Digits
  <2>2. /\ m <= p /\ p + 1 < n
        /\ \A k \in 1..m : t[k] \in Digit
        /\ p = m \/ (t[m + 1] = "." /\ m + 2 <= p /\ \A k \in m + 2 .. p : t[k] \in Digit)
    BY <2>0, <2>1, <1>1 DEF Mantissa, Digits
  <2>3. /\ t[p + 1] = "e"
        /\ \/ \A k \in p + 2 .. n : t[k] \in Digit
           \/ t[p + 2] \in {"+", "-"} /\ p + 3 <= n /\ \A k \in p + 3 .. n : t[k] \in Digit
    <3>1. /\ s[p + 1] = "e"
          /\ \/ \A k \in p + 2 .. n : s[k] \in Digit
             \/ s[p + 2] \in {"+", "-"} /\ p + 3 <= n /\ \A k \in p + 3 .. n : s[k] \in Digit
      BY <2>1, <1>0, <1>1 DEF IsExponent, Digits
    <3>2. t[p + 1] = s[p + 1] /\ \A k \in p + 2 .. n : t[k] = s[k]
      BY <2>2, <1>1
    <3>3. p + 3 <= n => t[p + 2] = s[p + 2]
      BY <2>2, <1>1
    <3>4. \A k \in p + 3 .. n : t[k] = s[k]
      BY <2>2, <1>1
    <3> QED
      BY <3>1, <3>2, <3>3, <3>4
  <2>4. i = m
    BY <2>2, <2>3, <1>1, <1>3, <1>4
  <2>5. j = p
    BY <2>2, <2>3, <2>4, <1>1, <1>3, <1>4
  <2> QED
    BY <2>2, <2>3, <2>5, <1>1, <1>3, <1>4, <1>7
<1> QED
  BY <1>0, <1>5, <1>6, <1>7 DEF Ended

\* A name that has ended is no beginning of a longer one.
LEMMA NoLongerName ==
    ASSUME NEW s \in Seq(Character), NEW t \in Seq(Character), NEW c, Longer(t, s, c),
           Len(s) > 0, s[1] \in Letter, IsName(s), IsName(t), Ended(s, c)
    PROVE  FALSE
<1>1. /\ Len(s) < Len(t) /\ t[Len(s) + 1] = c /\ \A k \in 1..Len(s) : t[k] = s[k]
      /\ Len(s) \in Nat /\ Len(t) \in Nat
  BY DEF Longer
<1>2. "?" \notin Letter \cup Digit
  BY DEF Letter, Digit
<1>3. CASE Questioned(s)
  <2>1. Len(s) = 2 /\ s[2] = "?"
    BY QuestionedIs, <1>3
  <2>2. t[2] = "?" /\ Len(t) > 2
    BY <2>1, <1>1
  <2>3. ~Questioned(t)
    BY QuestionedIs, <2>2, <1>1
  <2> QED
    BY <2>2, <2>3, <1>2 DEF IsName
<1>4. CASE c \notin Letter \cup Digit /\ (s \in {<<"T">>, <<"underscore">>} => c # "?")
  <2>1. Questioned(t)
    BY <1>1, <1>4 DEF IsName
  <2>2. Len(t) <= 2 /\ t[1] \in {"T", "underscore"} /\ t[2] = "?"
    BY QuestionedIs, <2>1
  <2>3. Len(s) = 1
    <3> DEFINE n == Len(s)
    <3>1. n \in Nat /\ n > 0 /\ n < 2
      BY <2>2, <1>1
    <3> HIDE DEF n
    <3>2. n = 1
      BY ONLY <3>1
    <3> QED
      BY ONLY <3>2 DEF n
  <2>5. s[1] = t[1] /\ c = "?"
    BY <2>2, <2>3, <1>1
  <2>4. s = <<s[1]>>
    BY <2>3
  <2> QED
    BY <2>2, <2>4, <2>5, <1>4
<1> QED
  BY <1>3, <1>4 DEF Ended

\* A lexeme that has ended is no beginning of a longer one.
LEMMA NoLonger ==
    ASSUME NEW s \in Seq(Character), NEW kind, PlainLexeme(s, kind),
           NEW t \in Seq(Character), NEW c, Longer(t, s, c), Ended(s, c)
    PROVE  ~IsPlainLexeme(t)
<1> SUFFICES ASSUME NEW k, PlainLexeme(t, k) PROVE FALSE
  BY DEF IsPlainLexeme
<1>1. t[1] = s[1]
  BY LexemeIs DEF Longer
<1> QED
  BY <1>1, LexemeIs, Classes, NoLongerMark, NoLongerNumber, NoLongerName

\* An integer may be followed by a range.
LEMMA NoLongerBeforeRange ==
    ASSUME NEW s \in Seq(Character), Digits(s, 1, Len(s)),
           NEW t \in Seq(Character), Longer(t, s, "."), Len(t) > Len(s) + 1 => t[Len(s) + 2] = "."
    PROVE  ~IsPlainLexeme(t)
<1> SUFFICES ASSUME NEW k, PlainLexeme(t, k) PROVE FALSE
  BY DEF IsPlainLexeme
<1> DEFINE n == Len(s)
<1>1. /\ n < Len(t) /\ t[n + 1] = "." /\ \A m \in 1..n : t[m] \in Digit
      /\ n \in Nat /\ Len(t) \in Nat /\ 1 <= n
  BY DEF Longer, Digits
<1>2. Len(t) > n + 1 => t[n + 2] = "."
  OBVIOUS
<1> HIDE DEF n
<1>3. t[1] \in Digit
  BY <1>1
<1>4. "." \notin Digit /\ "." # "e"
  BY DEF Digit
<1>5. IsNumber(t)
  BY <1>3, LexemeIs, Classes
<1>6. IsReal(t)
  BY <1>1, <1>4, <1>5 DEF IsNumber, Digits
<1>7. PICK i \in 1 .. Len(t) - 1 : \E j \in i .. Len(t) :
          /\ Digits(t, 1, i)
          /\ j = i \/ (t[i + 1] = "." /\ Digits(t, i + 2, j))
          /\ j = Len(t) \/ IsExponent(t, j + 1)
  BY <1>6 DEF IsReal
<1>8. PICK j \in i .. Len(t) :
          /\ Digits(t, 1, i)
          /\ j = i \/ (t[i + 1] = "." /\ Digits(t, i + 2, j))
          /\ j = Len(t) \/ IsExponent(t, j + 1)
  BY <1>7
<1>9. i = n
  <2>1. i <= n
    BY <1>8, <1>1, <1>4 DEF Digits
  <2>2. t[i + 1] \in {".", "e"}
    BY <1>8 DEF IsExponent
  <2>3. "e" \notin Digit
    BY DEF Digit
  <2> QED
    BY <2>1, <2>2, <2>3, <1>1, <1>4
<1> QED
  BY <1>1, <1>2, <1>4, <1>8, <1>9 DEF Digits, IsExponent
-----------------------------------------------------------------------------
(* The text *)

\* A slice of the text, by its characters.
LEMMA SliceIs ==
    ASSUME NEW S, NEW txt \in Seq(S), NEW f \in Nat, NEW t \in Nat, 1 <= f, f <= t + 1, t <= Len(txt)
    PROVE  /\ SubSeq(txt, f, t) \in Seq(S) /\ Len(SubSeq(txt, f, t)) = t - f + 1
           /\ \A k \in 1 .. t - f + 1 : SubSeq(txt, f, t)[k] = txt[f + k - 1]
OBVIOUS

\* Reading on does not change a slice of what was read.
LEMMA SliceSame ==
    ASSUME NEW S, NEW txt \in Seq(S), NEW more \in Seq(S), Len(txt) <= Len(more),
           \A k \in 1..Len(txt) : more[k] = txt[k],
           NEW f \in Nat, NEW t \in Nat, 1 <= f, f <= t + 1, t <= Len(txt)
    PROVE  SubSeq(more, f, t) = SubSeq(txt, f, t)
OBVIOUS

\* The next character makes the slice longer by it.
LEMMA SliceNext ==
    ASSUME NEW S, NEW txt \in Seq(S), NEW f \in Nat, NEW t \in Nat, 1 <= f, f <= t + 1, t < Len(txt)
    PROVE  SubSeq(txt, f, t + 1) = Append(SubSeq(txt, f, t), txt[t + 1])
OBVIOUS

\* text' is text, with c behind it if that is where the cursor is.
LEMMA TextRead ==
    ASSUME TextOK, NEW c \in Upcoming,
           text' = IF position < Len(text) THEN text ELSE Append(text, c)
    PROVE  /\ c \in Character
           /\ text' \in Seq(Character) /\ Len(text) <= Len(text') /\ position < Len(text')
           /\ text'[position + 1] = c
           /\ \A k \in 1..Len(text) : text'[k] = text[k]
<1>1. text \in Seq(Character) /\ position \in 0 .. Len(text)
  BY DEF TextOK
<1>2. CASE position < Len(text)
  <2>1. text' = text /\ c = text[position + 1]
    BY <1>2 DEF Upcoming
  <2> QED
    BY <1>1, <1>2, <2>1
<1>3. CASE ~(position < Len(text))
  <2>1. position = Len(text)
    BY <1>1, <1>3
  <2>2. PICK v \in Vocabulary : c \in Written(v)
    BY <1>3 DEF Upcoming
  <2>3. v.begins \in Seq(Character) /\ v.chars \subseteq Character
    BY ScannerAssumption
  <2>4. c \in Character
    BY <1>1, <2>2, <2>3 DEF Written, Character, Space
  <2>5. text' = Append(text, c)
    BY <1>3
  <2> QED
    BY <1>1, <2>1, <2>4, <2>5, AppendedTo
<1> QED
  BY <1>2, <1>3

\* A token that is good stays so when the text is read further.
LEMMA GoodGrows ==
    ASSUME NEW txt \in Seq(Character), NEW more \in Seq(Character), Len(txt) <= Len(more),
           \A k \in 1..Len(txt) : more[k] = txt[k],
           NEW t, NEW b \in Nat \ {0}, Good(txt, t, b)
    PROVE  Good(more, t, b)
<1>1. IsToken(t) /\ b <= t.from /\ t.from \in Nat /\ t.to \in Nat
  BY DEF Good, IsToken
<1>2. CASE t.kind = "eof"
  <2>1. t.kind \notin PlainKinds \cup {"not", "unwrap"}
    BY <1>2 DEF PlainKinds, Marks
  <2> QED
    BY <1>1, <1>2, <2>1 DEF Good
<1>3. CASE t.kind # "eof"
  <2>0. t.from <= t.to /\ t.to < Len(txt)
    BY <1>3 DEF Good
  <2> DEFINE f == t.from
             e == t.to
             n == Len(txt)
  <2>00. f \in Nat /\ e \in Nat /\ n \in Nat /\ b <= f /\ f <= e /\ e < n
    BY <1>1, <2>0
  <2> HIDE DEF f, e, n
  <2>1. f <= e /\ e < n /\ 1 <= f /\ f <= e + 1 /\ e <= n
    BY <2>00
  <2>02. n = Len(txt)
    BY DEF n
  <2>2. SubSeq(more, f, e) = SubSeq(txt, f, e)
    BY <2>00, <2>02, <2>1, SliceSame
  <2>3. more[e + 1] = txt[e + 1] /\ more[f + 1] = txt[f + 1]
    BY <2>00, <2>02, <2>1
  <2>4. e + 1 < Len(txt) => e + 1 < Len(more) /\ more[e + 2] = txt[e + 2]
    BY <2>00, <2>02, <2>1
  <2>5. \A s : Stopped(txt, s, e) => Stopped(more, s, e)
    BY <2>3, <2>4 DEF Stopped
  <2>6. e < Len(more)
    BY <2>00, <2>02, <2>1
  <2> QED
    BY <1>1, <2>0, <2>2, <2>3, <2>5, <2>6 DEF Good, f, e
<1> QED
  BY <1>2, <1>3

\* All of the tokens stay so.
LEMMA TokensGrow ==
    ASSUME NEW txt \in Seq(Character), NEW more \in Seq(Character), Len(txt) <= Len(more),
           \A k \in 1..Len(txt) : more[k] = txt[k],
           NEW ts, TokensOK(txt, ts)
    PROVE  TokensOK(more, ts)
BY GoodGrows DEF TokensOK

\* The elements of a sequence stay its elements when one is added or changed.
LEMMA SelfAppend ==
    ASSUME NEW s, s \in Seq(ToSet(s)), NEW e
    PROVE  /\ Append(s, e) \in Seq(ToSet(Append(s, e)))
           /\ Len(Append(s, e)) = Len(s) + 1 /\ Append(s, e)[Len(s) + 1] = e
           /\ \A i \in 1..Len(s) : Append(s, e)[i] = s[i]
<1> DEFINE S == ToSet(s) \cup {e}
           r == Append(s, e)
<1>1. s \in Seq(S)
  OBVIOUS
<1>2. r \in Seq(S) /\ Len(r) = Len(s) + 1 /\ r[Len(s) + 1] = e /\ \A i \in 1..Len(s) : r[i] = s[i]
  BY <1>1, AppendedTo
<1> HIDE DEF r
<1>3. r \in Seq(ToSet(r))
  BY <1>2 DEF ToSet
<1> QED
  BY <1>2, <1>3 DEF r

\* A good token behind the last one keeps the tokens good.
LEMMA TokensAppend ==
    ASSUME NEW txt, NEW ts, TokensOK(txt, ts), NEW t, Behind(ts, Len(ts)) \in Nat \ {0},
           Good(txt, t, Behind(ts, Len(ts)))
    PROVE  /\ TokensOK(txt, Append(ts, t)) /\ Len(Append(ts, t)) > 0
           /\ Behind(Append(ts, t), Len(Append(ts, t))) = t.to + 1
<1> DEFINE us == Append(ts, t)
           n == Len(ts)
<1>1. /\ ts \in Seq(ToSet(ts)) /\ n \in Nat
      /\ \A i \in 1..n : Behind(ts, i - 1) \in Nat \ {0} /\ Good(txt, ts[i], Behind(ts, i - 1))
  BY DEF TokensOK
<1>2. /\ us \in Seq(ToSet(us)) /\ Len(us) = n + 1 /\ us[n + 1] = t
      /\ \A i \in 1..n : us[i] = ts[i]
  BY <1>1, SelfAppend
<1>3. Good(txt, t, Behind(ts, n)) /\ Behind(ts, n) \in Nat \ {0}
  OBVIOUS
<1> HIDE DEF us, n
<1>4. \A i \in 0..n : Behind(us, i) = Behind(ts, i)
  BY <1>1, <1>2 DEF Behind
<1>5. \A i \in 1..n + 1 : Behind(us, i - 1) \in Nat \ {0} /\ Good(txt, us[i], Behind(us, i - 1))
  <2> SUFFICES ASSUME NEW i \in 1..n + 1
               PROVE  Behind(us, i - 1) \in Nat \ {0} /\ Good(txt, us[i], Behind(us, i - 1))
    OBVIOUS
  <2>1. Behind(us, i - 1) = Behind(ts, i - 1)
    BY <1>1, <1>4
  <2>2. CASE i = n + 1
    <3>1. i - 1 = n /\ us[i] = t
      BY <1>1, <1>2, <2>2
    <3> QED
      BY <1>3, <2>1, <3>1
  <2>3. CASE i \in 1..n
    BY <1>1, <1>2, <2>1, <2>3
  <2> QED
    BY <1>1, <2>2, <2>3
<1>6. Behind(us, n + 1) = t.to + 1
  BY <1>1, <1>2 DEF Behind
<1>7. Len(us) > 0
  BY <1>1, <1>2
<1> QED
  BY <1>2, <1>5, <1>6, <1>7 DEF TokensOK, us

\* Noting a newline changes nothing else of a token.
LEMMA NotedIsToken ==
    ASSUME NEW t, IsToken(t)
    PROVE  LET u == [t EXCEPT !.nl = TRUE]
           IN  IsToken(u) /\ u.kind = t.kind /\ u.from = t.from /\ u.to = t.to
<1> DEFINE u == [t EXCEPT !.nl = TRUE]
           F == {"kind", "from", "to", "nl", "nillable", "value"}
<1>1. t = [field \in F |-> t[field]]
  BY DEF IsToken
<1>2. u = [t EXCEPT !.nl = TRUE]
  OBVIOUS
<1> HIDE DEF u
<1>3. /\ u.kind = t.kind /\ u.from = t.from /\ u.to = t.to /\ u.nl = TRUE
      /\ u.nillable = t.nillable /\ u = [field \in F |-> u[field]]
  BY <1>1, <1>2
<1>4. IsToken(u)
  BY <1>3 DEF IsToken
<1> QED
  BY <1>3, <1>4 DEF u

\* Noting a newline after the last token keeps the tokens good.
LEMMA TokensNoted ==
    ASSUME NEW txt, NEW ts, TokensOK(txt, ts), Len(ts) > 0
    PROVE  /\ TokensOK(txt, NewlineAfter(ts)) /\ Len(NewlineAfter(ts)) = Len(ts)
           /\ Behind(NewlineAfter(ts), Len(ts)) = Behind(ts, Len(ts))
<1> DEFINE n == Len(ts)
           u == [ts[n] EXCEPT !.nl = TRUE]
           us == [ts EXCEPT ![n] = u]
<1>1. NewlineAfter(ts) = us
  BY DEF NewlineAfter
<1>2. /\ ts \in Seq(ToSet(ts)) /\ n \in Nat /\ n > 0
      /\ \A i \in 1..n : Behind(ts, i - 1) \in Nat \ {0} /\ Good(txt, ts[i], Behind(ts, i - 1))
  BY DEF TokensOK
<1>3. IsToken(ts[n])
  BY <1>2 DEF Good
<1>4. /\ IsToken(u) /\ u.kind = ts[n].kind /\ u.from = ts[n].from /\ u.to = ts[n].to
  BY <1>3, NotedIsToken
<1>5. /\ Len(us) = n /\ us[n] = u /\ \A i \in 1..n : i # n => us[i] = ts[i]
      /\ us \in Seq(ToSet(ts) \cup {u})
  <2> DEFINE S == ToSet(ts) \cup {u}
  <2>1. ts \in Seq(S) /\ u \in S /\ n \in 1..Len(ts)
    BY <1>2
  <2> HIDE DEF u, S
  <2>2. us \in Seq(S) /\ Len(us) = Len(ts) /\ \A i \in 1..Len(ts) : us[i] = IF i = n THEN u ELSE ts[i]
    BY <2>1, ExceptSeq
  <2> QED
    BY <2>1, <2>2 DEF S
<1> HIDE DEF n, u, us
<1>6. us \in Seq(ToSet(us))
  BY <1>5 DEF ToSet
<1>7. \A i \in 1..n : us[i].to = ts[i].to
  BY <1>4, <1>5
<1>8. \A i \in 0..n : Behind(us, i) = Behind(ts, i)
  BY <1>2, <1>7 DEF Behind
<1>9. \A b : Good(txt, ts[n], b) => Good(txt, u, b)
  BY <1>4 DEF Good
<1>10. \A i \in 1..n : Behind(us, i - 1) \in Nat \ {0} /\ Good(txt, us[i], Behind(us, i - 1))
  <2> SUFFICES ASSUME NEW i \in 1..n
               PROVE  Behind(us, i - 1) \in Nat \ {0} /\ Good(txt, us[i], Behind(us, i - 1))
    OBVIOUS
  <2>1. Behind(us, i - 1) = Behind(ts, i - 1)
    BY <1>2, <1>8
  <2> QED
    BY <1>2, <1>5, <1>9, <2>1
<1>11. n \in 0..n
  BY <1>2
<1> QED
  BY <1>1, <1>5, <1>6, <1>8, <1>10, <1>11 DEF TokensOK, n
-----------------------------------------------------------------------------
(* Steps that read on *)

\* Reading a character inside of a token.
LEMMA ReadOn ==
    ASSUME ScannerInv, exit = "none", fsm_state # "START_S", NEW c \in Upcoming,
           Turn(c, c, FALSE), UNCHANGED <<tokens, first>>
    PROVE  /\ TextOK' /\ TokensOK(text', tokens') /\ Place' = Place /\ Place \in Nat \ {0}
           /\ first \in Nat /\ Place <= first /\ first <= position' /\ c \in Character
           /\ Slice(first, position) \in Seq(Character)
           /\ Slice(first, position)' = Append(Slice(first, position), c)
           /\ Reads(fsm_state, Slice(first, position))
           /\ fsm_state \notin Unlettered => lexeme = Slice(first, position)
<1>1. /\ text' = IF position < Len(text) THEN text ELSE Append(text, c)
      /\ position' = position + 1 /\ prev' = c /\ prev_prev' = prev
      /\ tokens' = tokens /\ first' = first
  BY DEF Turn
<1>2. /\ TextOK /\ TokensOK(text, tokens) /\ Place \in Nat \ {0}
      /\ first \in Nat /\ Place <= first /\ first <= position
      /\ Reads(fsm_state, Slice(first, position))
      /\ fsm_state \notin Unlettered => lexeme = Slice(first, position)
  BY DEF ScannerInv, ReadingOK
<1>3. /\ text \in Seq(Character) /\ position \in 0 .. Len(text) /\ position \in Nat
      /\ prev \in Character
  BY <1>2 DEF TextOK
<1>4. /\ c \in Character
      /\ text' \in Seq(Character) /\ Len(text) <= Len(text') /\ position < Len(text')
      /\ text'[position + 1] = c
      /\ \A k \in 1..Len(text) : text'[k] = text[k]
  BY <1>1, <1>2, TextRead
<1>5. TextOK'
  <2>1. position' \in 0 .. Len(text')
    BY <1>1, <1>3, <1>4
  <2> QED
    BY <1>1, <1>3, <1>4, <2>1 DEF TextOK
<1>6. TokensOK(text', tokens')
  BY <1>1, <1>2, <1>3, <1>4, TokensGrow
<1>7. Place' = Place
  BY <1>1 DEF Place
<1>8. 1 <= first /\ first <= position + 1 /\ position <= Len(text) /\ first <= position'
  BY <1>1, <1>2, <1>3
<1>9. SubSeq(text', first, position + 1) = Append(SubSeq(text', first, position), text'[position + 1])
  BY <1>2, <1>3, <1>4, <1>8, SliceNext
<1>10. SubSeq(text', first, position) = SubSeq(text, first, position)
  BY <1>2, <1>3, <1>4, <1>8, SliceSame
<1>11. SubSeq(text, first, position) \in Seq(Character)
  BY <1>2, <1>3, <1>8, SliceIs
<1> QED
  BY <1>1, <1>2, <1>4, <1>5, <1>6, <1>7, <1>8, <1>9, <1>10, <1>11 DEF Slice

\* Operator keeps the invariant.
LEMMA OperatorStep == ASSUME ScannerInv, Operator PROVE ScannerInv'
<1>1. PICK c \in Upcoming :
          /\ Moves(OperatorMoves, c)
          /\ UNCHANGED <<lexeme, comment_cnt, count, multiline, tokens, token_added, first>>
  BY DEF Operator
<1>2. PICK row \in OperatorMoves : row[1] = fsm_state /\ c \in row[2] /\ fsm_state' = row[3]
  BY <1>1 DEF Moves
<1>3. Turn(c, c, FALSE) /\ exit = "none" /\ exit' = exit
  BY <1>1 DEF Moves, Turn
<1>4. /\ fsm_state \in Unlettered \ (Nested \cup {"START_S", "COM_MULT_START_S"})
      /\ fsm_state' \in (State \cap Unlettered) \ (Nested \cup {"START_S", "EXCL_MARK_S"})
  BY <1>2, OperatorRows
<1>5. /\ TextOK' /\ TokensOK(text', tokens') /\ Place' = Place /\ Place \in Nat \ {0}
      /\ first \in Nat /\ Place <= first /\ first <= position'
      /\ Slice(first, position) \in Seq(Character)
      /\ Slice(first, position)' = Append(Slice(first, position), c)
      /\ Reads(fsm_state, Slice(first, position))
  BY <1>1, <1>3, <1>4, ReadOn
<1>6. Reads(fsm_state', Append(Slice(first, position), c))
  BY <1>2, <1>5, OperatorReads
<1>7. StateOK'
  BY <1>1, <1>3, <1>4 DEF StateOK, ScannerInv
<1>8. ReadingOK' /\ BetweenOK'
  BY <1>1, <1>4, <1>5, <1>6 DEF ReadingOK, BetweenOK, Slice
<1> QED
  BY <1>5, <1>7, <1>8 DEF ScannerInv

\* A step that collects c for a word, a number or a string.
LEMMA CollectStep ==
    ASSUME ScannerInv, exit = "none", fsm_state \in State \ Unlettered,
           fsm_state' \in State \ Unlettered, NEW c \in Upcoming,
           Turn(c, c, FALSE), Collect(c), UNCHANGED <<comment_cnt, tokens, token_added, first, exit>>,
           count' \in 0 .. 9, multiline' \in BOOLEAN,
           c \in Character /\ lexeme = Slice(first, position)
              => Reads(fsm_state', Append(Slice(first, position), c))
    PROVE  ScannerInv'
<1>1. fsm_state # "START_S" /\ fsm_state' # "START_S" /\ fsm_state' # "EXCL_MARK_S"
  BY DEF Unlettered
<1>2. /\ TextOK' /\ TokensOK(text', tokens') /\ Place' = Place /\ Place \in Nat \ {0}
      /\ first \in Nat /\ Place <= first /\ first <= position' /\ c \in Character
      /\ Slice(first, position) \in Seq(Character)
      /\ Slice(first, position)' = Append(Slice(first, position), c)
      /\ lexeme = Slice(first, position)
  BY <1>1, ReadOn
<1>3. lexeme' = Slice(first, position)' /\ lexeme' \in Seq(Character)
  BY <1>2, AppendedTo DEF Collect
<1>4. StateOK'
  <2>1. fsm_state' \notin Nested \cup {"COM_MULT_START_S"} /\ comment_cnt = 0
    BY DEF StateOK, ScannerInv, Unlettered
  <2> QED
    BY <1>3, <2>1 DEF StateOK, ScannerInv
<1>5. ReadingOK' /\ BetweenOK'
  BY <1>1, <1>2, <1>3 DEF ReadingOK, BetweenOK, Slice
<1> QED
  BY <1>2, <1>4, <1>5 DEF ScannerInv

\* NumberOrWord keeps the invariant.
LEMMA NumberOrWordStep == ASSUME ScannerInv, NumberOrWord PROVE ScannerInv'
<1>1. PICK c \in Upcoming :
          /\ Moves(NumberMoves \cup WordMoves, c) /\ Collect(c)
          /\ UNCHANGED <<comment_cnt, count, multiline, tokens, token_added, first>>
  BY DEF NumberOrWord
<1>2. PICK row \in NumberMoves \cup WordMoves :
          row[1] = fsm_state /\ c \in row[2] /\ fsm_state' = row[3]
  BY <1>1 DEF Moves
<1>3. Turn(c, c, FALSE) /\ exit = "none" /\ exit' = exit
  BY <1>1 DEF Moves, Turn
<1>4. fsm_state \in State \ Unlettered /\ fsm_state' \in State \ Unlettered
  BY <1>2, NumberRows, WordRows
<1>5. fsm_state # "START_S"
  BY <1>4 DEF Unlettered
<1>6. Slice(first, position) \in Seq(Character) /\ Reads(fsm_state, Slice(first, position))
  BY <1>1, <1>3, <1>5, ReadOn
<1>7. lexeme = Slice(first, position) => Reads(fsm_state', Append(Slice(first, position), c))
  BY <1>2, <1>6, NumberReads, WordReads
<1>8. count \in 0 .. 9 /\ multiline \in BOOLEAN
  BY DEF ScannerInv, StateOK
<1> QED
  BY <1>1, <1>3, <1>4, <1>7, <1>8, CollectStep

\* String keeps the invariant.
LEMMA StringStep == ASSUME ScannerInv, String PROVE ScannerInv'
<1>1. PICK c \in Upcoming :
          /\ Moves(StringMoves, c) /\ Collect(c)
          /\ multiline' = (multiline \/ fsm_state = "STR_2_START_S")
          /\ UNCHANGED <<comment_cnt, count, tokens, token_added, first>>
  BY DEF String
<1>2. PICK row \in StringMoves :
          row[1] = fsm_state /\ c \in row[2] /\ fsm_state' = row[3]
  BY <1>1 DEF Moves
<1>3. Turn(c, c, FALSE) /\ exit = "none" /\ exit' = exit
  BY <1>1 DEF Moves, Turn
<1>4. /\ fsm_state \in State \ Unlettered /\ fsm_state' \in State \ Unlettered
      /\ fsm_state' \notin Spoken
  BY <1>2, StringRows
<1>5. count \in 0 .. 9 /\ multiline' \in BOOLEAN
  BY <1>1 DEF ScannerInv, StateOK
<1> QED
  BY <1>1, <1>3, <1>4, <1>5, UnspokenReads, CollectStep

\* Escape keeps the invariant.
LEMMA EscapeStep == ASSUME ScannerInv, Escape PROVE ScannerInv'
<1>1. PICK c \in Upcoming :
          /\ Moves(EscapeMoves, c) /\ Collect(c)
          /\ count' = CASE fsm_state = "U_SEC_START_S" -> 1
                        [] fsm_state = "U_SEC_NUM_S" /\ c \in HexDigit -> count + 1
                        [] OTHER -> count
          /\ UNCHANGED <<comment_cnt, multiline, tokens, token_added, first>>
  BY DEF Escape
<1>2. PICK row \in EscapeMoves :
          row[1] = fsm_state /\ c \in row[2] /\ fsm_state' = row[3]
  BY <1>1 DEF Moves
<1>3. Turn(c, c, FALSE) /\ exit = "none" /\ exit' = exit
  BY <1>1 DEF Moves, Turn
<1>4. /\ fsm_state \in State \ Unlettered /\ fsm_state' \in State \ Unlettered
      /\ fsm_state' \notin Spoken
      /\ fsm_state = "U_SEC_NUM_S" => ~TooLong
  BY <1>2, EscapeRows
<1>5. count \in 0 .. 9 /\ multiline \in BOOLEAN
  BY DEF ScannerInv, StateOK
<1>6. count' \in 0 .. 9
  BY <1>1, <1>4, <1>5 DEF TooLong
<1> QED
  BY <1>1, <1>3, <1>4, <1>5, <1>6, UnspokenReads, CollectStep

\* Comment keeps the invariant.
LEMMA CommentStep == ASSUME ScannerInv, Comment PROVE ScannerInv'
<1>1. PICK c \in Upcoming :
          /\ Moves(CommentMoves, c)
          /\ comment_cnt' = comment_cnt + IF fsm_state = "COM_MULT_START_S" THEN 1 ELSE 0
          /\ UNCHANGED <<lexeme, count, multiline, tokens, token_added, first>>
  BY DEF Comment
<1>2. PICK row \in CommentMoves : row[1] = fsm_state /\ c \in row[2] /\ fsm_state' = row[3]
  BY <1>1 DEF Moves
<1>3. Turn(c, c, FALSE) /\ exit = "none" /\ exit' = exit
  BY <1>1 DEF Moves, Turn
<1>4. /\ fsm_state \in {"COM_SINGLE_S", "COM_MULT_START_S"} \cup Nested
      /\ fsm_state = "COM_SINGLE_S" => fsm_state' \in {"COM_SINGLE_S", "COM_END_SINGLE_S"}
      /\ fsm_state # "COM_SINGLE_S" => fsm_state' \in Nested \cup {"COM_MULT_START_S"}
  BY <1>2, CommentRows
<1>5. /\ fsm_state # "START_S" /\ fsm_state' # "START_S" /\ fsm_state' # "EXCL_MARK_S"
      /\ fsm_state \in Unlettered /\ fsm_state' \in State \cap Unlettered
      /\ fsm_state' \notin Spoken
  BY <1>4, DomSpelled DEF Nested, Unlettered, State, Spoken
<1>6. /\ TextOK' /\ TokensOK(text', tokens') /\ Place' = Place /\ Place \in Nat \ {0}
      /\ first \in Nat /\ Place <= first /\ first <= position'
  BY <1>1, <1>3, <1>5, ReadOn
<1>7. StateOK'
  <2>1. /\ comment_cnt' \in Nat
        /\ fsm_state' \in Nested => comment_cnt' > 0
        /\ fsm_state' \notin Nested \cup {"COM_MULT_START_S"} => comment_cnt' = 0
    <3>1. StateOK
      BY DEF ScannerInv
    <3>2. CASE fsm_state = "COM_SINGLE_S"
      <4>1. comment_cnt = 0 /\ fsm_state' \notin Nested
        BY <3>1, <3>2, <1>4 DEF StateOK, Nested
      <4> QED
        BY <4>1, <3>2, <1>1
    <3>3. CASE fsm_state = "COM_MULT_START_S"
      BY <3>1, <3>3, <1>1, <1>4 DEF StateOK
    <3>4. CASE fsm_state \in Nested
      <4>1. comment_cnt > 0 /\ comment_cnt \in Nat /\ fsm_state # "COM_MULT_START_S"
            /\ fsm_state # "COM_SINGLE_S"
        BY <3>1, <3>4 DEF StateOK, Nested
      <4> QED
        BY <4>1, <1>1, <1>4
    <3> QED
      BY <3>2, <3>3, <3>4, <1>4
  <2> QED
    BY <1>1, <1>3, <1>5, <2>1 DEF StateOK, ScannerInv
<1>8. ReadingOK' /\ BetweenOK'
  BY <1>1, <1>5, <1>6, UnspokenReads DEF ReadingOK, BetweenOK
<1> QED
  BY <1>6, <1>7, <1>8 DEF ScannerInv
-----------------------------------------------------------------------------
(* Steps that go back to the start *)

\* A turn of the loop leaves the tokens as they were and reads a character or puts
\* it back.
LEMMA TurnText ==
    ASSUME TextOK, TokensOK(text, tokens), NEW c \in Upcoming, NEW seen, NEW back, Turn(c, seen, back),
           seen = c \/ seen \in Space
    PROVE  /\ TextOK' /\ TokensOK(text', tokens) /\ c \in Character
           /\ exit = "none" /\ prev' = seen /\ prev_prev' = prev
           /\ position' = IF back THEN position ELSE position + 1
           /\ position \in Nat /\ position' \in Nat /\ position <= position' /\ position' <= position + 1
           /\ position < Len(text') /\ text'[position + 1] = c
           /\ text' \in Seq(Character) /\ Len(text) <= Len(text') /\ position <= Len(text)
           /\ \A k \in 1..Len(text) : text'[k] = text[k]
<1>1. /\ text' = IF position < Len(text) THEN text ELSE Append(text, c)
      /\ position' = IF back THEN position ELSE position + 1
      /\ prev' = seen /\ prev_prev' = prev /\ exit = "none"
  BY DEF Turn
<1>2. text \in Seq(Character) /\ position \in 0 .. Len(text) /\ prev \in Character
  BY DEF TextOK
<1>3. /\ c \in Character
      /\ text' \in Seq(Character) /\ Len(text) <= Len(text') /\ position < Len(text')
      /\ text'[position + 1] = c
      /\ \A k \in 1..Len(text) : text'[k] = text[k]
  BY <1>1, TextRead
<1>4. /\ position \in Nat /\ position' \in Nat /\ position <= position' /\ position' <= position + 1
      /\ position <= Len(text) /\ position' \in 0 .. Len(text')
  BY <1>1, <1>2, <1>3
<1>5. TokensOK(text', tokens)
  BY <1>2, <1>3, TokensGrow
<1>6. TextOK'
  <2>1. prev' \in Character
    BY <1>1, <1>3 DEF Space, Character
  <2> QED
    BY <1>1, <1>2, <1>3, <1>4, <2>1 DEF TextOK
<1> QED
  BY <1>1, <1>2, <1>3, <1>4, <1>5, <1>6

\* Arithmetic of places between two tokens.
LEMMA InOrder ==
    \A a, b, c, d \in Nat :
        a <= b /\ b <= c /\ c <= d => a <= d + 1 /\ a <= d /\ b <= d
OBVIOUS

\* The end of a comment, behind which seen is taken to stand.
LEMMA CommentOver ==
    ASSUME ScannerInv, exit = "none", fsm_state # "START_S", NEW c \in Upcoming,
           NEW seen, NEW back, Turn(c, seen, back), fsm_state' = "START_S" => seen \in Space,
           seen = c \/ seen \in Space, UNCHANGED <<tokens, first>>, fsm_state' \notin Spoken,
           fsm_state' \in Unlettered
    PROVE  TextOK' /\ TokensOK(text', tokens') /\ Place' \in Nat \ {0} /\ ReadingOK' /\ BetweenOK'
<1>1. /\ TextOK /\ TokensOK(text, tokens) /\ Place \in Nat \ {0}
      /\ first \in Nat /\ Place <= first /\ first <= position
  BY DEF ScannerInv, ReadingOK
<1>2. /\ TextOK' /\ TokensOK(text', tokens) /\ prev' = seen
      /\ position \in Nat /\ position' \in Nat /\ position <= position'
  BY <1>1, TurnText
<1>3. tokens' = tokens /\ first' = first /\ Place' = Place
  BY DEF Place
<1>4. Place <= position' + 1 /\ Place <= position' /\ first <= position'
  BY <1>1, <1>2, InOrder
<1>5. BetweenOK'
  BY <1>2, <1>3, <1>4 DEF BetweenOK
<1>6. ReadingOK'
  <2>1. fsm_state' # "EXCL_MARK_S"
    BY DEF Spoken
  <2> QED
    BY <1>1, <1>3, <1>4, <2>1, UnspokenReads DEF ReadingOK
<1> QED
  BY <1>1, <1>2, <1>3, <1>5, <1>6

\* CommentEnd keeps the invariant, whatever it puts back.
LEMMA CommentEndStep == ASSUME ScannerInv, CommentEnd PROVE ScannerInv'
<1>1. PICK c \in Upcoming :
          /\ fsm_state' = CASE ~StillOpen -> "START_S"
                            [] StillOpen /\ c = "/" -> "COM_MULT_NEW_S"
                            [] OTHER -> "COM_MULT_S"
          /\ Turn(c, IF StillOpen THEN c ELSE "blank", PutBack(c) /\ ~(StillOpen /\ c = "/"))
  BY DEF CommentEnd
<1>2. /\ fsm_state = "COM_MULT_END_S" /\ comment_cnt' = comment_cnt - 1
      /\ UNCHANGED <<lexeme, count, multiline, tokens, token_added, first, exit>>
  BY DEF CommentEnd
<1>3. exit = "none"
  BY <1>1 DEF Turn
<1>4. /\ fsm_state' \in {"START_S", "COM_MULT_NEW_S", "COM_MULT_S"}
      /\ fsm_state' = "START_S" <=> ~StillOpen
  BY <1>1
<1>5. fsm_state' \in State \cap Unlettered /\ fsm_state' \notin Spoken
  BY <1>4, DomSpelled DEF Nested, Unlettered, State, Spoken
<1>6. TextOK' /\ TokensOK(text', tokens') /\ Place' \in Nat \ {0} /\ ReadingOK' /\ BetweenOK'
  <2> DEFINE seen == IF StillOpen THEN c ELSE "blank"
             back == PutBack(c) /\ ~(StillOpen /\ c = "/")
  <2>1. /\ fsm_state' = "START_S" => seen \in Space
        /\ seen = c \/ seen \in Space
    BY <1>4 DEF Space
  <2>2. Turn(c, seen, back)
    BY <1>1
  <2> HIDE DEF seen, back
  <2> QED
    BY <1>2, <1>3, <1>5, <2>1, <2>2, CommentOver
<1>7. StateOK'
  <2>1. StateOK /\ comment_cnt \in Nat /\ comment_cnt > 0 /\ lexeme = <<>>
    BY <1>2 DEF ScannerInv, StateOK, Nested, Unlettered
  <2>2. /\ comment_cnt' \in Nat
        /\ fsm_state' \in Nested => comment_cnt' > 0
        /\ fsm_state' \notin Nested \cup {"COM_MULT_START_S"} => comment_cnt' = 0
    BY <1>2, <1>4, <2>1 DEF StillOpen, Nested
  <2> QED
    BY <1>2, <1>5, <2>1, <2>2 DEF StateOK
<1> QED
  BY <1>6, <1>7 DEF ScannerInv

\* LineCommentEnd keeps the invariant.
LEMMA LineCommentEndStep == ASSUME ScannerInv, LineCommentEnd PROVE ScannerInv'
<1>1. PICK c \in Upcoming : Turn(c, BehindLine, PutBack(c))
  BY DEF LineCommentEnd
<1>2. /\ fsm_state = "COM_END_SINGLE_S" /\ fsm_state' = "START_S"
      /\ UNCHANGED <<lexeme, comment_cnt, count, multiline, tokens, token_added, first, exit>>
  BY DEF LineCommentEnd
<1>3. exit = "none" /\ BehindLine \in Space
  BY <1>1 DEF Turn, BehindLine, Space
<1>4. fsm_state' \in State \cap Unlettered /\ fsm_state' \notin Spoken /\ fsm_state # "START_S"
  BY <1>2, DomSpelled DEF Unlettered, State, Spoken
<1>5. TextOK' /\ TokensOK(text', tokens') /\ Place' \in Nat \ {0} /\ ReadingOK' /\ BetweenOK'
  <2> DEFINE back == PutBack(c)
  <2>1. Turn(c, BehindLine, back)
    BY <1>1
  <2> HIDE DEF back
  <2> QED
    BY <1>2, <1>3, <1>4, <2>1, CommentOver
<1>6. StateOK'
  <2>1. StateOK /\ comment_cnt = 0 /\ lexeme = <<>>
    BY <1>2 DEF ScannerInv, StateOK, Nested, Unlettered
  <2> QED
    BY <1>2, <1>4, <2>1 DEF StateOK, Nested
<1> QED
  BY <1>5, <1>6 DEF ScannerInv

\* A slice of one character.
LEMMA SliceOne ==
    ASSUME NEW S, NEW txt \in Seq(S), NEW f \in Nat, 1 <= f, f <= Len(txt)
    PROVE  SubSeq(txt, f, f) = <<txt[f]>>
<1> DEFINE u == SubSeq(txt, f, f)
<1>1. /\ u \in Seq(S) /\ Len(u) = f - f + 1
      /\ \A k \in 1 .. f - f + 1 : u[k] = txt[f + k - 1]
  BY SliceIs
<1> HIDE DEF u
<1>2. Len(u) = 1 /\ u[1] = txt[f]
  BY <1>1
<1>3. u = <<txt[f]>>
  BY <1>1, <1>2
<1> QED
  BY <1>3 DEF u

\* Arithmetic of the place where a token begins.
LEMMA StartNumbers ==
    ASSUME NEW p \in Nat, NEW b \in Nat \ {0}, b <= p + 1
    PROVE  /\ p + 1 \in Nat /\ 1 <= p + 1 /\ b <= p + 1 + 1
           /\ b < p + 1 \/ p + 1 = 1 <=> b <= p \/ p = 0
OBVIOUS

\* Start keeps the invariant: a token begins behind the last one.
LEMMA StartStep == ASSUME ScannerInv, Start PROVE ScannerInv'
<1>1. PICK c \in Upcoming :
        /\ Moves(StartMoves, c)
        /\ IF prev = "\n" /\ token_added
           THEN tokens' = NewlineAfter(tokens) /\ token_added' = FALSE
           ELSE UNCHANGED <<tokens, token_added>>
        /\ IF c \in Digit \cup Letter \cup {"quote"} THEN Collect(c) ELSE UNCHANGED lexeme
        /\ multiline' = (multiline /\ c # "quote")
        /\ first' = position + 1
        /\ UNCHANGED <<comment_cnt, count>>
  BY DEF Start
<1>2. PICK row \in StartMoves : row[1] = fsm_state /\ c \in row[2] /\ fsm_state' = row[3]
  BY <1>1 DEF Moves
<1>3. Turn(c, c, FALSE) /\ exit = "none" /\ exit' = exit
  BY <1>1 DEF Moves, Turn
<1>4. /\ fsm_state = "START_S" /\ fsm_state' \in State \ Nested
      /\ fsm_state' \in Unlettered <=> c \notin Digit \cup Letter \cup {"quote"}
      /\ fsm_state' = "START_S" <=> c \in Space
      /\ Reads(fsm_state', <<c>>)
  BY <1>2, StartRows, StartReads
<1>5. /\ StateOK /\ TextOK /\ TokensOK(text, tokens) /\ Place \in Nat \ {0}
      /\ Place <= position + 1
      /\ prev \in Space <=> Place <= position \/ position = 0
      /\ lexeme = <<>> /\ comment_cnt = 0
  BY <1>3, <1>4 DEF ScannerInv, BetweenOK, StateOK, Unlettered, Nested
<1>6. /\ TextOK' /\ TokensOK(text', tokens) /\ c \in Character /\ prev' = c /\ prev_prev' = prev
      /\ position' = position + 1 /\ position \in Nat
      /\ position < Len(text') /\ text'[position + 1] = c /\ text' \in Seq(Character)
  <2> DEFINE back == FALSE
  <2>1. Turn(c, c, back) /\ ~back
    BY <1>3
  <2> HIDE DEF back
  <2> QED
    BY <1>5, <2>1, TurnText
<1>7. TokensOK(text', tokens') /\ Place' = Place /\ (token_added' => Len(tokens') > 0)
  <2>1. CASE prev = "\n" /\ token_added
    <3>1. tokens' = NewlineAfter(tokens) /\ token_added' = FALSE /\ Len(tokens) > 0
      BY <1>1, <1>5, <2>1 DEF StateOK
    <3>2. /\ TokensOK(text', NewlineAfter(tokens)) /\ Len(NewlineAfter(tokens)) = Len(tokens)
          /\ Behind(NewlineAfter(tokens), Len(tokens)) = Behind(tokens, Len(tokens))
      BY <1>6, <3>1, TokensNoted
    <3> QED
      BY <3>1, <3>2 DEF Place
  <2>2. CASE ~(prev = "\n" /\ token_added)
    <3>1. tokens' = tokens /\ token_added' = token_added
      BY <1>1, <2>2
    <3> QED
      BY <1>5, <1>6, <3>1 DEF StateOK, Place
  <2> QED
    BY <2>1, <2>2
<1>8. /\ c \in Digit \cup Letter \cup {"quote"} => lexeme' = <<c>>
      /\ c \notin Digit \cup Letter \cup {"quote"} => lexeme' = <<>>
      /\ lexeme' \in Seq(Character)
  <2>1. Append(<<>>, c) = <<c>> /\ <<c>> \in Seq(Character) /\ <<>> \in Seq(Character)
    BY <1>6
  <2>2. CASE c \in Digit \cup Letter \cup {"quote"}
    <3>1. lexeme' = Append(lexeme, c)
      BY <1>1, <2>2 DEF Collect
    <3> QED
      BY <1>5, <2>1, <2>2, <3>1
  <2>3. CASE c \notin Digit \cup Letter \cup {"quote"}
    <3>1. lexeme' = lexeme
      BY <1>1, <2>3
    <3> QED
      BY <1>5, <2>1, <2>3, <3>1
  <2> QED
    BY <2>2, <2>3
<1>9. StateOK'
  <2>1. multiline' \in BOOLEAN /\ token_added' \in BOOLEAN
    BY <1>1, <1>5 DEF StateOK
  <2> QED
    BY <1>1, <1>3, <1>4, <1>5, <1>7, <1>8, <2>1 DEF StateOK
<1>10. /\ position + 1 \in Nat /\ 1 <= position + 1 /\ Place <= position + 1 + 1
       /\ Place < position + 1 \/ position + 1 = 1 <=> Place <= position \/ position = 0
       /\ position + 1 <= Len(text')
  BY <1>5, <1>6, StartNumbers
<1>11. Slice(first, position)' = <<c>>
  <2>1. SubSeq(text', position + 1, position + 1) = <<text'[position + 1]>>
    BY <1>6, <1>10, SliceOne
  <2> QED
    BY <1>1, <1>6, <2>1 DEF Slice
<1>12. ReadingOK'
  <2> SUFFICES ASSUME fsm_state' # "START_S" PROVE ReadingOK'
    BY DEF ReadingOK
  <2>1. first' \in Nat /\ Place' <= first' /\ first' <= position'
    BY <1>1, <1>5, <1>6, <1>7, <1>10
  <2>2. fsm_state' = "EXCL_MARK_S" => (prev_prev' \in Space <=> Place' < first' \/ first' = 1)
    BY <1>1, <1>5, <1>6, <1>7, <1>10
  <2>3. fsm_state' \notin Unlettered => lexeme' = <<c>>
    BY <1>4, <1>8
  <2> QED
    BY <1>4, <1>11, <2>1, <2>2, <2>3 DEF ReadingOK, Slice
<1>13. BetweenOK'
  <2> SUFFICES ASSUME fsm_state' = "START_S" PROVE BetweenOK'
    BY DEF BetweenOK
  <2>1. prev' \in Space
    BY <1>4, <1>6
  <2>2. Place' <= position' /\ Place' <= position' + 1
    BY <1>5, <1>6, <1>7, <1>10
  <2> QED
    BY <2>1, <2>2 DEF BetweenOK
<1> QED
  BY <1>5, <1>6, <1>7, <1>9, <1>12, <1>13 DEF ScannerInv
-----------------------------------------------------------------------------
(* Steps that end a token *)

\* The kinds of marks are among those of plain lexemes.
LEMMA MarkKinds == \A kind, s : <<kind, s>> \in Marks => kind \in PlainKinds
BY DEF PlainKinds, Marks

\* The states in which a token may end, and its kind.
LEMMA KindIs ==
    ASSUME NEW c, Kind(c) # "none"
    PROVE  \/ fsm_state \in DOMAIN Spelled /\ Kind(c) = Spelled[fsm_state]
           \/ fsm_state = "EXCL_MARK_S" /\ Kind(c) = Exclamation(c)
           \/ fsm_state = "INTEGER_S" /\ Kind(c) = "int"
           \/ fsm_state \in {"REAL_NUM_S", "REAL_EXP_S"} /\ Kind(c) = "real"
           \/ fsm_state = "ID_S" /\ c # "?" /\ Kind(c) = is_keyword(lexeme)
           \/ fsm_state = "TYPE_NIL_S" /\ Kind(c) = is_keyword(Front(lexeme))
           \/ fsm_state \in {"STR_1_END_S", "STR_2_END_S"} /\ Kind(c) = "string"
BY DEF Kind

\* What was read as a word is a name or a keyword.
LEMMA WordKind ==
    ASSUME NEW s \in Seq(Character), Reads("ID_S", s)
    PROVE  PlainLexeme(s, is_keyword(s)) /\ is_keyword(s) \in {"type", "underscore", "id"}
<1>1. s # <<>> /\ s[1] \in Letter /\ \A k \in 1..Len(s) : s[k] \in Letter \cup Digit
  BY DomSpelled DEF Reads
<1>2. IsWord(s)
  BY <1>1, RunIs DEF IsWord
<1>3. CASE s = <<"T">>
  BY <1>3 DEF is_keyword, PlainLexeme, IsType
<1>4. CASE s = <<"underscore">>
  BY <1>4 DEF is_keyword, PlainLexeme
<1>5. CASE s # <<"T">> /\ s # <<"underscore">>
  <2>1. is_keyword(s) = "id"
    BY <1>5 DEF is_keyword
  <2>2. s # <<"T", "?">>
    BY <1>1 DEF Letter, Digit
  <2> QED
    BY <1>2, <1>5, <2>1, <2>2 DEF PlainLexeme, IsType
<1> QED
  BY <1>3, <1>4, <1>5

\* The front of two elements.
LEMMA FrontOne ==
    ASSUME NEW a, NEW b
    PROVE  Front(<<a, b>>) = <<a>>
<1> DEFINE s == <<a, b>>
           S == {a, b}
<1>1. s \in Seq(S) /\ Len(s) = 2 /\ s[1] = a
  OBVIOUS
<1> HIDE DEF s, S
<1>2. SubSeq(s, 1, 1) = <<s[1]>>
  BY <1>1, SliceOne
<1>3. Front(s) = SubSeq(s, 1, 1)
  BY <1>1 DEF Front
<1> QED
  BY <1>1, <1>2, <1>3 DEF s

\* What was read as a word with "?" is a type or "_?".
LEMMA MarkedKind ==
    ASSUME NEW s, Questioned(s)
    PROVE  PlainLexeme(s, is_keyword(Front(s))) /\ is_keyword(Front(s)) \in {"type", "underscore"}
<1>1. CASE s = <<"T", "?">>
  <2>1. Front(s) = <<"T">>
    BY <1>1, FrontOne
  <2> QED
    BY <1>1, <2>1 DEF is_keyword, PlainLexeme, IsType
<1>2. CASE s = <<"underscore", "?">>
  <2>1. Front(s) = <<"underscore">>
    BY <1>2, FrontOne
  <2> QED
    BY <1>2, <2>1 DEF is_keyword, PlainLexeme, MarkedKeyword
<1> QED
  BY <1>1, <1>2 DEF Questioned, MarkedKeyword

\* What was read as a number is one, of its kind.
LEMMA NumberKind ==
    ASSUME NEW s \in Seq(Character)
    PROVE  /\ Reads("INTEGER_S", s) => PlainLexeme(s, "int")
           /\ Reads("REAL_NUM_S", s) => PlainLexeme(s, "real")
           /\ Reads("REAL_EXP_S", s) => PlainLexeme(s, "real")
<1>1. ASSUME Reads("INTEGER_S", s)
      PROVE  PlainLexeme(s, "int")
  <2>1. Digits(s, 1, Len(s))
    BY <1>1, DomSpelled DEF Reads
  <2>2. Len(s) > 0 /\ \A k \in 1..Len(s) : s[k] \in Digit
    BY <2>1 DEF Digits
  <2> QED
    BY <2>2, RunIs DEF PlainLexeme, IsInt
<1>2. ASSUME Reads("REAL_NUM_S", s)
      PROVE  PlainLexeme(s, "real")
  <2>1. PICK i \in 1..Len(s) : Fraction(s, i)
    BY <1>2, DomSpelled DEF Reads
  <2>2. i \in 1..Len(s) - 1 /\ Len(s) \in i..Len(s)
    BY <2>1 DEF Fraction, Digits
  <2>3. /\ Digits(s, 1, i) /\ s[i + 1] = "." /\ Digits(s, i + 2, Len(s))
    BY <2>1 DEF Fraction
  <2> QED
    BY <2>2, <2>3 DEF PlainLexeme, IsReal
<1>3. ASSUME Reads("REAL_EXP_S", s)
      PROVE  PlainLexeme(s, "real")
  <2>1. PICK i \in 1..Len(s), j \in 1..Len(s) : Mantissa(s, i, j) /\ IsExponent(s, j + 1)
    BY <1>3, DomSpelled DEF Reads
  <2>2. i \in 1..Len(s) - 1 /\ j \in i..Len(s)
    BY <2>1 DEF Mantissa, IsExponent, Digits
  <2>3. Digits(s, 1, i) /\ (j = i \/ (s[i + 1] = "." /\ Digits(s, i + 2, j)))
    BY <2>1 DEF Mantissa
  <2> QED
    BY <2>1, <2>2, <2>3 DEF PlainLexeme, IsReal
<1> QED
  BY <1>1, <1>2, <1>3

\* Which kinds are plain.
LEMMA OtherKinds ==
    /\ {"int", "real", "type", "underscore", "id", "not", "unwrap"} \subseteq PlainKinds
    /\ "string" \notin PlainKinds
    /\ \A st \in DOMAIN Spelled : Spelled[st] \notin {"not", "unwrap", "string"}
BY DomSpelled DEF PlainKinds, Marks, Spelled

\* The kind of a token is that of the text read.
LEMMA KindReads ==
    ASSUME NEW c, Kind(c) # "none", NEW s \in Seq(Character), Reads(fsm_state, s),
           fsm_state \notin Unlettered => lexeme = s
    PROVE  /\ Kind(c) \in PlainKinds \cup {"string"}
           /\ Kind(c) \in PlainKinds => PlainLexeme(s, Kind(c))
           /\ Kind(c) = "string" <=> fsm_state \in {"STR_1_END_S", "STR_2_END_S"}
           /\ Kind(c) \in {"not", "unwrap"} <=> fsm_state = "EXCL_MARK_S"
<1> DEFINE k == Kind(c)
<1>1. \/ fsm_state \in DOMAIN Spelled /\ k = Spelled[fsm_state]
      \/ fsm_state = "EXCL_MARK_S" /\ k = Exclamation(c)
      \/ fsm_state = "INTEGER_S" /\ k = "int"
      \/ fsm_state \in {"REAL_NUM_S", "REAL_EXP_S"} /\ k = "real"
      \/ fsm_state = "ID_S" /\ c # "?" /\ k = is_keyword(lexeme)
      \/ fsm_state = "TYPE_NIL_S" /\ k = is_keyword(Front(lexeme))
      \/ fsm_state \in {"STR_1_END_S", "STR_2_END_S"} /\ k = "string"
  BY KindIs
<1> HIDE DEF k
<1>2. CASE fsm_state \in DOMAIN Spelled
  <2>1. k = Spelled[fsm_state] /\ <<k, s>> \in Marks
    BY <1>1, <1>2, DomSpelled DEF Reads
  <2>2. PlainLexeme(s, k) /\ k \in PlainKinds
    BY <2>1, MarkKinds DEF PlainLexeme
  <2> QED
    BY <1>2, <2>1, <2>2, OtherKinds, DomSpelled DEF k
<1>3. CASE fsm_state = "EXCL_MARK_S"
  <2>1. k = Exclamation(c) /\ s = <<"!">>
    BY <1>1, <1>3, DomSpelled DEF Reads
  <2>2. k \in {"not", "unwrap"}
    BY <2>1 DEF Exclamation
  <2>3. <<k, s>> \in Marks
    BY <2>1, <2>2 DEF Marks
  <2> QED
    BY <1>3, <2>2, <2>3, OtherKinds DEF PlainLexeme, k
<1>4. CASE fsm_state = "INTEGER_S"
  <2>1. k = "int" /\ PlainLexeme(s, "int")
    BY <1>1, <1>4, DomSpelled, NumberKind
  <2> QED
    BY <1>4, <2>1, OtherKinds DEF k
<1>5. CASE fsm_state \in {"REAL_NUM_S", "REAL_EXP_S"}
  <2>1. k = "real" /\ PlainLexeme(s, "real")
    BY <1>1, <1>5, DomSpelled, NumberKind
  <2> QED
    BY <1>5, <2>1, OtherKinds DEF k
<1>6. CASE fsm_state = "ID_S"
  <2>1. k = is_keyword(s)
    BY <1>1, <1>6, DomSpelled DEF Unlettered, Nested
  <2>2. PlainLexeme(s, k) /\ k \in {"type", "underscore", "id"}
    BY <1>6, <2>1, WordKind
  <2> QED
    BY <1>6, <2>2, OtherKinds DEF k
<1>7. CASE fsm_state = "TYPE_NIL_S"
  <2>1. k = is_keyword(Front(s))
    BY <1>1, <1>7, DomSpelled DEF Unlettered, Nested
  <2>2. Questioned(s)
    BY <1>7, DomSpelled DEF Reads, Questioned
  <2>3. PlainLexeme(s, k) /\ k \in {"type", "underscore"}
    BY <2>1, <2>2, MarkedKind
  <2> QED
    BY <1>7, <2>3, OtherKinds DEF k
<1>8. CASE fsm_state \in {"STR_1_END_S", "STR_2_END_S"}
  <2>1. k = "string"
    BY <1>1, <1>8, DomSpelled
  <2> QED
    BY <1>8, <2>1, OtherKinds DEF k
<1> QED
  BY <1>1, <1>2, <1>3, <1>4, <1>5, <1>6, <1>7, <1>8 DEF k

\* The characters with which the automaton cannot go on.
LEMMA NoRow ==
    ASSUME NEW c, ~HasRow(OperatorMoves \cup NumberMoves \cup WordMoves \cup StringMoves, c)
    PROVE  /\ fsm_state \in {"EXCL_MARK_S", "GREATER_S", "LESS_S", "ASSIGN_S"} => c # "="
           /\ fsm_state = "MINUS_S" => c # ">"
           /\ fsm_state = "INTEGER_S" => c \notin Digit \cup {"e", "."}
           /\ fsm_state = "REAL_NUM_S" => c \notin Digit \cup {"e"}
           /\ fsm_state = "REAL_EXP_S" => c \notin Digit
           /\ fsm_state = "ID_S" => c \notin Letter \cup Digit
<1>1. \A row \in OperatorMoves \cup NumberMoves \cup WordMoves : row[1] = fsm_state => c \notin row[2]
  BY DEF HasRow
<1>2. /\ <<"EXCL_MARK_S", {"="}, "NOT_EQUAL_S">> \in OperatorMoves
      /\ <<"GREATER_S", {"="}, "GREATER_EQUAL_S">> \in OperatorMoves
      /\ <<"LESS_S", {"="}, "LESS_EQUAL_S">> \in OperatorMoves
      /\ <<"ASSIGN_S", {"="}, "EQUAL_S">> \in OperatorMoves
      /\ <<"MINUS_S", {">"}, "ARROW_S">> \in OperatorMoves
  BY DEF OperatorMoves
<1>3. /\ <<"INTEGER_S", Digit, "INTEGER_S">> \in NumberMoves
      /\ <<"INTEGER_S", {"e"}, "REAL_E_S">> \in NumberMoves
      /\ <<"INTEGER_S", {"."}, "REAL_S">> \in NumberMoves
      /\ <<"REAL_NUM_S", Digit, "REAL_NUM_S">> \in NumberMoves
      /\ <<"REAL_NUM_S", {"e"}, "REAL_E_S">> \in NumberMoves
      /\ <<"REAL_EXP_S", Digit, "REAL_EXP_S">> \in NumberMoves
  BY DEF NumberMoves
<1>4. <<"ID_S", Letter \cup Digit, "ID_S">> \in WordMoves
  BY DEF WordMoves
<1>5. fsm_state \in {"EXCL_MARK_S", "GREATER_S", "LESS_S", "ASSIGN_S"} => c # "="
  BY <1>1, <1>2
<1>6. fsm_state = "MINUS_S" => c # ">"
  BY <1>1, <1>2
<1>7. fsm_state = "INTEGER_S" => c \notin Digit \cup {"e", "."}
  BY <1>1, <1>3
<1>8. fsm_state = "REAL_NUM_S" => c \notin Digit \cup {"e"}
  BY <1>1, <1>3
<1>9. fsm_state = "REAL_EXP_S" => c \notin Digit
  BY <1>1, <1>3
<1>10. fsm_state = "ID_S" => c \notin Letter \cup Digit
  BY <1>1, <1>4
<1> QED
  BY <1>5, <1>6, <1>7, <1>8, <1>9, <1>10

\* The marks that begin longer ones, and their states.
LEMMA SpelledIs ==
    ASSUME NEW st \in DOMAIN Spelled, NEW s, <<Spelled[st], s>> \in Marks
    PROVE  /\ s # <<"!">>
           /\ s = <<"<">> => st = "LESS_S"
           /\ s = <<">">> => st = "GREATER_S"
           /\ s = <<"=">> => st = "ASSIGN_S"
           /\ s = <<"-">> => st = "MINUS_S"
BY DomSpelled DEF Marks, Spelled

\* The marks that a longer mark begins with.
LEMMA NoMarkBegins ==
    ASSUME NEW s, s[1] \in Digit \cup Letter
    PROVE  s \notin {<<"!">>, <<"<">>, <<">">>, <<"=">>, <<"-">>}
BY DEF Digit, Letter

\* A token is made where the text ends a lexeme.
LEMMA EndsEnded ==
    ASSUME NEW c, Ends(c), NEW s \in Seq(Character), Reads(fsm_state, s), Kind(c) # "string"
    PROVE  Ended(s, c)
<1>1. Kind(c) # "none" /\ ~HasRow(OperatorMoves \cup NumberMoves \cup WordMoves \cup StringMoves, c)
  BY DEF Ends
<1>2. \/ fsm_state \in DOMAIN Spelled
      \/ fsm_state = "EXCL_MARK_S"
      \/ fsm_state = "INTEGER_S"
      \/ fsm_state \in {"REAL_NUM_S", "REAL_EXP_S"}
      \/ fsm_state = "ID_S" /\ c # "?"
      \/ fsm_state = "TYPE_NIL_S"
  BY <1>1, KindIs
<1>3. CASE fsm_state \in DOMAIN Spelled
  <2>1. <<Spelled[fsm_state], s>> \in Marks
    BY <1>3 DEF Reads
  <2>2. IsMark(s)
    BY <2>1 DEF IsMark
  <2>3. s[1] \notin Digit \cup Letter
    BY <2>2, Marked, Classes
  <2>4. /\ s # <<"!">>
        /\ s = <<"<">> => fsm_state = "LESS_S"
        /\ s = <<">">> => fsm_state = "GREATER_S"
        /\ s = <<"=">> => fsm_state = "ASSIGN_S"
        /\ s = <<"-">> => fsm_state = "MINUS_S"
    BY <1>3, <2>1, SpelledIs
  <2> QED
    BY <1>1, <2>3, <2>4, NoRow DEF Ended
<1>4. CASE fsm_state = "EXCL_MARK_S"
  <2>1. s = <<"!">> /\ s[1] = "!"
    BY <1>4 DEF Reads
  <2>2. c # "="
    BY <1>1, <1>4, NoRow
  <2> QED
    BY <2>1, <2>2 DEF Ended, Digit, Letter
<1>5. CASE fsm_state = "INTEGER_S"
  <2>1. Digits(s, 1, Len(s))
    BY <1>5 DEF Reads
  <2>2. s[1] \in Digit /\ s[1] \notin Letter
    BY <2>1, Classes DEF Digits
  <2>3. c \notin Digit \cup {"e", "."}
    BY <1>1, <1>5, NoRow
  <2> QED
    BY <2>1, <2>2, <2>3, NoMarkBegins DEF Ended
<1>6. CASE fsm_state = "REAL_NUM_S"
  <2>1. \E i \in 1..Len(s) : Fraction(s, i)
    BY <1>6 DEF Reads
  <2>2. s[1] \in Digit /\ s[1] \notin Letter
    BY <2>1, Classes DEF Fraction, Digits
  <2>3. c \notin Digit \cup {"e"}
    BY <1>1, <1>6, NoRow
  <2> QED
    BY <2>1, <2>2, <2>3, NoMarkBegins DEF Ended
<1>7. CASE fsm_state = "REAL_EXP_S"
  <2>1. \E i, j \in 1..Len(s) : Mantissa(s, i, j) /\ IsExponent(s, j + 1)
    BY <1>7 DEF Reads
  <2>2. s[1] \in Digit /\ s[1] \notin Letter
    BY <2>1, Classes DEF Mantissa, Digits
  <2>3. c \notin Digit
    BY <1>1, <1>7, NoRow
  <2> QED
    BY <2>1, <2>2, <2>3, NoMarkBegins DEF Ended
<1>8. CASE fsm_state = "ID_S" /\ c # "?"
  <2>1. s[1] \in Letter /\ s[1] \notin Digit
    BY <1>8, Classes DEF Reads
  <2>2. c \notin Letter \cup Digit
    BY <1>1, <1>8, NoRow
  <2> QED
    BY <1>8, <2>1, <2>2, NoMarkBegins DEF Ended
<1>9. CASE fsm_state = "TYPE_NIL_S"
  <2>1. Questioned(s)
    BY <1>9 DEF Reads, Questioned
  <2>2. s[1] \in Letter /\ s[1] \notin Digit
    BY <2>1, QuestionedIs, Classes DEF Letter
  <2> QED
    BY <2>1, <2>2, NoMarkBegins DEF Ended
<1> QED
  BY <1>2, <1>3, <1>4, <1>5, <1>6, <1>7, <1>8, <1>9

\* The token that Add adds.
Added(kind, last, value) ==
    [kind |-> kind, from |-> first, to |-> last, nl |-> FALSE,
     nillable |-> fsm_state = "TYPE_NIL_S", value |-> value]

\* A new token has the place it was read at.
LEMMA AddedIs ==
    ASSUME NEW kind \in Kinds, NEW last \in Nat, NEW value, first \in Nat
    PROVE  LET t == Added(kind, last, value)
           IN  IsToken(t) /\ t.kind = kind /\ t.from = first /\ t.to = last
<1> DEFINE t == Added(kind, last, value)
           b == fsm_state = "TYPE_NIL_S"
<1>1. b \in BOOLEAN
  OBVIOUS
<1>2. t = [kind |-> kind, from |-> first, to |-> last, nl |-> FALSE, nillable |-> b, value |-> value]
  BY DEF Added
<1> HIDE DEF t, b
<1>3. /\ t = [field \in {"kind", "from", "to", "nl", "nillable", "value"} |-> t[field]]
      /\ t.kind = kind /\ t.from = first /\ t.to = last /\ t.nl = FALSE /\ t.nillable = b
  BY <1>2
<1>4. IsToken(t)
  BY <1>1, <1>3 DEF IsToken
<1> QED
  BY <1>3, <1>4 DEF t

\* Adding a good token keeps the tokens good.
LEMMA AddStep ==
    ASSUME NEW txt, TokensOK(txt, tokens), Place \in Nat \ {0}, NEW kind \in Kinds,
           NEW last \in Nat, NEW value, first \in Nat, Add(kind, last, value),
           kind = "rbrace" => tokens # <<>>, Good(txt, Added(kind, last, value), Place)
    PROVE  /\ TokensOK(txt, tokens') /\ Place' = last + 1 /\ Len(tokens') > 0
           /\ token_added' = TRUE /\ lexeme' = <<>> /\ UNCHANGED <<comment_cnt, count, multiline>>
<1> DEFINE ts == IF kind = "rbrace" THEN NewlineAfter(tokens) ELSE tokens
           t == Added(kind, last, value)
<1>1. /\ tokens' = Append(ts, t)
      /\ token_added' = TRUE /\ lexeme' = <<>> /\ UNCHANGED <<comment_cnt, count, multiline>>
  BY DEF Add, Added
<1>2. t.to = last
  BY AddedIs
<1>3. TokensOK(txt, ts) /\ Behind(ts, Len(ts)) = Place
  <2>1. CASE kind = "rbrace"
    <3>1. tokens \in Seq(ToSet(tokens)) /\ tokens # <<>>
      BY <2>1 DEF TokensOK
    <3>2. Len(tokens) > 0
      BY <3>1
    <3>3. /\ TokensOK(txt, NewlineAfter(tokens)) /\ Len(NewlineAfter(tokens)) = Len(tokens)
          /\ Behind(NewlineAfter(tokens), Len(tokens)) = Behind(tokens, Len(tokens))
      BY <3>2, TokensNoted
    <3> QED
      BY <2>1, <3>3 DEF Place
  <2>2. CASE kind # "rbrace"
    BY <2>2 DEF Place
  <2> QED
    BY <2>1, <2>2
<1>4. Good(txt, t, Behind(ts, Len(ts))) /\ Behind(ts, Len(ts)) \in Nat \ {0}
  BY <1>3
<1> HIDE DEF ts, t
<1>5. /\ TokensOK(txt, Append(ts, t)) /\ Len(Append(ts, t)) > 0
      /\ Behind(Append(ts, t), Len(Append(ts, t))) = t.to + 1
  BY <1>3, <1>4, TokensAppend
<1> QED
  BY <1>1, <1>2, <1>5 DEF Place

\* The token that ends before c is a good one.
LEMMA EndsGood ==
    ASSUME ScannerInv, exit = "none", fsm_state # "START_S", NEW c, Ends(c), NEW value,
           NEW txt \in Seq(Character), Len(text) <= Len(txt), \A k \in 1..Len(text) : txt[k] = text[k],
           position < Len(txt), txt[position + 1] = c
    PROVE  Kind(c) \in Kinds /\ Good(txt, Added(Kind(c), position, value), Place)
<1> DEFINE s == Slice(first, position)
           kind == Kind(c)
           t == Added(kind, position, value)
<1>1. /\ text \in Seq(Character) /\ position \in Nat /\ position <= Len(text)
      /\ Place \in Nat \ {0} /\ first \in Nat /\ Place <= first /\ first <= position
      /\ Reads(fsm_state, s)
      /\ fsm_state \notin Unlettered => lexeme = s
      /\ fsm_state = "EXCL_MARK_S" => (prev_prev \in Space <=> Place < first \/ first = 1)
  BY DEF ScannerInv, TextOK, ReadingOK
<1>2. 1 <= first /\ first <= position + 1
  BY <1>1
<1>3. s \in Seq(Character) /\ Len(s) = position - first + 1
  BY <1>1, <1>2, SliceIs DEF Slice
<1>4. SubSeq(txt, first, position) = s
  BY <1>1, <1>2, SliceSame DEF Slice
<1>5. kind # "none"
  BY DEF Ends
<1> HIDE DEF s
<1>6. /\ kind \in PlainKinds \cup {"string"}
      /\ kind \in PlainKinds => PlainLexeme(s, kind)
      /\ kind = "string" <=> fsm_state \in {"STR_1_END_S", "STR_2_END_S"}
      /\ kind \in {"not", "unwrap"} <=> fsm_state = "EXCL_MARK_S"
  BY <1>1, <1>3, <1>5, KindReads
<1>7. kind \in Kinds
  BY <1>6 DEF Kinds
<1>8. IsToken(t) /\ t.kind = kind /\ t.from = first /\ t.to = position
  BY <1>1, <1>7, AddedIs
<1>9. kind \in PlainKinds => Stopped(txt, s, position)
  <2>1. kind \in PlainKinds => kind # "string"
    BY OtherKinds
  <2> QED
    BY <1>1, <1>3, <2>1, EndsEnded DEF Stopped
<1>10. kind \in {"not", "unwrap"} =>
         (kind = "not" <=> \/ Place < first \/ first = 1
                           \/ txt[first + 1] \in Letter \cup Digit \cup {"("})
  <2> SUFFICES ASSUME kind \in {"not", "unwrap"}
               PROVE  kind = "not" <=> \/ Place < first \/ first = 1
                                       \/ txt[first + 1] \in Letter \cup Digit \cup {"("}
    OBVIOUS
  <2>1. fsm_state = "EXCL_MARK_S"
    BY <1>6
  <2>2. s = <<"!">>
    BY <1>1, <2>1 DEF Reads
  <2>3. first = position
    <3>1. Len(s) = 1
      BY <2>2
    <3> DEFINE n == Len(s)
    <3>2. n = 1 /\ n = position - first + 1
      BY <1>3, <3>1
    <3> HIDE DEF n
    <3> QED
      BY <1>1, <3>2
  <2>4. kind = Exclamation(c)
    BY <2>1, DomSpelled DEF Kind
  <2> HIDE DEF kind
  <2> QED
    BY <1>1, <2>1, <2>3, <2>4 DEF Exclamation
<1> HIDE DEF t, kind
<1>11. Good(txt, t, Place)
  BY <1>1, <1>4, <1>6, <1>8, <1>9, <1>10 DEF Good
<1> QED
  BY <1>7, <1>11 DEF t, kind

\* No token is made inside a comment.
LEMMA EndingStates ==
    ASSUME NEW c, Ends(c)
    PROVE  fsm_state \notin Nested \cup {"START_S", "COM_MULT_START_S"}
<1>1. Kind(c) # "none"
  BY DEF Ends
<1>2. \/ fsm_state \in DOMAIN Spelled
      \/ fsm_state \in {"EXCL_MARK_S", "INTEGER_S", "REAL_NUM_S", "REAL_EXP_S", "ID_S",
                        "TYPE_NIL_S", "STR_1_END_S", "STR_2_END_S"}
  BY <1>1, KindIs
<1> QED
  BY <1>2, DomSpelled DEF Nested

\* Arithmetic of the place where a token ends.
LEMMA TokenNumbers ==
    ASSUME NEW p \in Nat, NEW f \in Nat, NEW b \in Nat \ {0}, b <= f, f <= p
    PROVE  \A q \in Nat : p <= q /\ q <= p + 1 =>
              p + 1 <= q + 1 /\ q # 0 /\ (p + 1 <= q <=> q = p + 1) /\ p + 1 \in Nat \ {0}
                /\ p # p + 1
OBVIOUS

\* Token keeps the invariant: what it adds is a longest lexeme.
LEMMA TokenStep == ASSUME ScannerInv, Token PROVE ScannerInv'
<1>1. PICK c \in Upcoming :
          /\ Ends(c) /\ ~Unpreceded(c)
          /\ Turn(c, c, PutBack(c))
          /\ Add(Kind(c), position, IF fsm_state = "STR_1_END_S" THEN verify_str(lexeme) ELSE <<>>)
  BY DEF Token
<1>2. fsm_state' = "START_S" /\ UNCHANGED <<first, exit>>
  BY DEF Token
<1>3. fsm_state \notin Nested \cup {"START_S", "COM_MULT_START_S"} /\ exit = "none"
  BY <1>1, EndingStates DEF Turn
<1>4. /\ StateOK /\ TextOK /\ TokensOK(text, tokens) /\ Place \in Nat \ {0} /\ comment_cnt = 0
      /\ first \in Nat /\ Place <= first /\ first <= position
  BY <1>3 DEF ScannerInv, ReadingOK, StateOK
<1>5. /\ TextOK' /\ TokensOK(text', tokens) /\ prev' = c
      /\ position' = IF PutBack(c) THEN position ELSE position + 1
      /\ position \in Nat /\ position' \in Nat /\ position <= position' /\ position' <= position + 1
      /\ position < Len(text') /\ text'[position + 1] = c
      /\ text' \in Seq(Character) /\ Len(text) <= Len(text')
      /\ \A k \in 1..Len(text) : text'[k] = text[k]
  <2> DEFINE back == PutBack(c)
  <2>1. Turn(c, c, back)
    BY <1>1
  <2> HIDE DEF back
  <2>2. /\ TextOK' /\ TokensOK(text', tokens) /\ prev' = c
        /\ position' = IF back THEN position ELSE position + 1
        /\ position \in Nat /\ position' \in Nat /\ position <= position' /\ position' <= position + 1
        /\ position < Len(text') /\ text'[position + 1] = c
        /\ text' \in Seq(Character) /\ Len(text) <= Len(text')
        /\ \A k \in 1..Len(text) : text'[k] = text[k]
    BY <1>4, <2>1, TurnText
  <2> QED
    BY <2>2 DEF back
<1>6. PICK value : Add(Kind(c), position, value)
  BY <1>1
<1>7. Kind(c) \in Kinds /\ Good(text', Added(Kind(c), position, value), Place)
  BY <1>1, <1>3, <1>5, EndsGood
<1>8. Kind(c) = "rbrace" => tokens # <<>>
  BY <1>1 DEF Unpreceded
<1>9. /\ TokensOK(text', tokens') /\ Place' = position + 1 /\ Len(tokens') > 0
      /\ token_added' = TRUE /\ lexeme' = <<>> /\ UNCHANGED <<comment_cnt, count, multiline>>
  BY <1>4, <1>5, <1>6, <1>7, <1>8, AddStep
<1>10. StateOK'
  <2>1. fsm_state' \in State /\ lexeme' \in Seq(Character)
    BY <1>2, <1>9 DEF State
  <2>2. fsm_state' \notin Nested
    BY <1>2 DEF Nested
  <2> QED
    BY <1>2, <1>4, <1>9, <2>1, <2>2 DEF StateOK
<1>11. /\ position + 1 <= position' + 1 /\ position' # 0 /\ position + 1 \in Nat \ {0}
       /\ position + 1 <= position' <=> position' = position + 1
  BY <1>4, <1>5, TokenNumbers
<1>12. prev' \in Space <=> position' = position + 1
  <2>1. position # position + 1
    BY <1>4, <1>5, TokenNumbers
  <2> QED
    BY <1>5, <2>1 DEF PutBack
<1>13. ReadingOK' /\ BetweenOK'
  BY <1>2, <1>9, <1>11, <1>12 DEF ReadingOK, BetweenOK
<1> QED
  BY <1>5, <1>9, <1>10, <1>11, <1>13 DEF ScannerInv

\* Arithmetic of an integer that ends before a range.
LEMMA RangeNumbers ==
    ASSUME NEW p \in Nat, NEW f \in Nat, NEW b \in Nat \ {0}, NEW n \in Nat,
           b <= f, f <= p, n = p - f + 1, n > 1
    PROVE  /\ p - 1 \in Nat /\ f <= p - 1 /\ 1 <= f /\ f <= p - 1 + 1 /\ p - 1 <= p
           /\ p - 1 + 1 = p /\ p - 1 + 2 = p + 1 /\ 1 <= p /\ p \in Nat \ {0}
           /\ n - 1 = p - 1 - f + 1 /\ f + n - 1 = p
OBVIOUS

\* The same, of its first place.
LEMMA PlaceFirst ==
    \A b \in Nat \ {0}, f, p \in Nat : b <= f /\ f <= p => 1 <= f /\ f <= p + 1
OBVIOUS

\* The digits before a point, with another point behind it.
LEMMA DigitsBeforePoints ==
    ASSUME NEW txt \in Seq(Character), NEW f \in Nat, NEW p \in Nat, NEW l \in Nat,
           1 <= f, f <= l, p = l + 1, p < Len(txt), Point(SubSeq(txt, f, p)), txt[p + 1] = "."
    PROVE  /\ Digits(SubSeq(txt, f, l), 1, Len(SubSeq(txt, f, l))) /\ txt[p] = "."
           /\ PlainLexeme(SubSeq(txt, f, l), "int")
           /\ Stopped(txt, SubSeq(txt, f, l), l)
<1> DEFINE s == SubSeq(txt, f, p)
           u == SubSeq(txt, f, l)
<1>1. /\ s \in Seq(Character) /\ Len(s) = p - f + 1
      /\ \A k \in 1 .. p - f + 1 : s[k] = txt[f + k - 1]
  BY SliceIs
<1>2. /\ u \in Seq(Character) /\ Len(u) = l - f + 1
      /\ \A k \in 1 .. l - f + 1 : u[k] = txt[f + k - 1]
  BY SliceIs
<1>3. Digits(s, 1, Len(s) - 1) /\ s[Len(s)] = "."
  BY DEF Point
<1> HIDE DEF s, u
<1>4. \A k \in 1 .. l - f + 1 : s[k] \in Digit
  BY <1>1, <1>3 DEF Digits
<1>5. \A k \in 1 .. l - f + 1 : u[k] \in Digit
  BY <1>1, <1>2, <1>4
<1>6. Digits(u, 1, Len(u)) /\ Len(u) > 0
  BY <1>2, <1>5 DEF Digits
<1>7. txt[p] = "."
  BY <1>1, <1>3
<1>8. PlainLexeme(u, "int")
  BY <1>2, <1>6, RunIs DEF PlainLexeme, IsInt, Digits
<1>9. txt[l + 1] = "." /\ l + 1 < Len(txt) /\ txt[l + 2] = "."
  BY <1>7
<1>10. Stopped(txt, u, l)
  BY <1>6, <1>9 DEF Stopped
<1> QED
  BY <1>6, <1>7, <1>8, <1>10 DEF u

\* IntegerBeforeRange keeps the invariant, two characters behind the integer.
LEMMA IntegerBeforeRangeStep == ASSUME ScannerInv, IntegerBeforeRange PROVE ScannerInv'
<1>1. /\ fsm_state = "REAL_S" /\ "." \in Upcoming
      /\ Turn(".", ".", TRUE)
      /\ Add("int", position - 1, <<>>)
      /\ fsm_state' = "RANGE_START_S" /\ first' = position
      /\ UNCHANGED exit
  BY DEF IntegerBeforeRange
<1>2. exit = "none" /\ fsm_state # "START_S"
  BY <1>1 DEF Turn
<1>3. /\ StateOK /\ TextOK /\ TokensOK(text, tokens) /\ Place \in Nat \ {0} /\ comment_cnt = 0
      /\ first \in Nat /\ Place <= first /\ first <= position
      /\ text \in Seq(Character)
      /\ Point(Slice(first, position))
  BY <1>1, <1>2, DomSpelled DEF ScannerInv, ReadingOK, StateOK, TextOK, Reads, Nested
<1>4. /\ TextOK' /\ TokensOK(text', tokens)
      /\ position' = position /\ position \in Nat
      /\ position < Len(text') /\ text'[position + 1] = "."
      /\ text' \in Seq(Character) /\ Len(text) <= Len(text') /\ position <= Len(text)
      /\ \A k \in 1..Len(text) : text'[k] = text[k]
  <2> DEFINE back == TRUE
             c == "."
  <2>1. Turn(c, c, back) /\ back /\ c \in Upcoming
    BY <1>1
  <2> HIDE DEF back, c
  <2>2. /\ TextOK' /\ TokensOK(text', tokens)
        /\ position' = IF back THEN position ELSE position + 1
        /\ position \in Nat
        /\ position < Len(text') /\ text'[position + 1] = c
        /\ text' \in Seq(Character) /\ Len(text) <= Len(text') /\ position <= Len(text)
        /\ \A k \in 1..Len(text) : text'[k] = text[k]
    BY <1>3, <2>1, TurnText
  <2> QED
    BY <2>1, <2>2 DEF c
<1>5. 1 <= first /\ first <= position + 1
  BY <1>3, <1>4, PlaceFirst
<1>6. Slice(first, position) = SubSeq(text', first, position)
  <2>1. SubSeq(text', first, position) = SubSeq(text, first, position)
    BY <1>3, <1>4, <1>5, SliceSame
  <2> QED
    BY <2>1 DEF Slice
<1>7. Len(Slice(first, position)) = position - first + 1 /\ Len(Slice(first, position)) > 1
  <2>1. Len(Slice(first, position)) = position - first + 1
    BY <1>3, <1>4, <1>5, SliceIs DEF Slice
  <2>2. 1 <= Len(Slice(first, position)) - 1
    BY <1>3 DEF Point, Digits
  <2> DEFINE n == Len(Slice(first, position))
  <2>3. n = position - first + 1 /\ 1 <= n - 1
    BY <2>1, <2>2
  <2> HIDE DEF n
  <2>4. n = position - first + 1 /\ n > 1
    BY <1>3, <1>4, <2>3
  <2> QED
    BY <2>4 DEF n
<1> DEFINE last == position - 1
<1>8. /\ last \in Nat /\ first <= last /\ position = last + 1 /\ last + 1 = position
      /\ position \in Nat \ {0} /\ 1 <= position
  <2> DEFINE n == Len(Slice(first, position))
  <2>1. n = position - first + 1 /\ n > 1
    BY <1>7
  <2> HIDE DEF n
  <2> QED
    BY <1>3, <1>4, <2>1
<1>9. Add("int", last, <<>>)
  BY <1>1
<1> HIDE DEF last
<1> DEFINE u == SubSeq(text', first, last)
<1>10. PlainLexeme(u, "int") /\ Stopped(text', u, last) /\ text'[position] = "."
  BY <1>3, <1>4, <1>5, <1>6, <1>8, DigitsBeforePoints
<1> HIDE DEF u
<1>11. PICK kind : kind = "int"
  OBVIOUS
<1>12. kind \in PlainKinds /\ kind \in Kinds /\ kind \notin {"eof", "not", "unwrap", "rbrace"}
  BY <1>11, OtherKinds DEF Kinds
<1> DEFINE t == Added(kind, last, <<>>)
<1>13. IsToken(t) /\ t.kind = kind /\ t.from = first /\ t.to = last
  BY <1>3, <1>8, <1>12, AddedIs
<1> HIDE DEF t
<1>14. last < Len(text')
  BY <1>4, <1>8
<1>15. Good(text', t, Place)
  BY <1>3, <1>8, <1>10, <1>11, <1>12, <1>13, <1>14 DEF Good, u
<1>16. /\ TokensOK(text', tokens') /\ Place' = last + 1 /\ Len(tokens') > 0
       /\ token_added' = TRUE /\ lexeme' = <<>> /\ UNCHANGED <<comment_cnt, count, multiline>>
  BY <1>3, <1>4, <1>8, <1>9, <1>11, <1>12, <1>15, AddStep DEF t
<1>17. StateOK'
  <2>1. fsm_state' \in State /\ lexeme' \in Seq(Character)
    BY <1>1, <1>16 DEF State
  <2>2. fsm_state' \notin Nested
    BY <1>1 DEF Nested
  <2> QED
    BY <1>1, <1>3, <1>16, <2>1, <2>2 DEF StateOK
<1>18. Slice(first, position)' = <<".">>
  <2>1. SubSeq(text', position, position) = <<text'[position]>>
    BY <1>4, <1>8, SliceOne
  <2> QED
    BY <1>1, <1>4, <1>10, <2>1 DEF Slice
<1>19. Reads("RANGE_START_S", <<".">>)
  BY DomSpelled DEF Reads
<1>20. ReadingOK' /\ BetweenOK'
  <2>1. fsm_state' \in Unlettered /\ fsm_state' # "EXCL_MARK_S" /\ fsm_state' # "START_S"
    BY <1>1 DEF Unlettered
  <2>2. first' \in Nat /\ Place' <= first' /\ first' <= position'
    BY <1>1, <1>4, <1>8, <1>16
  <2> QED
    BY <1>1, <1>18, <1>19, <2>1, <2>2 DEF ReadingOK, BetweenOK, Slice
<1> QED
  BY <1>4, <1>8, <1>16, <1>17, <1>20 DEF ScannerInv
-----------------------------------------------------------------------------
(* The ends of the loop *)

\* An error keeps the invariant.
LEMMA ExitStep ==
    ASSUME ScannerInv, NEW c \in Upcoming, NEW how \in {"lexical", "undefined"},
           Turn(c, c, FALSE), Exit(how), UNCHANGED tokens
    PROVE  ScannerInv'
<1>1. exit' = how /\ UNCHANGED <<fsm_state, lexeme, comment_cnt, count, multiline, token_added, first>>
  BY DEF Exit
<1>2. StateOK /\ TextOK /\ TokensOK(text, tokens) /\ Place \in Nat \ {0}
  BY DEF ScannerInv
<1>3. TextOK' /\ TokensOK(text', tokens)
  <2> DEFINE back == FALSE
  <2>1. Turn(c, c, back)
    OBVIOUS
  <2> HIDE DEF back
  <2> QED
    BY <1>2, <2>1, TurnText
<1>4. StateOK'
  BY <1>1, <1>2 DEF StateOK
<1>5. Place' = Place /\ tokens' = tokens /\ exit' # "none"
  BY <1>1 DEF Place
<1> QED
  BY <1>2, <1>3, <1>4, <1>5 DEF ScannerInv

\* So does an unknown character.
LEMMA UnknownStep == ASSUME ScannerInv, Unknown PROVE ScannerInv'
<1>1. (\E c \in Upcoming : Turn(c, c, FALSE)) /\ Exit("lexical") /\ UNCHANGED tokens
  BY DEF Unknown
<1> QED
  BY <1>1, ExitStep

\* So does a string that is refused.
LEMMA BadStringStep == ASSUME ScannerInv, BadString PROVE ScannerInv'
<1>1. (\E c \in Upcoming : Turn(c, c, FALSE)) /\ Exit("lexical") /\ UNCHANGED tokens
  BY DEF BadString
<1> QED
  BY <1>1, ExitStep

\* So does a closing brace at the very beginning.
LEMMA NothingBeforeBraceStep == ASSUME ScannerInv, NothingBeforeBrace PROVE ScannerInv'
<1>1. (\E c \in Upcoming : Turn(c, c, FALSE)) /\ Exit("undefined") /\ UNCHANGED tokens
  BY DEF NothingBeforeBrace
<1> QED
  BY <1>1, ExitStep

\* The end of file is a token of no characters.
LEMMA EofIs ==
    ASSUME text \in Seq(Character)
    PROVE  IsToken(Eof) /\ Eof.kind = "eof" /\ Eof.from = Len(text) + 1 /\ Eof.to = Len(text)
<1> DEFINE n == Len(text)
           f == n + 1
           t == Eof
<1>1. n \in Nat /\ f \in Nat
  OBVIOUS
<1>2. t = [kind |-> "eof", from |-> f, to |-> n, nl |-> FALSE, nillable |-> FALSE, value |-> <<>>]
  BY DEF Eof
<1> HIDE DEF t, f, n
<1>3. /\ t = [field \in {"kind", "from", "to", "nl", "nillable", "value"} |-> t[field]]
      /\ t.kind = "eof" /\ t.from = f /\ t.to = n /\ t.nl = FALSE /\ t.nillable = FALSE
  BY <1>2
<1>4. IsToken(t)
  BY <1>1, <1>3 DEF IsToken, Kinds
<1> QED
  BY <1>3, <1>4 DEF t, f, n

\* EndOfFile keeps the invariant.
LEMMA EndOfFileStep == ASSUME ScannerInv, EndOfFile PROVE ScannerInv'
<1>1. /\ exit = "none" /\ position = Len(text)
      /\ exit' \in {"lexical", "success"}
      /\ tokens' = IF Unfinished THEN tokens
                   ELSE Append(IF tokens = <<>> THEN tokens ELSE NewlineAfter(tokens), Eof)
      /\ UNCHANGED reader
      /\ UNCHANGED <<fsm_state, lexeme, comment_cnt, count, multiline, token_added, first>>
  BY DEF EndOfFile, Exit
<1>2. /\ StateOK /\ TextOK /\ TokensOK(text, tokens) /\ Place \in Nat \ {0}
      /\ text \in Seq(Character) /\ tokens \in Seq(ToSet(tokens))
  BY DEF ScannerInv, TextOK, TokensOK
<1>3. TextOK' /\ text' = text
  BY <1>1, <1>2 DEF TextOK, reader
<1>4. TokensOK(text, tokens') /\ Place' \in Nat \ {0} /\ (token_added => Len(tokens') > 0)
  <2>1. CASE Unfinished
    BY <1>1, <1>2, <2>1 DEF Place, StateOK
  <2>2. CASE ~Unfinished
    <3> DEFINE ts == IF tokens = <<>> THEN tokens ELSE NewlineAfter(tokens)
               n == Len(text)
    <3>1. TokensOK(text, ts) /\ Behind(ts, Len(ts)) = Place
      <4>1. CASE tokens = <<>>
        BY <1>2, <4>1 DEF Place
      <4>2. CASE tokens # <<>>
        <5>1. Len(tokens) > 0
          BY <1>2, <4>2
        <5>2. /\ TokensOK(text, NewlineAfter(tokens)) /\ Len(NewlineAfter(tokens)) = Len(tokens)
              /\ Behind(NewlineAfter(tokens), Len(tokens)) = Behind(tokens, Len(tokens))
          BY <1>2, <5>1, TokensNoted
        <5> QED
          BY <4>2, <5>2 DEF Place
      <4> QED
        BY <4>1, <4>2
    <3>2. IsToken(Eof) /\ Eof.kind = "eof" /\ Eof.from = n + 1 /\ Eof.to = n
      BY <1>2, EofIs
    <3>3. Place <= n + 1 /\ n \in Nat
      <4>1. position = n /\ n \in Nat
        BY <1>1, <1>2
      <4> HIDE DEF n
      <4>2. CASE fsm_state = "START_S"
        BY <1>1, <4>1, <4>2 DEF ScannerInv, BetweenOK
      <4>3. CASE fsm_state # "START_S"
        <5>1. first \in Nat /\ Place <= first /\ first <= n
          BY <1>1, <4>1, <4>3 DEF ScannerInv, ReadingOK
        <5> QED
          BY <1>2, <4>1, <5>1
      <4> QED
        BY <4>1, <4>2, <4>3
    <3>4. tokens' = Append(ts, Eof)
      BY <1>1, <2>2
    <3> HIDE DEF ts
    <3>5. "eof" \notin PlainKinds
      BY DEF PlainKinds, Marks
    <3>6. Good(text, Eof, Place)
      BY <3>2, <3>3, <3>5 DEF Good
    <3>7. /\ TokensOK(text, Append(ts, Eof)) /\ Len(Append(ts, Eof)) > 0
          /\ Behind(Append(ts, Eof), Len(Append(ts, Eof))) = Eof.to + 1
      BY <1>2, <3>1, <3>6, TokensAppend
    <3>8. Eof.to + 1 \in Nat \ {0}
      BY <3>2, <3>3
    <3> QED
      BY <3>4, <3>7, <3>8 DEF Place
  <2> QED
    BY <2>1, <2>2
<1>5. StateOK'
  BY <1>1, <1>2, <1>4 DEF StateOK
<1> QED
  BY <1>1, <1>3, <1>4, <1>5 DEF ScannerInv
-----------------------------------------------------------------------------
(* The theorems *)

\* The initial state satisfies the invariant.
LEMMA InitInv == Init => ScannerInv
<1> SUFFICES ASSUME Init PROVE ScannerInv
  OBVIOUS
<1>1. /\ text = <<>> /\ position = 0 /\ prev = "blank" /\ prev_prev = "blank"
      /\ fsm_state = "START_S" /\ lexeme = <<>> /\ comment_cnt = 0 /\ count = 0
      /\ multiline = FALSE /\ tokens = <<>> /\ token_added = FALSE
      /\ first = 0 /\ exit = "none"
  BY DEF Init
<1>2. "blank" \in Space /\ "blank" \in Character
  BY DEF Space, Character
<1>3. TextOK
  BY <1>1, <1>2 DEF TextOK
<1>4. StateOK
  <2>1. "START_S" \in State /\ "START_S" \notin Nested
    BY DEF State, Nested
  <2>2. multiline \in BOOLEAN /\ token_added \in BOOLEAN /\ ~token_added
    BY <1>1
  <2>3. lexeme \in Seq(Character) /\ count \in 0 .. 9 /\ comment_cnt \in Nat
    BY <1>1
  <2>4. fsm_state \in State /\ fsm_state \notin Nested
    BY <1>1, <2>1
  <2> QED
    BY <1>1, <2>2, <2>3, <2>4 DEF StateOK
<1>5. TokensOK(text, tokens) /\ Place = 1
  BY <1>1 DEF TokensOK, Place, Behind
<1> QED
  BY <1>1, <1>2, <1>3, <1>4, <1>5 DEF ScannerInv, ReadingOK, BetweenOK

\* Every step keeps the invariant.
LEMMA NextInv == ScannerInv /\ [Next]_vars => ScannerInv'
<1> SUFFICES ASSUME ScannerInv, [Next]_vars PROVE ScannerInv'
  OBVIOUS
<1>1. CASE Start
  BY <1>1, StartStep
<1>2. CASE Operator
  BY <1>2, OperatorStep
<1>3. CASE NumberOrWord
  BY <1>3, NumberOrWordStep
<1>4. CASE String
  BY <1>4, StringStep
<1>5. CASE Escape
  BY <1>5, EscapeStep
<1>6. CASE Comment
  BY <1>6, CommentStep
<1>7. CASE CommentEnd
  BY <1>7, CommentEndStep
<1>8. CASE LineCommentEnd
  BY <1>8, LineCommentEndStep
<1>9. CASE Token
  BY <1>9, TokenStep
<1>10. CASE IntegerBeforeRange
  BY <1>10, IntegerBeforeRangeStep
<1>11. CASE Unknown
  BY <1>11, UnknownStep
<1>12. CASE BadString
  BY <1>12, BadStringStep
<1>13. CASE NothingBeforeBrace
  BY <1>13, NothingBeforeBraceStep
<1>14. CASE EndOfFile
  BY <1>14, EndOfFileStep
<1>15. CASE UNCHANGED vars
  BY <1>15 DEF vars, reader, ScannerInv, StateOK, TextOK, Place, ReadingOK, BetweenOK, Slice
<1> QED
  BY <1>1, <1>2, <1>3, <1>4, <1>5, <1>6, <1>7, <1>8, <1>9, <1>10, <1>11, <1>12, <1>13, <1>14, <1>15
     DEF Next, Done

\* In every state the automaton and the tokens fit the text.
LEMMA ScannerInvariant == Spec => []ScannerInv
BY InitInv, NextInv, PTL DEF Spec

\* Every variable keeps its type; in particular count, which is compared with
\* the length of a Unicode escape, and the depth of comments never leave their
\* bounds, and a lexeme is empty between the tokens (scanner.c:227-609).
THEOREM TypeCorrect == Spec => []TypeOK
<1>1. ScannerInv => TypeOK
  <2> SUFFICES ASSUME ScannerInv PROVE TypeOK
    OBVIOUS
  <2>1. StateOK /\ TextOK /\ TokensOK(text, tokens)
    BY DEF ScannerInv
  <2>2. \A i \in DOMAIN tokens :
          /\ tokens[i].kind \in Kinds /\ tokens[i].nl \in BOOLEAN
          /\ tokens[i].nillable \in BOOLEAN
    <3>1. DOMAIN tokens = 1..Len(tokens)
      BY <2>1 DEF TokensOK
    <3> QED
      BY <2>1, <3>1 DEF TokensOK, Good, IsToken
  <2>3. fsm_state = "START_S" => comment_cnt = 0 /\ lexeme = <<>>
    BY <2>1 DEF StateOK, Unlettered, Nested
  <2> QED
    BY <2>1, <2>2, <2>3 DEF TypeOK, StateOK, TextOK
<1> QED
  BY <1>1, ScannerInvariant, PTL

\* A "!" is told by what is around it in the text, although the automaton only
\* has the two characters it read last, some of them put back (scanner.c:357).
THEOREM ExclamationsAreToldCorrect == Spec => []ExclamationsAreTold
<1>1. ScannerInv => ExclamationsAreTold
  <2> SUFFICES ASSUME ScannerInv, NEW i \in DOMAIN tokens, tokens[i].kind \in {"not", "unwrap"}
               PROVE  tokens[i].kind = "not" <=>
                         \/ From(i - 1) < tokens[i].from \/ tokens[i].from = 1
                         \/ text[tokens[i].from + 1] \in Letter \cup Digit \cup {"("}
    BY DEF ExclamationsAreTold
  <2>1. TokensOK(text, tokens) /\ i \in 1..Len(tokens)
    BY DEF ScannerInv, TokensOK
  <2>2. Good(text, tokens[i], Behind(tokens, i - 1))
    BY <2>1 DEF TokensOK
  <2>3. From(i - 1) = Behind(tokens, i - 1)
    BY DEF From, Behind
  <2> QED
    BY <2>2, <2>3 DEF Good
<1> QED
  BY <1>1, ScannerInvariant, PTL

\* What stops a lexeme of txt is behind it, and no longer lexeme begins there.
LEMMA StoppedIsLongest ==
    ASSUME NEW txt \in Seq(Character), NEW f \in Nat, NEW l \in Nat, NEW n \in Nat,
           1 <= f, f <= l, l < n, n <= Len(txt), NEW kind,
           PlainLexeme(SubSeq(txt, f, l), kind), Stopped(txt, SubSeq(txt, f, l), l)
    PROVE  ~IsPlainLexeme(SubSeq(txt, f, n))
<1> DEFINE s == SubSeq(txt, f, l)
           t == SubSeq(txt, f, n)
           c == txt[l + 1]
<1>1. /\ s \in Seq(Character) /\ Len(s) = l - f + 1
      /\ \A k \in 1 .. l - f + 1 : s[k] = txt[f + k - 1]
  BY SliceIs
<1>2. /\ t \in Seq(Character) /\ Len(t) = n - f + 1
      /\ \A k \in 1 .. n - f + 1 : t[k] = txt[f + k - 1]
  BY SliceIs
<1>3. PlainLexeme(s, kind) /\ Stopped(txt, s, l)
  OBVIOUS
<1>4. c = txt[l + 1]
  OBVIOUS
<1> HIDE DEF s, t, c
<1>5. Len(t) > Len(s) /\ t[Len(s) + 1] = c /\ \A k \in 1..Len(s) : t[k] = s[k]
  BY <1>1, <1>2, <1>4
<1>6. Longer(t, s, c)
  BY <1>5 DEF Longer
<1>7. CASE Ended(s, c)
  BY <1>1, <1>2, <1>3, <1>6, <1>7, NoLonger DEF t
<1>8. CASE Digits(s, 1, Len(s)) /\ txt[l + 1] = "." /\ txt[l + 2] = "."
  <2>1. c = "." /\ Longer(t, s, ".")
    BY <1>4, <1>6, <1>8
  <2>2. Len(t) > Len(s) + 1 => t[Len(s) + 2] = "."
    BY <1>1, <1>2, <1>8
  <2> QED
    BY <1>1, <1>2, <1>8, <2>1, <2>2, NoLongerBeforeRange DEF t
<1> QED
  BY <1>3, <1>4, <1>7, <1>8 DEF Stopped

\* Every mark, number and word becomes a token of its kind, the longest that
\* begins where it does, and the tokens do not overlap, although a character
\* read too many is put back, two of them behind an integer before a range
\* (scanner.c:227-236, 253-609).
THEOREM TokensAreLexemesCorrect == Spec => []TokensAreLexemes
<1>1. ScannerInv => TokensAreLexemes
  <2> SUFFICES ASSUME ScannerInv, NEW i \in DOMAIN tokens
               PROVE  /\ i > 1 => tokens[i - 1].to < tokens[i].from
                      /\ tokens[i].kind \in PlainKinds =>
                            /\ PlainLexeme(Slice(tokens[i].from, tokens[i].to), tokens[i].kind)
                            /\ \A n \in tokens[i].to + 1 .. Len(text) :
                                  ~IsPlainLexeme(Slice(tokens[i].from, n))
    BY DEF TokensAreLexemes
  <2>1. TokensOK(text, tokens) /\ i \in 1..Len(tokens) /\ text \in Seq(Character)
    BY DEF ScannerInv, TokensOK, TextOK
  <2>2. Behind(tokens, i - 1) \in Nat \ {0} /\ Good(text, tokens[i], Behind(tokens, i - 1))
    BY <2>1 DEF TokensOK
  <2>3. /\ tokens[i].from \in Nat /\ tokens[i].to \in Nat
        /\ Behind(tokens, i - 1) <= tokens[i].from
    BY <2>2 DEF Good, IsToken
  <2>4. ASSUME i > 1
        PROVE  tokens[i - 1].to < tokens[i].from
    <3> DEFINE h == i - 1
               p == tokens[h].to
               f == tokens[i].from
    <3>1. h \in 1..Len(tokens) /\ h # 0
      BY <2>1, <2>4
    <3> HIDE DEF h
    <3>2. Good(text, tokens[h], Behind(tokens, h - 1))
      BY <2>1, <3>1 DEF TokensOK
    <3>3. p \in Nat
      BY <3>2 DEF Good, IsToken
    <3>4. p + 1 <= f /\ f \in Nat
      BY <2>3, <3>1 DEF Behind, h
    <3> HIDE DEF p, f
    <3>5. p < f
      BY <3>3, <3>4
    <3> QED
      BY <3>5 DEF p, f, h
  <2>5. ASSUME tokens[i].kind \in PlainKinds
        PROVE  /\ PlainLexeme(Slice(tokens[i].from, tokens[i].to), tokens[i].kind)
               /\ \A n \in tokens[i].to + 1 .. Len(text) : ~IsPlainLexeme(Slice(tokens[i].from, n))
    <3>1. tokens[i].kind # "eof"
      BY <2>5 DEF PlainKinds, Marks
    <3> DEFINE f == tokens[i].from
               l == tokens[i].to
               kind == tokens[i].kind
    <3>2. /\ PlainLexeme(SubSeq(text, f, l), kind) /\ Stopped(text, SubSeq(text, f, l), l)
          /\ f \in Nat /\ l \in Nat /\ f <= l
      BY <2>2, <2>3, <2>5, <3>1 DEF Good
    <3>3. 1 <= f
      <4> DEFINE b == Behind(tokens, i - 1)
      <4>1. b \in Nat \ {0} /\ b <= f /\ f \in Nat
        BY <2>2, <2>3
      <4> HIDE DEF b, f
      <4> QED
        BY <4>1
    <3> HIDE DEF f, l, kind
    <3>4. ASSUME NEW n \in l + 1 .. Len(text)
          PROVE  ~IsPlainLexeme(SubSeq(text, f, n))
      <4>1. n \in Nat /\ l < n /\ n <= Len(text)
        BY <2>1, <3>2
      <4> QED
        BY <2>1, <3>2, <3>3, <4>1, StoppedIsLongest
    <3> QED
      BY <3>2, <3>4 DEF Slice, f, l, kind
  <2> QED
    BY <2>4, <2>5
<1> QED
  BY <1>1, ScannerInvariant, PTL
=============================================================================
