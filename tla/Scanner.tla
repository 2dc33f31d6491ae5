------------------------------- MODULE Scanner -------------------------------
(***************************************************************************)
(* src/src/parts/scanner/scanner.c: source_code_to_tokens, the automaton   *)
(* that cuts the program text into tokens, with the cursor of              *)
(* source_file.c and the writing end of token.c.  One step is one turn of  *)
(* the loop: a character is read, and sometimes put back.                  *)
(*                                                                         *)
(* Abstractions.  A character stands for those the automaton treats alike  *)
(* (see Character), and is chosen when it is first read; the lines of the  *)
(* file are one text, in which every line ends with "\n" as file_getc has  *)
(* it.  "T" stands for a keyword that is a type, "_" is a keyword too.     *)
(* What a multiline string denotes is left out: verify_str works on lines  *)
(* that are not NUL-terminated.                                            *)
(***************************************************************************)
EXTENDS Integers, SequencesExt

CONSTANT Vocabulary \* what the texts are written with, see ScannerAssumption

Digit == {"0", "1", "8"}
HexDigit == Digit \cup {"a", "e", "f"}
Letter == {"a", "e", "f", "n", "u", "T", "underscore"}
Space == {"blank", "\t", "\n"}
Mark == {"+", "*", "!", "?", ">", "<", "-", "=", "&", "|", "lbrace", "rbrace", "(", ")",
         ":", "comma", ".", "/"}
\* "#" starts no token; the bytes of a character beyond ASCII, "utf8", may only be in a comment.
Character == Digit \cup Letter \cup Space \cup Mark \cup {"quote", "\\", "#", "utf8"}

\* A text begins in a given way, goes on with the characters of a vocabulary,
\* and has a bound on its length.
ASSUME ScannerAssumption ==
    \A v \in Vocabulary :
        v.begins \in Seq(Character) /\ v.chars \subseteq Character /\ v.max \in Nat

VARIABLES
    text,         \* the characters of the file, as far as they have been read
    position,     \* of the last one read: the cursor of the source file
    fsm_state, lexeme, prev, prev_prev, comment_cnt, count, multiline,
    tokens, token_added,
    first,        \* history: where the token being read begins
    exit          \* "none" while the loop runs

reader == <<text, position, prev, prev_prev>>
vars == <<reader, fsm_state, lexeme, comment_cnt, count, multiline, tokens,
          token_added, first, exit>>
-----------------------------------------------------------------------------
(* The source file *)

\* The texts of v: each ends with "\n".
Written(v) ==
    LET i == Len(text) + 1
    IN  IF i <= Len(v.begins) THEN {v.begins[i]}
        ELSE IF i = v.max THEN {"\n"} ELSE v.chars \cup {"\n"}

Begun(v) ==
    /\ Len(text) < v.max
    /\ \A i \in DOMAIN text :
          IF i <= Len(v.begins) THEN text[i] = v.begins[i] ELSE text[i] \in v.chars \cup {"\n"}

\* What file_getc may return.
Upcoming ==
    IF position < Len(text) THEN {text[position + 1]}
    ELSE UNION {Written(v) : v \in {w \in Vocabulary : Begun(w)}}

\* A turn of the loop on c.  seen is what the loop remembers as prev.
Turn(c, seen, back) ==
    /\ exit = "none"
    /\ text' = IF position < Len(text) THEN text ELSE Append(text, c)
    /\ position' = IF back THEN position ELSE position + 1
    /\ prev' = seen /\ prev_prev' = prev

\* Only a character that is no white space is put back.
PutBack(c) == c \notin Space
-----------------------------------------------------------------------------
(* The automaton.  A row <<s, C, t>> takes it from s to t on a character   *)
(* of C; the rows of Ends end a token on any other character.              *)

StartMoves ==
    {<<"START_S", Space, "START_S">>, <<"START_S", {"quote"}, "STR_START_S">>,
     <<"START_S", Digit, "INTEGER_S">>, <<"START_S", Letter, "ID_S">>,
     <<"START_S", {"+"}, "PLUS_S">>, <<"START_S", {"*"}, "MUL_S">>,
     <<"START_S", {"!"}, "EXCL_MARK_S">>, <<"START_S", {"?"}, "IS_NIL_1_S">>,
     <<"START_S", {">"}, "GREATER_S">>, <<"START_S", {"<"}, "LESS_S">>,
     <<"START_S", {"-"}, "MINUS_S">>, <<"START_S", {"="}, "ASSIGN_S">>,
     <<"START_S", {"&"}, "LOGICAL_AND1_S">>, <<"START_S", {"|"}, "LOGICAL_OR1_S">>,
     <<"START_S", {"lbrace"}, "BRACE_L_S">>, <<"START_S", {"rbrace"}, "BRACE_R_S">>,
     <<"START_S", {"("}, "BRACKET_L_S">>, <<"START_S", {")"}, "BRACKET_R_S">>,
     <<"START_S", {":"}, "COLON_S">>, <<"START_S", {"comma"}, "COMMA_S">>,
     <<"START_S", {"."}, "RANGE_START_S">>, <<"START_S", {"/"}, "DIV_S">>}

OperatorMoves ==
    {<<"EXCL_MARK_S", {"="}, "NOT_EQUAL_S">>, <<"IS_NIL_1_S", {"?"}, "IS_NIL_2_S">>,
     <<"GREATER_S", {"="}, "GREATER_EQUAL_S">>, <<"LESS_S", {"="}, "LESS_EQUAL_S">>,
     <<"MINUS_S", {">"}, "ARROW_S">>, <<"ASSIGN_S", {"="}, "EQUAL_S">>,
     <<"LOGICAL_AND1_S", {"&"}, "LOGICAL_AND2_S">>, <<"LOGICAL_OR1_S", {"|"}, "LOGICAL_OR2_S">>,
     <<"RANGE_START_S", {"."}, "RANGE_START_1_S">>,
     <<"RANGE_START_1_S", {"<"}, "RANGE_HALF_OPEN_S">>,
     <<"RANGE_START_1_S", {"."}, "RANGE_CLOSED_S">>,
     <<"DIV_S", {"/"}, "COM_SINGLE_S">>, <<"DIV_S", {"*"}, "COM_MULT_START_S">>}

NumberMoves ==
    {<<"INTEGER_S", Digit, "INTEGER_S">>, <<"INTEGER_S", {"e"}, "REAL_E_S">>,
     <<"INTEGER_S", {"."}, "REAL_S">>, <<"REAL_S", Digit, "REAL_NUM_S">>,
     <<"REAL_NUM_S", Digit, "REAL_NUM_S">>, <<"REAL_NUM_S", {"e"}, "REAL_E_S">>,
     <<"REAL_E_S", Digit, "REAL_EXP_S">>, <<"REAL_E_S", {"+", "-"}, "EXP_SIGN_S">>,
     <<"EXP_SIGN_S", Digit, "REAL_EXP_S">>, <<"REAL_EXP_S", Digit, "REAL_EXP_S">>}

Visible == Character \ {"\t", "\n", "utf8"}
InString == Visible \ {"quote", "\\"}

StringMoves ==
    {<<"STR_START_S", {"quote"}, "STR_1_END_S">>, <<"STR_START_S", {"\\"}, "ESC_S">>,
     <<"STR_START_S", InString, "STR_START_S">>, <<"STR_1_END_S", {"quote"}, "STR_2_START_S">>,
     <<"STR_2_START_S", {"\n"}, "STR_LF_S">>, <<"STR_MULT_S", {"\n"}, "STR_LF_S">>,
     <<"STR_MULT_S", {"\\"}, "ESC_S">>,
     <<"STR_MULT_S", (Visible \ {"\\"}) \cup {"\t"}, "STR_MULT_S">>,
     <<"STR_LF_S", {"quote"}, "STR_2_E_S">>, <<"STR_LF_S", Space, "STR_LF_S">>,
     <<"STR_LF_S", Visible \ {"quote", "blank"}, "STR_MULT_S">>,
     <<"STR_2_E_S", {"quote"}, "STR_2_EE_S">>, <<"STR_2_E_S", Visible \ {"quote"}, "STR_MULT_S">>,
     <<"STR_2_EE_S", {"quote"}, "STR_2_END_S">>, <<"STR_2_EE_S", Visible \ {"quote"}, "STR_MULT_S">>}

\* Mutant of TooLong: off by one.
TooLong_off == count > 7

TooLong == count > 8

Body == IF multiline THEN "STR_MULT_S" ELSE "STR_START_S"

EscapeMoves ==
    {<<"ESC_S", {"quote", "n", "\\"}, Body>>, <<"ESC_S", {"u"}, "U_SEC_S">>,
     <<"U_SEC_S", {"lbrace"}, "U_SEC_START_S">>, <<"U_SEC_START_S", HexDigit, "U_SEC_NUM_S">>,
     <<"U_SEC_NUM_S", IF TooLong THEN {} ELSE HexDigit, "U_SEC_NUM_S">>,
     <<"U_SEC_NUM_S", IF TooLong THEN {} ELSE {"rbrace"}, Body>>}

Rest(chars) == Character \ chars

CommentMoves ==
    {<<"COM_SINGLE_S", {"\n"}, "COM_END_SINGLE_S">>,
     <<"COM_SINGLE_S", Rest({"\n"}), "COM_SINGLE_S">>,
     <<"COM_MULT_START_S", {"*"}, "COM_HALF_END_S">>,
     <<"COM_MULT_START_S", {"/"}, "COM_MULT_NEW_S">>,
     <<"COM_MULT_START_S", Rest({"*", "/"}), "COM_MULT_S">>,
     <<"COM_MULT_NEW_S", {"/"}, "COM_MULT_NEW_S">>,
     <<"COM_MULT_NEW_S", {"*"}, "COM_MULT_START_S">>,
     <<"COM_MULT_NEW_S", Rest({"*", "/"}), "COM_MULT_S">>,
     <<"COM_MULT_S", {"/"}, "COM_MULT_NEW_S">>, <<"COM_MULT_S", {"*"}, "COM_HALF_END_S">>,
     <<"COM_MULT_S", Rest({"*", "/"}), "COM_MULT_S">>,
     <<"COM_HALF_END_S", {"*"}, "COM_HALF_END_S">>,
     <<"COM_HALF_END_S", {"/"}, "COM_MULT_END_S">>,
     <<"COM_HALF_END_S", Rest({"*", "/"}), "COM_MULT_S">>}

\* is_keyword, for the keywords the model has.
is_keyword(s) == CASE s = <<"T">> -> "type" [] s = <<"underscore">> -> "underscore" [] OTHER -> "id"

WordMoves ==
    {<<"ID_S", Letter \cup Digit, "ID_S">>,
     <<"ID_S", IF is_keyword(lexeme) = "id" THEN {} ELSE {"?"}, "TYPE_NIL_S">>}

\* The states in which a character without a row ends a token, and the tokens
\* named by their spelling.
Spelled ==
    [PLUS_S |-> "+", MUL_S |-> "*", NOT_EQUAL_S |-> "!=", IS_NIL_2_S |-> "??",
     GREATER_S |-> ">", GREATER_EQUAL_S |-> ">=", LESS_S |-> "<", LESS_EQUAL_S |-> "<=",
     MINUS_S |-> "-", ARROW_S |-> "->", ASSIGN_S |-> "=", EQUAL_S |-> "==", DIV_S |-> "/",
     BRACE_L_S |-> "lbrace", BRACE_R_S |-> "rbrace", BRACKET_L_S |-> "(", BRACKET_R_S |-> ")",
     COLON_S |-> ":", COMMA_S |-> "comma", LOGICAL_AND2_S |-> "&&", LOGICAL_OR2_S |-> "||",
     RANGE_HALF_OPEN_S |-> "..<", RANGE_CLOSED_S |-> "..."]

\* Mutant of Exclamation: what is behind it is not looked at.
Exclamation_before(c) == IF prev_prev \in Space THEN "not" ELSE "unwrap"

Exclamation(c) ==
    IF prev_prev \in Space \/ c \in Letter \cup Digit \cup {"("} THEN "not" ELSE "unwrap"

\* The token that ends before c.
Kind(c) ==
    CASE fsm_state \in DOMAIN Spelled -> Spelled[fsm_state]
      [] fsm_state = "EXCL_MARK_S" -> Exclamation(c)
      [] fsm_state = "INTEGER_S" -> "int"
      [] fsm_state \in {"REAL_NUM_S", "REAL_EXP_S"} -> "real"
      [] fsm_state = "ID_S" /\ c # "?" -> is_keyword(lexeme)
      [] fsm_state = "TYPE_NIL_S" -> is_keyword(Front(lexeme))
      [] fsm_state \in {"STR_1_END_S", "STR_2_END_S"} -> "string"
      [] OTHER -> "none"
-----------------------------------------------------------------------------
(* verify_str on a literal of one line: what it becomes in the code, where *)
(* a character is itself (Plain) or "\ddd" (Code).                         *)

Plain(c) == <<c, 0>>
Code(n) == <<"\\", n>>

HexValue == [d \in HexDigit |->
    CASE d = "0" -> 0 [] d = "1" -> 1 [] d = "8" -> 8
      [] d = "a" -> 10 [] d = "e" -> 14 [] d = "f" -> 15]

\* strtol, cast to an int of 32 bits: eight digits may make it negative.
IntOf(digits) ==
    LET value[i \in 0 .. Len(digits)] ==
            IF i = 0 THEN 0
            ELSE LET d == HexValue[digits[i]]
                 IN  16 * value[i - 1] + IF i = 1 /\ Len(digits) = 8 /\ d > 7 THEN d - 16 ELSE d
    IN  value[Len(digits)]

EscapeCode == [c \in {"n", "quote", "\\"} |->
    CASE c = "n" -> 10 [] c = "quote" -> 34 [] c = "\\" -> 92]

\* Mutant of MustCode: "#", which begins a comment in IFJcode23, is left as it is.
MustCode_blank(c) == c = "blank"

MustCode(c) == c \in {"blank", "#"}

\* coded[i] is what the code has for s from place i on.
Coded(s) ==
    LET close(i) == CHOOSE n \in i .. Len(s) : s[n] = "rbrace" /\ \A m \in i .. n - 1 : s[m] # "rbrace"
        value(i) == IntOf(SubSeq(s, i + 3, close(i) - 1))
        coded[i \in 1 .. Len(s) + 1] ==
            CASE i > Len(s) -> <<>>
              [] i < Len(s) /\ s[i] = "\\" /\ s[i + 1] = "u" ->
                    (IF value(i) < 256 THEN <<Code(value(i))>> ELSE <<>>) \o coded[close(i) + 1]
              [] i < Len(s) /\ s[i] = "\\" /\ s[i + 1] # "u" ->
                    <<Code(EscapeCode[s[i + 1]])>> \o coded[i + 2]
              [] i <= Len(s) /\ MustCode(s[i]) ->
                    <<Code(IF s[i] = "blank" THEN 32 ELSE 35)>> \o coded[i + 1]
              [] OTHER -> <<Plain(s[i])>> \o coded[i + 1]
    IN  coded[1]

verify_str(s) == Coded(Front(Tail(s)))
-----------------------------------------------------------------------------
(* The turns of the loop *)

Init ==
    /\ text = <<>> /\ position = 0 /\ prev = "blank" /\ prev_prev = "blank"
    /\ fsm_state = "START_S" /\ lexeme = <<>> /\ comment_cnt = 0 /\ count = 0
    /\ multiline = FALSE /\ tokens = <<>> /\ token_added = FALSE
    /\ first = 0 /\ exit = "none"

HasRow(moves, c) == \E row \in moves : row[1] = fsm_state /\ c \in row[2]

\* c takes the automaton to a new state by a row of moves.
Moves(moves, c) ==
    /\ \E row \in moves : row[1] = fsm_state /\ c \in row[2] /\ fsm_state' = row[3]
    /\ Turn(c, c, FALSE)
    /\ UNCHANGED exit

Collect(c) == lexeme' = Append(lexeme, c)

NewlineAfter(ts) == [ts EXCEPT ![Len(ts)].nl = TRUE]

\* The newline behind a token is noticed where the next character is read.
Start ==
    \E c \in Upcoming :
        /\ Moves(StartMoves, c)
        /\ IF prev = "\n" /\ token_added
           THEN tokens' = NewlineAfter(tokens) /\ token_added' = FALSE
           ELSE UNCHANGED <<tokens, token_added>>
        /\ IF c \in Digit \cup Letter \cup {"quote"} THEN Collect(c) ELSE UNCHANGED lexeme
        /\ multiline' = (multiline /\ c # "quote")
        /\ first' = position + 1
        /\ UNCHANGED <<comment_cnt, count>>

Operator ==
    \E c \in Upcoming :
        /\ Moves(OperatorMoves, c)
        /\ UNCHANGED <<lexeme, comment_cnt, count, multiline, tokens, token_added, first>>

NumberOrWord ==
    \E c \in Upcoming :
        /\ Moves(NumberMoves \cup WordMoves, c) /\ Collect(c)
        /\ UNCHANGED <<comment_cnt, count, multiline, tokens, token_added, first>>

String ==
    \E c \in Upcoming :
        /\ Moves(StringMoves, c) /\ Collect(c)
        /\ multiline' = (multiline \/ fsm_state = "STR_2_START_S")
        /\ UNCHANGED <<comment_cnt, count, tokens, token_added, first>>

Escape ==
    \E c \in Upcoming :
        /\ Moves(EscapeMoves, c) /\ Collect(c)
        /\ count' = CASE fsm_state = "U_SEC_START_S" -> 1
                      [] fsm_state = "U_SEC_NUM_S" /\ c \in HexDigit -> count + 1
                      [] OTHER -> count
        /\ UNCHANGED <<comment_cnt, multiline, tokens, token_added, first>>

\* A comment is counted when the character behind its "/*" is read.
Comment ==
    \E c \in Upcoming :
        /\ Moves(CommentMoves, c)
        /\ comment_cnt' = comment_cnt + IF fsm_state = "COM_MULT_START_S" THEN 1 ELSE 0
        /\ UNCHANGED <<lexeme, count, multiline, tokens, token_added, first>>

\* Mutant of StillOpen: the first "*/" ends a comment.
StillOpen_never == FALSE

StillOpen == comment_cnt > 1

\* The character behind "*/".  White space is not put back, and the loop takes
\* whatever it is for a blank.
CommentEnd ==
    /\ fsm_state = "COM_MULT_END_S"
    /\ \E c \in Upcoming :
          /\ fsm_state' = CASE ~StillOpen -> "START_S"
                            [] StillOpen /\ c = "/" -> "COM_MULT_NEW_S"
                            [] OTHER -> "COM_MULT_S"
          /\ Turn(c, IF StillOpen THEN c ELSE "blank", PutBack(c) /\ ~(StillOpen /\ c = "/"))
    /\ comment_cnt' = comment_cnt - 1
    /\ UNCHANGED <<lexeme, count, multiline, tokens, token_added, first, exit>>

\* Mutant of BehindLine: the end of the line is taken for a blank.
BehindLine_blank == "blank"

BehindLine == "\n"

\* The character behind the newline of a "//": the loop is told of the newline.
LineCommentEnd ==
    /\ fsm_state = "COM_END_SINGLE_S" /\ fsm_state' = "START_S"
    /\ \E c \in Upcoming : Turn(c, BehindLine, PutBack(c))
    /\ UNCHANGED <<lexeme, comment_cnt, count, multiline, tokens, token_added, first, exit>>

\* add_token.  A "}" needs no newline before it: the token before is given one.
Add(kind, last, value) ==
    LET token == [kind |-> kind, from |-> first, to |-> last, nl |-> FALSE,
                  nillable |-> fsm_state = "TYPE_NIL_S", value |-> value]
    IN  /\ tokens' = Append(IF kind = "rbrace" THEN NewlineAfter(tokens) ELSE tokens, token)
        /\ token_added' = TRUE
        /\ lexeme' = <<>>
        /\ UNCHANGED <<comment_cnt, count, multiline>>

\* c ends a token, unless the automaton goes on with it.
Ends(c) ==
    /\ Kind(c) # "none"
    /\ ~HasRow(OperatorMoves \cup NumberMoves \cup WordMoves \cup StringMoves, c)

Unpreceded(c) == Kind(c) = "rbrace" /\ tokens = <<>>

Token ==
    /\ \E c \in Upcoming :
          /\ Ends(c) /\ ~Unpreceded(c)
          /\ Turn(c, c, PutBack(c))
          /\ Add(Kind(c), position, IF fsm_state = "STR_1_END_S" THEN verify_str(lexeme) ELSE <<>>)
    /\ fsm_state' = "START_S"
    /\ UNCHANGED <<first, exit>>

\* "1." turned out to be an integer before a range.
IntegerBeforeRange ==
    /\ fsm_state = "REAL_S" /\ "." \in Upcoming
    /\ Turn(".", ".", TRUE)
    /\ Add("int", position - 1, <<>>)
    /\ fsm_state' = "RANGE_START_S" /\ first' = position
    /\ UNCHANGED exit

Exit(how) ==
    /\ exit' = how
    /\ UNCHANGED <<fsm_state, lexeme, comment_cnt, count, multiline, token_added, first>>

\* The automaton knows no way on.
Unknown ==
    /\ \E c \in Upcoming :
          /\ ~HasRow(StartMoves \cup OperatorMoves \cup NumberMoves \cup WordMoves
                     \cup StringMoves \cup EscapeMoves \cup CommentMoves, c)
          /\ fsm_state \notin {"COM_MULT_END_S", "COM_END_SINGLE_S"}
          /\ ~Ends(c) /\ ~(fsm_state = "REAL_S" /\ c = ".")
          /\ Turn(c, c, FALSE)
    /\ Exit("lexical") /\ UNCHANGED tokens

\* verify_str refuses a multiline string for its indentation or its escapes.
BadString ==
    /\ fsm_state = "STR_2_END_S"
    /\ \E c \in Upcoming : Turn(c, c, FALSE)
    /\ Exit("lexical") /\ UNCHANGED tokens

\* The token before the first one is looked for in front of the array.
NothingBeforeBrace ==
    /\ \E c \in Upcoming : Ends(c) /\ Unpreceded(c) /\ Turn(c, c, FALSE)
    /\ Exit("undefined") /\ UNCHANGED tokens

\* Mutant of Unfinished: a comment that is never closed is no error.
Unfinished_comment == lexeme # <<>>

Unfinished == lexeme # <<>> \/ comment_cnt > 0

Eof == [kind |-> "eof", from |-> Len(text) + 1, to |-> Len(text), nl |-> FALSE,
        nillable |-> FALSE, value |-> <<>>]

\* file_getc has no more lines.
EndOfFile ==
    /\ exit = "none" /\ position = Len(text)
    /\ text # <<>> /\ Last(text) = "\n"
    /\ Exit(IF Unfinished THEN "lexical" ELSE "success")
    /\ tokens' = IF Unfinished THEN tokens
                 ELSE Append(IF tokens = <<>> THEN tokens ELSE NewlineAfter(tokens), Eof)
    /\ UNCHANGED reader

Done == exit # "none" /\ UNCHANGED vars

Next ==
    \/ Start \/ Operator \/ NumberOrWord \/ String \/ Escape
    \/ Comment \/ CommentEnd \/ LineCommentEnd
    \/ Token \/ IntegerBeforeRange
    \/ Unknown \/ BadString \/ NothingBeforeBrace \/ EndOfFile \/ Done

Spec == Init /\ [][Next]_vars
=============================================================================
