-------------------------- MODULE ScannerProperties --------------------------
(***************************************************************************)
(* What module Scanner promises, against an independent definition of the  *)
(* lexemes of the language: as sets of texts, without an automaton.        *)
(***************************************************************************)
EXTENDS Lexemes

\* The lengths of the escapes s begins with.
EscapeLengths(s) ==
    {n \in 2 .. Len(s) :
        /\ s[1] = "\\"
        /\ \/ n = 2 /\ s[2] \in {"n", "quote", "\\"}
           \/ /\ n \in 5 .. 12 /\ s[2] = "u" /\ s[3] = "lbrace" /\ s[n] = "rbrace"
              /\ Run(SubSeq(s, 4, n - 1), HexDigit)}

\* What an escape stands for; characters beyond a byte are left out.
Escaped(s) ==
    LET digits == SubSeq(s, 4, Len(s) - 1)
        byte == SubSeq(<<"0">> \o digits, Len(digits), Len(digits) + 1)
    IN  CASE s[2] = "n" -> <<Code(10)>> [] s[2] = "quote" -> <<Code(34)>>
          [] s[2] = "\\" -> <<Code(92)>>
          [] OTHER -> IF ToSet(SubSeq(digits, 1, Len(digits) - 2)) \subseteq {"0"}
                      THEN <<Code(16 * HexValue[byte[1]] + HexValue[byte[2]])>> ELSE <<>>

NoString == <<<<"ill-formed", 0>>>>

\* What is denoted by the characters s between two quotes.
RECURSIVE Denoted(_)
Denoted(s) ==
    LET length == IF s[1] \in InString THEN 1 ELSE CHOOSE n \in EscapeLengths(s) : TRUE
        rest == Denoted(SubSeq(s, length + 1, Len(s)))
    IN  CASE s = <<>> -> <<>>
          [] s # <<>> /\ s[1] \notin InString /\ EscapeLengths(s) = {} -> NoString
          [] OTHER -> IF rest = NoString THEN NoString
                      ELSE (IF length = 1 THEN <<Plain(s[1])>> ELSE Escaped(SubSeq(s, 1, length)))
                           \o rest

Between(s) == SubSeq(s, 2, Len(s) - 1)
IsString(s) ==
    Len(s) > 1 /\ s[1] = "quote" /\ s[Len(s)] = "quote" /\ Denoted(Between(s)) # NoString

Quotes == <<"quote", "quote", "quote">>

\* The quotes that end it are the first at the beginning of a line.
IsMultiline(s) ==
    LET Closes(i) == /\ SubSeq(s, i, i + 2) = Quotes
                     /\ \E n \in 4 .. i - 1 :
                           s[n] = "\n" /\ ToSet(SubSeq(s, n, i - 1)) \subseteq Space
    IN  /\ IsPrefix(Quotes \o <<"\n">>, s) /\ Len(s) > 6
        /\ {i \in 5 .. Len(s) - 2 : Closes(i)} = {Len(s) - 2}

\* A string of one line that is not empty, and behind it a quote and the rest of
\* a multiline string: the automaton counts three quotes where they are not
\* together (scanner.c:633-636), and takes it for a multiline string.
OpenedLate(s) ==
    \E n \in 3 .. Len(s) - 1 :
        /\ s[n + 1] = "quote" /\ IsString(SubSeq(s, 1, n))
        /\ IsMultiline(Quotes \o SubSeq(s, n + 2, Len(s)))

\* s is a token of a kind.
Lexeme(s, kind) == PlainLexeme(s, kind) \/ (kind = "string" /\ (IsString(s) \/ IsMultiline(s)))

IsLexeme(s) == IsPlainLexeme(s) \/ Lexeme(s, "string")
-----------------------------------------------------------------------------
(* What is between tokens *)

Pair(s, i) == SubSeq(s, i, IF i < Len(s) THEN i + 1 ELSE i - 1)

\* Where the block comment open at i of s, in depth others, ends; 0: nowhere.
RECURSIVE CloseOf(_, _, _)
CloseOf(s, i, depth) ==
    LET two == Pair(s, i)
    IN  CASE i > Len(s) -> 0
          [] two = <<"/", "*">> -> CloseOf(s, i + 2, depth + 1)
          [] two = <<"*", "/">> -> IF depth = 0 THEN i + 1 ELSE CloseOf(s, i + 2, depth - 1)
          [] OTHER -> CloseOf(s, i + 1, depth)

\* How far s goes on from i, where a blank, a newline or a comment begins.
Skipped(s, i) ==
    LET two == Pair(s, i)
        line_end == {n \in i + 2 .. Len(s) : s[n] = "\n" /\ "\n" \notin ToSet(SubSeq(s, i, n - 1))}
    IN  CASE i > Len(s) -> 0
          [] two = <<"/", "*">> -> CloseOf(s, i + 2, 0)
          [] two = <<"/", "/">> -> IF line_end = {} THEN 0 ELSE (CHOOSE n \in line_end : TRUE) - 1
          [] OTHER -> IF s[i] \in Space THEN i ELSE 0

\* The places of s, read from i, that are white space outside comments; 0 is
\* one of them if s has something else.
RECURSIVE Whites(_, _)
Whites(s, i) ==
    IF i > Len(s) THEN {}
    ELSE IF Skipped(s, i) = 0 THEN {0}
    ELSE (IF s[i] \in Space THEN {i} ELSE {}) \cup Whites(s, Skipped(s, i) + 1)

IsBlank(s) == 0 \notin Whites(s, 1)

\* The text between token i and the next, or the end of what was read.
Until(i) == IF i < Len(tokens) THEN tokens[i + 1].from - 1 ELSE position
Gap(i) == Slice(From(i), Until(i))

\* The newlines of s that separate; those directly behind a block comment.
Newlines(s) == {i \in Whites(s, 1) \ {0} : s[i] = "\n"}
BehindBlockComment(s) ==
    {i \in Newlines(s) : i > 2 /\ i - 1 \notin Whites(s, 1) /\ s[i - 1] = "/" /\ s[i - 2] = "*"
                         /\ \E n \in 1 .. i - 3 : SubSeq(s, n, n + 1) = <<"/", "*">>
                                                  /\ CloseOf(s, n + 2, 0) = i - 1}
-----------------------------------------------------------------------------
\* The tokens of an accepted text are lexemes of their kinds, none could be
\* longer, and there are only white space and comments, line comments and
\* properly nested block comments, around them: nothing of the text is lost or
\* read twice where a character is put back (scanner.c:227-236, 833-909).  One
\* token is no lexeme, OpenedLate.
TokensTileTheText ==
    exit = "success" =>
        /\ TokensAreLexemes
        /\ \A i \in DOMAIN tokens :
              /\ tokens[i].nillable = (tokens[i].kind \in {"type", "underscore"}
                                       /\ text[tokens[i].to] = "?")
              /\ tokens[i].kind = "string" =>
                    /\ LET s == Slice(tokens[i].from, tokens[i].to)
                       IN  Lexeme(s, "string") \/ OpenedLate(s)
                    /\ \A n \in tokens[i].to + 1 .. Len(text) : ~IsLexeme(Slice(tokens[i].from, n))
        /\ \A i \in 0 .. Len(tokens) - 1 : IsBlank(Gap(i))

\* A token is told that a newline is behind it exactly where one separates it
\* from the next, or the next is a "}" or the end of the file; a newline
\* directly behind a block comment is lost (run scanner_newline).  The flag
\* is set later, when the next character is read (scanner.c:254-257).
NewlinesAreNoted ==
    exit = "success" =>
        \A i \in 1 .. Len(tokens) - 1 :
            tokens[i].nl <=> \/ Newlines(Gap(i)) \ BehindBlockComment(Gap(i)) # {}
                             \/ tokens[i + 1].kind \in {"rbrace", "eof"}

\* As the field has_newline_after (token.h:84) and the parser's "eol check"
\* (parser.c:78) have it: every newline between two tokens is noted.
EveryNewlineIsNoted ==
    exit = "success" =>
        \A i \in 1 .. Len(tokens) - 1 : Newlines(Gap(i)) # {} => tokens[i].nl

\* A string in the code has no blank, "#" or backslash of its own, which would
\* end it there, and denotes what its literal does (verify_str).  An escape of
\* eight digits above 7fffffff is left out: the cast makes it negative.  So is
\* what multiline strings denote; OpenedLate is one to verify_str, which drops
\* its first line.
Wraps(s) == \E i \in DOMAIN s : \E n \in EscapeLengths(SubSeq(s, i, Len(s))) :
                n = 12 /\ HexValue[s[i + 3]] > 7

Meaning(value) ==
    [i \in DOMAIN value |-> IF value[i] = Code(32) THEN Plain("blank")
                            ELSE IF value[i] = Code(35) THEN Plain("#") ELSE value[i]]

StringsKeepTheirMeaning ==
    \A i \in DOMAIN tokens :
        LET s == Slice(tokens[i].from, tokens[i].to)
        IN  (tokens[i].kind = "string" /\ ~IsMultiline(s) /\ ~OpenedLate(s) /\ ~Wraps(s)) =>
                /\ Meaning(tokens[i].value) = Meaning(Denoted(Between(s)))
                /\ \A n \in DOMAIN tokens[i].value :
                      tokens[i].value[n] \notin {Plain("blank"), Plain("#"), Plain("\\")}

\* What may complete a token that was begun.
Endings ==
    {<<>>, <<"0">>, <<"&">>, <<"|">>, <<"?">>, <<"<">>, <<".", "<">>, <<"quote">>,
     <<"n", "quote">>, <<"rbrace", "quote">>, <<"0", "rbrace", "quote">>, <<"lbrace", "0", "rbrace", "quote">>}

\* A text is refused only where no token begins with what was read of it, and
\* what was read before was none either, or because a comment is not closed; a
\* name is not to be followed by "?" (scanner.c:499-508), and a multiline
\* string is refused for more than its shape.
RejectsOnlyIllFormed ==
    exit = "lexical" =>
        LET read == Slice(IF fsm_state = "START_S" THEN position ELSE first, position)
        IN  \/ comment_cnt > 0 /\ ~IsBlank(Gap(Len(tokens)))
            \/ IsPrefix(Quotes, read)
            \/ /\ ~Run(read, Space) /\ Pair(read, 1) \notin {<<"/", "*">>, <<"/", "/">>}
               /\ \A ending \in Endings : ~IsLexeme(read \o ending)
               /\ IsLexeme(Front(read)) => IsWord(Front(read)) /\ text[position] = "?"
=============================================================================
