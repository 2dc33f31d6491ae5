------------------------------ MODULE MCScanner ------------------------------
(* The vocabularies of the texts, one for each part of the automaton. *)
EXTENDS ScannerProperties

Texts(begins, chars, max) == [begins |-> begins, chars |-> chars, max |-> max]

Comments == Texts(<<>>, {"/", "*", "a", "blank", "rbrace", "utf8"}, 7)
NestedComments == Texts(<<"a", "/", "*">>, {"/", "*", "a"}, 10)
Numbers == Texts(<<>>, {"1", "e", ".", "<", "+"}, 7)
Words == Texts(<<>>, {"a", "T", "1", "?", "!", "(", "blank"}, 6)
Operators == Texts(<<>>, Mark \cup {"blank", "a", "1", "underscore", "#"}, 4)
Strings == Texts(<<"quote">>, {"quote", "\\", "n", "#", "blank"}, 10)
Unicode == Texts(<<"quote", "\\", "u", "lbrace">>, {"8", "f", "rbrace", "quote"}, 13)
LongUnicode ==
    Texts(<<"quote", "\\", "u", "lbrace", "8", "0", "0", "0", "0", "0", "0">>, {"0", "rbrace", "quote"}, 16)
MultilineStrings ==
    Texts(<<"quote", "quote", "quote", "\n">>, {"quote", "\\", "a", "blank"}, 12)

AllTexts == {Comments, NestedComments, Numbers, Words, Operators, Strings, Unicode,
             LongUnicode, MultilineStrings}
OnlyNestedComments == {NestedComments}
=============================================================================
