------------------------------ MODULE MCParser ------------------------------
(* The vocabularies of the programs: loops and branches; functions; calls. *)
EXTENDS ParserProperties

Control ==
    [kinds |-> {"id", "if", "else", "while", "for", "in", "...", "break", "lbrace", "rbrace"},
     newline_after |-> {"rbrace"}, max |-> 14]

Functions ==
    [kinds |-> {"id", "(", ")", ":", "func", "->", "type", "return", "lbrace", "rbrace"},
     newline_after |-> {"rbrace"}, max |-> 11]

Calls ==
    [kinds |-> {"id", "(", ")", "comma", ":", "=", "let", "type"},
     newline_after |-> {"id", ")", "type"}, max |-> 8]

ControlVocabulary == {Control}
FunctionAndCallVocabulary == {Functions, Calls}
CallVocabulary == {Calls}
=============================================================================
