-------------------------- MODULE ParserProperties --------------------------
(***************************************************************************)
(* What the parser promises, over module Parser and the language of module *)
(* Grammar.                                                                *)
(***************************************************************************)
EXTENDS Parser, Grammar

\* CODE is about to call the function of a statement.
StatementStarts ==
    /\ Doing("call") /\ Top.fn = "CODE" /\ Arg \in {Statement[k] : k \in DOMAIN Statement}

Count(kinds) == Len(Inside(kinds, tokens, lookahead))

\* When a statement starts, the globals that say where the parser is agree
\* with the braces of the program text read so far: the nesting of scopes, of
\* loops, of branches, and whether a function is open (a function and a for
\* open two scopes, every other block one).
ContextMatchesBraces ==
    StatementStarts =>
        /\ inside_loop = Count(Loops)
        /\ inside_branch = Count({"if", "else"})
        /\ inside_func <=> Count({"func"}) > 0
        /\ scopeDepth = Count({"func", "if", "else"} \cup Loops) + Count({"func", "for"})
        /\ ~ignore_right_bracket

\* The jump of a break or a continue goes to the labels of the innermost loop
\* of the text, and a continue steps the counter exactly in a for.
JumpsToInnermostLoop ==
    (Doing("gen_break") \/ Doing("gen_continue")) /\ ~collect_funcs /\ Top.s =>
        LET loops == Inside(Loops, tokens, lookahead)
        IN  /\ loops # <<>>
            /\ current_loop = loops[Len(loops)].at
            /\ current_loop_is_for <=> loops[Len(loops)].kind = "for"

\* The second pass, which prints code as it goes, takes the path the first one
\* took: a program the first pass accepts is never refused by the second in
\* the middle of its output, unless a declaration has neither type nor value.
SecondPassFollows == ~collect_funcs /\ stack # <<>> => stack[1].s

\* The compiler succeeds only on programs of the grammar.
AcceptsOnlyTheGrammar ==
    exit = "success" => Derivable(tokens) /\ InPlace(tokens) /\ Declares(tokens)

\* It reports a syntax error only if no text that begins with the tokens read
\* is a program of the grammar.
RejectsOnlyTheRest ==
    exit = "syntax" => ~(Derivable(tokens) /\ InPlace(tokens)
                         /\ (collect_funcs \/ Declares(tokens)))

\* A function that returns a value is accepted only with a return in its body.
ValueFunctionsReturn ==
    exit = "success" /\ Derivable(tokens) =>
        \A i \in 1 .. Len(tokens) :
            tokens[i].kind = "->" =>
                \E j \in i .. Len(tokens) :
                    /\ tokens[j].kind = "return"
                    /\ \A k \in i .. j : tokens[k].kind # "func"

\* The parser reads no slot of the token array it did not fill: next reports
\* "token array out of bounds" instead (token.c:217-220).
NeverPastTheEnd ==
    exit = "undefined" => \A i \in {lookahead, current, Top.local} : ~Garbage(i)

\* The compiler stops, whatever the program: no list of tokens makes the
\* recursive descent, or the two passes, go on for ever.
Terminates == <>(exit # "none")
=============================================================================
