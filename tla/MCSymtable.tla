----------------------------- MODULE MCSymtable -----------------------------
(* Symtable for TLC: names a and b, the standard readInt, types Int and Int?. *)
EXTENDS Symtable, FiniteSets

CONSTANTS a, b, readInt, MaxDecls

MCName == {a, b, readInt}
MCType == {0, 4}
MCStd == {readInt}

\* Bound: at most MaxDecls declarations open at once.
FewDecls ==
    Cardinality({<<i, n>> \in (1..scopeDepth + 1) \X Name : ScopeAt(i)[n] # NULL})
        <= MaxDecls
=============================================================================
