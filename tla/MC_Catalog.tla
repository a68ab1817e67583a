----------------------------- MODULE MC_Catalog -----------------------------
(* Constants of Catalog for model checking: a table, two columns, and two    *)
(* parsers, whose names are interchangeable.                                 *)
EXTENDS Catalog, TLC

CONSTANTS t1, a, b, p, q
MCTables == {t1}
MCColumns == {a, b}
MCOneColumn == {a}
MCParsers == {p, q}
MCNoParsers == {}
MCSymmetry == Permutations({a, b}) \cup Permutations({p, q})
=============================================================================
