-------------------------- MODULE ColumnExpression --------------------------
(***************************************************************************)
(* The columns a query names, as ColumnExpressionParser looks them up in   *)
(* the SchemaTree.  A column is given as the names on its way down.        *)
(* Siblings may have one name and different types, so a way of names may   *)
(* be that of several nodes, leaves and objects together.                  *)
(***************************************************************************)
EXTENDS Shredding

CONSTANTS Name  \* the name of each node

ASSUME NameAssumption == DOMAIN Name = Nodes

NamesOf[s \in Nodes] == [k \in DOMAIN PathOf[s] |-> Name[PathOf[s][k]]]

\* The nodes that findNode reaches, one name after the other.
FindNodes(names) == {s \in Nodes : NamesOf[s] = names}

\* Mutant of Expressions: of an object nothing is taken.
MutantLeavesOnly(names) == FindNodes(names) \cap Prim

\* The expressions emplaced: leaves of this name, and by parseSubTree all leaves
\* below the other nodes of this name.
Expressions(names) ==
  LET got == FindNodes(names) IN {l \in Prim : Range(PathOf[l]) \cap got # {}}

\* What parse returns: parseSubTree gets its leaves and returns 0, so that only
\* the leaves of this name are counted.
GotNum(names) == Cardinality(FindNodes(names) \cap Prim)

\* A query is a set of columns; one that got nothing ends ColumnAssembler::init.
Refused(query) == \E names \in query : GotNum(names) = 0

\* QueryPathes: every leaf once.
Fields(query) == UNION {Expressions(names) : names \in query}

=============================================================================
