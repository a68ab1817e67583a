----------------------------- MODULE ColumnLog -----------------------------
(***************************************************************************)
(* What a column file promises its users: a log of items, grouped into     *)
(* records, that sessions extend at its end.  A session that is closed     *)
(* makes its items durable.  While a session is open the durable log may   *)
(* be short of the records of its last, partly filled group of RecdCap     *)
(* records, never of more; a session that stops without closing leaves     *)
(* what is durable at that moment.                                         *)
(***************************************************************************)
EXTENDS Integers, Sequences, FiniteSets

CONSTANTS RecdCap, Item

VARIABLES
  durable, \* what the files hold
  pending, \* what the open session holds, the durable items included
  open     \* a session is open

logVars == <<durable, pending, open>>

Records(is) == Cardinality({k \in DOMAIN is : is[k].rep = 0})

\* The items of the groups of RecdCap records that are complete in is.
CompleteGroups(is) ==
  LET whole == (Records(is) \div RecdCap) * RecdCap
      ends  == {n \in 0..Len(is) :
                  /\ Records(SubSeq(is, 1, n)) = whole
                  /\ n < Len(is) => is[n + 1].rep = 0}
  IN  SubSeq(is, 1, CHOOSE n \in ends : TRUE)

Init == durable = <<>> /\ pending = <<>> /\ open = FALSE

\* A session starts from the durable log.
OpenSession ==
  /\ ~open
  /\ open' = TRUE
  /\ UNCHANGED <<durable, pending>>

\* An item is accepted; the last incomplete group may become undurable now.
AppendItem(it) ==
  /\ open
  /\ pending' = Append(pending, it)
  /\ durable' \in {durable, CompleteGroups(durable)}
  /\ UNCHANGED open

\* The session begins to write its end out.
Overwrite ==
  /\ open
  /\ durable' = CompleteGroups(durable)
  /\ UNCHANGED <<pending, open>>

Commit ==
  /\ open
  /\ open' = FALSE
  /\ durable' = pending
  /\ UNCHANGED pending

\* The session is lost.
Abandon ==
  /\ open
  /\ open' = FALSE
  /\ pending' = durable
  /\ UNCHANGED durable

Next ==
  \/ OpenSession
  \/ \E it \in Item : AppendItem(it)
  \/ Overwrite
  \/ Commit
  \/ Abandon

Spec == Init /\ [][Next]_logVars

=============================================================================
