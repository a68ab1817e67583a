--------------------------- MODULE MC_ColumnScan ---------------------------
(* Constants of ColumnScan for model checking: two records to a CAB.         *)
EXTENDS ColumnScan

CONSTANTS v1, v2
MCTwoValues == {v1, v2}
MCValLen == (v1 :> 2) @@ (v2 :> 1)
\* Values by turns; the last item of all has a value or none at level 0.
MCItemInputs == [i \in 0..MaxItems |->
  {it \in Item : it.val \in {Null, IF i % 3 = 1 THEN v2 ELSE v1} /\ (i = MaxItems - 1 => it.def # 1)}]
MCReptLevels == {1}
MCNoRepeat == {}
MCKinds == {"fixed", "var"}
MCFirst == {3}
=============================================================================
