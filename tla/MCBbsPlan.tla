----------------------------- MODULE MCBbsPlan ------------------------------
(* Every table of a few rows, with every order variable that could fit one.  *)
EXTENDS BbsPlan

MCKinds == {[hdd |-> TRUE, flags |-> "good", known |-> FALSE],
            [hdd |-> TRUE, flags |-> "zero", known |-> TRUE],
            [hdd |-> FALSE, flags |-> "good", known |-> FALSE]}

MCTables == [Index -> [pri : {0, 1, Ignore}, what : MCKinds]]

\* Sequences that name no row twice, disks first or last, with at most one row
\* switched off.
MCOrders ==
  {NoOrder} \cup
  {o \in UNION {[1 .. n -> [hdd : BOOLEAN, index : Index, off : BOOLEAN]] : n \in 0 .. Count} :
     /\ \A k, l \in DOMAIN o : o[k].off /\ o[l].off => k = l
     /\ \A k, l \in DOMAIN o : o[k].index = o[l].index => k = l
     /\ \A k, l, m \in DOMAIN o :
          k < l /\ l < m /\ o[k].hdd = o[m].hdd => o[l].hdd = o[k].hdd}
=============================================================================
