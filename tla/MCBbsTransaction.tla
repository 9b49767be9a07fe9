-------------------------- MODULE MCBbsTransaction --------------------------
(* A disk to be selected among other rows, with and without an order.       *)
EXTENDS BbsTransaction

Disk == [hdd |-> TRUE, flags |-> "good", known |-> FALSE]
Card == [hdd |-> FALSE, flags |-> "good", known |-> FALSE]
Dead == [hdd |-> TRUE, flags |-> "bad", known |-> FALSE]
Rom  == [hdd |-> TRUE, flags |-> "zero", known |-> TRUE]

R(p, k) == [pri |-> p, what |-> k]

MCTables ==
  {f \in [Index -> {R(1, Disk), R(0, Card), R(Unprioritized, Disk), R(Ignore, Rom)}] :
     \A i, j \in Index : f[i] = f[j] => i = j}

E(i, hdd, off) == [hdd |-> hdd, index |-> i, off |-> off]

MCOrders == {NoOrder, <<E(1, TRUE, FALSE), E(0, TRUE, TRUE)>>,
             <<E(2, FALSE, FALSE), E(1, TRUE, FALSE), E(0, TRUE, FALSE)>>}

MCOddities == {R(0, Dead), R(1, Disk)}
=============================================================================
