------------------------------ MODULE MCDkgAc ------------------------------
EXTENDS DkgAc

(* pid_from_name does not keep the order of the names.                     *)
PidOf == <<3, 1, 4, 2>>

Leaf(n) == [type |-> "LEAF", name |-> n, t |-> 0, kids |-> <<>>]

TwoOfThree ==
  [type |-> "THRESHOLD", name |-> 0, t |-> 2, kids |-> <<Leaf(2), Leaf(3), Leaf(1)>>]

(* One and one of two: leaves 1, 2, 3 with an inner OR node 4.             *)
OneAndEither ==
  [type |-> "AND", name |-> 0, t |-> 0,
   kids |-> <<[type |-> "OR", name |-> 4, t |-> 0, kids |-> <<Leaf(3), Leaf(2)>>], Leaf(1)>>]

(* Shares 3 + 1 * pid of the secret 3 along TwoOfThree.                    *)
StartQis == [l \in 1 .. 3 |-> (3 + PidOf[l]) % 7]
Started == [p \in 1 .. 3 |-> [x |-> StartQis[p], Q |-> 3, Qis |-> StartQis]]

(* One of two: a structure whose root is an OR.                            *)
Either ==
  [type |-> "OR", name |-> 0, t |-> 0, kids |-> <<Leaf(1), Leaf(2)>>]

StartedEither == [p \in 1 .. 2 |-> [x |-> 3, Q |-> 3, Qis |-> <<3, 3>>]]

(* Honest parties from nothing, with an error and with quorums that may    *)
(* differ or not be enough; a faulty dealer in a key generation; a faulty  *)
(* dealer in a refresh.                                                    *)
ThreeSetups ==
  { [tree |-> OneAndEither, faulty |-> {}, quorums |-> {{1, 2}, {1, 3}, {3}},
     keys |-> None, sessions |-> 3, errors |-> 1],
    [tree |-> TwoOfThree, faulty |-> {3}, quorums |-> {{1, 3}},
     keys |-> None, sessions |-> 1, errors |-> 0],
    [tree |-> TwoOfThree, faulty |-> {3}, quorums |-> {{1, 3}},
     keys |-> Started, sessions |-> 1, errors |-> 0] }

(* A refresh by two honest parties along the OR.                           *)
EitherSetup ==
  { [tree |-> Either, faulty |-> {}, quorums |-> {{1, 2}},
     keys |-> StartedEither, sessions |-> 1, errors |-> 0] }
=============================================================================
