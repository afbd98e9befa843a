-------------------------- MODULE MCSecretSharing --------------------------
EXTENDS SecretSharing

(* pid_from_name does not keep the order of the names.                     *)
PidOf == <<3, 6, 1, 5, 2, 4>>
AllScalars == Zq

Leaf(n) == [type |-> "LEAF", name |-> n, t |-> 0, kids |-> <<>>]
Node(type, n, t, kids) == [type |-> type, name |-> n, t |-> t, kids |-> kids]

(* Children are not listed in the order of their names.                    *)
TwoOfThree == Node("THRESHOLD", 0, 2, <<Leaf(2), Leaf(3), Leaf(1)>>)
AndInThreshold ==
  Node("THRESHOLD", 0, 2, <<Leaf(5), Node("AND", 2, 0, <<Leaf(4), Leaf(3)>>), Leaf(1)>>)
ThresholdInAnd ==
  Node("AND", 0, 0, <<Node("THRESHOLD", 6, 2, <<Leaf(3), Leaf(1), Leaf(2)>>), Leaf(4)>>)
ThresholdInOr ==
  Node("OR", 0, 0, <<Node("THRESHOLD", 1, 2, <<Leaf(5), Leaf(2), Leaf(3)>>), Leaf(4)>>)
OrInThreshold ==
  Node("THRESHOLD", 0, 2, <<Node("OR", 4, 0, <<Leaf(6), Leaf(1)>>), Leaf(3), Leaf(2)>>)

WellFormed == {TwoOfThree, AndInThreshold, ThresholdInAnd, ThresholdInOr, OrInThreshold}

BadTrees ==
  { Node("THRESHOLD", 0, 4, <<Leaf(1), Leaf(2), Leaf(3)>>),
    Node("THRESHOLD", 0, 0, <<Leaf(1), Leaf(2)>>),
    Node("AND", 0, 0, <<>>), Node("AND", 0, 1, <<Leaf(1)>>),
    Node("OR", 3, 0, <<Leaf(1)>>), Node("OR", 0, 0, <<Leaf(0)>>),
    Node("AND", 0, 0, <<Leaf(1), Node("OR", 2, 0, <<Leaf(1)>>)>>),
    Node("AND", 0, 0, <<[Leaf(1) EXCEPT !.kids = <<Leaf(2)>>]>>),
    Node("NONE", 0, 0, <<>>) }

AllTrees == WellFormed \union BadTrees
=============================================================================
