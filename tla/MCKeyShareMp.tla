---------------------------- MODULE MCKeyShareMp ----------------------------
(* Small instances of KeyShareMp.                                          *)
EXTENDS KeyShareMp

(* A key shared among three parties, q = 3.                                *)
Shares3 == [p \in 0 .. 2 |-> <<1, 2, 2>>[p + 1]]

(* Honest parties from nothing over three sessions; a faulty party in a    *)
(* key generation; a faulty party in a refresh in place.                   *)
ThreeSetups ==
  { [faulty |-> {}, shares |-> None, inplace |-> FALSE, sessions |-> 3, errors |-> 1],
    [faulty |-> {1}, shares |-> None, inplace |-> FALSE, sessions |-> 1, errors |-> 0],
    [faulty |-> {1}, shares |-> Shares3, inplace |-> TRUE, sessions |-> 1, errors |-> 0] }
=============================================================================
