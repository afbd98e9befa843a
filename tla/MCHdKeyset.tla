----------------------------- MODULE MCHdKeyset -----------------------------
EXTENDS HdKeyset

MCKeyDraw == << {[x |-> 2, k |-> 1]}, {[x |-> 4, k |-> 2]} >>

(* Contributions whose combinations are never 0 in either half, and of     *)
(* which two differ in both halves.                                        *)
B(n) == [i \in 1 .. 2 |-> (n \div 2 ^ (2 - i)) % 2]
MCToss == << {[x |-> B(1), k |-> B(3)], [x |-> B(3), k |-> B(1)]},
             {[x |-> B(0), k |-> B(2)], [x |-> B(2), k |-> B(0)]} >>

MCHash == [h \in 1 .. 2 |-> [z \in 0 .. 4 |-> (h * (z + 1) + z * z) % 5]]
MCSoftHash == [z \in 0 .. 4 |-> [Q \in 0 .. 4 |-> [i \in 1 .. 2 |-> (z + 2 * Q + 3 * i) % 5]]]

(* A session id that the caller brings: no party draws it.                *)
Given == <<"sid", 0, 0>>

MCArgs ==
  { [hard |-> 1, soft |-> <<1, 2>>, sid |-> None],
    [hard |-> 2, soft |-> <<1>>, sid |-> Given],
    [hard |-> 1, soft |-> <<1>>, sid |-> Given],
    [hard |-> 1, soft |-> <<2, 2>>, sid |-> None] }

(* Two errors over a key generation and two refreshes, then a derivation;  *)
(* a derivation after each refresh; a peer that deviates in derivations.   *)
MCSetups ==
  { [variant |-> v, faulty |-> {}, errs |-> 2,
     kinds |-> <<{"dkg"}, {"dkg", "refresh"}, {"refresh", "derive"}, {"derive"}>>] : v \in {"ecdsa", "eddsa"} }
  \union
  { [variant |-> v, faulty |-> {}, errs |-> 0,
     kinds |-> <<{"dkg"}, {"derive"}, {"refresh"}, {"derive"}>>] : v \in {"ecdsa", "eddsa"} }
  \union
  { [variant |-> v, faulty |-> {p}, errs |-> 0,
     kinds |-> <<{"dkg"}, {"derive"}, {"refresh"}, {"derive"}>>] : v \in {"ecdsa", "eddsa"}, p \in {1, 2} }
=============================================================================
