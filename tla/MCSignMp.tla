------------------------------ MODULE MCSignMp ------------------------------
(* Three parties, a group of order 7.                                      *)
EXTENDS SignMp

By(f) == [p \in 0 .. 2 |-> f[p + 1]]

(* Two epochs of one key, whose y is odd, and another key, whose y is not. *)
MCShare == << By(<<1, 2, 2>>), By(<<3, 1, 1>>), By(<<2, 3, 5>>) >>

(* Nonces that add up to points of both parities, never to infinity.       *)
MCDraws == By(<< {[k |-> <<1, 2>>, s |-> 1, rho |-> 1], [k |-> <<2, 3>>, s |-> 1, rho |-> 2]},
                 {[k |-> <<1, 3>>, s |-> 2, rho |-> 3]},
                 {[k |-> <<1, 6>>, s |-> 1, rho |-> 1]} >>)

MCChallenge == [P \in 0 .. 6 |-> [m \in 0 .. 2 |-> (2 * P + 3 * m + 1) % 7]]

Base(scheme, e) ==
  [p \in 0 .. 2 |-> [msgs |-> IF scheme = "ecdsa" THEN <<1>> ELSE <<1, 2>>, receiver |-> 0,
                     variant |-> scheme, epoch |-> e, owner |-> p]]

(* One party is called with something else; or each names some receiver.   *)
Variations(a) ==
  UNION { {[a EXCEPT ![p].msgs = <<2>>], [a EXCEPT ![p].msgs = <<2, 1>>], [a EXCEPT ![p].epoch = 2],
           [a EXCEPT ![p].owner = (p + 1) % 3], [a EXCEPT ![p].variant = "other"]} : p \in 0 .. 2 }
Receivers(a) ==
  {[p \in 0 .. 2 |-> [a[p] EXCEPT !.receiver = f[p]]] : f \in [0 .. 2 -> 0 .. 2]}
BadLength(a) == {[p \in 0 .. 2 |-> [a[p] EXCEPT !.msgs = <<1, 0>>]]}

MCSetups ==
  { [scheme |-> s, faulty |-> {}, errs |-> 0,
     args |-> Receivers(Base(s, 1)) \union Variations(Base(s, 1)) \union {Base(s, 3)}
              \union IF s = "ecdsa" THEN {} ELSE BadLength(Base(s, 1))] :
      s \in {"eddsa", "bip340", "ecdsa"} }
  \union
  { [scheme |-> s, faulty |-> {}, errs |-> 1, args |-> {Base(s, 1)}] : s \in {"bip340", "ecdsa"} }
  \union
  { [scheme |-> s, faulty |-> {1}, errs |-> 0,
     args |-> {Base(s, 1), [Base(s, 1) EXCEPT ![2].msgs = <<2>>],
               [p \in 0 .. 2 |-> [Base(s, 3)[p] EXCEPT !.receiver = 1]]}] :
      s \in {"eddsa", "bip340", "ecdsa"} }
=============================================================================
