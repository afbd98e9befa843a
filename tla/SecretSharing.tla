--------------------------- MODULE SecretSharing ---------------------------
(***************************************************************************)
(* One secret shared along one access structure: the tree is validated,    *)
(* the dealer shares x with all internal shares, and what the leaves and   *)
(* the public receive may have been altered on the way.  Every question    *)
(* about reconstruction, verification and additive shares is asked of      *)
(* every set of leaves.                                                    *)
(***************************************************************************)
EXTENDS AccessTree

CONSTANTS
  Trees,        \* access structures handed in, well-formed and not
  Secrets,      \* secrets shared
  None,
  MaxAltered,      \* bound: values altered on the way
  AlteredSecrets   \* bound: the secrets whose dealings are altered

ASSUME BoundType == MaxAltered \in Nat /\ AlteredSecrets \subseteq Secrets

VARIABLES
  tree,      \* the access structure
  stage,     \* new, rejected, valid or dealt
  x,         \* the secret
  share,     \* share[l]: the share leaf l received
  pub,       \* pub[n]: the public share of node n as received
  altered    \* number of values altered

vars == <<tree, stage, x, share, pub, altered>>

Leaves == list_leaf_names(tree)

Init ==
  /\ tree \in Trees /\ stage = "new" /\ altered = 0
  /\ x = None /\ share = None /\ pub = None

Validate ==
  /\ stage = "new"
  /\ stage' = IF validate_tree(tree) THEN "valid" ELSE "rejected"
  /\ UNCHANGED <<tree, x, share, pub, altered>>

(* ac_t::share_with_internals.                                             *)
Share(s) ==
  /\ stage = "valid"
  /\ x' = s
  /\ \E d \in share_recursive(tree, s) :
       /\ share' = Restrict(d, Leaves)
       /\ pub' = d
  /\ stage' = "dealt"
  /\ UNCHANGED <<tree, altered>>

AlterShare(l) ==
  /\ stage = "dealt" /\ altered < MaxAltered /\ x \in AlteredSecrets
  /\ \E v \in Zq \ {share[l]} : share' = [share EXCEPT ![l] = v]
  /\ altered' = altered + 1
  /\ UNCHANGED <<tree, stage, x, pub>>

AlterPub(n) ==
  /\ stage = "dealt" /\ altered < MaxAltered /\ x \in AlteredSecrets
  /\ \E v \in Zq \ {pub[n]} : pub' = [pub EXCEPT ![n] = v]
  /\ altered' = altered + 1
  /\ UNCHANGED <<tree, stage, x, share>>

Next ==
  \/ Validate
  \/ \E s \in Secrets : Share(s)
  \/ \E l \in Leaves : AlterShare(l)
  \/ \E n \in Names(tree) : AlterPub(n)

Spec == Init /\ [][Next]_vars

-----------------------------------------------------------------------------
TypeOK ==
  /\ stage \in {"new", "rejected", "valid", "dealt"}
  /\ stage = "dealt" => /\ x \in Zq
                        /\ share \in [Leaves -> Zq]
                        /\ pub \in [Names(tree) -> Zq]

Honest == stage = "dealt" /\ altered = 0

Accepts(l) == verify_share_against_ancestors_pub_data(tree, pub[tree.name], share[l], pub, l)

(* A tree that validate_tree lets through is usable: all its leaves        *)
(* together are a quorum, nobody is not, and more leaves never stop being  *)
(* one; and reconstruct succeeds exactly for the sets enough_for_quorum    *)
(* accepts, and then returns the secret that was shared, whichever leaves  *)
(* of a larger set it happens to use.                                      *)
QuorumReconstructs ==
  /\ stage \in {"valid", "dealt"} =>
       /\ enough_for_quorum(tree, Leaves) /\ ~ enough_for_quorum(tree, {})
       /\ \A S \in SUBSET Leaves : \A l \in Leaves :
            enough_for_quorum(tree, S) => enough_for_quorum(tree, S \union {l})
  /\ Honest => \A S \in SUBSET Leaves :
       reconstruct(tree, Restrict(share, S)) =
         IF enough_for_quorum(tree, S) THEN x ELSE E_INSUFFICIENT

(* The additive shares of a quorum add up to the secret, the members a     *)
(* threshold or OR node does not need contributing nothing; each public    *)
(* additive share, computed by anybody from Qis, belongs to the additive   *)
(* share its owner computes; anything less than a quorum is refused.       *)
AdditiveSharesAddUp ==
  Honest => \A S \in SUBSET Leaves :
    LET out == [p \in S |-> to_additive_share(tree, S, p, share[p], Restrict(pub, Leaves))]
    IN  IF enough_for_quorum(tree, S)
        THEN /\ \A p \in S : out[p].ok
             /\ SumFunction([p \in S |-> out[p].x]) % q = x
             /\ \A p, j \in S : out[p].Qis[j] = out[j].x
        ELSE \A p \in S : ~ out[p].ok

(* Leaves that each checked only the nodes above themselves can, as soon   *)
(* as they are a quorum, reconstruct the value published for the root,     *)
(* whatever was altered: no quorum of satisfied leaves gets another one.   *)
(* All leaves are satisfied when nothing was.                              *)
VerifiedSharesReconstruct ==
  stage = "dealt" =>
    /\ altered = 0 => \A l \in Leaves : Accepts(l)
    /\ \A S \in SUBSET {l \in Leaves : Accepts(l)} :
         enough_for_quorum(tree, S) =>
           /\ reconstruct(tree, Restrict(share, S)) = pub[tree.name]
           /\ reconstruct_exponent(tree, Restrict(pub, S)) = pub[tree.name]

(* A set of leaves that is no quorum sees the same shares whatever the     *)
(* secret is.                                                              *)
UnqualifiedSetsLearnNothing ==
  stage = "valid" => \A S \in SUBSET Leaves :
    LET Views(s) == {Restrict(d, S) : d \in share_recursive(tree, s)}
    IN  ~ enough_for_quorum(tree, S) => \A s, t \in Secrets : Views(s) = Views(t)
=============================================================================
