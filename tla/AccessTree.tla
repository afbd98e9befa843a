----------------------------- MODULE AccessTree -----------------------------
(***************************************************************************)
(* Sharing a secret along an access structure (secret_sharing.cpp,         *)
(* lagrange.cpp) and turning the shares of a quorum into additive ones     *)
(* (key_share_mp_t::to_additive_share in ec_dkg.cpp).                      *)
(*                                                                         *)
(* Scalars are Z_q, a curve point is its discrete logarithm.  A node is a  *)
(* record [type, name, t, kids]; names are numbers, ordered as the strings *)
(* are, the root's empty name being 0.  pid_from_name is the constant Pid. *)
(* The walks over a tree are recursive, as in the code.                    *)
(***************************************************************************)
EXTENDS Integers, Sequences, SequencesExt, FiniteSetsExt, Functions

CONSTANTS
  q,         \* order of the group, a prime
  Pid,       \* Pid[name]: pid_from_name, injective and never 0
  Draw       \* scalars the random generator may return

Zq == 0 .. q - 1

ASSUME ConstantTypes ==
  /\ q \in Nat \ {0, 1} /\ Draw \subseteq Zq
  /\ \A a \in DOMAIN Pid : Pid[a] \in 1 .. q - 1
  /\ \A a, b \in DOMAIN Pid : Pid[a] = Pid[b] => a = b

(* Error codes are negative, scalars are not.                              *)
E_INSUFFICIENT == -1
E_CRYPTO == -2

IsError(v) == v < 0

-----------------------------------------------------------------------------
(* Arithmetic                                                              *)

SumSeq(s) == FoldLeft(LAMBDA a, b : (a + b) % q, 0, s)

(* Modular division, MODULO(q) a / b.                                      *)
Div(a, b) == CHOOSE c \in Zq : (c * b) % q = a % q

(* b[0] + b[1] x + ... modulo q, from the highest coefficient down.        *)
horner_poly(b, x) == FoldRight(LAMBDA a, acc : (a + acc * x) % q, b, 0)

(* The basis polynomial of pid among pids, at x.                           *)
lagrange_basis(x, pids, pid) ==
  LET others == SelectSeq(pids, LAMBDA j : j # pid)
      num == FoldLeft(LAMBDA a, j : (a * (x - j)) % q, 1, others)
      den == FoldLeft(LAMBDA a, j : (a * (pid - j)) % q, 1, others)
  IN  Div(num, den)

lagrange_partial_interpolate(x, shares, pids, all) ==
  SumSeq([i \in DOMAIN shares |-> (lagrange_basis(x, all, pids[i]) * shares[i]) % q])

lagrange_interpolate(x, shares, pids) == lagrange_partial_interpolate(x, shares, pids, pids)

-----------------------------------------------------------------------------
(* Trees                                                                   *)

get_n(node) == Len(node.kids)

get_sorted_children(node) == SortSeq(node.kids, LAMBDA a, b : a.name < b.name)

(* Preorder: find, list_leaf_names and validate_tree visit nodes this way. *)
RECURSIVE Nodes(_)
Nodes(node) == <<node>> \o FlattenSeq([i \in DOMAIN node.kids |-> Nodes(node.kids[i])])

Names(node) == {n.name : n \in Range(Nodes(node))}

list_leaf_names(node) == {n.name : n \in {m \in Range(Nodes(node)) : m.type = "LEAF"}}

(* The nodes from the root to the one called name; empty when there is none*)
RECURSIVE PathTo(_, _)
PathTo(node, name) ==
  IF node.name = name THEN <<node>>
  ELSE LET below == SelectSeq([i \in DOMAIN node.kids |-> PathTo(node.kids[i], name)],
                              LAMBDA p : p # <<>>)
       IN  IF below = <<>> THEN <<>> ELSE <<node>> \o below[1]

ThresholdOk(node) == node.t >= 1 /\ node.t <= get_n(node)

(* What validate_tree asks of one node apart from its name.                *)
NodeOk(node) ==
  CASE node.type = "LEAF" -> node.t = 0 /\ get_n(node) = 0
    [] node.type \in {"AND", "OR"} -> node.t = 0 /\ get_n(node) > 0
    [] node.type = "THRESHOLD" -> ThresholdOk(node)
    [] OTHER -> FALSE

(* Root unnamed, everybody else named, no name twice, every node in order. *)
validate_tree(root) ==
  LET nodes == Nodes(root)
  IN  /\ root.name = 0
      /\ \A i \in 2 .. Len(nodes) : nodes[i].name # 0
      /\ \A i, j \in DOMAIN nodes : nodes[i].name = nodes[j].name => i = j
      /\ \A i \in DOMAIN nodes : NodeOk(nodes[i])

RECURSIVE enough_for_quorum(_, _)
enough_for_quorum(node, names) ==
  LET satisfied == {i \in DOMAIN node.kids : enough_for_quorum(node.kids[i], names)}
  IN  CASE node.type = "LEAF" -> node.name \in names
        [] node.type = "OR" -> satisfied # {}
        [] node.type = "AND" -> satisfied = DOMAIN node.kids
        [] node.type = "THRESHOLD" -> Cardinality(satisfied) >= node.t
        [] OTHER -> FALSE

-----------------------------------------------------------------------------
(* Sharing: the set of outcomes over all draws.  An outcome maps every     *)
(* name of the subtree to its (internal) share.                            *)

share_and(x, n) == {<<(x - SumSeq(s)) % q>> \o s : s \in [1 .. n - 1 -> Draw]}

(* Seeded fault: the polynomial has one coefficient too many.              *)
share_threshold_Degree(a, t, pids) ==
  {[i \in DOMAIN pids |-> horner_poly(<<a>> \o b, pids[i])] : b \in [1 .. t -> Draw]}

(* Seeded fault: one coefficient too few.                                  *)
share_threshold_Flat(a, t, pids) ==
  {[i \in DOMAIN pids |-> horner_poly(<<a>> \o b, pids[i])] : b \in [1 .. t - 2 -> Draw]}

share_threshold(a, t, pids) ==
  {[i \in DOMAIN pids |-> horner_poly(<<a>> \o b, pids[i])] : b \in [1 .. t - 1 -> Draw]}

ChildPids(kids) == [i \in DOMAIN kids |-> Pid[kids[i].name]]

(* The values dealt to the children, in sorted order.                      *)
ChildShares(node, kids, a) ==
  CASE node.type = "OR" -> {[i \in DOMAIN kids |-> a]}
    [] node.type = "AND" -> share_and(a, Len(kids))
    [] node.type = "THRESHOLD" -> share_threshold(a, node.t, ChildPids(kids))

JoinAll(fs) == FoldLeft(LAMBDA f, g : f @@ g, <<>>, fs)

RECURSIVE share_recursive(_, _)
share_recursive(node, a) ==
  LET kids == get_sorted_children(node)
      here == node.name :> a
  IN  IF node.type = "LEAF" THEN {here}
      ELSE UNION { LET below == [i \in DOMAIN kids |-> share_recursive(kids[i], c[i])]
                   IN  {here @@ JoinAll(s) :
                          s \in {t \in [DOMAIN kids -> UNION Range(below)] :
                                   \A i \in DOMAIN kids : t[i] \in below[i]}}
                 : c \in ChildShares(node, kids, a) }

-----------------------------------------------------------------------------
(* Reconstruction                                                          *)

(* The children, in order, whose value could be reconstructed, at most t   *)
(* of them: the loop of a THRESHOLD node and, with t = 1, that of an OR.   *)
FirstAvailable(vals, t) ==
  LET ok == SelectSeq([i \in DOMAIN vals |-> i], LAMBDA i : ~ IsError(vals[i]))
  IN  SubSeq(ok, 1, Min({t, Len(ok)}))

(* Seeded fault: the pids of the first children, whoever has a share.      *)
UsedPids_ByPosition(node, use) == [i \in DOMAIN use |-> Pid[node.kids[i].name]]

UsedPids(node, use) == [i \in DOMAIN use |-> Pid[node.kids[use[i]].name]]

RECURSIVE reconstruct_recursive(_, _)
reconstruct_recursive(node, shares) ==
  LET vals == [i \in DOMAIN node.kids |-> reconstruct_recursive(node.kids[i], shares)]
      use == FirstAvailable(vals, IF node.type = "OR" THEN 1 ELSE node.t)
  IN  CASE node.type = "LEAF" ->
             IF node.name \in DOMAIN shares THEN shares[node.name] ELSE E_INSUFFICIENT
        [] node.type = "OR" -> IF use = <<>> THEN E_INSUFFICIENT ELSE vals[use[1]]
        [] node.type = "AND" ->
             IF \E i \in DOMAIN vals : IsError(vals[i]) THEN E_INSUFFICIENT ELSE SumSeq(vals)
        [] node.type = "THRESHOLD" ->
             IF Len(use) < node.t THEN E_INSUFFICIENT
             ELSE lagrange_interpolate(0, [i \in DOMAIN use |-> vals[use[i]]], UsedPids(node, use))
        [] OTHER -> E_CRYPTO

reconstruct(root, shares) == reconstruct_recursive(root, shares)

(* The same walk over points, after curve.check of each of them.           *)
reconstruct_exponent(root, points) ==
  IF \A n \in DOMAIN points : points[n] \in Zq THEN reconstruct_recursive(root, points) ELSE E_CRYPTO

-----------------------------------------------------------------------------
(* Verification of a leaf's share against the public shares of all nodes   *)
(* on the way to the root.                                                 *)

(* Seeded fault: children beyond the first t are not compared.             *)
ThresholdConsistent_FirstOnly(node, pub) ==
  LET kids == get_sorted_children(node)
      first == SubSeq(kids, 1, node.t)
      points == [i \in DOMAIN first |-> pub[first[i].name]]
  IN  pub[node.name] = lagrange_interpolate(0, points, ChildPids(first))

ThresholdConsistent(node, pub) ==
  LET kids == get_sorted_children(node)
      first == SubSeq(kids, 1, node.t)
      points == [i \in DOMAIN first |-> pub[first[i].name]]
  IN  /\ pub[node.name] = lagrange_interpolate(0, points, ChildPids(first))
      /\ \A i \in node.t + 1 .. Len(kids) :
           pub[kids[i].name] = lagrange_interpolate(Pid[kids[i].name], points, ChildPids(first))

(* One round of the loop: below is the public share one level down.        *)
NodeVerifies(node, pub, below) ==
  CASE node.type \in {"LEAF", "OR"} -> pub[node.name] = below
    [] node.type = "AND" ->
         pub[node.name] = SumSeq([i \in DOMAIN node.kids |-> pub[node.kids[i].name]])
    [] node.type = "THRESHOLD" -> ThresholdConsistent(node, pub)
    [] OTHER -> FALSE

verify_share_against_ancestors_pub_data(root, Q, si, pub, leaf) ==
  LET path == PathTo(root, leaf)
  IN  /\ path # <<>> /\ Last(path).type = "LEAF"
      /\ \A i \in DOMAIN path :
           NodeVerifies(path[i], pub, IF i = Len(path) THEN si ELSE pub[path[i + 1].name])
      /\ Q = pub[root.name]

-----------------------------------------------------------------------------
(* Additive shares: what party contributes when quorum signs.  A result is *)
(* [err, sat, v]: E_INSUFFICIENT returned, is_satisfied, the share.        *)

(* The satisfied children, in order, at most t of them.                    *)
Selected(node, res) ==
  LET ok == SelectSeq([i \in DOMAIN res |-> i], LAMBDA i : ~ res[i].err /\ res[i].sat)
  IN  SubSeq(ok, 1, Min({node.t, Len(ok)}))

(* The last share that is not zero, zero meaning that party is elsewhere.  *)
LastNonZero(vs) == FoldLeft(LAMBDA a, v : IF v # 0 THEN v ELSE a, 0, vs)

(* Seeded fault: an OR node adds up its children.                          *)
OrShare_Sum(res) == SumSeq([i \in DOMAIN res |-> res[i].v])

(* The first satisfied child's.                                            *)
OrShare(res) ==
  LET ok == SelectSeq(res, LAMBDA r : ~ r.err /\ r.sat)
  IN  IF ok = <<>> THEN 0 ELSE ok[1].v

ThresholdShare(node, use, res) ==
  LET holder == SelectSeq(use, LAMBDA i : res[i].v # 0)
  IN  IF holder = <<>> THEN 0
      ELSE lagrange_partial_interpolate(0, <<res[Last(holder)].v>>,
             <<Pid[node.kids[Last(holder)].name]>>, UsedPids(node, use))

RECURSIVE AdditiveWalk(_, _, _, _)
AdditiveWalk(node, quorum, party, x) ==
  LET res == [i \in DOMAIN node.kids |-> AdditiveWalk(node.kids[i], quorum, party, x)]
      all == \A i \in DOMAIN res : res[i].sat
      some == \E i \in DOMAIN res : res[i].sat
  IN  CASE node.type = "LEAF" ->
             [err |-> FALSE, sat |-> node.name \in quorum, v |-> IF node.name = party THEN x ELSE 0]
        [] node.type = "OR" -> [err |-> FALSE, sat |-> some, v |-> OrShare(res)]
        [] node.type = "AND" ->
             [err |-> \E i \in DOMAIN res : res[i].err, sat |-> all,
              v |-> LastNonZero([i \in DOMAIN res |-> res[i].v])]
        [] node.type = "THRESHOLD" ->
             LET use == Selected(node, res)
             IN  IF Len(use) < node.t THEN [err |-> TRUE, sat |-> FALSE, v |-> 0]
                 ELSE [err |-> FALSE, sat |-> TRUE, v |-> ThresholdShare(node, use, res)]

reconstruct_additive_share(root, quorum, party, x_share) ==
  AdditiveWalk(root, quorum, party, x_share)

(* The same walk over the public share of target.                          *)
reconstruct_pub_additive_shares(root, quorum, target, Qis) ==
  AdditiveWalk(root, quorum, target, Qis[target])

(* to_additive_share of party, which holds x_share and everybody's Qis:    *)
(* the new share and the new public shares, or an error.                   *)
to_additive_share(root, quorum, party, x_share, Qis) ==
  LET mine == reconstruct_additive_share(root, quorum, party, x_share)
      pubs == [j \in quorum |-> reconstruct_pub_additive_shares(root, quorum, j, Qis)]
  IN  IF ~ enough_for_quorum(root, quorum) \/ mine.err \/ \E j \in quorum : pubs[j].err
      THEN [ok |-> FALSE]
      ELSE [ok |-> TRUE, x |-> mine.v, Qis |-> [j \in quorum |-> pubs[j].v]]
=============================================================================
