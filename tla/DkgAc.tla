------------------------------- MODULE DkgAc -------------------------------
(***************************************************************************)
(* Key generation and refresh along an access structure:                   *)
(* key_share_mp_t::dkg_or_refresh_ac (ec_dkg.cpp), run one session after   *)
(* the other.  The members of a quorum deal, everybody receives; each      *)
(* party replaces its stored key when, and only when, its own call         *)
(* succeeds.                                                               *)
(*                                                                         *)
(* Parties are the leaves of the tree (module AccessTree: scalars are Z_q, *)
(* a point is its discrete logarithm).  Hashes and commitments are         *)
(* injective, a proof verifies for its statement, session and prover, and  *)
(* rounds are aligned (module MpcJob).  A faulty party may deal to         *)
(* each receiver something else, and leave nodes out; it gives its points  *)
(* the names of nodes of the tree, which no check of the code asks for.    *)
(* The caller supplies the session id; generate_sid_fixed_mp is in         *)
(* KeyShareMp.                                                             *)
(***************************************************************************)
EXTENDS AccessTree

CONSTANTS
  Setups,        \* what the runs start from, see SetupOk
  None

(* The access structure, whose leaves are the parties; the faulty ones;    *)
(* the quorum sets the application may pass to the calls; the keys the     *)
(* parties already hold, or None; bounds on sessions and transport errors. *)
SetupOk(s) ==
  /\ validate_tree(s.tree)
  /\ s.faulty \subseteq list_leaf_names(s.tree)
  /\ s.quorums \subseteq SUBSET list_leaf_names(s.tree)
  /\ s.keys = None \/ DOMAIN s.keys = list_leaf_names(s.tree)
  /\ s.sessions \in Nat /\ s.errors \in Nat

ASSUME AcSetupsOk == \A s \in Setups : SetupOk(s)

VARIABLES
  setup,    \* never changes
  key,      \* key[p]: p's stored key share, or None
  lineage,  \* lineage[p]: the sessions behind p's key: its dkg and refreshes
  kind,     \* what the session runs: dkg or refresh
  session,  \* sessions started
  quorum,   \* quorum[p]: the quorum_party_set p was called with
  pc,       \* pc[p]: start; h, c, deal: p sent that round; done; failed
  dealt,    \* dealt[p]: p's dealing, a map from nodes to shares
  hs,       \* hs[j][p]: h_consistency that j sent p
  cs,       \* cs[j][p]: the commitment j sent p
  ds,       \* ds[j][p]: h_all, opening and share that j sent p
  errs

vars == <<setup, key, lineage, kind, session, quorum, pc, dealt, hs, cs, ds, errs>>

Tree == setup.tree
Party == list_leaf_names(Tree)
Honest == Party \ setup.faulty
root == Tree.name

-----------------------------------------------------------------------------
(* Rs: the points of ac_pub_all in the order of their names, without them. *)
Rs(pub) ==
  [i \in 1 .. Cardinality(DOMAIN pub) |->
     pub[CHOOSE n \in DOMAIN pub : Cardinality({l \in DOMAIN pub : l <= n}) = i]]

(* Commitment and proof cover the points, not the names.                   *)
Com(pid, points) == <<pid, points>>
Proof(points, sid, pid) == <<points, sid, pid>>

(* ecurve_t::check of every public share sent; it rejects infinity.        *)
OnCurve(pub) == \A n \in DOMAIN pub : pub[n] \in Zq \ {0}

Blank == [j \in Party |-> [p \in Party |-> None]]
ToAll(m, p, v) == [m EXCEPT ![p] = [j \in Party |-> v]]

(* representative_quorum_pid_index: the last member in index order.        *)
Representative(p) == Max(quorum[p])

(* Seeded fault: a refresh leaves the point at infinity at the root.       *)
Published_WithRoot(d) == d

(* ac_pub_all as sent: a refresh leaves out the root.                      *)
Published(d) == IF kind = "refresh" THEN Restrict(d, Names(Tree) \ {root}) ELSE d

(* ac_pub_all as used: a refresh puts infinity back at the root.           *)
Completed(pub) == IF kind = "refresh" THEN root :> 0 @@ pub ELSE pub

(* hash(all_received_c_s, quorum_pids, sid).                               *)
HAll(p) == <<[j \in quorum[p] |-> cs[j][p]], quorum[p], session>>

Init ==
  /\ setup \in Setups
  /\ key = [p \in Honest |-> IF setup.keys = None THEN None ELSE setup.keys[p]]
  /\ lineage = [p \in Honest |-> {}]
  /\ kind = "none" /\ session = 0 /\ errs = 0
  /\ quorum = [p \in Honest |-> {}]
  /\ pc = [p \in Honest |-> "failed"]
  /\ dealt = [p \in Honest |-> None]
  /\ hs = Blank /\ cs = Blank /\ ds = Blank

(* The application runs dkg_ac until all hold a key, refresh_ac after; it  *)
(* may, by mistake, pass different quorums to different parties.           *)
NewSession ==
  /\ session < setup.sessions
  /\ \A p \in Honest : pc[p] \in {"done", "failed"}
  /\ kind' = IF \A p \in Honest : key[p] # None THEN "refresh" ELSE "dkg"
  /\ session' = session + 1
  /\ quorum' \in [Honest -> setup.quorums]
  /\ pc' = [p \in Honest |-> "start"]
  /\ dealt' = [p \in Honest |-> None]
  /\ hs' = Blank /\ cs' = Blank /\ ds' = Blank
  /\ UNCHANGED <<setup, key, lineage, errs>>

Enter(p, state) == pc' = [pc EXCEPT ![p] = state]

(* coinbase::error(...): the call returns, the stored key stays.           *)
Reject(p) == Enter(p, "failed") /\ UNCHANGED <<key, lineage, dealt, hs, cs, ds>>

-----------------------------------------------------------------------------
(* Check the quorum, broadcast h_consistency.                              *)
Announce(p) ==
  /\ pc[p] = "start"
  /\ \/ ~ enough_for_quorum(Tree, quorum[p]) /\ Reject(p)
     \/ /\ enough_for_quorum(Tree, quorum[p])
        /\ hs' = ToAll(hs, p, <<quorum[p], session>>)
        /\ Enter(p, "h")
        /\ UNCHANGED <<key, lineage, dealt, cs, ds>>

(* r: random in a dkg, zero in a refresh.                                  *)
Secret(p) == IF kind = "refresh" THEN {0} ELSE Draw

(* share_with_internals.  A share is zero only where every sharing of r    *)
(* along the tree has a zero: by chance the odds are 1 in q.               *)
Dealings(r) ==
  LET all == share_recursive(Tree, r)
  IN  {d \in all : \A n \in Names(Tree) : d[n] = 0 => \A e \in all : e[n] = 0}

(* Seeded fault: h_consistency is not compared.                            *)
SameInputs_Unchecked(p) == TRUE

SameInputs(p) == \A j \in Party \ {p} : hs[j][p] = <<quorum[p], session>>

(* Compare h_consistency; a member of the quorum deals and commits, the    *)
(* others broadcast an empty commitment.                                   *)
Commit(p) ==
  /\ pc[p] = "h" /\ \A j \in Party : hs[j][p] # None
  /\ \/ ~ SameInputs(p) /\ Reject(p)
     \/ /\ SameInputs(p)
        /\ \/ /\ p \in quorum[p]
              /\ \E r \in Secret(p) : \E d \in Dealings(r) :
                   /\ dealt' = [dealt EXCEPT ![p] = d]
                   /\ cs' = ToAll(cs, p, Com(p, Rs(Published(d))))
           \/ /\ p \notin quorum[p]
              /\ cs' = ToAll(cs, p, <<>>)
              /\ UNCHANGED dealt
        /\ Enter(p, "c")
        /\ UNCHANGED <<key, lineage, hs, ds>>

(* Broadcast h_all and, in the quorum, the opening; to each its share.     *)
Deal(p) ==
  /\ pc[p] = "c" /\ \A j \in Party : cs[j][p] # None
  /\ ds' = [ds EXCEPT ![p] = [j \in Party |->
              IF p \in quorum[p]
              THEN [h |-> HAll(p), pub |-> Published(dealt[p]), x |-> dealt[p][j],
                    pi |-> Proof(Rs(Published(dealt[p])), session, p)]
              ELSE [h |-> HAll(p)]]]
  /\ Enter(p, "deal")
  /\ UNCHANGED <<key, lineage, dealt, hs, cs>>

(* convert: as the broadcast is unpacked, a point that curve.check refuses *)
(* fails the call.                                                         *)
Unpacks(p) == \A j \in quorum[p] \ {p} : OnCurve(ds[j][p].pub)

(* The nodes whose points p looks up, each a "missing pub_data key" or an  *)
(* exception of at() if it is not there: the root, all parties, the nodes  *)
(* from the root to p and, but for an OR, their children.                  *)
NamesRead(p) ==
  LET path == Range(PathTo(Tree, p))
  IN  {root} \union Party \union {node.name : node \in path} \union
      UNION {{kid.name : kid \in Range(node.kids)} : node \in {n \in path : n.type # "OR"}}


(* The checks on what a member j of the quorum dealt.                      *)
DealingOk(p, j) ==
  /\ ds[j][p].h = ds[Representative(p)][p].h
  /\ \/ j = p
     \/ LET d == ds[j][p]
        IN  /\ cs[j][p] = Com(j, Rs(d.pub))
            /\ OnCurve(d.pub)
            /\ d.pi = Proof(Rs(d.pub), session, j)
            /\ NamesRead(p) \subseteq DOMAIN Completed(d.pub)
            /\ verify_share_against_ancestors_pub_data(Tree, Completed(d.pub)[root], d.x,
                                                       Completed(d.pub), p)

(* A party outside the quorum compares its own view of the commitments.    *)
OutsiderOk(p) == p \notin quorum[p] => ds[Representative(p)][p].h = HAll(p)

(* Sums over the dealings, as p received them.                             *)
SumX(p) == SumFunction([j \in quorum[p] |-> ds[j][p].x]) % q
SumAt(p, n) == SumFunction([j \in quorum[p] |-> Completed(ds[j][p].pub)[n]]) % q
Qis(p) == [l \in Party |-> SumAt(p, l)]

(* The key p ends up with.                                                 *)
Result(p) ==
  IF kind = "refresh"
  THEN [x |-> (key[p].x + SumX(p)) % q, Q |-> key[p].Q,
        Qis |-> [l \in Party |-> (key[p].Qis[l] + Qis(p)[l]) % q]]
  ELSE [x |-> SumX(p), Q |-> SumAt(p, root), Qis |-> Qis(p)]

(* Q mismatch, x_i * G mismatch and, in a refresh, key.Q mismatch.         *)
ResultOk(p) ==
  /\ reconstruct_exponent(Tree, Qis(p)) = SumAt(p, root)
  /\ SumX(p) = Qis(p)[p]
  /\ kind = "refresh" => reconstruct_exponent(Tree, Result(p).Qis) = key[p].Q

(* All checks, the first as the broadcast arrives, and the new key.        *)
Output(p) ==
  /\ pc[p] = "deal" /\ \A j \in Party : ds[j][p] # None
  /\ LET ok == /\ Unpacks(p)
               /\ \A j \in quorum[p] : DealingOk(p, j)
               /\ OutsiderOk(p)
               /\ ResultOk(p)
     IN  \/ ~ ok /\ Reject(p)
         \/ /\ ok
            /\ key' = [key EXCEPT ![p] = Result(p)]
            /\ lineage' = [lineage EXCEPT ![p] =
                             IF kind = "dkg" THEN {session} ELSE @ \union {session}]
            /\ Enter(p, "done")
            /\ UNCHANGED <<dealt, hs, cs, ds>>

-----------------------------------------------------------------------------
Running(p) == pc[p] \in {"start", "h", "c", "deal"}

TransportError(p) ==
  /\ Running(p) /\ errs < setup.errors
  /\ errs' = errs + 1
  /\ Reject(p)

(* The transport reports that a peer stopped before it sent what p awaits. *)
PeerGone(p) ==
  /\ \E j \in Honest : /\ pc[j] = "failed"
                       /\ \/ pc[p] = "h" /\ hs[j][p] = None
                          \/ pc[p] = "c" /\ cs[j][p] = None
                          \/ pc[p] = "deal" /\ ds[j][p] = None
  /\ Reject(p)

(* A faulty dealer: it joins in, then commits, opens and deals to each     *)
(* honest party as it likes.                                               *)
FaultyAnnounce(f) ==
  /\ session > 0 /\ \A p \in Honest : pc[p] = "h" /\ hs[f][p] = None
  /\ \E p \in Honest : hs' = ToAll(hs, f, hs[p][p])
  /\ UNCHANGED <<key, lineage, pc, dealt, cs, ds>>

(* Sharings, sharings with the value at one node off by one, and sharings  *)
(* without one of the nodes.                                               *)
FaultyPubs ==
  LET good == UNION {share_recursive(Tree, r) : r \in Secret(0)}
      off  == {[d EXCEPT ![n] = (@ + 1) % q] : d \in good, n \in Names(Tree)}
  IN  {Published(d) : d \in good \union off} \union
      {Restrict(Published(d), DOMAIN Published(d) \ {n}) : d \in good, n \in Names(Tree)}

FaultyCommit(f) ==
  /\ \A p \in Honest : pc[p] = "c" /\ cs[f][p] = None
  /\ \E v \in [Honest -> {Rs(pub) : pub \in FaultyPubs}] :
       cs' = [cs EXCEPT ![f] = [p \in Party |-> IF p \in Honest THEN Com(f, v[p]) ELSE None]]
  /\ UNCHANGED <<key, lineage, pc, dealt, hs, ds>>

(* It opens what it committed to, or something else.                       *)
FaultyMsgs(f, p) ==
  LET opened == {pub \in FaultyPubs : cs[f][p] = Com(f, Rs(pub))}
      lied   == {[pub EXCEPT ![p] = (@ + 1) % q] : pub \in {w \in opened : p \in DOMAIN w}}
      Share(pub) == IF p \in DOMAIN pub THEN pub[p] ELSE 0
  IN  {[h |-> HAll(p), pub |-> pub, x |-> (Share(pub) + off) % q, pi |-> Proof(Rs(pub), session, f)] :
         pub \in opened \union lied, off \in 0 .. 1}

FaultyDeal(f) ==
  /\ \A p \in Honest : pc[p] = "deal" /\ ds[f][p] = None
  /\ LET msgs == [p \in Honest |-> FaultyMsgs(f, p)]
     IN  \E m \in {c \in [Honest -> UNION Range(msgs)] : \A p \in Honest : c[p] \in msgs[p]} :
           ds' = [ds EXCEPT ![f] = [p \in Party |-> IF p \in Honest THEN m[p] ELSE None]]
  /\ UNCHANGED <<key, lineage, pc, dealt, hs, cs>>

PartyStep(p) == Announce(p) \/ Commit(p) \/ Deal(p) \/ Output(p) \/ PeerGone(p)

Next ==
  \/ NewSession
  \/ \E p \in Honest : PartyStep(p) /\ UNCHANGED <<setup, kind, session, quorum, errs>>
  \/ \E p \in Honest : TransportError(p) /\ UNCHANGED <<setup, kind, session, quorum>>
  \/ \E f \in setup.faulty : /\ FaultyAnnounce(f) \/ FaultyCommit(f) \/ FaultyDeal(f)
                       /\ UNCHANGED <<setup, kind, session, quorum, errs>>

Spec == Init /\ [][Next]_vars

-----------------------------------------------------------------------------
TypeOK ==
  /\ key \in [Honest -> [x : Zq, Q : Zq, Qis : [Party -> Zq]] \union {None}]
  /\ pc \in [Honest -> {"start", "h", "c", "deal", "done", "failed"}]
  /\ lineage \in [Honest -> SUBSET (1 .. setup.sessions)]
  /\ errs \in 0 .. setup.errors


(* A session completes nowhere unless all honest parties were called with  *)
(* the same quorum.                                                        *)
SameQuorumEverywhere ==
  (\E p \in Honest : pc[p] = "done") => \A p, j \in Honest : quorum[p] = quorum[j]

(* Without errors and faulty parties, parties called with one quorum that  *)
(* is enough all complete: no check rejects, in or outside the quorum.     *)
NoFalseAlarm ==
  (/\ setup.faulty = {} /\ errs = 0 /\ session > 0
   /\ \A p, j \in Honest : quorum[p] = quorum[j] /\ enough_for_quorum(Tree, quorum[p]))
    => \A p \in Honest : pc[p] # "failed"
=============================================================================
