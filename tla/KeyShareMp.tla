----------------------------- MODULE KeyShareMp -----------------------------
(***************************************************************************)
(* The n-party additive key: key_share_mp_t::dkg and ::refresh (ec_dkg.cpp)*)
(* run one session after the other.  The application stores what a call    *)
(* that succeeds returned; or it hands refresh one object as current_key   *)
(* and as new_key, which is then updated where it stands.                  *)
(*                                                                         *)
(* Arithmetic is that of Z_q; a curve point is its discrete logarithm, q   *)
(* itself standing for a point off the curve.  A draw is never zero (the   *)
(* odds are 1 in q).  Hashes and commitments are injective; a proof        *)
(* verifies for the statement, session id and prover it was made for.      *)
(* Rounds are aligned (module MpcJob); a faulty party may send each        *)
(* receiver something else.                                                *)
(***************************************************************************)
EXTENDS Integers, Functions

CONSTANTS
  N,
  q,             \* order of the group
  Draw,          \* scalars the random generator may return
  Setups,        \* what the runs start from, see SetupType
  None

Party == 0 .. N - 1
Zq == 0 .. q - 1

(* The faulty parties; the shares of an existing key, or None when the     *)
(* first session is a dkg; whether refresh gets one object for both keys;  *)
(* bounds on sessions and on transport errors.                             *)
SetupType ==
  [faulty : SUBSET Party, shares : [Party -> Zq] \union {None}, inplace : BOOLEAN,
   sessions : Nat, errors : Nat]

ASSUME ConstantTypes ==
  /\ N \in 2 .. 64
  /\ q \in Nat \ {0, 1}
  /\ Draw \subseteq Zq \ {0}
  /\ \A s \in Setups : s \in SetupType

VARIABLES
  setup,    \* never changes
  key,      \* key[p]: p's stored key share, or None
  entry,    \* entry[p]: the key p entered the session with
  kind,     \* what the session runs: dkg or refresh
  session,  \* sessions started
  pc,       \* pc[p]: idle; sid, r1, r2: p sent that round; done; failed
  draw,     \* draw[p]: p's secret x_share (dkg, at index p) or r (refresh)
  sid,      \* sid[p]: the session id p computed
  m0, m1, m2,  \* m1[j][p]: what j sent p in the first round, and so on
  errs

vars == <<setup, key, entry, kind, session, pc, draw, sid, m0, m1, m2, errs>>

Honest == Party \ setup.faulty

-----------------------------------------------------------------------------
Com(s, pid, v) == <<s, pid, v>>
Proof(pt, s, pid) == <<pt, s, pid>>

(* ecurve_t::check of every point sent; it rejects infinity too.  Points   *)
(* are vectors over Party, with 1 at a place that enters no formula.       *)
OnCurve(pt) == \A j \in Party : pt[j] \in Zq \ {0}

(* gen_random_bitlen(SEC_P_COM): k tells apart what a faulty party sends,  *)
(* a share of another length being one with k = 2.                         *)
SidShare(p, k) == <<p, k>>

SUM(Qis) == SumFunction(Qis) % q

(* x_share * G = Qi and Q = SUM(Qis).                                      *)
Consistent(p, k) == k.x = k.Qis[p] /\ k.Q = SUM(k.Qis)

(* all_received() of a round, as p sees it.                                *)
Sids0(p) == [j \in Party |-> m0[j][p]]
Sids1(p) == [j \in Party |-> m1[j][p].sid]
Coms(p) == [j \in Party |-> m1[j][p].c]

Blank == [j \in Party |-> [p \in Party |-> None]]

ToAll(m, p, msg) == [m EXCEPT ![p] = [j \in Party |-> msg]]

StartKey(p) ==
  IF setup.shares = None THEN None
  ELSE [x |-> setup.shares[p], Qis |-> setup.shares, Q |-> SUM(setup.shares)]

Init ==
  /\ setup \in Setups
  /\ key = [p \in Honest |-> StartKey(p)]
  /\ entry = key
  /\ kind = "none" /\ session = 0 /\ errs = 0
  /\ pc = [p \in Honest |-> "failed"]
  /\ draw = [p \in Honest |-> [j \in Party |-> 0]]
  /\ sid = [p \in Honest |-> None]
  /\ m0 = Blank /\ m1 = Blank /\ m2 = Blank

(* The application starts a protocol on every party once the last one has  *)
(* returned everywhere: a dkg while there is no key, a refresh after, with *)
(* or without a session id of the caller's.                                *)
NewSession(k) ==
  /\ session < setup.sessions
  /\ \A p \in Honest : pc[p] \in {"done", "failed"}
  /\ k # "dkg" => \A p \in Honest : key[p] # None
  /\ k = "dkg" => \E p \in Honest : key[p] = None
  /\ kind' = k
  /\ session' = session + 1
  /\ entry' = key
  /\ pc' = [p \in Honest |-> "idle"]
  /\ sid' = [p \in Honest |-> None]
  /\ m0' = Blank /\ m1' = Blank /\ m2' = Blank
  /\ UNCHANGED <<setup, key, draw, errs>>

Enter(p, state) == pc' = [pc EXCEPT ![p] = state]

(* coinbase::error(...): new_key, at this point a copy of current_key or   *)
(* not yet written, is not used.                                           *)
Reject(p) == Enter(p, "failed") /\ UNCHANGED <<key, draw, sid, m0, m1, m2>>

-----------------------------------------------------------------------------
(* dkg                                                                     *)

(* Draw x_share and sid_i, commit to Qi, broadcast sid_i, c, h_consistency.*)
DkgCommit(p) ==
  /\ kind = "dkg" /\ pc[p] = "idle"
  /\ \E x \in Draw :
       LET v == [j \in Party |-> IF j = p THEN x ELSE 1]
       IN  /\ draw' = [draw EXCEPT ![p] = v]
           /\ m1' = ToAll(m1, p, [sid |-> SidShare(p, 0), hc |-> "curve",
                                  c |-> Com(SidShare(p, 0), p, v)])
  /\ Enter(p, "r1")
  /\ UNCHANGED <<key, sid, m0, m2>>

(* Compare h_consistency, derive sid, broadcast sid, h, Qi, rho and pi.    *)
DkgOpen(p) ==
  /\ kind = "dkg" /\ pc[p] = "r1"
  /\ \A j \in Party : m1[j][p] # None
  /\ \/ /\ \E j \in Party \ {p} : m1[j][p].hc # "curve"
        /\ Reject(p)
     \/ /\ \A j \in Party \ {p} : m1[j][p].hc = "curve"
        /\ sid' = [sid EXCEPT ![p] = Sids1(p)]
        /\ m2' = ToAll(m2, p, [sid |-> Sids1(p), h |-> Coms(p), pt |-> draw[p], sh |-> 0,
                               pi |-> Proof(draw[p], Sids1(p), p)])
        /\ Enter(p, "r2")
        /\ UNCHANGED <<key, draw, m0, m1>>

(* The checks on what j sent in the second round.                          *)
DkgAccepts(p, j) ==
  /\ m2[j][p].sid = sid[p]
  /\ m2[j][p].h = Coms(p)
  /\ m1[j][p].c = Com(m1[j][p].sid, j, m2[j][p].pt)
  /\ OnCurve(m2[j][p].pt)
  /\ m2[j][p].pi = Proof(m2[j][p].pt, sid[p], j)

DkgQis(p) == [j \in Party |-> m2[j][p].pt[j]]

(* Verify what everybody sent; collect Qis, add them up to Q.              *)
DkgOutput(p) ==
  /\ kind = "dkg" /\ pc[p] = "r2"
  /\ \A j \in Party : m2[j][p] # None
  /\ \/ /\ \E j \in Party \ {p} : ~ DkgAccepts(p, j)
        /\ Reject(p)
     \/ /\ \A j \in Party \ {p} : DkgAccepts(p, j)
        /\ key' = [key EXCEPT ![p] = [x |-> draw[p][p], Qis |-> DkgQis(p), Q |-> SUM(DkgQis(p))]]
        /\ Enter(p, "done")
        /\ UNCHANGED <<draw, sid, m0, m1, m2>>

-----------------------------------------------------------------------------
(* refresh                                                                 *)

(* The caller passed no sid: generate_sid_fixed_mp broadcasts a share.     *)
RefreshSid(p) ==
  /\ kind = "refresh" /\ pc[p] = "idle"
  /\ m0' = ToAll(m0, p, SidShare(p, 0))
  /\ Enter(p, "sid")
  /\ UNCHANGED <<key, draw, sid, m1, m2>>

(* validate_sid_fixed_mp_contributions.                                    *)
SidSharesOk(p) == kind = "refresh" => \A j \in Party : m0[j][p][2] < 2

RefreshSidOf(p) == IF kind = "refresh" THEN Sids0(p) ELSE "given"

(* Seeded fault: h_consistency covers the public key only.                 *)
Hc_NoQis(p, s) == <<s, key[p].Q, <<>>>>

(* h_consistency: the session id and the public key material entered with. *)
Hc(p, s) == <<s, key[p].Q, key[p].Qis>>

(* r._ij for every peer; r._ii is drawn too, but enters no formula.        *)
RandVectors(p) ==
  {v \in [Party -> Draw \union {1}] :
     v[p] = 1 /\ \A j \in Party \ {p} : v[j] \in Draw}

(* Check the stored key, draw r, commit to R and its proofs, broadcast c   *)
(* and h_consistency.                                                      *)
RefreshCommit(p) ==
  /\ \/ kind = "refresh" /\ pc[p] = "sid" /\ \A j \in Party : m0[j][p] # None
     \/ kind = "refresh_sid" /\ pc[p] = "idle"
  /\ \/ /\ ~ (SidSharesOk(p) /\ Consistent(p, key[p]))
        /\ Reject(p)
     \/ /\ SidSharesOk(p) /\ Consistent(p, key[p])
        /\ sid' = [sid EXCEPT ![p] = RefreshSidOf(p)]
        /\ \E v \in RandVectors(p) :
             /\ draw' = [draw EXCEPT ![p] = v]
             /\ m1' = ToAll(m1, p, [sid |-> None, hc |-> Hc(p, RefreshSidOf(p)),
                                    c |-> Com(RefreshSidOf(p), p,
                                              <<v, Proof(v, RefreshSidOf(p), p)>>)])
        /\ Enter(p, "r1")
        /\ UNCHANGED <<key, m0, m2>>

(* Compare h_consistency, broadcast h, R, pi_r and rho, and to each peer   *)
(* its r.                                                                  *)
RefreshOpen(p) ==
  /\ kind \in {"refresh", "refresh_sid"} /\ pc[p] = "r1"
  /\ \A j \in Party : m1[j][p] # None
  /\ \/ /\ \E j \in Party \ {p} : m1[j][p].hc # Hc(p, sid[p])
        /\ Reject(p)
     \/ /\ \A j \in Party \ {p} : m1[j][p].hc = Hc(p, sid[p])
        /\ m2' = [m2 EXCEPT ![p] = [j \in Party |->
                    [sid |-> None, h |-> Coms(p), pt |-> draw[p], sh |-> draw[p][j],
                     pi |-> Proof(draw[p], sid[p], p)]]]
        /\ Enter(p, "r2")
        /\ UNCHANGED <<key, draw, sid, m0, m1>>

(* Seeded fault: the echo of the commitments is not compared.              *)
RefreshAccepts_NoEcho(p, j) ==
  /\ m1[j][p].c = Com(sid[p], j, <<m2[j][p].pt, m2[j][p].pi>>)
  /\ OnCurve(m2[j][p].pt)
  /\ m2[j][p].pi = Proof(m2[j][p].pt, sid[p], j)
  /\ m2[j][p].sh = m2[j][p].pt[p]

(* Seeded fault: r._ji is left to the check of the new share.              *)
RefreshAccepts_NoShareCheck(p, j) ==
  /\ m2[j][p].h = Coms(p)
  /\ m1[j][p].c = Com(sid[p], j, <<m2[j][p].pt, m2[j][p].pi>>)
  /\ OnCurve(m2[j][p].pt)
  /\ m2[j][p].pi = Proof(m2[j][p].pt, sid[p], j)

(* The checks on what j sent in the second round.  pi_r is verified for    *)
(* the points to the other parties only; R_j[j] enters no formula.         *)
RefreshAccepts(p, j) ==
  /\ m2[j][p].h = Coms(p)
  /\ m1[j][p].c = Com(sid[p], j, <<m2[j][p].pt, m2[j][p].pi>>)
  /\ OnCurve(m2[j][p].pt)
  /\ m2[j][p].pi = Proof(m2[j][p].pt, sid[p], j)
  /\ m2[j][p].sh = m2[j][p].pt[p]

(* Seeded fault: no sign rule.                                             *)
Delta_NoSign(i, pair) == SumFunction([j \in Party \ {i} |-> pair[j]])

(* The contribution of each peer j of party i: plus below, minus above.    *)
Delta(i, pair) ==
  SumFunction([j \in Party \ {i} |-> IF j < i THEN pair[j] ELSE - pair[j]])

(* delta_x = r._ij + r._ji                                                 *)
NewShare(p) ==
  (key[p].x + Delta(p, [j \in Party |-> draw[p][j] + m2[j][p].sh])) % q

(* R_delta = R.received(j)[l] + R.received(l)[j]; the own vector is        *)
(* received(p).                                                            *)
NewQis(p) ==
  [j \in Party |->
     (key[p].Qis[j] + Delta(j, [l \in Party |-> m2[j][p].pt[l] + m2[l][p].pt[j]])) % q]

NewKey(p) == [x |-> NewShare(p), Qis |-> NewQis(p), Q |-> key[p].Q]

(* Verify what everybody sent, then shift the own share and everybody's    *)
(* public share in new_key, and only then check the result against the old *)
(* public key: when new_key is the stored key, a check that fails here     *)
(* leaves it shifted.                                                      *)
RefreshOutput(p) ==
  /\ kind \in {"refresh", "refresh_sid"} /\ pc[p] = "r2"
  /\ \A j \in Party : m2[j][p] # None
  /\ \/ /\ \E j \in Party \ {p} : ~ RefreshAccepts(p, j)
        /\ Reject(p)
     \/ /\ \A j \in Party \ {p} : RefreshAccepts(p, j)
        /\ key' = IF setup.inplace \/ Consistent(p, NewKey(p))
                  THEN [key EXCEPT ![p] = NewKey(p)] ELSE key
        /\ Enter(p, IF Consistent(p, NewKey(p)) THEN "done" ELSE "failed")
        /\ UNCHANGED <<draw, sid, m0, m1, m2>>

-----------------------------------------------------------------------------
(* Errors and faulty parties                                               *)

TransportError(p) ==
  /\ pc[p] \in {"idle", "sid", "r1", "r2"}
  /\ errs < setup.errors
  /\ errs' = errs + 1
  /\ Reject(p)

(* The transport reports that a peer stopped before it sent what p awaits. *)
PeerGone(p) ==
  /\ \E j \in Honest : /\ pc[j] = "failed"
                       /\ \/ pc[p] = "sid" /\ m0[j][p] = None
                          \/ pc[p] = "r1" /\ m1[j][p] = None
                          \/ pc[p] = "r2" /\ m2[j][p] = None
  /\ Reject(p)

(* A faulty party sends each honest party some message of the right shape. *)
FaultySends(m, f, msgs(_)) ==
  \E c \in [Honest -> UNION {msgs(p) : p \in Honest}] :
    /\ \A p \in Honest : c[p] \in msgs(p)
    /\ m' = [m EXCEPT ![f] = [j \in Party |-> IF j \in Honest THEN c[j] ELSE None]]

FaultyPoints(f) ==
  {[j \in Party |-> IF (kind = "dkg") = (j = f) THEN x ELSE 1] : x \in Draw \union {0, q}}

FaultyMsg0(f) ==
  /\ kind = "refresh" /\ \A p \in Honest : m0[f][p] = None
  /\ FaultySends(m0, f, LAMBDA p : {SidShare(f, k) : k \in 0 .. 2})
  /\ UNCHANGED <<key, pc, draw, sid, m1, m2>>

FaultyMsgs1(f, p) ==
  {[sid |-> SidShare(f, 0), hc |-> None, c |-> None]} \union
  IF kind = "dkg"
  THEN {[sid |-> SidShare(f, k), hc |-> "curve", c |-> Com(SidShare(f, k), f, v)] :
          k \in 0 .. 1, v \in FaultyPoints(f)}
  ELSE {[sid |-> None, hc |-> Hc(p, sid[p]), c |-> Com(sid[p], f, <<v, Proof(v, sid[p], f)>>)] :
          v \in FaultyPoints(f)}

FaultyMsg1(f) ==
  /\ kind # "none" /\ \A p \in Honest : m1[f][p] = None
  /\ \A p \in Honest : pc[p] \notin {"idle", "sid"}
  /\ FaultySends(m1, f, LAMBDA p : FaultyMsgs1(f, p))
  /\ UNCHANGED <<key, pc, draw, sid, m0, m2>>

(* Any opening that fits together, or one with one field that does not.    *)
FaultyMsgs2(f, p) ==
  LET Fit(v) == [sid |-> sid[p], h |-> Coms(p), pt |-> v, sh |-> v[p],
                 pi |-> Proof(v, sid[p], f)]
      Misfits(m) == {[m EXCEPT !.sid = None], [m EXCEPT !.h = None],
                     [m EXCEPT !.sh = @ + 1], [m EXCEPT !.pi = None]}
  IN  {Fit(v) : v \in FaultyPoints(f)} \union
      UNION {Misfits(Fit(v)) : v \in {w \in FaultyPoints(f) : OnCurve(w)}}

FaultyMsg2(f) ==
  /\ \A p \in Honest : m1[f][p] # None /\ m2[f][p] = None
  /\ \A p \in Honest : pc[p] \notin {"idle", "sid", "r1"}
  /\ \E p \in Honest : pc[p] = "r2"
  /\ FaultySends(m2, f, LAMBDA p : FaultyMsgs2(f, p))
  /\ UNCHANGED <<key, pc, draw, sid, m0, m1>>

PartyStep(p) ==
  \/ DkgCommit(p) \/ DkgOpen(p) \/ DkgOutput(p)
  \/ RefreshSid(p) \/ RefreshCommit(p) \/ RefreshOpen(p) \/ RefreshOutput(p)
  \/ PeerGone(p)

Next ==
  \/ \E k \in {"dkg", "refresh", "refresh_sid"} : NewSession(k)
  \/ \E p \in Honest : PartyStep(p) /\ UNCHANGED <<setup, entry, kind, session, errs>>
  \/ \E p \in Honest : TransportError(p) /\ UNCHANGED <<setup, entry, kind, session>>
  \/ \E f \in setup.faulty : /\ FaultyMsg0(f) \/ FaultyMsg1(f) \/ FaultyMsg2(f)
                       /\ UNCHANGED <<setup, entry, kind, session, errs>>

Spec == Init /\ [][Next]_vars

-----------------------------------------------------------------------------
KeyShare == [x : Zq, Qis : [Party -> Zq], Q : Zq]

TypeOK ==
  /\ key \in [Honest -> KeyShare \union {None}]
  /\ pc \in [Honest -> {"idle", "sid", "r1", "r2", "done", "failed"}]
  /\ draw \in [Honest -> [Party -> Zq]]
  /\ session \in 0 .. setup.sessions /\ errs \in 0 .. setup.errors

(* Honest parties that complete the same session agree on the public key   *)
(* and on everybody's public share, and each one's public share is the     *)
(* share that party really holds: the honest shares and the faulty party's *)
(* committed ones add up to the key.                                       *)
SameSessionSameKey ==
  \A p, j \in Honest : (pc[p] = "done" /\ pc[j] = "done") =>
    /\ key[p].Q = key[j].Q
    /\ key[p].Qis = key[j].Qis
    /\ key[p].Qis[j] = key[j].x

(* A call that has not succeeded, still running or failed, leaves the      *)
(* party's key as it was, even where refresh updates the stored object in  *)
(* place: what the faulty parties send is refused before the first write,  *)
(* and the two checks made after it never fail.                            *)
FailureKeepsKey ==
  \A p \in Honest : pc[p] # "done" => key[p] = entry[p]

(* A refresh completes nowhere unless all honest parties entered it with   *)
(* the same public shares: after a session that some parties completed and *)
(* others did not, mixing old and new shares is refused, not combined.     *)
MixedSharesRefused ==
  (kind \in {"refresh", "refresh_sid"} /\ \E p \in Honest : pc[p] = "done") =>
    \A p, j \in Honest : entry[p].Q = entry[j].Q /\ entry[p].Qis = entry[j].Qis

(* Without errors and faulty parties no check rejects: the sign rule for   *)
(* the shares and the one for the public shares agree.                     *)
NoFalseAlarm ==
  (setup.faulty = {} /\ errs = 0 /\ session > 0) => \A p \in Honest : pc[p] # "failed"
=============================================================================
