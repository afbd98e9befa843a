----------------------------- MODULE KeyShare2p -----------------------------
(***************************************************************************)
(* The two-party key: key_share_2p_t::dkg and ::refresh (ec_dkg.cpp), the  *)
(* latter on top of agree_random (agree_random.cpp), run one session after *)
(* the other.  Each party replaces its stored key when, and only when, its *)
(* own call succeeds; P1 returns before P2 has read the last message.      *)
(*                                                                         *)
(* Scalars are Z_q, a point is its discrete logarithm, q itself standing   *)
(* for a point off the curve.  A draw is never zero (the odds are 1 in q). *)
(* Commitments are injective; a proof verifies for its statement, session  *)
(* id and prover.  Contributions to the coin toss are bit strings;         *)
(* messages arrive in order (MpcJob).  The member of faulty, if any, sends *)
(* what it likes.                                                          *)
(***************************************************************************)
EXTENDS Integers, Functions

CONSTANTS
  FaultySets,    \* which parties may be faulty: sets among {}, {1}, {2}
  q,             \* order of the group
  Draw,          \* scalars the random generator may return
  W,             \* bits of a coin toss contribution
  None,
  MaxSessions,   \* bound: sessions run
  MaxErr         \* bound: transport errors

ASSUME ConstantTypes ==
  /\ q \in Nat \ {0, 1} /\ W \in Nat \ {0}
  /\ Draw \subseteq 1 .. q - 1 /\ None \notin [x : 0 .. q - 1, Q : 0 .. q - 1]
  /\ FaultySets \subseteq {{}, {1}, {2}}
  /\ MaxSessions \in Nat /\ MaxErr \in Nat

VARIABLES
  faulty,   \* the faulty party, if any; never changes
  key,      \* key[p]: p's stored share and public key, or None
  entry,    \* entry[p]: the key p entered the session with
  lineage,  \* lineage[p]: the sessions behind p's key: its dkg and refreshes
  kind,     \* what the session runs: dkg or refresh
  session,  \* sessions started
  pc,       \* pc[p]: number of messages p has sent or taken; done; failed
  draw,     \* draw[p]: p's x_share or contribution in this session
  msg,      \* msg[k]: the k-th message of the session, or None
  errs

vars == <<faulty, key, entry, lineage, kind, session, pc, draw, msg, errs>>

Party == {1, 2}
Honest == Party \ faulty
Zq == 0 .. q - 1

(* gen_random_bitlen(bitlen); a string of another length has one bit more. *)
Bits == [1 .. W -> 0 .. 1]
LongBits == [i \in 1 .. W + 1 |-> 0]

Com(sid, pid, v) == <<sid, pid, v>>
Proof(pt, sid, pid) == <<pt, sid, pid>>

(* ecurve_t::check: it rejects the point at infinity too.                  *)
OnCurve(pt) == pt \in Zq \ {0}

Xor(a, b) == [i \in 1 .. W |-> (a[i] + b[i]) % 2]

(* bn_t::from_bin of a bit string.                                         *)
from_bin(bits) == SumFunction([i \in 1 .. W |-> bits[i] * 2 ^ (W - i)])

Init ==
  /\ faulty \in FaultySets
  /\ key = [p \in Honest |-> None] /\ entry = key
  /\ lineage = [p \in Honest |-> {}]
  /\ kind = "none" /\ session = 0 /\ errs = 0
  /\ pc = [p \in Honest |-> "failed"]
  /\ draw = [p \in Honest |-> None]
  /\ msg = [k \in 1 .. 3 |-> None]

(* The application starts the next protocol once both calls returned: dkg  *)
(* until both hold a key, refreshes after.                                 *)
NewSession ==
  /\ session < MaxSessions
  /\ \A p \in Honest : pc[p] \in {"done", "failed"}
  /\ kind' = IF \A p \in Honest : key[p] # None THEN "refresh" ELSE "dkg"
  /\ session' = session + 1
  /\ entry' = key
  /\ pc' = [p \in Honest |-> "start"]
  /\ draw' = [p \in Honest |-> None]
  /\ msg' = [k \in 1 .. 3 |-> None]
  /\ UNCHANGED <<faulty, key, lineage, errs>>

At(p, k, state) == p \in Honest /\ kind = k /\ pc[p] = state

Send(k, m) == msg' = [msg EXCEPT ![k] = m]

Enter(p, state) == pc' = [pc EXCEPT ![p] = state]

(* SUCCESS: p's result becomes its stored key.                             *)
Return(p, k) ==
  /\ key' = [key EXCEPT ![p] = k]
  /\ lineage' = [lineage EXCEPT ![p] = IF kind = "dkg" THEN {session} ELSE @ \union {session}]
  /\ Enter(p, "done")

Reject(p) == Enter(p, "failed") /\ UNCHANGED <<key, lineage, draw, msg>>

-----------------------------------------------------------------------------
(* dkg.  The session id is the pair of both parties' nonces.               *)

Nonce(p) == <<p, session>>

(* step1_p1_to_p2: sid1 and the commitment to Q1.                          *)
DkgStep1 ==
  /\ At(1, "dkg", "start")
  /\ \E x \in Draw : /\ draw' = [draw EXCEPT ![1] = x]
                     /\ Send(1, [sid1 |-> Nonce(1), com |-> Com(Nonce(1), 1, x)])
  /\ Enter(1, "sent")
  /\ UNCHANGED <<key, lineage>>

(* step2_p2_to_p1: sid2, Q2 and its proof under sid = hash(sid1, sid2).    *)
DkgStep2 ==
  /\ At(2, "dkg", "start") /\ msg[1] # None
  /\ \E x \in Draw :
       /\ draw' = [draw EXCEPT ![2] = x]
       /\ Send(2, [sid2 |-> Nonce(2), Q2 |-> x,
                   pi |-> Proof(x, <<msg[1].sid1, Nonce(2)>>, 2)])
  /\ Enter(2, "sent")
  /\ UNCHANGED <<key, lineage>>

P1Accepts ==
  /\ OnCurve(msg[2].Q2)
  /\ msg[2].pi = Proof(msg[2].Q2, <<Nonce(1), msg[2].sid2>>, 2)

(* step3_p1_to_p2: verify, open Q1 with its proof; P1 is done.             *)
DkgStep3 ==
  /\ At(1, "dkg", "sent") /\ msg[2] # None
  /\ \/ ~ P1Accepts /\ Reject(1)
     \/ /\ P1Accepts
        /\ Send(3, [Q1 |-> draw[1], pi |-> Proof(draw[1], <<Nonce(1), msg[2].sid2>>, 1)])
        /\ Return(1, [x |-> draw[1], Q |-> (draw[1] + msg[2].Q2) % q])
        /\ UNCHANGED draw

P2Accepts ==
  /\ OnCurve(msg[3].Q1)
  /\ msg[1].com = Com(msg[1].sid1, 1, msg[3].Q1)
  /\ msg[3].pi = Proof(msg[3].Q1, <<msg[1].sid1, Nonce(2)>>, 1)

(* step4_output_p2.                                                        *)
DkgStep4 ==
  /\ At(2, "dkg", "sent") /\ msg[3] # None
  /\ \/ ~ P2Accepts /\ Reject(2)
     \/ /\ P2Accepts
        /\ Return(2, [x |-> draw[2], Q |-> (msg[3].Q1 + draw[2]) % q])
        /\ UNCHANGED <<draw, msg>>

-----------------------------------------------------------------------------
(* refresh: agree_random, then x1 + r and x2 - r.                          *)

(* Seeded fault: both parties add.                                         *)
Shift_Same(p, bits) ==
  [key[p] EXCEPT !.x = (@ + from_bin(bits)) % q]

(* r = from_bin(rand_bits) % q; the new key share.                         *)
Shift(p, bits) ==
  [key[p] EXCEPT !.x = (IF p = 1 THEN @ + from_bin(bits) ELSE @ - from_bin(bits)) % q]

AgreeCommit ==
  /\ At(1, "refresh", "start")
  /\ \E r \in Bits : /\ draw' = [draw EXCEPT ![1] = r]
                     /\ Send(1, Com(None, 1, r))
  /\ Enter(1, "sent")
  /\ UNCHANGED <<key, lineage>>

(* Seeded fault: P2 waits for the opening before it answers.               *)
AgreeAnswer_AfterOpening ==
  /\ At(2, "refresh", "start") /\ msg[1] # None /\ msg[3] # None
  /\ \E r \in Bits : draw' = [draw EXCEPT ![2] = r] /\ Send(2, r)
  /\ Enter(2, "sent")
  /\ UNCHANGED <<key, lineage>>

AgreeAnswer ==
  /\ At(2, "refresh", "start") /\ msg[1] # None
  /\ \E r \in Bits : draw' = [draw EXCEPT ![2] = r] /\ Send(2, r)
  /\ Enter(2, "sent")
  /\ UNCHANGED <<key, lineage>>

(* P1 sends its opening before it looks at the length of r2.               *)
AgreeOpen ==
  /\ At(1, "refresh", "sent") /\ msg[2] # None
  /\ Send(3, draw[1])
  /\ \/ /\ msg[2] \notin Bits
        /\ Enter(1, "failed")
        /\ UNCHANGED <<key, lineage, draw>>
     \/ /\ msg[2] \in Bits
        /\ Return(1, Shift(1, Xor(draw[1], msg[2])))
        /\ UNCHANGED draw

(* Seeded fault: the opening is not compared with the commitment.          *)
Opens_Unchecked == msg[3] \in Bits

Opens == msg[1] = Com(None, 1, msg[3]) /\ msg[3] \in Bits

AgreeFinish ==
  /\ At(2, "refresh", "sent") /\ msg[3] # None
  /\ \/ ~ Opens /\ Reject(2)
     \/ /\ Opens
        /\ Return(2, Shift(2, Xor(msg[3], draw[2])))
        /\ UNCHANGED <<draw, msg>>

-----------------------------------------------------------------------------
Running(p) == pc[p] \in {"start", "sent"}

TransportError(p) ==
  /\ Running(p) /\ errs < MaxErr
  /\ errs' = errs + 1
  /\ Reject(p)

(* The number of the message p reads next.                                 *)
Awaited(p) == IF p = 1 THEN 2 ELSE IF pc[2] = "start" THEN 1 ELSE 3

(* The transport reports that the peer stopped without sending.            *)
PeerGone(p) ==
  /\ Running(p) /\ msg[Awaited(p)] = None
  /\ p = 1 => pc[1] = "sent"
  /\ \E j \in Honest \ {p} : pc[j] = "failed"
  /\ Reject(p)

(* A faulty party's messages: of the right format, well made or not.       *)
FaultyFirst ==
  /\ 1 \in faulty /\ session > 0 /\ msg[1] = None
  /\ \/ kind = "dkg" /\ \E x \in Draw \union {0} : Send(1, [sid1 |-> Nonce(1), com |-> Com(Nonce(1), 1, x)])
     \/ kind = "refresh" /\ \E r \in Bits \union {LongBits} : Send(1, Com(None, 1, r))
  /\ UNCHANGED <<key, lineage, pc, draw>>

FaultySecond ==
  /\ 2 \in faulty /\ msg[1] # None /\ msg[2] = None
  /\ \/ /\ kind = "dkg"
        /\ \E x \in Draw \union {0, q}, pid \in Party :
             Send(2, [sid2 |-> Nonce(2), Q2 |-> x, pi |-> Proof(x, <<msg[1].sid1, Nonce(2)>>, pid)])
     \/ kind = "refresh" /\ \E r \in Bits \union {LongBits} : Send(2, r)
  /\ UNCHANGED <<key, lineage, pc, draw>>

FaultyThird ==
  /\ 1 \in faulty /\ msg[2] # None /\ msg[3] = None
  /\ \/ /\ kind = "dkg"
        /\ \E x \in Draw \union {0, q}, pid \in Party :
             Send(3, [Q1 |-> x, pi |-> Proof(x, <<Nonce(1), msg[2].sid2>>, pid)])
     \/ kind = "refresh" /\ \E r \in Bits \union {LongBits} : Send(3, r)
  /\ UNCHANGED <<key, lineage, pc, draw>>

Steps ==
  \/ DkgStep1 \/ DkgStep2 \/ DkgStep3 \/ DkgStep4
  \/ AgreeCommit \/ AgreeAnswer \/ AgreeOpen \/ AgreeFinish
  \/ \E p \in Honest : PeerGone(p)

FaultySteps == FaultyFirst \/ FaultySecond \/ FaultyThird

Next ==
  \/ NewSession
  \/ (Steps \/ FaultySteps) /\ UNCHANGED <<faulty, entry, kind, session, errs>>
  \/ \E p \in Honest : TransportError(p) /\ UNCHANGED <<faulty, entry, kind, session>>

Spec == Init /\ [][Next]_vars

-----------------------------------------------------------------------------
TypeOK ==
  /\ key \in [Honest -> [x : Zq, Q : Zq] \union {None}]
  /\ pc \in [Honest -> {"start", "sent", "done", "failed"}]
  /\ lineage \in [Honest -> SUBSET (1 .. MaxSessions)]
  /\ errs \in 0 .. MaxErr

(* How far two stored shares are from sharing the public key.              *)
Gap(k) == (k[1].x + k[2].x - k[1].Q) % q

BothHold == faulty = {} /\ \A p \in Party : key[p] # None

(* Two stored keys with the same history, the same key generation and the  *)
(* same refreshes since, share the public key, whatever sessions failed at *)
(* either party in between.                                                *)
SameLineageSharesKey ==
  (BothHold /\ lineage[1] = lineage[2]) => key[1].Q = key[2].Q /\ Gap(key) = 0

(* Whatever P2 completes with is what P1 committed to before P2 had drawn  *)
(* anything: P1 cannot choose its share or its contribution after it saw   *)
(* P2's.                                                                   *)
FixedBeforeAnswer ==
  (2 \in Honest /\ pc[2] = "done") =>
    \/ kind = "dkg" /\ msg[1].com = Com(Nonce(1), 1, (key[2].Q - key[2].x) % q)
    \/ kind = "refresh" /\ \E r \in Bits : /\ msg[1] = Com(None, 1, r)
                                          /\ key[2].x = (entry[2].x - from_bin(Xor(r, draw[2]))) % q
=============================================================================
