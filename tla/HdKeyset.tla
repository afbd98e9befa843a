------------------------------ MODULE HdKeyset ------------------------------
(***************************************************************************)
(* The two-party hierarchical key sets: dkg, refresh and derive_keys of    *)
(* hd_keyset_ecdsa_2p.cpp and hd_keyset_eddsa_2p.cpp, call after call over *)
(* one transport.  A root key has two halves: x, shared for signing, and   *)
(* k, shared for the verifiable random function that derivation uses.  The *)
(* ECDSA refresh is that of ecdsa_2p on x followed by that of              *)
(* key_share_2p_t on k.                                                    *)
(*                                                                         *)
(* A message carries no session and no round (job_2p_t): what a failed     *)
(* call left in the transport is the first thing the next call reads.  The *)
(* field s of a message and the variable stale record that, and no action  *)
(* reads them.  Deserialisation is strict: a message of another shape is   *)
(* an error, but three messages consist of one buffer and are taken for    *)
(* each other until their length is looked at.                             *)
(*                                                                         *)
(* Points, commitments, proofs and ciphertexts are as in KeyShare2p and    *)
(* Ecdsa2p.  A faulty party deviates in derive_keys only.                  *)
(***************************************************************************)
EXTENDS Integers, Sequences, Functions

CONSTANTS
  q,          \* order of the curve
  W,          \* bits of a coin toss contribution per half
  KeyDraw,    \* root shares [x, k] drawn in a dkg, for each party
  Draw,       \* rho1 and rho2 of the ECDSA refresh
  Toss,       \* Toss[p]: contributions [x, k] of p to agree_random
  Args,       \* what derive_keys may be asked for: [hard, soft, sid]
  Hash,       \* Hash[hard][Z]: ro::hash_string of Z, reduced
  SoftHash,   \* SoftHash[Z][Q][i]: what non_hard_derive adds for path i
  Setups,     \* [variant, faulty, kinds, errs]
  None

ASSUME ConstantTypes ==
  /\ q \in Nat \ {0, 1} /\ W \in Nat \ {0}
  /\ Draw \subseteq 0 .. q - 1
  /\ \A p \in {1, 2} : \A d \in KeyDraw[p] : d.x \in 1 .. q - 1 /\ d.k \in 1 .. q - 1
  /\ \A s \in Setups : s.variant \in {"ecdsa", "eddsa"} /\ s.faulty \in {{}, {1}, {2}}

VARIABLES
  setup,     \* the variant, the faulty party, the calls to make; never changes
  key,       \* key[p]: p's stored key set, or None
  lineage,   \* lineage[p]: the sessions behind p's key set
  kind,      \* what the session runs
  session,   \* sessions started
  arg,       \* arg[p]: what p's caller asked derive_keys for
  pc,        \* pc[p]: how far p's call is, or how it returned
  draw,      \* draw[p]: what p drew in this call
  got,       \* got[p]: the messages p has taken in this call
  chan,      \* chan[p]: messages on their way to p, oldest first
  stale,     \* stale[p]: p took a message of an earlier session in this call
  derived,   \* all public keys derived so far
  errs

vars == <<setup, key, lineage, kind, session, arg, pc, draw, got, chan, stale, derived, errs>>

Party == {1, 2}
Ecdsa == setup.variant = "ecdsa"
Honest == Party \ setup.faulty
Zq == 0 .. q - 1
Point == Zq \ {0}     \* what ecurve_t::check accepts

Bits == [1 .. W -> 0 .. 1]
Xor(a, b) == [i \in 1 .. W |-> (a[i] + b[i]) % 2]
from_bin(bits) == SumFunction([i \in 1 .. W |-> bits[i] * 2 ^ (W - i)]) % q

Com(v) == <<"com", v>>
Proof(pt, half, sid, pid) == <<"proof", pt, half, sid, pid>>
Nonce(p) == <<"sid", p, session>>
Enc(n, v) == [n |-> n, v |-> v]

-----------------------------------------------------------------------------
Init ==
  /\ setup \in Setups
  /\ key = [p \in Party |-> None] /\ lineage = [p \in Party |-> {}]
  /\ kind = "none" /\ session = 0 /\ errs = 0
  /\ arg = [p \in Party |-> None] /\ draw = arg
  /\ pc = [p \in Party |-> "idle"]
  /\ got = [p \in Party |-> <<>>] /\ chan = got
  /\ stale = [p \in Party |-> FALSE]
  /\ derived = {}

Running(p) == pc[p] \notin {"idle", "done", "failed"}

(* validate_no_duplicate_bip32_paths, before anything is sent.             *)
ArgOk(a) == a # None => \A i, j \in DOMAIN a.soft : i # j => a.soft[i] # a.soft[j]

(* Where a call starts sending or receiving.                               *)
Entry(k, a) ==
  IF ~ ArgOk(a) THEN "failed"
  ELSE IF k = "derive" THEN (IF a.sid = None THEN "sid" ELSE "Z")
  ELSE IF k = "refresh" /\ ~ Ecdsa THEN "toss" ELSE k

(* The application makes the next call at both parties, over the same      *)
(* transport, once both have returned; the two may be asked for different  *)
(* paths.                                                                  *)
NewSession ==
  /\ session < Len(setup.kinds)
  /\ \A p \in Party : ~ Running(p)
  /\ session' = session + 1
  /\ \E k \in setup.kinds[session + 1] :
       /\ (k = "dkg") = \E p \in Party : key[p] = None
       /\ kind' = k
       /\ arg' \in [Party -> IF k = "derive" THEN Args ELSE {None}]
       /\ pc' = [p \in Party |-> Entry(k, arg'[p])]
  /\ draw' = [p \in Party |-> None]
  /\ got' = [p \in Party |-> <<>>]
  /\ stale' = [p \in Party |-> FALSE]
  /\ UNCHANGED <<setup, key, lineage, chan, derived, errs>>

At(p, state) == pc[p] = state
Enter(p, state) == pc' = [pc EXCEPT ![p] = state]

Tagged(m) == [m EXCEPT !.s = session]

(* p sends m to its peer, taking nothing.                                  *)
Post(p, m) ==
  /\ chan' = [chan EXCEPT ![3 - p] = Append(@, Tagged(m))]
  /\ UNCHANGED <<got, stale>>

(* p takes the oldest message, out being what it answers at once.          *)
Take(p, out) ==
  /\ chan' = [chan EXCEPT ![p] = Tail(@), ![3 - p] = @ \o [i \in DOMAIN out |-> Tagged(out[i])]]
  /\ got' = [got EXCEPT ![p] = Append(@, Head(chan[p]))]
  /\ stale' = [stale EXCEPT ![p] = @ \/ Head(chan[p]).s # session]

Pending(p) == chan[p] # <<>>

(* com.msg, r2 and a contribution to a session id are one buffer each.     *)
Buffer == {"com", "r2", "sid"}

(* deser of the oldest message as one of type t.                           *)
Parses(p, t) ==
  LET m == Head(chan[p]) IN m.t = t \/ (m.t \in Buffer /\ t \in Buffer)

Fail(p) == Enter(p, "failed") /\ UNCHANGED <<key, lineage, draw, derived>>

(* The message is taken and the call returns an error.                     *)
Refuse(p) == Take(p, <<>>) /\ Fail(p)

Store(p, k) ==
  /\ key' = [key EXCEPT ![p] = k]
  /\ lineage' = [lineage EXCEPT ![p] = IF kind = "dkg" THEN {session} ELSE @ \union {session}]
  /\ Enter(p, "done") /\ UNCHANGED <<draw, derived>>

Goes(p, state) == Enter(p, state) /\ UNCHANGED <<key, lineage, draw, derived>>

-----------------------------------------------------------------------------
(* dkg: x_dkg and k_dkg side by side, for ECDSA with the Paillier key.     *)

Dkg1 ==
  /\ At(1, "dkg")
  /\ \E d \in KeyDraw[1] :
       /\ draw' = [draw EXCEPT ![1] = d]
       /\ Post(1, [t |-> "dkg1", s |-> 0, sid1 |-> Nonce(1), x |-> Com(<<Nonce(1), d.x>>),
                   k |-> Com(<<Nonce(1), d.k>>), c |-> IF Ecdsa THEN Enc(session, d.x) ELSE None])
  /\ Enter(1, "dkg2") /\ UNCHANGED <<key, lineage, derived>>

Dkg2 ==
  /\ At(2, "dkg") /\ Pending(2)
  /\ \/ ~ Parses(2, "dkg1") /\ Refuse(2)
     \/ /\ Parses(2, "dkg1")
        /\ \E d \in KeyDraw[2] :
             /\ draw' = [draw EXCEPT ![2] = d]
             /\ LET sid == <<Head(chan[2]).sid1, Nonce(2)>>
                IN Take(2, <<[t |-> "dkg2", s |-> 0, sid2 |-> Nonce(2), x |-> d.x, k |-> d.k,
                              pix |-> Proof(d.x, "x", sid, 2), pik |-> Proof(d.k, "k", sid, 2)]>>)
        /\ Enter(2, "dkg3") /\ UNCHANGED <<key, lineage, derived>>

(* Seeded fault: the session id leaves P1's nonce out.                     *)
Dkg2Proved_OwnSid(m) ==
  \E s \in 1 .. session :
    /\ m.pix = Proof(m.x, "x", <<<<"sid", 1, s>>, m.sid2>>, 2)
    /\ m.pik = Proof(m.k, "k", <<<<"sid", 1, s>>, m.sid2>>, 2)

(* step3_p1_to_p2 of both: pi_2 under hash(sid1, sid2).                    *)
Dkg2Proved(m) ==
  /\ m.pix = Proof(m.x, "x", <<Nonce(1), m.sid2>>, 2)
  /\ m.pik = Proof(m.k, "k", <<Nonce(1), m.sid2>>, 2)

Dkg3 ==
  /\ At(1, "dkg2") /\ Pending(1)
  /\ LET m == Head(chan[1])
         ok == Parses(1, "dkg2") /\ Dkg2Proved(m)
         sid == <<Nonce(1), m.sid2>>
         d == draw[1]
     IN \/ ~ ok /\ Refuse(1)
        \/ /\ ok
           /\ Take(1, <<[t |-> "dkg3", s |-> 0, x |-> d.x, k |-> d.k, pix |-> Proof(d.x, "x", sid, 1),
                         pik |-> Proof(d.k, "k", sid, 1),
                         pdl |-> IF Ecdsa THEN <<Enc(session, d.x), d.x>> ELSE None]>>)
           /\ Store(1, [x |-> d.x, Q |-> (d.x + m.x) % q, k |-> d.k, K |-> (d.k + m.k) % q,
                        c |-> IF Ecdsa THEN Enc(session, d.x) ELSE None])

(* step4_output_p2 of both, and pg.step4_p2_output.                        *)
Dkg3Proved(m1, m) ==
  /\ m1.x = Com(<<m1.sid1, m.x>>) /\ m1.k = Com(<<m1.sid1, m.k>>)
  /\ m.pix = Proof(m.x, "x", <<m1.sid1, Nonce(2)>>, 1)
  /\ m.pik = Proof(m.k, "k", <<m1.sid1, Nonce(2)>>, 1)
  /\ Ecdsa => m.pdl = <<m1.c, m.x>>

Dkg4 ==
  /\ At(2, "dkg3") /\ Pending(2)
  /\ LET m1 == got[2][1]
         m == Head(chan[2])
         ok == Parses(2, "dkg3") /\ Dkg3Proved(m1, m)
     IN \/ ~ ok /\ Refuse(2)
        \/ /\ ok
           /\ Take(2, <<>>)
           /\ Store(2, [x |-> draw[2].x, Q |-> (m.x + draw[2].x) % q,
                        k |-> draw[2].k, K |-> (m.k + draw[2].k) % q, c |-> m1.c])

-----------------------------------------------------------------------------
(* refresh, ECDSA, first part: ecdsa2pc::refresh of x, c_key and paillier. *)

(* The key that both parts of the refresh build in draw[p].new.            *)
ShiftX(p, c_tag, rho) ==
  [key[p] EXCEPT !.x = IF p = 1 THEN @ + rho ELSE (@ - rho) % q,
                 !.c = Enc(c_tag.n, c_tag.v + rho)]

Refresh1 ==
  /\ At(1, "refresh")
  /\ \E rho1 \in Draw :
       /\ draw' = [draw EXCEPT ![1] = [rho |-> rho1]]
       /\ Post(1, [t |-> "ref1", s |-> 0, com |-> Com(rho1), c_tag |-> Enc(session, key[1].x)])
  /\ Enter(1, "ref2") /\ UNCHANGED <<key, lineage, derived>>

(* rho2 and the challenges of the interactive proofs.                      *)
Refresh2 ==
  /\ At(2, "refresh") /\ Pending(2)
  /\ \/ ~ Parses(2, "ref1") /\ Refuse(2)
     \/ /\ Parses(2, "ref1")
        /\ \E rho2 \in Draw :
             /\ draw' = [draw EXCEPT ![2] = [rho |-> rho2]]
             /\ Take(2, <<[t |-> "ref2", s |-> 0, rho2 |-> rho2, challenge |-> Nonce(2)]>>)
        /\ Enter(2, "ref3") /\ UNCHANGED <<key, lineage, derived>>

(* Seeded fault: the refreshed half is kept at once.                       *)
Refresh3_InPlace ==
  /\ At(1, "ref2") /\ Pending(1)
  /\ LET m == Head(chan[1])
         c_tag == Enc(session, key[1].x)
         new == ShiftX(1, c_tag, (draw[1].rho + m.rho2) % q)
     IN \/ ~ Parses(1, "ref2") /\ Refuse(1)
        \/ /\ Parses(1, "ref2")
           /\ Take(1, <<[t |-> "ref3", s |-> 0, rho1 |-> draw[1].rho,
                         equal |-> <<key[1].c, c_tag, m.challenge>>]>>)
           /\ key' = [key EXCEPT ![1] = new]
           /\ draw' = [draw EXCEPT ![1] = [new |-> new]]
           /\ Enter(1, "toss") /\ UNCHANGED <<lineage, derived>>

(* The opening of rho1 and the answers to the challenges P1 received.      *)
Refresh3 ==
  /\ At(1, "ref2") /\ Pending(1)
  /\ LET m == Head(chan[1])
         c_tag == Enc(session, key[1].x)
     IN \/ ~ Parses(1, "ref2") /\ Refuse(1)
        \/ /\ Parses(1, "ref2")
           /\ Take(1, <<[t |-> "ref3", s |-> 0, rho1 |-> draw[1].rho,
                         equal |-> <<key[1].c, c_tag, m.challenge>>]>>)
           /\ draw' = [draw EXCEPT ![1] = [new |-> ShiftX(1, c_tag, (draw[1].rho + m.rho2) % q)]]
           /\ Enter(1, "toss") /\ UNCHANGED <<key, lineage, derived>>

(* two_paillier_equal for P2's own c_key and challenge; com.open(rho1).    *)
Refresh3Proved(m1, m) ==
  /\ m.equal = <<key[2].c, m1.c_tag, Nonce(2)>>
  /\ m1.com = Com(m.rho1)

Refresh4 ==
  /\ At(2, "ref3") /\ Pending(2)
  /\ LET m1 == got[2][1]
         m == Head(chan[2])
         ok == Parses(2, "ref3") /\ Refresh3Proved(m1, m)
     IN \/ ~ ok /\ Refuse(2)
        \/ /\ ok
           /\ Take(2, <<>>)
           /\ draw' = [draw EXCEPT ![2] = [new |-> ShiftX(2, m1.c_tag, (m.rho1 + draw[2].rho) % q)]]
           /\ Enter(2, "toss") /\ UNCHANGED <<key, lineage, derived>>

-----------------------------------------------------------------------------
(* refresh, the coin toss: of k for ECDSA, of both halves for EdDSA.       *)

Refreshed(p) == IF Ecdsa THEN draw[p].new ELSE key[p]

Shift(p, v, bits) == (IF p = 1 THEN v + from_bin(bits) ELSE v - from_bin(bits)) % q

(* The new key set, from rand = r1 ^ r2.                                   *)
Tossed(p, mine, theirs) ==
  LET base == Refreshed(p)
      half == [base EXCEPT !.k = Shift(p, @, Xor(mine.k, theirs.k))]
  IN IF Ecdsa THEN half ELSE [half EXCEPT !.x = Shift(p, @, Xor(mine.x, theirs.x))]

Toss1 ==
  /\ At(1, "toss")
  /\ \E r \in Toss[1] :
       /\ draw' = [draw EXCEPT ![1] = [new |-> Refreshed(1), r |-> r]]
       /\ Post(1, [t |-> "com", s |-> 0, v |-> Com(r)])
  /\ Enter(1, "r2") /\ UNCHANGED <<key, lineage, derived>>

Toss2 ==
  /\ At(2, "toss") /\ Pending(2)
  /\ \/ ~ Parses(2, "com") /\ Refuse(2)
     \/ /\ Parses(2, "com")
        /\ \E r \in Toss[2] :
             /\ draw' = [draw EXCEPT ![2] = [new |-> Refreshed(2), r |-> r]]
             /\ Take(2, <<[t |-> "r2", s |-> 0, v |-> r]>>)
        /\ Enter(2, "open") /\ UNCHANGED <<key, lineage, derived>>

(* P1 opens before it looks at the length of what it took for r2.          *)
Toss3 ==
  /\ At(1, "r2") /\ Pending(1)
  /\ LET m == Head(chan[1])
     IN \/ ~ Parses(1, "r2") /\ Refuse(1)
        \/ /\ Parses(1, "r2")
           /\ Take(1, <<[t |-> "open", s |-> 0, v |-> draw[1].r]>>)
           /\ \/ m.t # "r2" /\ Fail(1)
              \/ m.t = "r2" /\ Store(1, Tossed(1, draw[1].r, m.v))

Toss4 ==
  /\ At(2, "open") /\ Pending(2)
  /\ LET m == Head(chan[2])
         ok == Parses(2, "open") /\ got[2][Len(got[2])].v = Com(m.v)
     IN \/ ~ ok /\ Refuse(2)
        \/ ok /\ Take(2, <<>>) /\ Store(2, Tossed(2, draw[2].r, m.v))

-----------------------------------------------------------------------------
(* derive_keys.                                                            *)

SidMsg(p) == [t |-> "sid", s |-> 0, v |-> Nonce(p)]

(* generate_sid_fixed_mp for ECDSA: each sends its part, then receives.    *)
SidSend(p) ==
  /\ Ecdsa /\ At(p, "sid")
  /\ Post(p, SidMsg(p))
  /\ Goes(p, "sid2")

(* validate_sid_fixed_mp_contributions looks at the length.                *)
SidReceive(p) ==
  /\ Ecdsa /\ At(p, "sid2") /\ Pending(p)
  /\ LET ok == Parses(p, "sid") /\ Head(chan[p]).t = "sid"
     IN \/ ~ ok /\ Refuse(p)
        \/ ok /\ Take(p, <<>>) /\ Goes(p, "Z")

(* weak_agree_random_p2_first for EdDSA: P2 sends, P1 answers, then both   *)
(* look at the lengths.                                                    *)
SidP2First ==
  /\ ~ Ecdsa /\ At(2, "sid")
  /\ Post(2, SidMsg(2))
  /\ Goes(2, "sid2")

SidP1Answer ==
  /\ ~ Ecdsa /\ At(1, "sid") /\ Pending(1)
  /\ \/ ~ Parses(1, "sid") /\ Refuse(1)
     \/ /\ Parses(1, "sid")
        /\ Take(1, <<SidMsg(1)>>)
        /\ \/ Head(chan[1]).t # "sid" /\ Fail(1)
           \/ Head(chan[1]).t = "sid" /\ Goes(1, "Z")

SidP2Finish ==
  /\ ~ Ecdsa /\ At(2, "sid2") /\ Pending(2)
  /\ LET ok == Parses(2, "sid") /\ Head(chan[2]).t = "sid"
     IN \/ ~ ok /\ Refuse(2)
        \/ ok /\ Take(2, <<>>) /\ Goes(2, "Z")

(* The session id: the caller's, or hash of both contributions.            *)
SidOf(p) ==
  IF arg[p].sid # None THEN <<arg[p].sid, arg[p].sid>>
  ELSE IF p = 1 THEN <<Nonce(1), got[1][1].v>> ELSE <<got[2][1].v, Nonce(2)>>

(* derive_sid: the session id with all paths.                              *)
DeriveSid(p) == <<SidOf(p), arg[p].hard, arg[p].soft>>

(* Z_share = k_share * P and the proof that it has the exponent of A.      *)
ZMsg(p, k) ==
  [t |-> IF p = 1 THEN "Z1" ELSE "Z2", s |-> 0, P |-> arg[p].hard, Z |-> k,
   dh |-> [P |-> arg[p].hard, A |-> k, Z |-> k, sid |-> DeriveSid(p), aux |-> p]]

(* The exponent p uses: a faulty party's is its own choice.                *)
Exponents(p) == IF p \in setup.faulty THEN Point ELSE {key[p].k}

(* Seeded fault: the proof is not tied to the peer's share of K.           *)
DhProved_AnyA(p, m) ==
  /\ m.Z \in Point
  /\ [m.dh EXCEPT !.A = None] =
       [P |-> arg[p].hard, A |-> None, Z |-> m.Z, sid |-> DeriveSid(p), aux |-> 3 - p]

(* zk_dh.verify(P, other_K_share, Z, derive_sid, peer).                    *)
DhProved(p, m) ==
  /\ (key[p].K - key[p].k) % q \in Point /\ m.Z \in Point
  /\ m.dh = [P |-> arg[p].hard, A |-> (key[p].K - key[p].k) % q, Z |-> m.Z,
             sid |-> DeriveSid(p), aux |-> 3 - p]

(* Seeded fault: both parties add the tweak.                               *)
DerivedKey_Both(p, z, i) ==
  LET delta == Hash[arg[p].hard][z]
      Q_derived == (key[p].Q + delta) % q
      soft == SoftHash[z][Q_derived][arg[p].soft[i]]
  IN [Q |-> (Q_derived + soft) % q, x |-> (key[p].x + delta + soft) % q, c |-> key[p].c]

(* The key of the i-th path: one party's share takes the whole tweak.      *)
DerivedKey(p, z, i) ==
  LET delta == Hash[arg[p].hard][z]
      Q_derived == (key[p].Q + delta) % q
      soft == SoftHash[z][Q_derived][arg[p].soft[i]]
      adds == IF Ecdsa THEN 2 ELSE 1
  IN [Q |-> (Q_derived + soft) % q,
      x |-> IF p = adds THEN (key[p].x + delta + soft) % q ELSE key[p].x,
      c |-> key[p].c]

(* Both halves of Z are known: the call returns its batch of keys.         *)
ReturnKeys(p, z) ==
  LET keys == [i \in DOMAIN arg[p].soft |-> DerivedKey(p, z, i)]
  IN /\ draw' = [draw EXCEPT ![p] = keys]
     /\ derived' = derived \union
          IF p \in Honest
          THEN {[root |-> key[p].K, hard |-> arg[p].hard, soft |-> arg[p].soft[i], Q |-> keys[i].Q] :
                  i \in DOMAIN keys}
          ELSE {}
     /\ Enter(p, "done") /\ UNCHANGED <<key, lineage>>

Derive1 ==
  /\ At(1, "Z")
  /\ \E k \in Exponents(1) : /\ Post(1, ZMsg(1, k))
                             /\ draw' = [draw EXCEPT ![1] = k]
  /\ Enter(1, "Z2") /\ UNCHANGED <<key, lineage, derived>>

Derive2 ==
  /\ At(2, "Z") /\ Pending(2)
  /\ LET m == Head(chan[2])
         ok == Parses(2, "Z1") /\ DhProved(2, m)
     IN \/ ~ ok /\ Refuse(2)
        \/ /\ ok
           /\ \E k \in Exponents(2) : Take(2, <<ZMsg(2, k)>>) /\ ReturnKeys(2, (m.Z + k) % q)

Derive3 ==
  /\ At(1, "Z2") /\ Pending(1)
  /\ LET m == Head(chan[1])
         ok == Parses(1, "Z2") /\ DhProved(1, m)
     IN \/ ~ ok /\ Refuse(1)
        \/ ok /\ Take(1, <<>>) /\ ReturnKeys(1, (draw[1] + m.Z) % q)

-----------------------------------------------------------------------------
Waits(p) ==
  pc[p] \in IF p = 1 THEN {"dkg2", "ref2", "r2", "sid2", "Z2"} \union IF Ecdsa THEN {} ELSE {"sid"}
            ELSE {"dkg", "dkg3", "refresh", "ref3", "toss", "open", "sid2", "Z"}

(* The transport fails a send or a receive; nothing is taken.              *)
TransportError(p) ==
  /\ Running(p) /\ errs < setup.errs
  /\ errs' = errs + 1
  /\ Fail(p) /\ UNCHANGED <<got, chan, stale>>

(* It reports that nothing more comes: the peer's call has returned.       *)
PeerGone(p) ==
  /\ Waits(p) /\ ~ Pending(p) /\ ~ Running(3 - p)
  /\ Fail(p) /\ UNCHANGED <<got, chan, stale>>

Steps ==
  \/ Dkg1 \/ Dkg2 \/ Dkg3 \/ Dkg4
  \/ Refresh1 \/ Refresh2 \/ Refresh3 \/ Refresh4
  \/ Toss1 \/ Toss2 \/ Toss3 \/ Toss4
  \/ \E p \in Party : SidSend(p) \/ SidReceive(p)
  \/ SidP2First \/ SidP1Answer \/ SidP2Finish
  \/ Derive1 \/ Derive2 \/ Derive3
  \/ \E p \in Party : PeerGone(p)

Next ==
  \/ NewSession
  \/ Steps /\ UNCHANGED <<setup, kind, session, arg, errs>>
  \/ \E p \in Party : TransportError(p) /\ UNCHANGED <<setup, kind, session, arg>>

Spec == Init /\ [][Next]_vars

-----------------------------------------------------------------------------
BothHold == \A p \in Party : key[p] # None

(* The two roots belong together: both halves are shared, and P2 holds the *)
(* encryption of P1's share.                                               *)
RootsMatch ==
  /\ key[1].Q = key[2].Q /\ key[1].K = key[2].K
  /\ (key[1].x + key[2].x) % q = key[1].Q
  /\ (key[1].k + key[2].k) % q = key[1].K
  /\ Ecdsa => key[1].c = key[2].c /\ key[2].c.v = key[1].x

(* Key sets with the same history belong together, whatever calls failed   *)
(* in between, at whichever party and in whichever of the two parts of a   *)
(* refresh, and even when calls took the leftovers of failed ones for      *)
(* their own.  The EdDSA refresh does not promise the latter.              *)
SameLineageMatches ==
  (BothHold /\ lineage[1] = lineage[2] /\ (Ecdsa \/ setup.errs = 0)) => RootsMatch

(* Neither a key generation nor an ECDSA refresh succeeds, at either       *)
(* party, when its call took a message that a failed call left behind.     *)
LeftoversRefused ==
  \A p \in Party : (pc[p] = "done" /\ (kind = "dkg" \/ (kind = "refresh" /\ Ecdsa))) => ~ stale[p]

(* A derivation that succeeds at an honest party starts from roots that    *)
(* belong together, although it verifies the k half only: after a refresh  *)
(* that completed at one party none succeeds.  And the batches that both   *)
(* parties return hold keys they share.                                    *)
DerivedKeysFit ==
  (kind = "derive" /\ setup.faulty = {} /\ \E p \in Party : pc[p] = "done") =>
    /\ RootsMatch
    /\ (\A p \in Party : pc[p] = "done") =>
         /\ arg[1].soft = arg[2].soft
         /\ \A i \in DOMAIN draw[1] :
              /\ draw[1][i].Q = draw[2][i].Q
              /\ (draw[1][i].x + draw[2][i].x) % q = draw[1][i].Q
              /\ Ecdsa => draw[2][i].c.v = draw[1][i].x

(* A path always gives the same public key: at both parties, before and    *)
(* after refreshes, and whatever a faulty peer sends.                      *)
SamePathSameKey ==
  \A d, e \in derived :
    (d.root = e.root /\ d.hard = e.hard /\ d.soft = e.soft) => d.Q = e.Q
=============================================================================
