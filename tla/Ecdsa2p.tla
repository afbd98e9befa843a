------------------------------ MODULE Ecdsa2p ------------------------------
(***************************************************************************)
(* Two-party ECDSA (ecdsa_2p.cpp) behind the key blobs of the API          *)
(* (api/ecdsa2pc.cpp): dkg, refresh, sign_batch and its global abort       *)
(* variant, one session after the other.  P1 keeps its share as an integer *)
(* beside a Paillier key; both keep c_key, its encryption.  A party        *)
(* replaces its stored key when, and only when, its own call succeeds.     *)
(*                                                                         *)
(* A point is its discrete logarithm.  A Paillier key is a number, 0 being *)
(* an invalid modulus; a ciphertext is the key and the plaintext modulo N, *)
(* its randomness left out.  A zero-knowledge proof is the statement it    *)
(* shows: only true statements have one.  Plaintexts, shares and           *)
(* signatures are computed as the code computes them, with a small curve   *)
(* order and small security parameters.                                    *)
(***************************************************************************)
EXTENDS Integers, Sequences, FiniteSetsExt

CONSTANTS
  q,            \* order of the curve
  SEC_P_STAT, SEC_P_COM,
  N,            \* size of a Paillier modulus
  Draw,         \* scalars the random generator may return
  Batches,      \* batches of message digests a caller may ask for
  RhoDraw,      \* masks P2 may draw when it signs
  FaultyRho,    \* masks a faulty P2 may prove: the proof bounds, not signs them
  Garbage,      \* what decrypting with a wrong key may give
  Setups,       \* who is faulty, what is signed after which sessions
  None

ASSUME ConstantTypes ==
  /\ q \in Nat /\ q > 2 /\ \A a \in 1 .. q - 1 : \E b \in 1 .. q - 1 : (a * b) % q = 1
  /\ N \in Nat /\ N > q * q * q * 2 ^ (3 * SEC_P_STAT + SEC_P_COM + 1) /\ N % 2 = 1
  /\ Draw \subseteq 1 .. q - 1
  /\ Batches \subseteq Seq(0 .. q - 1) \ {<<>>}
  /\ RhoDraw \subseteq 0 .. q * q * 2 ^ (2 * SEC_P_STAT) - 1
  /\ Garbage \subseteq 0 .. N - 1 /\ None \notin 0 .. N - 1

(* There is no key to refresh or to sign with before the first dkg, and    *)
(* there are no more than 2^128 sessions.                                  *)
ASSUME SetupTypes ==
  \A s \in Setups :
    /\ s.faulty \subseteq {1, 2}
    /\ s.kinds \in Seq(SUBSET {"dkg", "refresh", "sign", "global_abort"})
    /\ s.kinds # <<>> => s.kinds[1] = {"dkg"}
    /\ Len(s.kinds) <= 2 ^ (2 * SEC_P_STAT)

(* The parameters are positive, 64 and 128 in cbmpc; the rest is the law   *)
(* of exponents.                                                           *)
ASSUME Powers ==
  /\ 2 ^ SEC_P_STAT \in Nat /\ 2 ^ SEC_P_STAT >= 2
  /\ 2 ^ (2 * SEC_P_STAT) = 2 ^ SEC_P_STAT * 2 ^ SEC_P_STAT
  /\ 2 ^ (3 * SEC_P_STAT + SEC_P_COM + 1) \in Nat
  /\ 2 ^ (3 * SEC_P_STAT + SEC_P_COM + 1) >= 4 * (2 ^ SEC_P_STAT * 2 ^ SEC_P_STAT * 2 ^ SEC_P_STAT)

(* What a faulty P2 can prove stays below N / 2: the proof lets a mask be  *)
(* longer than an honest one by SEC_P_STAT + SEC_P_COM + 1 bits, of either *)
(* sign, and the 2048 bits that are required of N leave room for that.     *)
ASSUME MaskBound ==
  \A rho \in FaultyRho :
    /\ rho \in Int /\ - (2 * (rho * q)) < N
    /\ 2 * (rho * q + 2 * (q * q * q * 2 ^ (2 * SEC_P_STAT))) < N

VARIABLES
  setup,     \* [faulty, kinds, errs]: faulty parties, sessions to run, errors
  key,       \* key[p]: p's stored key_t, or None
  lineage,   \* lineage[p]: the sessions behind p's key
  kind,      \* what the session runs
  session,   \* sessions started
  msgs,      \* msgs[p]: the digests p was asked to sign in this session
  pc,        \* pc[p]: progress in the session, or how the call returned
  draw,      \* draw[p]: p's randomness in this session
  msg,       \* msg[k]: the k-th message of the session, or None
  errs

vars == <<setup, key, lineage, kind, session, msgs, pc, draw, msg, errs>>

Honest == {1, 2} \ setup.faulty
Zq == 0 .. q - 1
Inv(a) == CHOOSE b \in Zq : (a * b) % q = 1

Enc(n, v) == [n |-> n, v |-> v % N]

Com(v) == <<v>>

(* ecurve_t::check rejects the point at infinity.                          *)
OnCurve(pt) == pt \in Zq \ {0}

(* get_x() % q: a point and its negative, and only they, share it.         *)
XCoord(pt) == Min({pt, q - pt})

Running(p) == pc[p] \in {"start", "sent", "opened"}

-----------------------------------------------------------------------------
Init ==
  /\ setup \in Setups
  /\ key = [p \in Honest |-> None]
  /\ lineage = [p \in Honest |-> {}]
  /\ kind = "none" /\ session = 0 /\ errs = 0
  /\ msgs = [p \in Honest |-> None]
  /\ pc = [p \in Honest |-> "idle"]
  /\ draw = [p \in Honest |-> None]
  /\ msg = [k \in 1 .. 4 |-> None]

(* blob_to_key: P1's share is in Z_N and is what c_key decrypts to.        *)
BlobOk(p) ==
  key[p] # None =>
    /\ key[p].x \in 0 .. N - 1
    /\ p = 1 => key[1].c.v = key[1].x

(* The application starts the next call at both parties once both have     *)
(* returned and hold keys; it may ask them to sign different things.       *)
NewSession ==
  /\ session < Len(setup.kinds)
  /\ \A p \in Honest : ~ Running(p)
  /\ session > 0 => \A p \in Honest : key[p] # None
  /\ session' = session + 1
  /\ \E k \in setup.kinds[session + 1] :
       /\ kind' = k
       /\ msgs' \in [Honest -> IF k \in {"sign", "global_abort"} THEN Batches ELSE {None}]
  /\ pc' = [p \in Honest |-> IF BlobOk(p) THEN "start" ELSE "format"]
  /\ draw' = [p \in Honest |-> None]
  /\ msg' = [k \in 1 .. 4 |-> None]
  /\ UNCHANGED <<setup, key, lineage, errs>>

At(p, kinds, state) == p \in Honest /\ kind \in kinds /\ pc[p] = state

Send(k, m) == msg' = [msg EXCEPT ![k] = m]

Enter(p, state) == pc' = [pc EXCEPT ![p] = state]

Fail(p, code) == Enter(p, code) /\ UNCHANGED <<key, lineage, draw, msg>>

(* serialize_key_blob of a new key.                                        *)
Store(p, k) ==
  /\ key' = [key EXCEPT ![p] = k]
  /\ lineage' = [lineage EXCEPT ![p] = @ \union {session}]
  /\ Enter(p, "done")

-----------------------------------------------------------------------------
(* dkg: dkg_2p_t with the Paillier key riding on its messages.  The proof  *)
(* of equality shows that a ciphertext encrypts a reduced discrete         *)
(* logarithm of a point.                                                   *)

(* pdl_t with the equality and range proofs: c encrypts Q1's logarithm.    *)
PdlStatement(c, Q1) == [c |-> c, Q1 |-> Q1]

DkgStep1 ==
  /\ At(1, {"dkg"}, "start")
  /\ \E x \in Draw :
       /\ draw' = [draw EXCEPT ![1] = x]
       /\ Send(1, [com |-> Com(x), N |-> session, c_gen |-> Enc(session, x), c_key |-> Enc(session, x)])
  /\ Enter(1, "sent") /\ UNCHANGED <<key, lineage>>

DkgStep2 ==
  /\ At(2, {"dkg"}, "start") /\ msg[1] # None
  /\ \/ msg[1].c_gen # msg[1].c_key /\ Fail(2, "crypto")
     \/ /\ msg[1].c_gen = msg[1].c_key
        /\ \E x \in Draw : draw' = [draw EXCEPT ![2] = x] /\ Send(2, [Q2 |-> x])
        /\ Enter(2, "sent") /\ UNCHANGED <<key, lineage>>

DkgStep3 ==
  /\ At(1, {"dkg"}, "sent") /\ msg[2] # None
  /\ \/ ~ OnCurve(msg[2].Q2) /\ Fail(1, "crypto")
     \/ /\ OnCurve(msg[2].Q2)
        /\ Send(3, [Q1 |-> draw[1], pdl |-> PdlStatement(msg[1].c_key, draw[1])])
        /\ Store(1, [x |-> draw[1], Q |-> (draw[1] + msg[2].Q2) % q, c |-> msg[1].c_key])
        /\ UNCHANGED draw

(* paillier_gen_interactive_t::step4_p2_output.                            *)
PaillierProved == msg[1].N # 0 /\ msg[3].pdl = PdlStatement(msg[1].c_key, msg[3].Q1)

DkgStep4 ==
  /\ At(2, {"dkg"}, "sent") /\ msg[3] # None
  /\ LET ok == OnCurve(msg[3].Q1) /\ msg[1].com = Com(msg[3].Q1) /\ PaillierProved
     IN \/ ~ ok /\ Fail(2, "crypto")
        \/ /\ ok
           /\ Store(2, [x |-> draw[2], Q |-> (msg[3].Q1 + draw[2]) % q, c |-> msg[1].c_key])
           /\ UNCHANGED <<draw, msg>>

-----------------------------------------------------------------------------
(* refresh: a fresh Paillier key, the share encrypted again and proved     *)
(* equal to what the old ciphertext holds, then both shifted by rho.       *)

(* two_paillier_equal_interactive_t: both hold the same plaintext.  Its    *)
(* range check on d, which an honest P1 fails with odds of about 2^-60     *)
(* times the refreshes made, is left out.                                  *)
EqualStatement(c0, c1) == <<c0, c1>>

RefreshStep1 ==
  /\ At(1, {"refresh"}, "start")
  /\ \E rho1 \in Draw :
       /\ draw' = [draw EXCEPT ![1] = rho1]
       /\ Send(1, [com |-> Com(rho1), N_tag |-> session, c_key_tag |-> Enc(session, key[1].x)])
  /\ Enter(1, "sent") /\ UNCHANGED <<key, lineage>>

(* The checks of size and gcd may or may not notice a modulus that is no   *)
(* Paillier one (0); valid_paillier does later (RefreshProved).            *)
RefreshStep2 ==
  /\ At(2, {"refresh"}, "start") /\ msg[1] # None
  /\ \/ msg[1].N_tag = 0 /\ Fail(2, "crypto")
     \/ /\ \E rho2 \in Draw : draw' = [draw EXCEPT ![2] = rho2] /\ Send(2, [rho2 |-> rho2])
        /\ Enter(2, "sent") /\ UNCHANGED <<key, lineage>>

(* Seeded fault: P1's share is reduced, its encryption is not.             *)
Shifted_Reduced(k, p, c_key_tag, rho) ==
  [x |-> (IF p = 1 THEN k.x + rho ELSE k.x - rho) % q,
   Q |-> k.Q, c |-> Enc(c_key_tag.n, c_key_tag.v + rho)]

(* The new key: P1's share as an integer, P2's modulo q.                   *)
Shifted(k, p, c_key_tag, rho) ==
  [x |-> IF p = 1 THEN k.x + rho ELSE (k.x - rho) % q,
   Q |-> k.Q, c |-> Enc(c_key_tag.n, c_key_tag.v + rho)]

(* The statement is true, since key.c_key holds key.x_share (BlobOk).  A   *)
(* send that fails is TransportError before this step: one that reports an *)
(* error although it delivered is left out.                                *)
RefreshStep3 ==
  /\ At(1, {"refresh"}, "sent") /\ msg[2] # None
  /\ Send(3, [rho1 |-> draw[1], equal |-> EqualStatement(key[1].c, msg[1].c_key_tag)])
  /\ Store(1, Shifted(key[1], 1, msg[1].c_key_tag, (draw[1] + msg[2].rho2) % q))
  /\ UNCHANGED draw

(* Seeded fault: the proof may start from any older ciphertext.            *)
RefreshProved_AnyOld ==
  /\ msg[1].N_tag # 0 /\ msg[3].equal[2] = msg[1].c_key_tag
  /\ msg[1].com = Com(msg[3].rho1)

(* valid_paillier, two_paillier_equal from P2's own c_key, the commitment. *)
RefreshProved ==
  /\ msg[1].N_tag # 0 /\ msg[3].equal = EqualStatement(key[2].c, msg[1].c_key_tag)
  /\ msg[1].com = Com(msg[3].rho1)

RefreshStep4 ==
  /\ At(2, {"refresh"}, "sent") /\ msg[3] # None
  /\ \/ ~ RefreshProved /\ Fail(2, "crypto")
     \/ /\ RefreshProved
        /\ Store(2, Shifted(key[2], 2, msg[1].c_key_tag, (msg[3].rho1 + draw[2]) % q))
        /\ UNCHANGED <<draw, msg>>

-----------------------------------------------------------------------------
(* sign_batch_impl.                                                        *)

Sign == {"sign", "global_abort"}

Draws(n) == [1 .. n -> Draw]

(* Seeded fault: the commitment leaves the messages out.                   *)
SignCom_NoMsgs(m, R1) == Com(<<Len(m), R1>>)

(* com.gen(msgs, R1, pi_1) checks that both sign the same messages.        *)
SignCom(m, R1) == Com(<<m, R1>>)

SignStep1 ==
  /\ At(1, Sign, "start")
  /\ \E k1 \in Draws(Len(msgs[1])) :
       /\ draw' = [draw EXCEPT ![1] = k1]
       /\ Send(1, SignCom(msgs[1], k1))
  /\ Enter(1, "sent") /\ UNCHANGED <<key, lineage>>

SignStep2 ==
  /\ At(2, Sign, "start") /\ msg[1] # None
  /\ \E k2 \in Draws(Len(msgs[2])) :
       /\ draw' = [draw EXCEPT ![2] = k2]
       /\ Send(2, k2)
  /\ Enter(2, "sent") /\ UNCHANGED <<key, lineage>>

SignStep3 ==
  /\ At(1, Sign, "sent") /\ msg[2] # None
  /\ LET ok == Len(msg[2]) = Len(msgs[1]) /\ \A i \in DOMAIN msg[2] : OnCurve(msg[2][i])
     IN \/ ~ ok /\ Fail(1, "crypto")
        \/ ok /\ Send(3, draw[1]) /\ Enter(1, "opened") /\ UNCHANGED <<key, lineage, draw>>

(* P2's ciphertext for one signature, with c_key shifted by q * 2^STAT.    *)
SignCipher(c_key, k2, x2, m, r, rho) ==
  LET k2_inv == Inv(k2)
      temp == k2_inv * m + ((k2_inv * x2) % q) * r + rho * q
  IN Enc(c_key.n, (c_key.v + q * 2 ^ SEC_P_STAT) * (k2_inv * r) + temp)

(* What zk_ecdsa_sign_2pc_integer_commit_t shows of the ciphertext c.      *)
SignStatement(c_key, c, Q2, R2, m, r, i) ==
  [c_key |-> c_key, c |-> c, Q2 |-> Q2, R2 |-> R2, m |-> m, r |-> r, aux |-> i]

Nonce(a, b) == XCoord((a * b) % q)

(* What P2 sends for one signature.                                        *)
SignItem(c_key, x2, k2, m, r, rho, i) ==
  LET c == SignCipher(c_key, k2, x2, m, r, rho)
  IN [c |-> c, zk |-> SignStatement(c_key, c, x2, k2, m, r, i)]

(* com.open, the points and pi_1; then one ciphertext and proof each.      *)
SignStep4 ==
  /\ At(2, Sign, "sent") /\ msg[3] # None
  /\ \/ msg[1] # SignCom(msgs[2], msg[3]) /\ Fail(2, "crypto")
     \/ /\ msg[1] = SignCom(msgs[2], msg[3])
        /\ \E rho \in [DOMAIN msgs[2] -> RhoDraw] :
             Send(4, [i \in DOMAIN msgs[2] |->
               SignItem(key[2].c, key[2].x, draw[2][i], msgs[2][i], Nonce(draw[2][i], msg[3][i]), rho[i], i)])
        /\ Enter(2, "done") /\ UNCHANGED <<key, lineage, draw>>

(* ecc_pub_key_t::verify.                                                  *)
Verifies(Q, m, r, s) ==
  /\ s # 0
  /\ LET R == (Inv(s) * (m + r * Q)) % q IN R # 0 /\ XCoord(R) = r

(* Seeded fault: the decrypted value is never taken as negative.           *)
Completed_Unsigned(plain, k1) ==
  LET s == ((plain % q) * Inv(k1)) % q IN Min({s, q - s})

(* The decrypted value, negative in the upper half of Z_N, divided by k1   *)
(* and made low.                                                           *)
Completed(plain, k1) ==
  LET neg == IF plain >= (N + 1) \div 2 THEN 1 ELSE 0
      s == (((plain % q) - (N % q) * neg) * Inv(k1)) % q
  IN Min({s, q - s})

(* zk_ecdsa[i].verify with Q2 = Q - x1 * G.                                *)
SignProved(i) ==
  /\ OnCurve((key[1].Q - key[1].x) % q)
  /\ msg[4][i].zk = SignStatement(key[1].c, msg[4][i].c, (key[1].Q - key[1].x) % q, msg[2][i],
                                  msgs[1][i], Nonce(draw[1][i], msg[2][i]), i)

(* paillier_t::verify_cipher and decrypt: None when the first refuses.     *)
Decrypts(c) == IF c.n = key[1].c.n THEN {c.v} ELSE Garbage \union {None}

(* One turn of P1's loop: how it ends for a decrypted value.               *)
Turn(i, plain) ==
  IF (kind = "sign" /\ ~ SignProved(i)) \/ plain = None THEN "crypto"
  ELSE IF Verifies(key[1].Q, msgs[1][i], Nonce(draw[1][i], msg[2][i]), Completed(plain, draw[1][i])) THEN "done"
  ELSE IF kind = "sign" THEN "unverified" ELSE "leak"

(* P1 stops at the first turn that fails; E_ECDSA_2P_BIT_LEAK is "leak".   *)
SignStep5 ==
  /\ At(1, Sign, "opened") /\ msg[4] # None
  /\ \/ Len(msg[4]) # Len(msgs[1]) /\ Fail(1, "crypto")
     \/ /\ Len(msg[4]) = Len(msgs[1])
        /\ \E plain \in {f \in [DOMAIN msgs[1] -> UNION {Decrypts(msg[4][i].c) : i \in DOMAIN msgs[1]}] :
                           \A i \in DOMAIN f : f[i] \in Decrypts(msg[4][i].c)} :
             LET bad == {i \in DOMAIN plain : Turn(i, plain[i]) # "done"}
             IN Enter(1, IF bad = {} THEN "done" ELSE Turn(Min(bad), plain[Min(bad)]))
        /\ UNCHANGED <<key, lineage, draw, msg>>

-----------------------------------------------------------------------------
TransportError(p) ==
  /\ Running(p) /\ errs < setup.errs
  /\ errs' = errs + 1
  /\ Fail(p, "net")

(* The number of the message p reads next.                                 *)
Awaited(p) == CASE p = 1 /\ pc[1] = "sent" -> 2
                [] p = 1 /\ pc[1] = "opened" -> 4
                [] p = 2 /\ pc[2] = "start" -> 1
                [] p = 2 /\ pc[2] = "sent" -> 3

(* The transport reports that the peer stopped without sending.            *)
PeerGone(p) ==
  /\ Running(p) /\ ~ (p = 1 /\ pc[1] = "start")
  /\ msg[Awaited(p)] = None
  /\ \E j \in Honest \ {p} : pc[j] \in {"net", "crypto", "format"}
  /\ Fail(p, "net")

(* A faulty P1: ciphertexts of anything, true statements about the wrong   *)
(* ones, an invalid modulus.                                               *)
FaultyP1First ==
  /\ 1 \in setup.faulty /\ msg[1] = None
  /\ \E n \in {0, session}, v \in Draw, w \in Draw :
       \/ kind = "dkg" /\ Send(1, [com |-> Com(v), N |-> n, c_gen |-> Enc(n, w), c_key |-> Enc(n, v)])
       \/ kind = "dkg" /\ Send(1, [com |-> Com(v), N |-> n, c_gen |-> Enc(n, w), c_key |-> Enc(n, w)])
       \/ kind = "refresh" /\ Send(1, [com |-> Com(v), N_tag |-> n, c_key_tag |-> Enc(n, key[2].c.v + w - v)])

FaultyP1Third ==
  /\ 1 \in setup.faulty /\ msg[2] # None /\ msg[3] = None
  /\ \/ /\ kind = "dkg"
        /\ \E v \in Draw, w \in Draw :
             Send(3, [Q1 |-> v, pdl |-> PdlStatement(Enc(msg[1].N, w), w)])
     \/ /\ kind = "refresh"
        /\ \E rho1 \in Draw, v \in {key[2].c.v, msg[1].c_key_tag.v} :
             Send(3, [rho1 |-> rho1, equal |-> EqualStatement(Enc(key[2].c.n, v), Enc(msg[1].N_tag, v))])

(* A faulty P2: any share, points off the curve, batches of a wrong size,  *)
(* proved ciphertexts of another message, share, index or sign.            *)
FaultyP2Second ==
  /\ 2 \in setup.faulty /\ msg[1] # None /\ msg[2] = None
  /\ \/ kind = "dkg" /\ \E x \in Draw \union {0} : Send(2, [Q2 |-> x])
     \/ kind = "refresh" /\ \E x \in Draw : Send(2, [rho2 |-> x])
     \/ /\ kind \in Sign
        /\ \E n \in {Len(msgs[1]), Len(msgs[1]) + 1}, x \in Draw \union {0} : Send(2, [i \in 1 .. n |-> x])

FaultyItem(i) ==
  LET x2 == (key[1].Q - key[1].x) % q
      r == Nonce(msg[3][i], msg[2][i])
  IN {SignItem(key[1].c, x, msg[2][i], m, r, rho, j) :
        x \in {x2, (x2 + 1) % q}, m \in {msgs[1][i], (msgs[1][i] + 1) % q}, rho \in FaultyRho, j \in {i, 1}}
     \union {[c |-> Enc(key[1].c.n, 1), zk |-> SignItem(key[1].c, x2, msg[2][i], msgs[1][i], r, 0, i).zk]}

FaultyP2Fourth ==
  /\ 2 \in setup.faulty /\ kind \in Sign /\ msg[3] # None /\ msg[4] = None
  /\ \/ \E items \in [DOMAIN msgs[1] -> UNION {FaultyItem(i) : i \in DOMAIN msgs[1]}] :
          (\A i \in DOMAIN items : items[i] \in FaultyItem(i)) /\ Send(4, items)
     \/ Send(4, <<>>)

Steps ==
  \/ DkgStep1 \/ DkgStep2 \/ DkgStep3 \/ DkgStep4
  \/ RefreshStep1 \/ RefreshStep2 \/ RefreshStep3 \/ RefreshStep4
  \/ SignStep1 \/ SignStep2 \/ SignStep3 \/ SignStep4 \/ SignStep5
  \/ \E p \in Honest : PeerGone(p)

FaultySteps ==
  /\ FaultyP1First \/ FaultyP1Third \/ FaultyP2Second \/ FaultyP2Fourth
  /\ UNCHANGED <<key, lineage, pc, draw>>

Next ==
  \/ NewSession
  \/ (Steps \/ FaultySteps) /\ UNCHANGED <<setup, kind, session, msgs, errs>>
  \/ \E p \in Honest : TransportError(p) /\ UNCHANGED <<setup, kind, session, msgs>>

Spec == Init /\ [][Next]_vars

-----------------------------------------------------------------------------
TypeOK ==
  /\ key \in [Honest -> [x : 0 .. N - 1, Q : Zq, c : [n : 0 .. Len(setup.kinds), v : 0 .. N - 1]] \union {None}]
  /\ pc \in [Honest -> {"idle", "start", "sent", "opened", "done", "net", "crypto", "format", "unverified", "leak"}]
  /\ errs \in 0 .. setup.errs

BothHonest == setup.faulty = {}

(* Negligible for a real curve: a signature with s = 0, or P2's share 0.   *)
Degenerate ==
  \/ key[1].Q = key[1].x % q
  \/ msg[2] # None /\ \E i \in DOMAIN msgs[1] : (msgs[1][i] + Nonce(draw[1][i], msg[2][i]) * key[1].Q) % q = 0

(* P2's c_key always holds the discrete logarithm that completes its share *)
(* to the public key, however often the key was refreshed and even when P1 *)
(* is faulty; and when both parties' keys have the same history it holds   *)
(* P1's share as the integer P1 stores.                                    *)
CipherHoldsPeerShare ==
  /\ (2 \in Honest /\ key[2] # None) => (key[2].c.v + key[2].x) % q = key[2].Q
  /\ (BothHonest /\ key[1] # None /\ key[2] # None /\ lineage[1] = lineage[2]) =>
       key[1].c = key[2].c /\ key[1].x = key[2].c.v /\ key[1].Q = key[2].Q

(* Two honest parties that entered the session with keys of the same       *)
(* history, and with the same batch, reject nothing, however many          *)
(* refreshes made P1's share grow: only an error of the transport makes a  *)
(* call fail.                                                              *)
NoFalseAlarm ==
  (BothHonest /\ lineage[1] \ {session} = lineage[2] \ {session} /\ msgs[1] = msgs[2]) =>
    \A p \in Honest : \/ pc[p] \notin {"crypto", "format", "unverified", "leak"}
                      \/ kind \in Sign /\ Degenerate

(* E_ECDSA_2P_BIT_LEAK is never raised by callers that merely asked for    *)
(* different messages or batches: it takes a faulty P2, or keys that a     *)
(* failed refresh left apart.                                              *)
LeakNeedsFaultOrTornKey ==
  (1 \in Honest /\ pc[1] = "leak" /\ ~ Degenerate) => \/ 2 \in setup.faulty
                                                      \/ lineage[1] # lineage[2]

(* Outside global abort mode the final verification never fails, whatever  *)
(* P2 proves: a wrong ciphertext is refused before it is decrypted, a      *)
(* proved one completes to a signature.                                    *)
ProvedCiphertextsSign ==
  (1 \in Honest /\ pc[1] = "unverified") => Degenerate

(* The error code means that the peer cheated (SECURE_USAGE.md).           *)
LeakMeansCheating ==
  (1 \in Honest /\ pc[1] = "leak" /\ ~ Degenerate) => 2 \in setup.faulty
=============================================================================
