--------------------------- MODULE Ecdsa2pProofs ---------------------------
(***************************************************************************)
(* Two-party ECDSA: for every order q, modulus N and any sequence of       *)
(* sessions, errors and lies of one party, P2's ciphertext holds what      *)
(* completes its share to the public key (IndInv); and whatever P2 proves  *)
(* about the ciphertexts it signs with completes to a signature, so that   *)
(* the leak alarm needs a faulty peer or keys left apart (RunInv).         *)
(***************************************************************************)
EXTENDS Ecdsa2p, ArithTheorems

KeySession == kind \in {"dkg", "refresh"}
Done(p) == KeySession /\ pc[p] = "done"

(* The sessions and what they leave in the lineages.                       *)
Sessions ==
  /\ setup \in Setups /\ session \in 0 .. Len(setup.kinds)
  /\ DOMAIN key = Honest /\ DOMAIN pc = Honest /\ DOMAIN draw = Honest /\ DOMAIN msg = 1 .. 4
  /\ lineage \in [Honest -> SUBSET (1 .. session)]
  /\ kind \in {"none", "dkg", "refresh", "sign", "global_abort"}
  /\ kind = "none" <=> session = 0
  /\ \A p \in Honest : /\ session \in lineage[p] <=> Done(p)
                       /\ (kind = "refresh" /\ pc[p] \in {"start", "sent"}) => key[p] # None
                       /\ session = 0 => key[p] = None

(* A stored key.  P1's share stays an integer, as c_key has it; both grow  *)
(* by less than q with each session, so that c_key never wraps around N.   *)
KeyOk(p) ==
  LET k == key[p]
  IN  /\ k = [x |-> k.x, Q |-> k.Q, c |-> k.c]
      /\ k.x \in Nat /\ k.Q \in Zq /\ k.c.v \in Nat
      /\ k.c.v < q * session
      /\ ~ Done(p) => k.c.v < q * (session - 1)
      /\ p = 1 => k.x = k.c.v
      /\ p = 2 => k.x < q /\ (k.c.v + k.x) % q = k.Q

Keys == \A p \in Honest : key[p] # None => KeyOk(p)

(* What an honest P1 has sent in a session for keys.                       *)
First ==
  (1 \in Honest /\ KeySession) =>
    /\ pc[1] = "start" => msg[1] = None /\ msg[3] = None
    /\ pc[1] = "sent" => msg[3] = None
    /\ (msg[1] # None \/ pc[1] \in {"sent", "done"}) =>
         /\ draw[1] \in Draw /\ msg[1].com = Com(draw[1])
         /\ kind = "dkg" => msg[1].N = session /\ msg[1].c_key = Enc(session, draw[1])
         /\ kind = "refresh" => msg[1].c_key_tag.n = session
         /\ (kind = "refresh" /\ pc[1] = "sent") => msg[1].c_key_tag.v = key[1].x
    /\ msg[3] # None => pc[1] = "done"
    /\ pc[1] = "done" => msg[2] # None
    /\ (pc[1] = "done" /\ kind = "dkg") =>
         /\ msg[3].Q1 = draw[1] /\ key[1].Q = (draw[1] + msg[2].Q2) % q
         /\ key[1].c = msg[1].c_key
    /\ (pc[1] = "done" /\ kind = "refresh") =>
         /\ msg[3].rho1 = draw[1]
         /\ key[1].c = Enc(session, msg[1].c_key_tag.v + ((draw[1] + msg[2].rho2) % q))

Second ==
  (2 \in Honest /\ KeySession) =>
    /\ pc[2] = "start" => msg[2] = None
    /\ (msg[2] # None \/ pc[2] \in {"sent", "done"}) =>
         /\ draw[2] \in Draw /\ msg[1] # None
         /\ kind = "dkg" => msg[2].Q2 = draw[2]
         /\ kind = "refresh" => msg[2].rho2 = draw[2]
    /\ pc[2] = "done" => msg[3] # None
    /\ msg[3] # None => msg[1] # None

(* Statements that were proved are true, of whichever P1.                  *)
Proved ==
  /\ (2 \in Honest /\ kind = "dkg" /\ msg[3] # None) =>
       \E w \in Draw : msg[3].pdl = PdlStatement(Enc(msg[1].N, w), w)
  /\ (2 \in Honest /\ kind = "refresh" /\ msg[3] # None) =>
       msg[3].rho1 \in Draw /\ msg[3].equal[1].v = msg[3].equal[2].v
  /\ (kind = "refresh" /\ msg[2] # None) => msg[2].rho2 \in Draw

(* Parties that entered a refresh with keys of one history have one Q.     *)
Matched ==
  (BothHonest /\ kind = "refresh" /\ lineage[1] \ {session} = lineage[2] \ {session}
   /\ key[1] # None /\ key[2] # None) => key[1].Q = key[2].Q

IndInv ==
  Sessions /\ Keys /\ First /\ Second /\ Proved /\ Matched /\ CipherHoldsPeerShare

-----------------------------------------------------------------------------
(* The constants as numbers.                                               *)
LEMMA Numbers == q \in Nat \ {0} /\ N \in Nat \ {0} /\ Draw \subseteq 1 .. q - 1 /\ Draw \subseteq Nat
<1>1. q \in Nat /\ q > 2 /\ N \in Nat /\ N % 2 = 1 /\ Draw \subseteq 1 .. q - 1
  BY ConstantTypes
<1> QED
  BY <1>1

(* q * (s + 1) is q * s and q more.                                        *)
LEMMA OneMore ==
  ASSUME NEW s \in Int
  PROVE  q * s = q * (s - 1) + q
<1>1. q \in Int /\ s - 1 \in Int /\ 1 \in Int
  BY Numbers
<1>2. q * (s - 1) + q * 1 = q * ((s - 1) + 1)
  BY <1>1, Distribute
<1> QED
  BY <1>1, <1>2

(* A product grows with a factor.                                          *)
LEMMA TimesMono ==
  ASSUME NEW a \in Nat, NEW b \in Nat, NEW c \in Nat, a <= b
  PROVE  a * c <= b * c /\ c * a <= c * b /\ a * c \in Nat /\ b * c \in Nat
<1>1. (b - a) * c \in Nat /\ a * c \in Nat /\ b * c \in Nat
  <2>1. b - a \in Nat
    OBVIOUS
  <2> QED
    BY <2>1
<1>2. (b - a) * c = b * c - a * c
  OBVIOUS
<1>3. c * a = a * c /\ c * b = b * c
  OBVIOUS
<1>4. a * c <= b * c
  BY <1>1, <1>2
<1> QED
  BY <1>1, <1>3, <1>4

(* N leaves room for eight times q^3 2^(2 STAT).                           *)
LEMMA ModulusLong == q * q * q * 2 ^ (2 * SEC_P_STAT) \in Nat /\ 8 * (q * q * q * 2 ^ (2 * SEC_P_STAT)) < N
<1> DEFINE S == 2 ^ SEC_P_STAT
           W == 2 ^ (3 * SEC_P_STAT + SEC_P_COM + 1)
           C == q * q * q
<1>1. S \in Nat /\ S >= 2 /\ 2 ^ (2 * SEC_P_STAT) = S * S /\ W \in Nat /\ W >= 4 * (S * S * S)
  BY Powers
<1>2. q \in Nat /\ N \in Nat /\ N > C * W
  BY ConstantTypes
<1> HIDE DEF S, W
<1>3. C \in Nat /\ S * S \in Nat
  BY <1>1, <1>2
<1>4. 8 * (S * S) <= W
  <2>1. 2 * (S * S) <= S * (S * S)
    BY <1>1, <1>3, TimesMono
  <2>2. S * (S * S) = S * S * S
    BY <1>1
  <2>3. S * S * S \in Nat
    BY <1>1
  <2> QED
    BY <1>1, <1>3, <2>1, <2>2, <2>3
<1>5. 8 * (S * S) \in Nat
  BY <1>3
<1>6. C * (8 * (S * S)) <= C * W /\ C * (S * S) \in Nat
  BY <1>1, <1>3, <1>4, <1>5, TimesMono
<1>7. C * (8 * (S * S)) = 8 * (C * (S * S))
  BY <1>3
<1>8. C * W \in Nat
  BY <1>1, <1>3
<1>9. 8 * (C * (S * S)) < N /\ C * (S * S) \in Nat
  BY <1>2, <1>6, <1>7, <1>8
<1> QED
  BY <1>1, <1>9

(* All the sessions there may be fit q times into N.                       *)
LEMMA SessionsFit ==
  ASSUME setup \in Setups
  PROVE  /\ Len(setup.kinds) \in Nat /\ q * Len(setup.kinds) < N /\ q * Len(setup.kinds) \in Nat
         /\ q * Len(setup.kinds) <= q * 2 ^ (2 * SEC_P_STAT) /\ q * 2 ^ (2 * SEC_P_STAT) \in Nat
<1> DEFINE L == Len(setup.kinds)
           E == 2 ^ (2 * SEC_P_STAT)
           qE == q * E
<1>1. L \in Nat /\ L <= E
  BY SetupTypes
<1>2. E \in Nat
  <2> DEFINE S == 2 ^ SEC_P_STAT
  <2>1. S \in Nat /\ E = S * S
    BY Powers
  <2> HIDE DEF S, E
  <2> QED
    BY <2>1
<1>3. q * q * q * E \in Nat /\ 8 * (q * q * q * E) < N
  BY ModulusLong
<1> HIDE DEF L, E
<1>4. q \in Nat /\ 1 <= q /\ N \in Nat
  BY Numbers
<1>5. q * L <= q * E /\ q * L \in Nat /\ q * E \in Nat
  BY <1>1, <1>2, <1>4, TimesMono
<1>6. qE <= q * qE /\ q * qE \in Nat /\ q * qE <= q * (q * qE)
  <2> HIDE DEF qE
  <2>0. qE \in Nat
    BY <1>5 DEF qE
  <2>1. qE <= q * qE /\ q * qE \in Nat
    <3>1. 1 * qE <= q * qE /\ q * qE \in Nat
      BY <1>4, <2>0, TimesMono
    <3> QED
      BY <2>0, <3>1
  <2>2. q * qE <= q * (q * qE)
    BY <1>4, <2>0, <2>1, TimesMono
  <2> QED
    BY <2>1, <2>2
<1>7. q * (q * qE) = q * q * q * E /\ qE \in Nat
  BY <1>2, <1>4
<1>8. qE < N
  <2> HIDE DEF qE
  <2> QED
    BY <1>3, <1>4, <1>6, <1>7
<1> QED
  BY <1>1, <1>4, <1>5, <1>8 DEF L, E

(* A number below q times the sessions so far is its own residue modulo N. *)
LEMMA NoWrap ==
  ASSUME setup \in Setups, session \in 0 .. Len(setup.kinds), NEW v \in Nat, v < q * session
  PROVE  v % N = v
<1> DEFINE L == Len(setup.kinds)
<1>1. L \in Nat /\ q * L < N
  BY SessionsFit
<1>2. session \in 0 .. L
  OBVIOUS
<1> HIDE DEF L
<1>3. q * L - q * session = q * (L - session)
  BY <1>1, <1>2, Distribute, Numbers
<1>4. q * (L - session) \in Nat
  BY <1>1, <1>2, Numbers
<1>5. q * session \in Int /\ q * L \in Int
  BY <1>1, <1>2, Numbers
<1>6. N \in Nat \ {0} /\ v \in 0 .. N - 1
  BY <1>1, <1>3, <1>4, <1>5, Numbers
<1> QED
  BY <1>6, ModSmall

(* Adding a residue to a share of the sessions before.                     *)
LEMMA Grown ==
  ASSUME setup \in Setups, session \in 0 .. Len(setup.kinds), NEW v \in Nat, v < q * (session - 1),
         NEW r \in 0 .. q - 1
  PROVE  v + r \in Nat /\ v + r < q * session /\ (v + r) % N = v + r
<1>0. session \in Int
  OBVIOUS
<1>1. q * session = q * (session - 1) + q /\ q * (session - 1) \in Int
  BY <1>0, OneMore, Numbers
<1>2. v + r \in Nat /\ v + r < q * session
  BY <1>1, Numbers
<1>3. (v + r) % N = v + r
  BY <1>2, NoWrap
<1> QED
  BY <1>2, <1>3

(* A drawn scalar is below q times any number of sessions but none.        *)
LEMMA Drawn ==
  ASSUME setup \in Setups, session \in 1 .. Len(setup.kinds), NEW w \in Draw
  PROVE  w \in Nat /\ w < q * session /\ w % N = w
<1>0. session \in 0 .. Len(setup.kinds) /\ session - 1 \in Nat /\ session \in Int
  BY SetupTypes
<1>1. q * session = q * (session - 1) + q /\ q * (session - 1) \in Nat
  BY <1>0, OneMore, Numbers
<1>2. w \in Nat /\ w < q * session
  BY <1>1, Numbers
<1>3. w % N = w
  BY <1>0, <1>2, NoWrap
<1> QED
  BY <1>2, <1>3

(* P2's share less a residue and the ciphertext plus it sum to the same.   *)
LEMMA ShiftCancels ==
  ASSUME NEW x \in Int, NEW v \in Int, NEW r \in Int
  PROVE  ((v + r) + ((x - r) % q)) % q = (v + x) % q
<1> DEFINE y == (x - r) % q
<1>1. y \in Int /\ x - r \in Int /\ v + r \in Int
  BY Numbers, ModDef
<1>2. (y + (v + r)) % q = ((x - r) + (v + r)) % q
  BY <1>1, Numbers, ModSum
<1>3. (x - r) + (v + r) = v + x
  OBVIOUS
<1> HIDE DEF y
<1>4. (v + r) + y = y + (v + r)
  BY <1>1
<1>5. ((v + r) + y) % q = (v + x) % q
  BY <1>2, <1>3, <1>4
<1> QED
  BY <1>5 DEF y

-----------------------------------------------------------------------------
(* Before the first session there is nothing to relate.                    *)
LEMMA InitInv ==
  ASSUME Init
  PROVE  IndInv
<1>1. setup.kinds \in Seq(SUBSET {"dkg", "refresh", "sign", "global_abort"})
  BY SetupTypes DEF Init
<1>2. Len(setup.kinds) \in Nat
  BY <1>1
<1>3. 1 \in Honest => key[1] = None
  BY DEF Init
<1>4. 2 \in Honest => key[2] = None
  BY DEF Init
<1>5. Honest \subseteq {1, 2}
  BY DEF Honest
<1>6. Sessions
  BY <1>2 DEF Init, Sessions, Done, KeySession
<1>7. Keys
  BY DEF Init, Keys
<1>8. First /\ Second /\ Proved /\ Matched
  BY DEF Init, First, Second, Proved, Matched, KeySession
<1>9. BothHonest => 1 \in Honest
  BY DEF BothHonest, Honest
<1>10. CipherHoldsPeerShare
  BY <1>3, <1>4, <1>9 DEF CipherHoldsPeerShare
<1> QED
  BY <1>6, <1>7, <1>8, <1>10 DEF IndInv

(* Signing leaves the keys alone.                                          *)
LEMMA SigningInv ==
  ASSUME IndInv, kind \in Sign, UNCHANGED <<setup, key, lineage, kind, session>>,
         DOMAIN pc' = Honest, DOMAIN draw' = Honest, DOMAIN msg' = 1 .. 4
  PROVE  IndInv'
<1>1. ~ KeySession /\ ~ KeySession' /\ Honest' = Honest /\ (BothHonest' <=> BothHonest)
  BY DEF KeySession, Sign, Honest, BothHonest
<1>2. \A p : ~ Done(p) /\ ~ Done(p)'
  BY <1>1 DEF Done
<1>3. Sessions'
  BY <1>1, <1>2 DEF Sessions, IndInv, Sign
<1>4. Keys'
  <2> SUFFICES ASSUME NEW p \in Honest, key[p] # None PROVE KeyOk(p)'
    BY <1>1 DEF Keys
  <2>1. KeyOk(p)
    BY DEF IndInv, Keys
  <2> QED
    BY <1>2, <2>1 DEF KeyOk
<1>5. First' /\ Second' /\ Proved' /\ Matched'
  BY <1>1 DEF First, Second, Proved, Matched, Sign
<1>6. CipherHoldsPeerShare'
  BY <1>1 DEF IndInv, CipherHoldsPeerShare
<1> QED
  BY <1>3, <1>4, <1>5, <1>6 DEF IndInv

(* A call that fails keeps the key it was given.                           *)
LEMMA FailInv ==
  ASSUME IndInv, NEW p \in Honest, Running(p), NEW code \in {"net", "crypto"}, Fail(p, code),
         UNCHANGED <<setup, kind, session>>
  PROVE  IndInv'
<1>1. Honest' = Honest /\ (BothHonest' <=> BothHonest) /\ (KeySession' <=> KeySession)
  BY DEF Honest, BothHonest, KeySession
<1>2. DOMAIN pc = Honest /\ pc' = [pc EXCEPT ![p] = code] /\ UNCHANGED <<key, lineage, draw, msg>>
  BY DEF IndInv, Sessions, Fail, Enter
<1>3. pc'[p] = code /\ \A j \in Honest \ {p} : pc'[j] = pc[j]
  BY <1>2
<1>4. \A j \in Honest : Done(j)' <=> Done(j)
  BY <1>1, <1>3 DEF Done, Running
<1>5. \A j \in Honest : pc'[j] = pc[j] \/ pc'[j] \notin {"start", "sent", "done"}
  BY <1>3
<1>6. Sessions'
  BY <1>1, <1>2, <1>4, <1>5 DEF Sessions, IndInv
<1>7. Keys'
  <2> SUFFICES ASSUME NEW j \in Honest, key[j] # None PROVE KeyOk(j)'
    BY <1>1, <1>2 DEF Keys
  <2>1. KeyOk(j)
    BY DEF IndInv, Keys
  <2> QED
    BY <1>2, <1>4, <2>1 DEF KeyOk
<1>8. msg[3] # None /\ 1 \in Honest /\ KeySession => pc'[1] = "done"
  BY <1>3 DEF IndInv, First, Running
<1>9. First'
  BY <1>1, <1>2, <1>5, <1>8 DEF First, IndInv
<1>10. Second'
  BY <1>1, <1>2, <1>5 DEF Second, IndInv
<1>11. Proved' /\ Matched' /\ CipherHoldsPeerShare'
  BY <1>1, <1>2 DEF IndInv, Proved, Matched, CipherHoldsPeerShare
<1> QED
  BY <1>6, <1>7, <1>9, <1>10, <1>11 DEF IndInv

(* The next session starts from the keys the last one left.                *)
LEMMA NewSessionInv ==
  ASSUME IndInv, NewSession
  PROVE  IndInv'
<1>1. Honest' = Honest /\ (BothHonest' <=> BothHonest) /\ UNCHANGED <<setup, key, lineage>>
  BY DEF NewSession, Honest, BothHonest
<1>2. /\ setup \in Setups /\ Len(setup.kinds) \in Nat /\ session \in 0 .. Len(setup.kinds) - 1
      /\ setup.kinds # <<>>
      /\ setup.kinds[session + 1] \subseteq {"dkg", "refresh", "sign", "global_abort"}
  BY SetupTypes DEF IndInv, Sessions, NewSession
<1>3. session' = session + 1 /\ session' \in 1 .. Len(setup.kinds)
  BY <1>2 DEF NewSession
<1>4. kind' \in setup.kinds[session + 1]
  BY DEF NewSession
<1>5. kind' \in {"dkg", "refresh", "sign", "global_abort"} /\ (session = 0 => kind' = "dkg")
  BY <1>2, <1>4, SetupTypes
<1>6. /\ DOMAIN pc' = Honest /\ \A p \in Honest : pc'[p] \in {"start", "format"}
      /\ msg' = [k \in 1 .. 4 |-> None] /\ DOMAIN draw' = Honest
  BY DEF NewSession
<1>7. \A p \in Honest : ~ Done(p)'
  BY <1>1, <1>6 DEF Done
<1>8. \A p \in Honest : lineage[p] \subseteq 1 .. session /\ session' \notin lineage[p]
  BY <1>2, <1>3 DEF IndInv, Sessions
<1>9. Sessions'
  <2>1. lineage' \in [Honest -> SUBSET (1 .. session')]
    BY <1>1, <1>2, <1>3 DEF IndInv, Sessions
  <2>2. session > 0 => \A p \in Honest : key[p] # None
    BY DEF NewSession
  <2> QED
    BY <1>1, <1>2, <1>3, <1>5, <1>6, <1>7, <1>8, <2>1, <2>2 DEF IndInv, Sessions
<1>10. Keys'
  <2> SUFFICES ASSUME NEW p \in Honest, key[p] # None PROVE KeyOk(p)'
    BY <1>1 DEF Keys
  <2>1. KeyOk(p)
    BY DEF IndInv, Keys
  <2>2. q * (session + 1) = q * session + q /\ q * session \in Int /\ q \in Nat
    BY <1>2, OneMore, Numbers
  <2>3. key[p].c.v < q * session' /\ key[p].c.v < q * (session' - 1)
    BY <1>2, <1>3, <2>1, <2>2 DEF KeyOk
  <2> QED
    BY <1>1, <2>1, <2>3 DEF KeyOk, Zq
<1>11. First' /\ Second' /\ Proved'
  <2>1. msg'[1] = None /\ msg'[2] = None /\ msg'[3] = None
    BY <1>6
  <2> QED
    BY <1>1, <1>6, <2>1 DEF First, Second, Proved
<1>12. CipherHoldsPeerShare'
  BY <1>1 DEF IndInv, CipherHoldsPeerShare
<1>13. Matched'
  <2> SUFFICES ASSUME BothHonest, lineage[1] \ {session'} = lineage[2] \ {session'},
                      key[1] # None, key[2] # None
               PROVE  key[1].Q = key[2].Q
    BY <1>1 DEF Matched
  <2>1. 1 \in Honest /\ 2 \in Honest
    BY DEF BothHonest, Honest
  <2>2. lineage[1] = lineage[2]
    BY <1>8, <2>1
  <2> QED
    BY <2>2 DEF IndInv, CipherHoldsPeerShare
<1> QED
  BY <1>9, <1>10, <1>11, <1>12, <1>13 DEF IndInv

(* A step of a session for keys that stores none.                          *)
LEMMA KeptInv ==
  ASSUME IndInv, UNCHANGED <<setup, key, lineage, kind, session>>,
         DOMAIN pc' = Honest, DOMAIN draw' = Honest, DOMAIN msg' = 1 .. 4,
         \A p \in Honest : \/ pc'[p] = pc[p]
                           \/ pc'[p] = "sent" /\ pc[p] = "start"
  PROVE  Sessions' /\ Keys' /\ Matched' /\ CipherHoldsPeerShare'
<1>1. Honest' = Honest /\ (BothHonest' <=> BothHonest) /\ (KeySession' <=> KeySession)
  BY DEF Honest, BothHonest, KeySession
<1>2. \A p \in Honest : Done(p)' <=> Done(p)
  BY <1>1 DEF Done
<1>3. Sessions'
  BY <1>1, <1>2 DEF IndInv, Sessions
<1>4. Keys'
  <2> SUFFICES ASSUME NEW p \in Honest, key[p] # None PROVE KeyOk(p)'
    BY <1>1 DEF Keys
  <2>1. KeyOk(p)
    BY DEF IndInv, Keys
  <2> QED
    BY <1>2, <2>1 DEF KeyOk
<1>5. Matched' /\ CipherHoldsPeerShare'
  BY <1>1 DEF IndInv, Matched, CipherHoldsPeerShare
<1> QED
  BY <1>3, <1>4, <1>5

(* The lies of a faulty party in a session for keys.                       *)
LEMMA FaultyInv ==
  ASSUME IndInv, FaultySteps, UNCHANGED <<setup, kind, session, msgs, errs>>
  PROVE  IndInv'
<1>1. /\ Honest' = Honest /\ (BothHonest' <=> BothHonest) /\ (KeySession' <=> KeySession)
      /\ UNCHANGED <<setup, key, lineage, kind, session, pc, draw>>
  BY DEF Honest, BothHonest, KeySession, FaultySteps
<1>2. DOMAIN msg = 1 .. 4 /\ DOMAIN pc = Honest /\ DOMAIN draw = Honest
  BY DEF IndInv, Sessions
<1>3. DOMAIN msg' = 1 .. 4
  BY <1>2 DEF FaultySteps, FaultyP1First, FaultyP1Third, FaultyP2Second, FaultyP2Fourth, Send
<1>4. CASE kind \in Sign
  BY <1>1, <1>2, <1>3, <1>4, SigningInv
<1>5. Sessions' /\ Keys' /\ Matched' /\ CipherHoldsPeerShare'
  BY <1>1, <1>2, <1>3, KeptInv
<1>6. CASE kind \notin Sign /\ FaultyP1First
  <2>1. 1 \notin Honest /\ msg[1] = None /\ KeySession
    BY <1>6 DEF FaultyP1First, Honest, KeySession
  <2>2. msg'[2] = msg[2] /\ msg'[3] = msg[3]
    BY <1>2, <1>6 DEF FaultyP1First, Send
  <2>3. 2 \in Honest => msg[2] = None /\ msg[3] = None /\ pc[2] \notin {"sent", "done"}
    BY <2>1 DEF IndInv, Second
  <2>4. First'
    BY <1>1, <2>1 DEF First
  <2>5. Second'
    BY <1>1, <2>2, <2>3 DEF Second, IndInv
  <2>6. Proved'
    BY <1>1, <2>2, <2>3 DEF Proved, IndInv
  <2> QED
    BY <1>5, <2>4, <2>5, <2>6 DEF IndInv
<1>7. CASE kind \notin Sign /\ FaultyP1Third
  <2>1. 1 \notin Honest /\ msg[2] # None /\ msg[3] = None /\ KeySession
    BY <1>7 DEF FaultyP1Third, Honest, KeySession
  <2>2. msg'[1] = msg[1] /\ msg'[2] = msg[2]
    BY <1>2, <1>7 DEF FaultyP1Third, Send
  <2>3. First'
    BY <1>1, <2>1 DEF First
  <2>4. Second'
    BY <1>1, <2>1, <2>2 DEF Second, IndInv
  <2>5. kind = "dkg" => \E w \in Draw : msg'[3].pdl = PdlStatement(Enc(msg[1].N, w), w)
    <3> SUFFICES ASSUME kind = "dkg" PROVE \E w \in Draw : msg'[3].pdl = PdlStatement(Enc(msg[1].N, w), w)
      OBVIOUS
    <3>1. PICK v \in Draw, w \in Draw : Send(3, [Q1 |-> v, pdl |-> PdlStatement(Enc(msg[1].N, w), w)])
      BY <1>7 DEF FaultyP1Third
    <3> QED
      BY <1>2, <3>1 DEF Send
  <2>6. kind = "refresh" => msg'[3].rho1 \in Draw /\ msg'[3].equal[1].v = msg'[3].equal[2].v
    <3> SUFFICES ASSUME kind = "refresh" PROVE msg'[3].rho1 \in Draw /\ msg'[3].equal[1].v = msg'[3].equal[2].v
      OBVIOUS
    <3>1. PICK rho1 \in Draw, v \in {key[2].c.v, msg[1].c_key_tag.v} :
             Send(3, [rho1 |-> rho1, equal |-> EqualStatement(Enc(key[2].c.n, v), Enc(msg[1].N_tag, v))])
      BY <1>7 DEF FaultyP1Third
    <3> QED
      BY <1>2, <3>1 DEF Send, EqualStatement, Enc
  <2>7. Proved'
    BY <1>1, <2>2, <2>5, <2>6 DEF Proved, IndInv
  <2> QED
    BY <1>5, <2>3, <2>4, <2>7 DEF IndInv
<1>8. CASE kind \notin Sign /\ FaultyP2Second
  <2>1. 2 \notin Honest /\ msg[2] = None /\ KeySession
    BY <1>8 DEF FaultyP2Second, Honest, KeySession
  <2>2. msg'[1] = msg[1] /\ msg'[3] = msg[3]
    BY <1>2, <1>8 DEF FaultyP2Second, Send
  <2>3. kind = "refresh" => msg'[2].rho2 \in Draw
    BY <1>2, <1>8 DEF FaultyP2Second, Send
  <2>4. Second' /\ Proved'
    BY <1>1, <2>1, <2>3 DEF Second, Proved
  <2>5. First'
    BY <1>1, <2>1, <2>2 DEF First, IndInv
  <2> QED
    BY <1>5, <2>4, <2>5 DEF IndInv
<1> QED
  BY <1>4, <1>6, <1>7, <1>8 DEF FaultySteps, FaultyP2Fourth

(* A party that completes a session for keys.                              *)
LEMMA StoredInv ==
  ASSUME IndInv, KeySession, NEW p \in Honest, pc[p] = "sent", NEW k, Store(p, k),
         UNCHANGED <<setup, kind, session, draw>>, DOMAIN msg' = 1 .. 4
  PROVE  /\ Sessions' /\ (KeyOk(p)' => Keys')
         /\ key'[p] = k /\ pc'[p] = "done" /\ lineage'[p] = lineage[p] \union {session}
         /\ \A j \in Honest \ {p} : key'[j] = key[j] /\ pc'[j] = pc[j] /\ lineage'[j] = lineage[j]
<1>1. /\ DOMAIN pc = Honest /\ DOMAIN key = Honest /\ lineage \in [Honest -> SUBSET (1 .. session)]
      /\ setup \in Setups /\ session \in 0 .. Len(setup.kinds) /\ (kind = "none" <=> session = 0)
  BY DEF IndInv, Sessions
<1>2. /\ key' = [key EXCEPT ![p] = k] /\ pc' = [pc EXCEPT ![p] = "done"]
      /\ lineage' = [lineage EXCEPT ![p] = @ \union {session}]
  BY DEF Store, Enter
<1>3. /\ key'[p] = k /\ pc'[p] = "done" /\ lineage'[p] = lineage[p] \union {session}
      /\ \A j \in Honest \ {p} : key'[j] = key[j] /\ pc'[j] = pc[j] /\ lineage'[j] = lineage[j]
      /\ DOMAIN pc' = Honest /\ DOMAIN key' = Honest /\ DOMAIN lineage' = Honest
  BY <1>1, <1>2
<1>4. Honest' = Honest /\ KeySession'
  BY DEF Honest, KeySession
<1>5. session \in 1 .. session
  <2>1. Len(setup.kinds) \in Nat
    BY <1>1, SetupTypes
  <2>2. session # 0
    BY <1>1 DEF KeySession
  <2> QED
    BY <1>1, <2>1, <2>2
<1>6. lineage' \in [Honest -> SUBSET (1 .. session)]
  BY <1>1, <1>2, <1>5
<1>7. Done(p)' /\ \A j \in Honest \ {p} : Done(j)' <=> Done(j)
  BY <1>3, <1>4 DEF Done, KeySession
<1>8. \A j \in Honest : session \in lineage'[j] <=> Done(j)'
  BY <1>3, <1>7 DEF IndInv, Sessions
<1>9. \A j \in Honest : (kind = "refresh" /\ pc'[j] \in {"start", "sent"}) => key'[j] # None
  BY <1>3 DEF IndInv, Sessions
<1>10. \A j \in Honest : session # 0
  BY <1>1 DEF KeySession
<1>11. Sessions'
  BY <1>3, <1>4, <1>6, <1>8, <1>9, <1>10 DEF IndInv, Sessions
<1>12. ASSUME KeyOk(p)' PROVE Keys'
  <2> SUFFICES ASSUME NEW j \in Honest \ {p}, key[j] # None PROVE KeyOk(j)'
    BY <1>3, <1>4, <1>12 DEF Keys
  <2>1. KeyOk(j)
    BY DEF IndInv, Keys
  <2> QED
    BY <1>3, <1>7, <2>1 DEF KeyOk
<1> QED
  BY <1>3, <1>11, <1>12

-----------------------------------------------------------------------------
(* One lemma for each step of a dkg and of a refresh.                      *)
LEMMA DkgStep1Inv ==
  ASSUME IndInv, DkgStep1, UNCHANGED <<setup, kind, session, msgs, errs>>
  PROVE  IndInv'
<1>1. /\ 1 \in Honest /\ kind = "dkg" /\ pc[1] = "start" /\ KeySession
      /\ UNCHANGED <<setup, kind, session, key, lineage>>
  BY DEF DkgStep1, At, KeySession
<1>2. Honest' = Honest /\ KeySession'
  BY <1>1 DEF Honest, KeySession
<1>3. DOMAIN pc = Honest /\ DOMAIN draw = Honest /\ DOMAIN msg = 1 .. 4
  BY DEF IndInv, Sessions
<1>4. PICK x \in Draw :
        /\ draw' = [draw EXCEPT ![1] = x]
        /\ Send(1, [com |-> Com(x), N |-> session, c_gen |-> Enc(session, x), c_key |-> Enc(session, x)])
  BY DEF DkgStep1
<1>5. pc' = [pc EXCEPT ![1] = "sent"]
  BY DEF DkgStep1, Enter
<1>6. /\ DOMAIN pc' = Honest /\ DOMAIN draw' = Honest /\ DOMAIN msg' = 1 .. 4
      /\ pc'[1] = "sent" /\ draw'[1] = x
      /\ 2 \in Honest => pc'[2] = pc[2] /\ draw'[2] = draw[2]
      /\ msg'[2] = msg[2] /\ msg'[3] = msg[3]
      /\ msg'[1] = [com |-> Com(x), N |-> session, c_gen |-> Enc(session, x), c_key |-> Enc(session, x)]
  BY <1>1, <1>3, <1>4, <1>5 DEF Send
<1>7. Honest \subseteq {1, 2}
  BY DEF Honest
<1>8. Sessions' /\ Keys' /\ Matched' /\ CipherHoldsPeerShare'
  BY <1>1, <1>6, <1>7, KeptInv
<1>9. msg[1] = None /\ msg[3] = None /\ (2 \in Honest => msg[2] = None /\ pc[2] \notin {"sent", "done"})
  BY <1>1 DEF IndInv, First, Second
<1>10. First'
  BY <1>1, <1>2, <1>6, <1>9 DEF First
<1>11. Second'
  BY <1>1, <1>2, <1>6, <1>9 DEF Second, IndInv
<1>12. Proved'
  BY <1>1, <1>6, <1>9 DEF Proved
<1> QED
  BY <1>8, <1>10, <1>11, <1>12 DEF IndInv

LEMMA DkgStep2Inv ==
  ASSUME IndInv, DkgStep2, UNCHANGED <<setup, kind, session, msgs, errs>>
  PROVE  IndInv'
<1>1. 2 \in Honest /\ kind = "dkg" /\ pc[2] = "start" /\ KeySession /\ msg[1] # None
  BY DEF DkgStep2, At, KeySession
<1>2. CASE Fail(2, "crypto")
  BY <1>1, <1>2, FailInv DEF Running
<1>3. CASE ~ Fail(2, "crypto")
  <2>1. PICK x \in Draw : draw' = [draw EXCEPT ![2] = x] /\ Send(2, [Q2 |-> x])
    BY <1>3 DEF DkgStep2
  <2>2. pc' = [pc EXCEPT ![2] = "sent"] /\ UNCHANGED <<key, lineage>>
    BY <1>3 DEF DkgStep2, Enter
  <2>3. DOMAIN pc = Honest /\ DOMAIN draw = Honest /\ DOMAIN msg = 1 .. 4
    BY DEF IndInv, Sessions
  <2>4. /\ DOMAIN pc' = Honest /\ DOMAIN draw' = Honest /\ DOMAIN msg' = 1 .. 4
        /\ pc'[2] = "sent" /\ draw'[2] = x
        /\ 1 \in Honest => pc'[1] = pc[1] /\ draw'[1] = draw[1]
        /\ msg'[1] = msg[1] /\ msg'[3] = msg[3] /\ msg'[2] = [Q2 |-> x]
    BY <1>1, <2>1, <2>2, <2>3 DEF Send
  <2>5. Honest \subseteq {1, 2} /\ Honest' = Honest
    BY DEF Honest
  <2>6. Sessions' /\ Keys' /\ Matched' /\ CipherHoldsPeerShare'
    BY <1>1, <2>2, <2>4, <2>5, KeptInv
  <2>7. msg[2] = None /\ (msg[3] # None => msg[1] # None)
    BY <1>1 DEF IndInv, Second
  <2>8. 1 \in Honest => pc[1] # "done"
    BY <1>1, <2>7 DEF IndInv, First
  <2>9. First'
    BY <1>1, <2>2, <2>4, <2>5, <2>7, <2>8 DEF First, IndInv, KeySession
  <2>10. Second'
    BY <1>1, <2>4 DEF Second
  <2>11. Proved'
    BY <1>1, <2>4, <2>5 DEF Proved, IndInv
  <2> QED
    BY <2>6, <2>9, <2>10, <2>11 DEF IndInv
<1> QED
  BY <1>2, <1>3

LEMMA DkgStep3Inv ==
  ASSUME IndInv, DkgStep3, UNCHANGED <<setup, kind, session, msgs, errs>>
  PROVE  IndInv'
<1>1. 1 \in Honest /\ kind = "dkg" /\ pc[1] = "sent" /\ KeySession /\ msg[2] # None
  BY DEF DkgStep3, At, KeySession
<1>2. CASE Fail(1, "crypto")
  BY <1>1, <1>2, FailInv DEF Running
<1>3. CASE ~ Fail(1, "crypto")
  <2> DEFINE new == [x |-> draw[1], Q |-> (draw[1] + msg[2].Q2) % q, c |-> msg[1].c_key]
  <2>1. /\ OnCurve(msg[2].Q2) /\ Store(1, new) /\ UNCHANGED draw
        /\ msg' = [msg EXCEPT ![3] = [Q1 |-> draw[1], pdl |-> PdlStatement(msg[1].c_key, draw[1])]]
    BY <1>3 DEF DkgStep3, Send
  <2>2. DOMAIN msg = 1 .. 4 /\ setup \in Setups /\ session \in 1 .. Len(setup.kinds)
    <3>1. setup \in Setups /\ DOMAIN msg = 1 .. 4 /\ session \in 0 .. Len(setup.kinds) /\ session # 0
      BY <1>1 DEF IndInv, Sessions
    <3>2. Len(setup.kinds) \in Nat
      BY <3>1, SetupTypes
    <3> QED
      BY <3>1, <3>2
  <2>3. /\ DOMAIN msg' = 1 .. 4 /\ msg'[1] = msg[1] /\ msg'[2] = msg[2]
        /\ msg'[3] = [Q1 |-> draw[1], pdl |-> PdlStatement(msg[1].c_key, draw[1])]
    BY <2>1, <2>2
  <2>4. draw[1] \in Draw /\ msg[1].N = session /\ msg[1].c_key = Enc(session, draw[1]) /\ msg[3] = None
        /\ msg[1].com = Com(draw[1])
    BY <1>1 DEF IndInv, First
  <2>5. /\ Sessions' /\ (KeyOk(1)' => Keys')
        /\ key'[1] = new /\ pc'[1] = "done" /\ lineage'[1] = lineage[1] \union {session}
        /\ \A j \in Honest \ {1} : key'[j] = key[j] /\ pc'[j] = pc[j] /\ lineage'[j] = lineage[j]
    BY <1>1, <2>1, <2>3, StoredInv
  <2>6. draw[1] \in Nat /\ draw[1] < q * session /\ draw[1] % N = draw[1]
    BY <2>2, <2>4, Drawn
  <2>7. (draw[1] + msg[2].Q2) % q \in Zq
    <3>1. msg[2].Q2 \in Int
      BY <2>1, Numbers DEF OnCurve, Zq
    <3>2. draw[1] + msg[2].Q2 \in Int
      BY <2>6, <3>1
    <3> QED
      BY <3>2, Numbers, ModDef DEF Zq
  <2>8. Done(1)' /\ Honest' = Honest
    BY <1>1, <2>5 DEF Done, KeySession, Honest
  <2>9. KeyOk(1)'
    <3>1. new.c.v = draw[1] /\ new.x = draw[1] /\ new.Q \in Zq
      BY <2>4, <2>6, <2>7 DEF Enc
    <3>2. new = [x |-> new.x, Q |-> new.Q, c |-> new.c]
      OBVIOUS
    <3> HIDE DEF new
    <3> QED
      BY <2>5, <2>6, <2>8, <3>1, <3>2 DEF KeyOk, Zq
  <2>10. First'
    BY <1>1, <2>1, <2>3, <2>4, <2>5, <2>8 DEF First
  <2>11. 2 \in Honest => msg[1] # None /\ pc[2] # "done"
    BY <1>1, <2>4 DEF IndInv, Second
  <2>12. Second'
    BY <1>1, <2>1, <2>3, <2>5, <2>8, <2>11 DEF IndInv, Second
  <2>13. Proved'
    BY <1>1, <2>3, <2>4 DEF Proved
  <2>14. Matched'
    BY <1>1 DEF Matched
  <2>15. CipherHoldsPeerShare'
    <3>1. 2 \in Honest => session \notin lineage[2]
      BY <2>11 DEF IndInv, Sessions, Done
    <3>2. BothHonest' => 2 \in Honest
      BY DEF BothHonest, Honest
    <3>3. BothHonest' => lineage'[1] # lineage'[2]
      BY <2>5, <3>1, <3>2
    <3>4. (2 \in Honest /\ key[2] # None) => (key[2].c.v + key[2].x) % q = key[2].Q
      BY DEF IndInv, CipherHoldsPeerShare
    <3>5. (2 \in Honest' /\ key'[2] # None) => (key'[2].c.v + key'[2].x) % q = key'[2].Q
      BY <2>5, <2>8, <3>4
    <3> QED
      BY <3>3, <3>5 DEF CipherHoldsPeerShare
  <2> QED
    BY <2>5, <2>9, <2>10, <2>12, <2>13, <2>14, <2>15 DEF IndInv
<1> QED
  BY <1>2, <1>3

LEMMA DkgStep4Inv ==
  ASSUME IndInv, DkgStep4, UNCHANGED <<setup, kind, session, msgs, errs>>
  PROVE  IndInv'
<1>1. 2 \in Honest /\ kind = "dkg" /\ pc[2] = "sent" /\ KeySession /\ msg[3] # None
  BY DEF DkgStep4, At, KeySession
<1>2. CASE Fail(2, "crypto")
  BY <1>1, <1>2, FailInv DEF Running
<1>3. CASE ~ Fail(2, "crypto")
  <2> DEFINE new == [x |-> draw[2], Q |-> (msg[3].Q1 + draw[2]) % q, c |-> msg[1].c_key]
  <2>1. Store(2, new) /\ UNCHANGED <<draw, msg>> /\ msg[3].pdl = PdlStatement(msg[1].c_key, msg[3].Q1)
    BY <1>3 DEF DkgStep4, PaillierProved
  <2>2. DOMAIN msg = 1 .. 4 /\ setup \in Setups /\ session \in 1 .. Len(setup.kinds)
    <3>1. setup \in Setups /\ DOMAIN msg = 1 .. 4 /\ session \in 0 .. Len(setup.kinds) /\ session # 0
      BY <1>1 DEF IndInv, Sessions
    <3>2. Len(setup.kinds) \in Nat
      BY <3>1, SetupTypes
    <3> QED
      BY <3>1, <3>2
  <2>3. draw[2] \in Draw /\ msg[1] # None /\ msg[2].Q2 = draw[2]
    BY <1>1 DEF IndInv, Second
  <2>4. PICK w \in Draw : msg[3].pdl = PdlStatement(Enc(msg[1].N, w), w)
    BY <1>1 DEF IndInv, Proved
  <2>5. msg[3].Q1 = w /\ msg[1].c_key = Enc(msg[1].N, w)
    BY <2>1, <2>4 DEF PdlStatement
  <2>6. w \in Nat /\ w < q * session /\ w % N = w
    BY <2>2, <2>4, Drawn
  <2>7. draw[2] \in Nat /\ draw[2] < q
    <3>1. draw[2] \in 1 .. q - 1
      BY <2>3, Numbers
    <3> QED
      BY <3>1, Numbers
  <2>8. (w + draw[2]) % q \in Zq
    <3>1. w + draw[2] \in Int
      BY <2>6, <2>7
    <3> QED
      BY <3>1, Numbers, ModDef DEF Zq
  <2>9. /\ Sessions' /\ (KeyOk(2)' => Keys')
        /\ key'[2] = new /\ pc'[2] = "done" /\ lineage'[2] = lineage[2] \union {session}
        /\ \A j \in Honest \ {2} : key'[j] = key[j] /\ pc'[j] = pc[j] /\ lineage'[j] = lineage[j]
    BY <1>1, <2>1, <2>2, StoredInv
  <2>10. Done(2)' /\ Honest' = Honest
    BY <1>1, <2>9 DEF Done, KeySession, Honest
  <2>11. new.c.v = w /\ new.x = draw[2] /\ new.Q = (w + draw[2]) % q
    BY <2>5, <2>6 DEF Enc
  <2>12. KeyOk(2)'
    <3>1. new = [x |-> new.x, Q |-> new.Q, c |-> new.c]
      OBVIOUS
    <3> HIDE DEF new
    <3> QED
      BY <2>6, <2>7, <2>8, <2>9, <2>10, <2>11, <3>1 DEF KeyOk, Zq
  <2>13. First'
    BY <1>1, <2>1, <2>9, <2>10 DEF IndInv, First, KeySession
  <2>14. Second'
    BY <1>1, <2>1, <2>9, <2>10 DEF IndInv, Second
  <2>15. Proved'
    BY <1>1, <2>1, <2>10 DEF IndInv, Proved
  <2>16. Matched'
    BY <1>1 DEF Matched
  <2>17. (key'[2].c.v + key'[2].x) % q = key'[2].Q
    BY <2>9, <2>11
  <2>18. ASSUME BothHonest', key'[1] # None, lineage'[1] = lineage'[2]
         PROVE  key'[1].c = key'[2].c /\ key'[1].x = key'[2].c.v /\ key'[1].Q = key'[2].Q
    <3>1. 1 \in Honest
      BY <2>18 DEF BothHonest, Honest
    <3>2. key'[1] = key[1] /\ session \in lineage[1]
      BY <2>9, <2>18, <3>1
    <3>3. pc[1] = "done"
      BY <3>1, <3>2 DEF IndInv, Sessions, Done
    <3>4. /\ key[1].Q = (draw[1] + msg[2].Q2) % q /\ key[1].c = msg[1].c_key
          /\ msg[3].Q1 = draw[1]
      BY <1>1, <3>1, <3>3 DEF IndInv, First
    <3>5. key[1].x = key[1].c.v
      BY <2>18, <3>1, <3>2 DEF IndInv, Keys, KeyOk
    <3>6. new.c = msg[1].c_key
      OBVIOUS
    <3>7. key[1].Q = (w + draw[2]) % q
      BY <2>3, <2>5, <3>4
    <3> QED
      BY <2>9, <2>11, <3>2, <3>4, <3>5, <3>6, <3>7
  <2>19. CipherHoldsPeerShare'
    BY <2>17, <2>18 DEF CipherHoldsPeerShare
  <2> QED
    BY <2>9, <2>12, <2>13, <2>14, <2>15, <2>16, <2>19 DEF IndInv
<1> QED
  BY <1>2, <1>3

-----------------------------------------------------------------------------
LEMMA RefreshStep1Inv ==
  ASSUME IndInv, RefreshStep1, UNCHANGED <<setup, kind, session, msgs, errs>>
  PROVE  IndInv'
<1>1. /\ 1 \in Honest /\ kind = "refresh" /\ pc[1] = "start" /\ KeySession
      /\ UNCHANGED <<setup, kind, session, key, lineage>>
  BY DEF RefreshStep1, At, KeySession
<1>2. Honest' = Honest /\ KeySession'
  BY <1>1 DEF Honest, KeySession
<1>3. DOMAIN pc = Honest /\ DOMAIN draw = Honest /\ DOMAIN msg = 1 .. 4
  BY DEF IndInv, Sessions
<1>4. PICK rho1 \in Draw :
        /\ draw' = [draw EXCEPT ![1] = rho1]
        /\ Send(1, [com |-> Com(rho1), N_tag |-> session, c_key_tag |-> Enc(session, key[1].x)])
  BY DEF RefreshStep1
<1>5. pc' = [pc EXCEPT ![1] = "sent"]
  BY DEF RefreshStep1, Enter
<1>6. /\ DOMAIN pc' = Honest /\ DOMAIN draw' = Honest /\ DOMAIN msg' = 1 .. 4
      /\ pc'[1] = "sent" /\ draw'[1] = rho1
      /\ 2 \in Honest => pc'[2] = pc[2] /\ draw'[2] = draw[2]
      /\ msg'[2] = msg[2] /\ msg'[3] = msg[3]
      /\ msg'[1] = [com |-> Com(rho1), N_tag |-> session, c_key_tag |-> Enc(session, key[1].x)]
  BY <1>1, <1>3, <1>4, <1>5 DEF Send
<1>7. Honest \subseteq {1, 2}
  BY DEF Honest
<1>8. Sessions' /\ Keys' /\ Matched' /\ CipherHoldsPeerShare'
  BY <1>1, <1>6, <1>7, KeptInv
<1>9. msg[1] = None /\ msg[3] = None /\ (2 \in Honest => msg[2] = None /\ pc[2] \notin {"sent", "done"})
  BY <1>1 DEF IndInv, First, Second
<1>10. key[1].x % N = key[1].x
  <2>1. setup \in Setups /\ session \in 0 .. Len(setup.kinds) /\ key[1] # None
    BY <1>1 DEF IndInv, Sessions
  <2>2. key[1].x \in Nat /\ key[1].x < q * session
    BY <1>1, <2>1 DEF IndInv, Keys, KeyOk
  <2> QED
    BY <2>1, <2>2, NoWrap
<1>11. msg'[1].c_key_tag.n = session /\ msg'[1].c_key_tag.v = key[1].x /\ msg'[1].com = Com(draw'[1])
  BY <1>6, <1>10 DEF Enc
<1>12. First'
  BY <1>1, <1>2, <1>4, <1>6, <1>9, <1>11 DEF First
<1>13. Second'
  BY <1>1, <1>2, <1>6, <1>9 DEF Second, IndInv
<1>14. Proved'
  BY <1>1, <1>6, <1>9 DEF IndInv, Proved
<1> QED
  BY <1>8, <1>12, <1>13, <1>14 DEF IndInv

LEMMA RefreshStep2Inv ==
  ASSUME IndInv, RefreshStep2, UNCHANGED <<setup, kind, session, msgs, errs>>
  PROVE  IndInv'
<1>1. 2 \in Honest /\ kind = "refresh" /\ pc[2] = "start" /\ KeySession /\ msg[1] # None
  BY DEF RefreshStep2, At, KeySession
<1>2. CASE Fail(2, "crypto")
  BY <1>1, <1>2, FailInv DEF Running
<1>3. CASE ~ Fail(2, "crypto")
  <2>1. PICK rho2 \in Draw : draw' = [draw EXCEPT ![2] = rho2] /\ Send(2, [rho2 |-> rho2])
    BY <1>3 DEF RefreshStep2
  <2>2. pc' = [pc EXCEPT ![2] = "sent"] /\ UNCHANGED <<key, lineage>>
    BY <1>3 DEF RefreshStep2, Enter
  <2>3. DOMAIN pc = Honest /\ DOMAIN draw = Honest /\ DOMAIN msg = 1 .. 4
    BY DEF IndInv, Sessions
  <2>4. /\ DOMAIN pc' = Honest /\ DOMAIN draw' = Honest /\ DOMAIN msg' = 1 .. 4
        /\ pc'[2] = "sent" /\ draw'[2] = rho2
        /\ 1 \in Honest => pc'[1] = pc[1] /\ draw'[1] = draw[1]
        /\ msg'[1] = msg[1] /\ msg'[3] = msg[3] /\ msg'[2] = [rho2 |-> rho2]
    BY <1>1, <2>1, <2>2, <2>3 DEF Send
  <2>5. Honest \subseteq {1, 2} /\ Honest' = Honest
    BY DEF Honest
  <2>6. Sessions' /\ Keys' /\ Matched' /\ CipherHoldsPeerShare'
    BY <1>1, <2>2, <2>4, <2>5, KeptInv
  <2>7. msg[2] = None
    BY <1>1 DEF IndInv, Second
  <2>8. 1 \in Honest => pc[1] # "done"
    BY <1>1, <2>7 DEF IndInv, First
  <2>9. First'
    BY <1>1, <2>2, <2>4, <2>5, <2>8 DEF First, IndInv, KeySession
  <2>10. Second'
    BY <1>1, <2>1, <2>2, <2>4 DEF Second
  <2>11. Proved'
    BY <1>1, <2>1, <2>2, <2>4, <2>5 DEF Proved, IndInv
  <2> QED
    BY <2>6, <2>9, <2>10, <2>11 DEF IndInv
<1> QED
  BY <1>2, <1>3

LEMMA RefreshStep3Inv ==
  ASSUME IndInv, RefreshStep3, UNCHANGED <<setup, kind, session, msgs, errs>>
  PROVE  IndInv'
<1> DEFINE tag == msg[1].c_key_tag
           r == (draw[1] + msg[2].rho2) % q
           new == [x |-> key[1].x + r, Q |-> key[1].Q, c |-> Enc(tag.n, tag.v + r)]
<1>1. /\ 1 \in Honest /\ kind = "refresh" /\ pc[1] = "sent" /\ KeySession /\ msg[2] # None
      /\ UNCHANGED draw
      /\ msg' = [msg EXCEPT ![3] = [rho1 |-> draw[1], equal |-> EqualStatement(key[1].c, tag)]]
  BY DEF RefreshStep3, At, KeySession, Send
<1>2. DOMAIN msg = 1 .. 4 /\ setup \in Setups /\ session \in 0 .. Len(setup.kinds) /\ key[1] # None
  BY <1>1 DEF IndInv, Sessions
<1>3. /\ DOMAIN msg' = 1 .. 4 /\ msg'[1] = msg[1] /\ msg'[2] = msg[2]
      /\ msg'[3] = [rho1 |-> draw[1], equal |-> EqualStatement(key[1].c, tag)]
  BY <1>1, <1>2
<1>4. draw[1] \in Draw /\ tag.n = session /\ tag.v = key[1].x /\ msg[3] = None /\ msg[1].com = Com(draw[1])
  BY <1>1 DEF IndInv, First
<1>5. /\ key[1] = [x |-> key[1].x, Q |-> key[1].Q, c |-> key[1].c]
      /\ key[1].x \in Nat /\ key[1].Q \in Zq /\ key[1].x = key[1].c.v
  BY <1>1, <1>2 DEF IndInv, Keys, KeyOk
<1>6. key[1].x < q * (session - 1)
  <2>1. ~ Done(1) /\ KeyOk(1)
    BY <1>1, <1>2 DEF IndInv, Keys, Done
  <2> QED
    BY <2>1 DEF KeyOk
<1>7. r \in 0 .. q - 1
  <2>1. msg[2].rho2 \in Draw
    BY <1>1 DEF IndInv, Proved
  <2>2. draw[1] \in Nat /\ msg[2].rho2 \in Nat
    BY <1>4, <2>1, Numbers
  <2>3. draw[1] + msg[2].rho2 \in Int
    BY <2>2
  <2> QED
    BY <2>3, Numbers, ModDef
<1>8. Shifted(key[1], 1, tag, r) = new
  BY DEF Shifted
<1>9. Store(1, new)
  BY <1>8 DEF RefreshStep3
<1>10. /\ Sessions' /\ (KeyOk(1)' => Keys')
       /\ key'[1] = new /\ pc'[1] = "done" /\ lineage'[1] = lineage[1] \union {session}
       /\ \A j \in Honest \ {1} : key'[j] = key[j] /\ pc'[j] = pc[j] /\ lineage'[j] = lineage[j]
  BY <1>1, <1>3, <1>9, StoredInv
<1> HIDE DEF r
<1>11. key[1].x + r \in Nat /\ key[1].x + r < q * session /\ (key[1].x + r) % N = key[1].x + r
  BY <1>2, <1>5, <1>6, <1>7, Grown
<1>12. new.x = key[1].x + r /\ new.Q = key[1].Q /\ new.c = Enc(session, tag.v + r) /\ new.c.v = key[1].x + r
  BY <1>4, <1>11 DEF Enc
<1>13. Done(1)' /\ Honest' = Honest /\ KeySession'
  BY <1>1, <1>10 DEF Done, KeySession, Honest
<1>14. KeyOk(1)'
  <2>1. new = [x |-> new.x, Q |-> new.Q, c |-> new.c]
    OBVIOUS
  <2> HIDE DEF new
  <2> QED
    BY <1>5, <1>10, <1>11, <1>12, <1>13, <2>1 DEF KeyOk, Zq
<1>15. 2 \in Honest => msg[1] # None /\ pc[2] # "done"
  BY <1>1, <1>4 DEF IndInv, Second
<1>16. First'
  <2>1. msg'[3].rho1 = draw[1] /\ key'[1].c = Enc(session, msg[1].c_key_tag.v + ((draw[1] + msg[2].rho2) % q))
    BY <1>3, <1>10, <1>12 DEF r
  <2> HIDE DEF new
  <2> QED
    BY <1>1, <1>3, <1>4, <1>10, <1>13, <2>1 DEF First
<1>17. Second'
  <2> HIDE DEF new
  <2> QED
    BY <1>1, <1>3, <1>10, <1>13, <1>15 DEF IndInv, Second
<1>18. Proved'
  <2>1. msg'[3].rho1 = draw[1] /\ msg'[3].equal[1].v = msg'[3].equal[2].v
    BY <1>3, <1>4, <1>5 DEF EqualStatement
  <2>2. msg'[2] # None => msg'[2].rho2 \in Draw
    BY <1>1, <1>3 DEF IndInv, Proved
  <2> QED
    BY <1>1, <1>4, <2>1, <2>2 DEF Proved
<1>19. BothHonest' => BothHonest /\ 2 \in Honest
  BY DEF BothHonest, Honest
<1>20. Matched'
  <2> SUFFICES ASSUME BothHonest', lineage'[1] \ {session} = lineage'[2] \ {session}, key'[2] # None
               PROVE  key'[1].Q = key'[2].Q
    BY DEF Matched
  <2>1. key'[2] = key[2] /\ lineage[1] \ {session} = lineage[2] \ {session}
    BY <1>10, <1>19
  <2>2. key[1].Q = key[2].Q
    BY <1>1, <1>2, <1>19, <2>1 DEF IndInv, Matched
  <2> QED
    BY <1>10, <1>12, <2>1, <2>2
<1>21. CipherHoldsPeerShare'
  <2>1. 2 \in Honest => session \notin lineage[2]
    BY <1>15 DEF IndInv, Sessions, Done
  <2>2. BothHonest' => lineage'[1] # lineage'[2]
    BY <1>10, <1>19, <2>1
  <2>3. (2 \in Honest /\ key[2] # None) => (key[2].c.v + key[2].x) % q = key[2].Q
    BY DEF IndInv, CipherHoldsPeerShare
  <2>4. (2 \in Honest' /\ key'[2] # None) => (key'[2].c.v + key'[2].x) % q = key'[2].Q
    BY <1>10, <1>13, <2>3
  <2> QED
    BY <2>2, <2>4 DEF CipherHoldsPeerShare
<1> QED
  BY <1>10, <1>14, <1>16, <1>17, <1>18, <1>20, <1>21 DEF IndInv

LEMMA RefreshStep4Inv ==
  ASSUME IndInv, RefreshStep4, UNCHANGED <<setup, kind, session, msgs, errs>>
  PROVE  IndInv'
<1>1. 2 \in Honest /\ kind = "refresh" /\ pc[2] = "sent" /\ KeySession /\ msg[3] # None
  BY DEF RefreshStep4, At, KeySession
<1>2. CASE Fail(2, "crypto")
  BY <1>1, <1>2, FailInv DEF Running
<1>3. CASE ~ Fail(2, "crypto")
  <2> DEFINE tag == msg[1].c_key_tag
             r == (msg[3].rho1 + draw[2]) % q
             new == [x |-> (key[2].x - r) % q, Q |-> key[2].Q, c |-> Enc(tag.n, tag.v + r)]
  <2>1. UNCHANGED <<draw, msg>> /\ msg[3].equal = EqualStatement(key[2].c, tag)
    BY <1>3 DEF RefreshStep4, RefreshProved
  <2>2. DOMAIN msg = 1 .. 4 /\ setup \in Setups /\ session \in 0 .. Len(setup.kinds) /\ key[2] # None
    BY <1>1 DEF IndInv, Sessions
  <2>3. draw[2] \in Draw /\ msg[2].rho2 = draw[2]
    BY <1>1 DEF IndInv, Second
  <2>4. msg[3].rho1 \in Draw /\ tag.v = key[2].c.v
    BY <1>1, <2>1 DEF IndInv, Proved, EqualStatement
  <2>5. /\ key[2] = [x |-> key[2].x, Q |-> key[2].Q, c |-> key[2].c]
        /\ key[2].x \in Nat /\ key[2].Q \in Zq /\ key[2].c.v \in Nat
        /\ (key[2].c.v + key[2].x) % q = key[2].Q
    BY <1>1, <2>2 DEF IndInv, Keys, KeyOk
  <2>6. key[2].c.v < q * (session - 1)
    <3>1. ~ Done(2) /\ KeyOk(2)
      BY <1>1, <2>2 DEF IndInv, Keys, Done
    <3> QED
      BY <3>1 DEF KeyOk
  <2>7. r \in 0 .. q - 1
    <3>1. msg[3].rho1 \in Nat /\ draw[2] \in Nat
      BY <2>3, <2>4, Numbers
    <3>2. msg[3].rho1 + draw[2] \in Int
      BY <3>1
    <3> QED
      BY <3>2, Numbers, ModDef
  <2>8. Shifted(key[2], 2, tag, r) = new
    BY DEF Shifted
  <2>9. Store(2, new)
    BY <1>3, <2>8 DEF RefreshStep4
  <2>10. /\ Sessions' /\ (KeyOk(2)' => Keys')
         /\ key'[2] = new /\ pc'[2] = "done" /\ lineage'[2] = lineage[2] \union {session}
         /\ \A j \in Honest \ {2} : key'[j] = key[j] /\ pc'[j] = pc[j] /\ lineage'[j] = lineage[j]
    BY <1>1, <2>1, <2>2, <2>9, StoredInv
  <2> HIDE DEF r
  <2>11. key[2].c.v + r \in Nat /\ key[2].c.v + r < q * session /\ (key[2].c.v + r) % N = key[2].c.v + r
    BY <2>2, <2>5, <2>6, <2>7, Grown
  <2>12. /\ new.x = (key[2].x - r) % q /\ new.Q = key[2].Q
         /\ new.c = Enc(tag.n, tag.v + r) /\ new.c.v = key[2].c.v + r
    BY <2>4, <2>11 DEF Enc
  <2>13. (key[2].x - r) % q \in Zq
    <3>1. key[2].x - r \in Int
      BY <2>5, <2>7
    <3> QED
      BY <3>1, Numbers, ModDef DEF Zq
  <2>14. ((key[2].c.v + r) + ((key[2].x - r) % q)) % q = key[2].Q
    <3>1. key[2].x \in Int /\ key[2].c.v \in Int /\ r \in Int
      BY <2>5, <2>7
    <3> QED
      BY <2>5, <3>1, ShiftCancels
  <2>15. Done(2)' /\ Honest' = Honest /\ KeySession'
    BY <1>1, <2>10 DEF Done, KeySession, Honest
  <2>16. (new.c.v + new.x) % q = new.Q
    BY <2>12, <2>14, Zenon
  <2>17. KeyOk(2)'
    <3>1. new = [x |-> new.x, Q |-> new.Q, c |-> new.c]
      OBVIOUS
    <3>2. new.x \in Nat /\ new.Q \in Zq /\ new.c.v \in Nat /\ new.c.v < q * session /\ new.x < q
      BY <2>5, <2>11, <2>12, <2>13, Numbers DEF Zq
    <3> HIDE DEF new
    <3> QED
      BY <2>10, <2>15, <2>16, <3>1, <3>2 DEF KeyOk, Zq
  <2>18. First' /\ Second' /\ Proved'
    <3> HIDE DEF new
    <3>1. First'
      BY <1>1, <2>1, <2>10, <2>15 DEF IndInv, First
    <3>2. Second'
      BY <1>1, <2>1, <2>10, <2>15 DEF IndInv, Second
    <3>3. Proved'
      BY <1>1, <2>1, <2>15 DEF IndInv, Proved
    <3> QED
      BY <3>1, <3>2, <3>3
  <2>19. BothHonest' => BothHonest /\ 1 \in Honest
    BY DEF BothHonest, Honest
  <2>20. ASSUME BothHonest', key'[1] # None, lineage'[1] \ {session} = lineage'[2] \ {session}
         PROVE  key'[1].Q = key'[2].Q
    <3>1. key'[1] = key[1] /\ lineage[1] \ {session} = lineage[2] \ {session}
      BY <2>10, <2>19, <2>20
    <3>2. key[1].Q = key[2].Q
      BY <1>1, <2>2, <2>19, <2>20, <3>1 DEF IndInv, Matched
    <3> QED
      BY <2>10, <2>12, <3>1, <3>2
  <2>21. Matched'
    BY <2>20 DEF Matched
  <2>22. ASSUME BothHonest', key'[1] # None, lineage'[1] = lineage'[2]
         PROVE  key'[1].c = key'[2].c /\ key'[1].x = key'[2].c.v
    <3>1. key'[1] = key[1] /\ session \in lineage[1] /\ 1 \in Honest
      BY <2>10, <2>19, <2>22
    <3>2. pc[1] = "done"
      BY <3>1 DEF IndInv, Sessions, Done
    <3>3. /\ key[1].c = Enc(session, msg[1].c_key_tag.v + ((draw[1] + msg[2].rho2) % q))
          /\ msg[3].rho1 = draw[1] /\ msg[1].c_key_tag.n = session
      BY <1>1, <3>1, <3>2 DEF IndInv, First
    <3>4. key[1].c = Enc(tag.n, tag.v + r)
      BY <2>3, <3>3 DEF r
    <3>5. key[1].x = key[1].c.v
      BY <2>22, <3>1 DEF IndInv, Keys, KeyOk
    <3> QED
      BY <2>10, <2>12, <3>1, <3>4, <3>5
  <2>23. CipherHoldsPeerShare'
    <3>1. (key'[2].c.v + key'[2].x) % q = key'[2].Q
      BY <2>10, <2>16
    <3> QED
      BY <2>20, <2>22, <3>1 DEF CipherHoldsPeerShare
  <2> QED
    BY <2>10, <2>17, <2>18, <2>21, <2>23 DEF IndInv
<1> QED
  BY <1>2, <1>3

-----------------------------------------------------------------------------
(* Every step, the signing steps and stuttering included.                  *)
LEMMA NextInv ==
  ASSUME IndInv, [Next]_vars
  PROVE  IndInv'
<1>1. CASE NewSession
  BY <1>1, NewSessionInv
<1>2. ASSUME NEW p \in Honest, TransportError(p), UNCHANGED <<setup, kind, session, msgs>> PROVE IndInv'
  BY <1>2, FailInv DEF TransportError
<1>3. CASE FaultySteps /\ UNCHANGED <<setup, kind, session, msgs, errs>>
  BY <1>3, FaultyInv
<1>4. ASSUME NEW p \in Honest, PeerGone(p), UNCHANGED <<setup, kind, session, msgs, errs>> PROVE IndInv'
  BY <1>4, FailInv DEF PeerGone
<1>5. CASE /\ DkgStep1 \/ DkgStep2 \/ DkgStep3 \/ DkgStep4
           /\ UNCHANGED <<setup, kind, session, msgs, errs>>
  BY <1>5, DkgStep1Inv, DkgStep2Inv, DkgStep3Inv, DkgStep4Inv
<1>6. CASE /\ RefreshStep1 \/ RefreshStep2 \/ RefreshStep3 \/ RefreshStep4
           /\ UNCHANGED <<setup, kind, session, msgs, errs>>
  BY <1>6, RefreshStep1Inv, RefreshStep2Inv, RefreshStep3Inv, RefreshStep4Inv
<1>7. CASE /\ SignStep1 \/ SignStep2 \/ SignStep3 \/ SignStep4 \/ SignStep5
           /\ UNCHANGED <<setup, kind, session, msgs, errs>>
  <2>1. DOMAIN pc = Honest /\ DOMAIN draw = Honest /\ DOMAIN msg = 1 .. 4
    BY DEF IndInv, Sessions
  <2>2. kind \in Sign
    BY <1>7 DEF SignStep1, SignStep2, SignStep3, SignStep4, SignStep5, At
  <2>3. UNCHANGED <<key, lineage>>
    BY <1>7 DEF SignStep1, SignStep2, SignStep3, SignStep4, SignStep5, Fail
  <2>4. DOMAIN pc' = Honest
    BY <1>7, <2>1 DEF SignStep1, SignStep2, SignStep3, SignStep4, SignStep5, Fail, Enter
  <2>5. DOMAIN draw' = Honest
    BY <1>7, <2>1 DEF SignStep1, SignStep2, SignStep3, SignStep4, SignStep5, Fail
  <2>6. DOMAIN msg' = 1 .. 4
    BY <1>7, <2>1 DEF SignStep1, SignStep2, SignStep3, SignStep4, SignStep5, Fail, Send
  <2> QED
    BY <1>7, <2>2, <2>3, <2>4, <2>5, <2>6, SigningInv
<1>8. CASE UNCHANGED vars
  <2>1. UNCHANGED <<setup, key, lineage, kind, session, pc, draw, msg>>
    BY <1>8 DEF vars
  <2>2. DOMAIN pc = Honest /\ DOMAIN draw = Honest /\ DOMAIN msg = 1 .. 4
    BY DEF IndInv, Sessions
  <2>3. Sessions' /\ Keys' /\ Matched' /\ CipherHoldsPeerShare'
    BY <2>1, <2>2, KeptInv
  <2>4. First' /\ Second' /\ Proved'
    BY <2>1 DEF IndInv, First, Second, Proved, Honest, KeySession
  <2> QED
    BY <2>3, <2>4 DEF IndInv
<1> QED
  BY <1>1, <1>2, <1>3, <1>4, <1>5, <1>6, <1>7, <1>8 DEF Next, Steps

(* What the parties hold and have sent at every moment of every session,   *)
(* with the statements that were proved to P2: the induction behind both   *)
(* results below.                                                          *)
THEOREM Inductive == Spec => []IndInv
<1>1. Init => IndInv
  BY InitInv
<1>2. IndInv /\ [Next]_vars => IndInv'
  BY NextInv
<1> QED
  BY <1>1, <1>2, PTL DEF Spec

(* P2's ciphertext completes its share to the public key after any number  *)
(* of refreshes, also against a faulty P1; equal histories, equal keys.    *)
THEOREM CipherHolds == Spec => []CipherHoldsPeerShare
<1>1. IndInv => CipherHoldsPeerShare
  BY DEF IndInv
<1> QED
  BY <1>1, Inductive, PTL

(* A key that was stored is accepted when it is loaded again: however many *)
(* refreshes added to it, P1's share is below N and what c_key holds.      *)
THEOREM StoredKeysLoad == Spec => [](\A p \in Honest : BlobOk(p))
<1>1. ASSUME IndInv, NEW p \in Honest, key[p] # None PROVE key[p].x \in 0 .. N - 1 /\ (p = 1 => key[1].c.v = key[1].x)
  <2>0. setup \in Setups /\ session \in 0 .. Len(setup.kinds) /\ session # 0
    BY <1>1 DEF IndInv, Sessions
  <2>1. KeyOk(p) /\ setup \in Setups /\ session \in 0 .. Len(setup.kinds) /\ session # 0
    BY <1>1, <2>0 DEF IndInv, Keys
  <2>2. Len(setup.kinds) \in Nat /\ q * Len(setup.kinds) < N
    BY <2>1, SessionsFit
  <2>3. 1 \in 0 .. Len(setup.kinds) /\ session \in Int
    BY <2>1, <2>2
  <2>4. \A s \in 0 .. Len(setup.kinds) : q * s < N
    <3> DEFINE L == Len(setup.kinds)
    <3> SUFFICES ASSUME NEW s \in 0 .. L PROVE q * s < N
      OBVIOUS
    <3>1. L \in Nat /\ q * L < N
      BY <2>2
    <3> HIDE DEF L
    <3>2. q * L - q * s = q * (L - s)
      BY <3>1, Distribute, Numbers
    <3>3. q * (L - s) \in Nat /\ q * s \in Int /\ q * L \in Int
      BY <3>1, Numbers
    <3> QED
      BY <3>1, <3>2, <3>3, Numbers
  <2>5. q * session < N /\ q < N
    BY <2>1, <2>3, <2>4, Numbers
  <2>6. p \in {1, 2} /\ q * session \in Int
    BY <2>3, Numbers DEF Honest
  <2> QED
    BY <2>1, <2>5, <2>6, Numbers DEF KeyOk
<1>2. IndInv => \A p \in Honest : BlobOk(p)
  BY <1>1 DEF BlobOk
<1> QED
  BY <1>2, Inductive, PTL

-----------------------------------------------------------------------------
(* Congruence modulo q.                                                    *)
Same(a, b) == a % q = b % q

LEMMA SameTimes ==
  ASSUME NEW a \in Int, NEW b \in Int, NEW c \in Int, Same(a, b)
  PROVE  Same(a * c, b * c) /\ Same(c * a, c * b) /\ a * c \in Int /\ b * c \in Int
<1>1. ((a % q) * c) % q = (a * c) % q
  BY Numbers, ModMult
<1>2. ((b % q) * c) % q = (b * c) % q
  BY Numbers, ModMult
<1>3. a % q = b % q
  BY DEF Same
<1>4. (a * c) % q = (b * c) % q
  BY <1>1, <1>2, <1>3
<1>5. c * a = a * c /\ c * b = b * c
  OBVIOUS
<1>6. a * c \in Int /\ b * c \in Int
  OBVIOUS
<1> QED
  BY <1>4, <1>5, <1>6, Zenon DEF Same

LEMMA SameOne ==
  ASSUME NEW a \in Int, NEW c \in Int, Same(a, 1)
  PROVE  Same(a * c, c)
<1> DEFINE o == 1
<1>1. o \in Int /\ o * c = c /\ Same(a, o)
  OBVIOUS
<1> HIDE DEF o
<1>2. Same(a * c, o * c)
  BY <1>1, SameTimes
<1> QED
  BY <1>1, <1>2

LEMMA SamePlus ==
  ASSUME NEW a \in Int, NEW b \in Int, NEW c \in Int, Same(a, b)
  PROVE  Same(a + c, b + c) /\ Same(c + a, c + b)
<1>1. ((a % q) + c) % q = (a + c) % q
  BY Numbers, ModSum
<1>2. ((b % q) + c) % q = (b + c) % q
  BY Numbers, ModSum
<1>3. a % q = b % q
  BY DEF Same
<1>4. (a + c) % q = (b + c) % q
  BY <1>1, <1>2, <1>3
<1>5. c + a = a + c /\ c + b = b + c
  OBVIOUS
<1> QED
  BY <1>4, <1>5, Zenon DEF Same

(* A residue is congruent to the number.                                   *)
LEMMA SameRes ==
  ASSUME NEW a \in Int
  PROVE  Same(a % q, a) /\ Same(a, a % q) /\ a % q \in 0 .. q - 1 /\ a % q \in Int
<1>1. a % q \in 0 .. q - 1
  BY Numbers, ModDef
<1>2. (a % q) % q = a % q
  BY <1>1, Numbers, ModSmall
<1> QED
  BY <1>1, <1>2, Numbers DEF Same

LEMMA SameMultiple ==
  ASSUME NEW a \in Int, NEW k \in Int
  PROVE  Same(a + q * k, a)
<1>1. a + q * k \in Int
  BY Numbers
<1> QED
  BY <1>1, Numbers, ModShift DEF Same

(* Residues that are congruent are equal.                                  *)
LEMMA SameSmall ==
  ASSUME NEW a \in 0 .. q - 1, NEW b \in 0 .. q - 1, Same(a, b)
  PROVE  a = b
BY Numbers, ModSmall DEF Same

LEMMA Invertible ==
  ASSUME NEW a \in 1 .. q - 1
  PROVE  Inv(a) \in 0 .. q - 1 /\ Inv(a) \in Int /\ Same(a * Inv(a), 1)
<1>1. PICK b \in 1 .. q - 1 : (a * b) % q = 1
  BY ConstantTypes
<1>2. b \in Zq
  BY <1>1, Numbers DEF Zq
<1>3. Inv(a) \in Zq /\ (a * Inv(a)) % q = 1
  BY <1>1, <1>2 DEF Inv
<1>4. q \in Nat /\ q > 2
  BY ConstantTypes
<1>5. 1 \in 0 .. q - 1
  BY <1>4
<1>6. 1 % q = 1
  BY <1>5, Numbers, ModSmall
<1>7. Same(a * Inv(a), 1)
  BY <1>3, <1>6, Zenon DEF Same
<1>8. Inv(a) \in 0 .. q - 1
  BY <1>3 DEF Zq
<1>9. \A c \in 0 .. q - 1 : c \in Int
  BY <1>4
<1> QED
  BY <1>7, <1>8, <1>9, Zenon

LEMMA MinTwo ==
  ASSUME NEW a \in Int, NEW b \in Int
  PROVE  Min({a, b}) \in {a, b} /\ Min({a, b}) = Min({b, a})
<1>1. \E x \in {a, b} : \A y \in {a, b} : x <= y
  <2>1. CASE a <= b
    BY <2>1
  <2>2. CASE ~ (a <= b)
    BY <2>2
  <2> QED
    BY <2>1, <2>2
<1>2. Min({a, b}) \in {a, b}
  BY <1>1 DEF Min
<1>3. {a, b} = {b, a}
  OBVIOUS
<1> QED
  BY <1>2, <1>3, Zenon

(* The value P2 encrypts stays away from N: below 2 q^3 2^(2 STAT) before  *)
(* it is masked.                                                           *)
Plain(v, K, x2, m, r) == (v + q * 2 ^ SEC_P_STAT) * (K * r) + (K * m + ((K * x2) % q) * r)

Room == 2 * (q * q * q * 2 ^ (2 * SEC_P_STAT))

LEMMA PlainBound ==
  ASSUME NEW v \in Nat, v < q * 2 ^ (2 * SEC_P_STAT), NEW K \in 0 .. q - 1, NEW x2 \in 0 .. q - 1,
         NEW m \in 0 .. q - 1, NEW r \in 0 .. q - 1
  PROVE  Plain(v, K, x2, m, r) \in Nat /\ Plain(v, K, x2, m, r) <= Room /\ Room \in Nat
<1> DEFINE S == 2 ^ SEC_P_STAT
           y == (K * x2) % q
           C == q * q * q
<1>0. S \in Nat /\ S >= 2 /\ 2 ^ (2 * SEC_P_STAT) = S * S
  BY Powers
<1>1. q \in Nat /\ q > 2
  BY ConstantTypes
<1>2. y \in 0 .. q - 1
  <2>1. K * x2 \in Int
    BY <1>1
  <2> QED
    BY <2>1, SameRes
<1>3. v < q * (S * S)
  BY <1>0
<1> HIDE DEF S, y
<1>4. q * q \in Nat /\ q * S \in Nat /\ S * S \in Nat /\ C \in Nat
  BY <1>0, <1>1
<1>5. q * (S * S) \in Nat /\ C * (S * S) \in Nat /\ C * S \in Nat
  BY <1>0, <1>1, <1>4
<1>6. K * r \in Nat /\ K * r <= q * q /\ K * m \in Nat /\ K * m <= q * q /\ y * r \in Nat /\ y * r <= q * q
  <2>1. \A a, b \in 0 .. q - 1 : a * b \in Nat /\ a * b <= q * q
    <3> SUFFICES ASSUME NEW a \in 0 .. q - 1, NEW b \in 0 .. q - 1 PROVE a * b \in Nat /\ a * b <= q * q
      OBVIOUS
    <3>1. a \in Nat /\ b \in Nat /\ a <= q /\ b <= q
      BY <1>1
    <3>2. a * b <= q * b /\ q * b <= q * q /\ a * b \in Nat /\ q * b \in Nat
      BY <1>1, <3>1, TimesMono
    <3> QED
      BY <3>2, <1>4
  <2> QED
    BY <1>2, <2>1
<1>7. v + q * S \in Nat /\ v + q * S <= q * (S * S) + q * S
  BY <1>3, <1>4, <1>5
<1>8. (v + q * S) * (K * r) \in Nat /\ (v + q * S) * (K * r) <= (q * (S * S) + q * S) * (q * q)
  <2>1. q * (S * S) + q * S \in Nat
    BY <1>4, <1>5
  <2>2. /\ (v + q * S) * (K * r) <= (v + q * S) * (q * q) /\ (v + q * S) * (K * r) \in Nat
        /\ (v + q * S) * (q * q) <= (q * (S * S) + q * S) * (q * q) /\ (v + q * S) * (q * q) \in Nat
        /\ (q * (S * S) + q * S) * (q * q) \in Nat
    BY <1>4, <1>6, <1>7, <2>1, TimesMono
  <2> QED
    BY <2>2
<1>9. (q * (S * S) + q * S) * (q * q) = C * (S * S) + C * S
  BY <1>0, <1>1
<1>10. C * S + C * S <= C * (S * S)
  <2>1. S + S <= S * S
    <3>1. 2 * S <= S * S
      BY <1>0, TimesMono
    <3> QED
      BY <1>0, <3>1
  <2>2. C * (S + S) <= C * (S * S)
    BY <1>0, <1>4, <2>1, TimesMono
  <2>3. C * (S + S) = C * S + C * S
    BY <1>0, <1>4, Distribute
  <2> QED
    BY <2>2, <2>3
<1>11. q * q + q * q <= C * S
  <2>1. q * q + q * q <= C
    <3>1. 2 * (q * q) <= q * (q * q)
      BY <1>1, <1>4, TimesMono
    <3>2. q * (q * q) = C
      BY <1>1
    <3> QED
      BY <1>4, <3>1, <3>2
  <2>2. 1 * C <= S * C /\ S * C = C * S
    BY <1>0, <1>4, TimesMono
  <2> QED
    BY <1>4, <1>5, <2>1, <2>2
<1> DEFINE P == (v + q * S) * (K * r)
           A == K * m
           B == y * r
           CSS == C * (S * S)
           CS == C * S
           qq == q * q
<1>12. /\ P \in Nat /\ A \in Nat /\ B \in Nat /\ CSS \in Nat /\ CS \in Nat /\ qq \in Nat
       /\ P <= CSS + CS /\ A <= qq /\ B <= qq /\ CS + CS <= CSS /\ qq + qq <= CS
  BY <1>4, <1>5, <1>6, <1>8, <1>9, <1>10, <1>11
<1>13. Plain(v, K, x2, m, r) = P + (A + B)
  BY DEF Plain, S, y
<1>14. Room = 2 * CSS
  BY <1>0 DEF Room
<1> HIDE DEF P, A, B, CSS, CS, qq
<1> QED
  BY <1>12, <1>13, <1>14

(* The masks P2 may use, and may prove.                                    *)
Masks == RhoDraw \union FaultyRho \union {0}

(* What P2 may encrypt is less than N / 2 away from 0.                     *)
Centered(t) == t \in Int /\ - N < 2 * t /\ 2 * t < N

LEMMA MaskedBound ==
  ASSUME NEW rho \in Masks, NEW P \in Nat, P <= Room, Room \in Nat
  PROVE  rho \in Int /\ rho * q \in Int /\ Centered(P + rho * q)
<1>0. q \in Nat /\ N \in Nat
  BY Numbers
<1>1. CASE rho \in RhoDraw
  <2> DEFINE E == 2 ^ (2 * SEC_P_STAT)
             C == q * q * q
  <2>1. E \in Nat
    <3> DEFINE S == 2 ^ SEC_P_STAT
    <3>1. S \in Nat /\ E = S * S
      BY Powers
    <3> HIDE DEF S, E
    <3> QED
      BY <3>1
  <2>2. rho \in 0 .. q * q * E - 1
    BY <1>1, ConstantTypes
  <2>3. C * E \in Nat /\ 8 * (C * E) < N /\ Room = 2 * (C * E)
    BY ModulusLong DEF Room
  <2> HIDE DEF E
  <2>4. q * q * E \in Nat
    BY <1>0, <2>1
  <2>5. rho \in Nat /\ rho <= q * q * E
    BY <2>2, <2>4
  <2>6. rho * q <= (q * q * E) * q /\ rho * q \in Nat
    BY <1>0, <2>4, <2>5, TimesMono
  <2>7. (q * q * E) * q = C * E
    BY <1>0, <2>1
  <2> DEFINE t == rho * q
             CE == C * E
  <2>8. t \in Nat /\ CE \in Nat /\ t <= CE /\ 8 * CE < N /\ Room = 2 * CE
    BY <2>3, <2>6, <2>7
  <2> HIDE DEF t, CE
  <2>9. t \in Int /\ Centered(P + t)
    BY <1>0, <2>8 DEF Centered
  <2> QED
    BY <2>5, <2>9 DEF t
<1>2. CASE rho \in FaultyRho
  <2> DEFINE t == rho * q
  <2>1. rho \in Int /\ - (2 * t) < N /\ 2 * (t + Room) < N
    BY <1>2, MaskBound DEF Room
  <2>2. t \in Int
    BY <1>0, <2>1
  <2> HIDE DEF t
  <2>3. t \in Int /\ Centered(P + t)
    BY <1>0, <2>1, <2>2 DEF Centered
  <2> QED
    BY <2>1, <2>3 DEF t
<1>3. CASE rho = 0
  <2> DEFINE CE == q * q * q * 2 ^ (2 * SEC_P_STAT)
  <2>1. CE \in Nat /\ 8 * CE < N /\ Room = 2 * CE
    BY ModulusLong DEF Room
  <2> HIDE DEF CE
  <2>2. rho * q = 0
    BY <1>0, <1>3
  <2>3. Centered(P + 0)
    BY <1>0, <2>1 DEF Centered
  <2> QED
    BY <1>3, <2>2, <2>3
<1> QED
  BY <1>1, <1>2, <1>3 DEF Masks

(* A residue modulo N in the upper half stands for a negative number.      *)
LEMMA Recovered ==
  ASSUME NEW t \in Int, Centered(t), NEW k1 \in 1 .. q - 1
  PROVE  Completed(t % N, k1) = XCoord((t * Inv(k1)) % q)
<1> DEFINE h == (N + 1) \div 2
           neg == IF t % N >= h THEN 1 ELSE 0
           y == ((t % N) % q) - (N % q) * neg
<1>1. N \in Nat \ {0} /\ q \in Nat \ {0} /\ h \in Int /\ N + 1 = 2 * h
  <2>1. N \in Nat /\ N % 2 = 1
    BY ConstantTypes
  <2>2. N = 2 * (N \div 2) + 1 /\ N \div 2 \in Int
    BY <2>1
  <2>3. (N + 1) \div 2 = (N \div 2) + 1
    BY <2>1, <2>2
  <2> QED
    BY <2>2, <2>3, Numbers
<1>2. Same(y, t)
  <2>1. CASE t >= 0
    <3>1. t % N = t
      BY <1>1, <2>1, ModSmall DEF Centered
    <3>2. t < h
      BY <1>1 DEF Centered
    <3>3. neg = 0
      BY <1>1, <3>1, <3>2
    <3>4. N % q \in Int /\ t % q \in Int
      BY <1>1, SameRes
    <3>5. y = t % q
      BY <3>1, <3>3, <3>4
    <3> QED
      BY <3>5, SameRes
  <2>2. CASE t < 0
    <3>1. t = N * (-1) + (t + N) /\ t + N \in 0 .. N - 1
      BY <1>1, <2>2 DEF Centered
    <3>2. t % N = t + N
      BY <1>1, <3>1, ModUnique
    <3>3. t + N >= h
      BY <1>1 DEF Centered
    <3>4. neg = 1
      BY <3>2, <3>3
    <3> DEFINE a == N % q
               b == (t + N) % q
    <3>0. t + N \in Int /\ N \in Int
      BY <1>1
    <3>5. a \in Int /\ b \in Int /\ Same(b, t + N) /\ Same(a, N) /\ t + N \in Int /\ N \in Int
      BY <3>0, SameRes
    <3>6. y = b + (-1) * a
      <4>1. y = b - a * neg
        BY <3>2, Zenon
      <4> HIDE DEF a, b, y, neg
      <4> QED
        BY <3>4, <3>5, <4>1
    <3>7. Same((-1) * a, (-1) * N) /\ (-1) * a \in Int /\ (-1) * N \in Int
      BY <3>5, SameTimes
    <3>8. Same(b + (-1) * a, (t + N) + (-1) * a)
      BY <3>5, <3>7, SamePlus
    <3>9. Same((t + N) + (-1) * a, (t + N) + (-1) * N)
      BY <3>5, <3>7, SamePlus
    <3>10. (t + N) + (-1) * N = t
      BY <1>1
    <3> HIDE DEF a, b
    <3> QED
      BY <3>6, <3>8, <3>9, <3>10, Zenon DEF Same
  <2> QED
    BY <2>1, <2>2
<1>3. y \in Int
  <2>1. t % N \in Int
    BY <1>1, ModDef
  <2>2. (t % N) % q \in Int /\ N % q \in Int
    BY <1>1, <2>1, SameRes
  <2>3. (N % q) * neg \in Int
    BY <2>2
  <2> QED
    BY <2>2, <2>3
<1>4. Same(y * Inv(k1), t * Inv(k1))
  BY <1>2, <1>3, Invertible, SameTimes
<1>5. Completed(t % N, k1) = XCoord((y * Inv(k1)) % q)
  BY DEF Completed, XCoord
<1> HIDE DEF y
<1> QED
  BY <1>4, <1>5, Zenon DEF Same

(* P2's ciphertext for one message, completed by P1, verifies under Q.     *)
LEMMA PlainSame ==
  ASSUME NEW v \in Nat, NEW K \in 0 .. q - 1, NEW x2 \in 0 .. q - 1, NEW Q \in 0 .. q - 1,
         (v + x2) % q = Q, NEW m \in 0 .. q - 1, NEW r \in 0 .. q - 1, NEW rho \in Int
  PROVE  /\ Same(Plain(v, K, x2, m, r) + rho * q, K * (m + r * Q))
         /\ K * (m + r * Q) \in Int /\ m + r * Q \in Int
<1> DEFINE S == 2 ^ SEC_P_STAT
           y == (K * x2) % q
<1>1. S \in Int /\ q \in Int /\ K \in Int /\ x2 \in Int /\ m \in Int /\ r \in Int /\ Q \in Int /\ v \in Int
  BY Numbers, Powers
<1>2. y \in Int /\ Same(y, K * x2) /\ K * x2 \in Int
  <2>1. K * x2 \in Int
    BY <1>1
  <2> QED
    BY <2>1, SameRes
<1> HIDE DEF S, y
<1> DEFINE z == (v * (K * r) + K * m) + q * (S * (K * r) + rho)
           w == v * (K * r) + K * m
           e == y * r
<1>3. Plain(v, K, x2, m, r) + rho * q = z + e
  <2>1. Plain(v, K, x2, m, r) = (v + q * S) * (K * r) + (K * m + y * r)
    BY DEF Plain, S, y
  <2>2. K * r \in Int /\ K * m \in Int /\ y * r \in Int /\ q * rho = rho * q
    BY <1>1, <1>2
  <2> DEFINE kr == K * r
             km == K * m
             yr == y * r
             qS == q * S
  <2>3. (v + qS) * kr = v * kr + qS * kr /\ qS * kr = q * (S * kr) /\ S * kr \in Int /\ v * kr \in Int /\ q * (S * kr) \in Int
    BY <1>1, <2>2
  <2>4. q * (S * kr + rho) = q * (S * kr) + q * rho
    BY <1>1, <2>3, Distribute
  <2>5. q * rho \in Int
    BY <1>1
  <2> HIDE DEF kr, km, yr, qS
  <2>6. \A a, b, c, d, f \in Int : (a + b) + (c + d) + f = ((a + c) + (b + f)) + d
    OBVIOUS
  <2>7. ((v * kr + q * (S * kr)) + (km + yr)) + q * rho = ((v * kr + km) + (q * (S * kr) + q * rho)) + yr
    <3>1. km \in Int /\ yr \in Int
      BY <2>2 DEF km, yr
    <3> QED
      BY <2>3, <2>5, <2>6, <3>1
  <2> QED
    BY <2>1, <2>2, <2>3, <2>4, <2>7 DEF kr, km, yr, qS
<1>4. w \in Int /\ S * (K * r) + rho \in Int /\ e \in Int /\ (K * x2) * r \in Int /\ z \in Int
  BY <1>1, <1>2
<1>5. Same(z, w)
  BY <1>4, SameMultiple
<1>6. Same(z + e, w + e)
  BY <1>4, <1>5, SamePlus
<1>7. Same(e, (K * x2) * r)
  BY <1>1, <1>2, SameTimes
<1>8. Same(w + e, w + (K * x2) * r)
  BY <1>4, <1>7, SamePlus
<1>9. w + (K * x2) * r = K * m + (K * r) * (v + x2)
  BY <1>1
<1>10. Same(v + x2, Q)
  <2>1. Q % q = Q
    BY Numbers, ModSmall
  <2> QED
    BY <2>1 DEF Same
<1>11. K * r \in Int /\ v + x2 \in Int /\ K * m \in Int /\ (K * r) * (v + x2) \in Int /\ (K * r) * Q \in Int
  BY <1>1
<1>12. Same((K * r) * (v + x2), (K * r) * Q)
  BY <1>1, <1>10, <1>11, SameTimes
<1>13. Same(K * m + (K * r) * (v + x2), K * m + (K * r) * Q)
  BY <1>11, <1>12, SamePlus
<1>14. K * m + (K * r) * Q = K * (m + r * Q) /\ K * (m + r * Q) \in Int /\ m + r * Q \in Int
  BY <1>1
<1> HIDE DEF z, w, e
<1> QED
  BY <1>3, <1>6, <1>8, <1>9, <1>13, <1>14, Zenon DEF Same

LEMMA SameNonzero ==
  ASSUME NEW a \in Int, NEW b \in Int, NEW c \in Int, Same(a * c, b), ~ Same(b, 0)
  PROVE  ~ Same(a, 0) /\ a % q # 0
<1>1. 0 % q = 0
  BY Numbers, ModSmall
<1>2. SUFFICES ASSUME Same(a, 0) PROVE FALSE
  BY <1>1 DEF Same
<1> DEFINE o == 0
<1>3. o \in Int /\ o * c = o /\ Same(a, o)
  BY <1>2
<1> HIDE DEF o
<1>4. Same(a * c, o * c)
  BY <1>3, SameTimes
<1>5. Same(b, o)
  BY <1>3, <1>4, Zenon DEF Same
<1> QED
  BY <1>5 DEF o

LEMMA NonceRange ==
  ASSUME NEW k1 \in 1 .. q - 1, NEW k2 \in 1 .. q - 1
  PROVE  Nonce(k1, k2) \in 1 .. q - 1 /\ (k1 * k2) % q \in 1 .. q - 1 /\ Nonce(k1, k2) = Nonce(k2, k1)
<1> DEFINE p == k1 * k2
           I == Inv(k1)
           J == Inv(k2)
<1>1. q \in Nat /\ q > 2
  BY ConstantTypes
<1>2. /\ I \in Int /\ J \in Int /\ k1 \in Int /\ k2 \in Int /\ p \in Int
      /\ k1 * I \in Int /\ k2 * J \in Int /\ I * J \in Int
  BY <1>1, Invertible
<1>3. Same(k1 * I, 1) /\ Same(k2 * J, 1)
  BY Invertible
<1> HIDE DEF I, J
<1>4. Same((k1 * I) * (k2 * J), k2 * J)
  BY <1>2, <1>3, SameOne
<1>5. (k1 * I) * (k2 * J) = p * (I * J)
  BY <1>2
<1>6. ~ Same(1, 0)
  BY <1>1, ModSmall DEF Same
<1>7. Same(p * (I * J), 1)
  BY <1>3, <1>4, <1>5, Zenon DEF Same
<1>8. p % q # 0
  <2> DEFINE c == I * J
             o == 1
  <2>1. c \in Int /\ o \in Int /\ Same(p * c, o) /\ ~ Same(o, 0)
    BY <1>2, <1>6, <1>7
  <2> HIDE DEF c, o, p
  <2> QED
    BY <1>2, <2>1, SameNonzero
<1>9. p % q \in 1 .. q - 1
  BY <1>2, <1>8, <1>1, SameRes
<1>10. k2 * k1 = p
  BY <1>2
<1> HIDE DEF p
<1>11. \A a \in 1 .. q - 1 : XCoord(a) \in 1 .. q - 1
  <2> SUFFICES ASSUME NEW a \in 1 .. q - 1 PROVE XCoord(a) \in 1 .. q - 1
    OBVIOUS
  <2>1. a \in Int /\ q - a \in 1 .. q - 1 /\ q - a \in Int
    BY <1>1
  <2>2. Min({a, q - a}) \in {a, q - a}
    BY <2>1, MinTwo
  <2> QED
    BY <2>1, <2>2 DEF XCoord
<1>12. XCoord(p % q) \in 1 .. q - 1
  BY <1>9, <1>11
<1>13. Nonce(k1, k2) = XCoord(p % q) /\ Nonce(k2, k1) = XCoord(p % q)
  BY <1>10, Zenon DEF Nonce, p
<1> QED
  BY <1>9, <1>12, <1>13 DEF p

LEMMA SignatureVerifies ==
  ASSUME NEW v \in Nat, v < q * 2 ^ (2 * SEC_P_STAT), NEW x2 \in 0 .. q - 1, NEW Q \in 0 .. q - 1,
         (v + x2) % q = Q, NEW m \in 0 .. q - 1, NEW k1 \in 1 .. q - 1, NEW k2 \in 1 .. q - 1,
         NEW rho \in Masks, NEW c_key, c_key.v = v,
         (m + Nonce(k1, k2) * Q) % q # 0
  PROVE  /\ Verifies(Q, m, Nonce(k1, k2), Completed(SignCipher(c_key, k2, x2, m, Nonce(k1, k2), rho).v, k1))
         /\ SignCipher(c_key, k2, x2, m, Nonce(k1, k2), rho).v \in 0 .. N - 1
         /\ SignCipher(c_key, k2, x2, m, Nonce(k1, k2), rho).n = c_key.n
<1> DEFINE r == Nonce(k1, k2)
           K == Inv(k2)
           I == Inv(k1)
           P == Plain(v, K, x2, m, r)
           t == P + rho * q
           W == m + r * Q
           s == (t * I) % q
           p == k1 * k2
           low == XCoord(s)
<1>0. q \in Nat /\ q > 2
  BY ConstantTypes
<1>1. r \in 1 .. q - 1 /\ p % q \in 1 .. q - 1
  BY NonceRange
<1>2. r \in 0 .. q - 1 /\ K \in 0 .. q - 1 /\ K \in Int /\ I \in Int /\ k1 \in Int /\ k2 \in Int
  BY <1>0, <1>1, Invertible
<1>3. Same(k1 * I, 1) /\ Same(k2 * K, 1)
  BY Invertible
<1> HIDE DEF r, K, I
<1>4. P \in Nat /\ P <= Room /\ Room \in Nat
  BY <1>2, PlainBound
<1>5. rho \in Int /\ rho * q \in Int /\ Centered(t)
  <2> HIDE DEF P
  <2> QED
    BY <1>4, MaskedBound
<1>6. Same(t, K * W) /\ K * W \in Int /\ W \in Int
  BY <1>2, <1>5, PlainSame
<1>7. SignCipher(c_key, k2, x2, m, r, rho).v = t % N
  <2>1. (v + q * 2 ^ SEC_P_STAT) * (K * r) + ((K * m + ((K * x2) % q) * r) + rho * q) = t
    <3> DEFINE a == (v + q * 2 ^ SEC_P_STAT) * (K * r)
               b == K * m + ((K * x2) % q) * r
               c == rho * q
    <3>1. a \in Int /\ b \in Int /\ c \in Int
      <4>1. 2 ^ SEC_P_STAT \in Int /\ r \in Int /\ m \in Int
        BY Powers, <1>0, <1>2
      <4>2. K * x2 \in Int
        BY <1>0, <1>2
      <4>3. (K * x2) % q \in Int
        BY <4>2, SameRes
      <4>4. \A y \in Int : K * m + y * r \in Int
        BY <1>2, <4>1
      <4>5. q * 2 ^ SEC_P_STAT \in Int /\ K * r \in Int
        BY <1>0, <1>2, <4>1
      <4>6. v + q * 2 ^ SEC_P_STAT \in Int
        BY <4>5
      <4> QED
        BY <1>5, <4>3, <4>4, <4>5, <4>6
    <3>2. t = (a + b) + c
      BY DEF Plain
    <3> HIDE DEF a, b, c, t
    <3>3. a + (b + c) = t
      BY <3>1, <3>2
    <3> QED
      BY <3>3 DEF a, b, c
  <2> QED
    BY <2>1, Zenon DEF SignCipher, Enc, K
<1>8. t \in Int
  BY <1>5 DEF Centered
<1> HIDE DEF P, t
<1>9. Completed(t % N, k1) = low
  BY <1>5, <1>8, Recovered DEF I
<1>10. t * I \in Int /\ s \in Int /\ s \in 0 .. q - 1 /\ Same(s, t * I)
  <2>1. t * I \in Int
    BY <1>2, <1>8
  <2> QED
    BY <2>1, SameRes
<1>11. Same(t * I, (K * W) * I)
  BY <1>2, <1>6, <1>8, SameTimes
<1> HIDE DEF s, W, p
<1>12. p \in Int /\ p = k1 * k2
  BY <1>2 DEF p
<1>13. Same(s * p, W)
  <2>1. Same(s * p, ((K * W) * I) * p)
    <3>1. Same(s, (K * W) * I) /\ (K * W) * I \in Int
      BY <1>2, <1>6, <1>10, <1>11 DEF Same
    <3> QED
      BY <1>10, <1>12, <3>1, SameTimes
  <2>2. ((K * W) * I) * p = (k1 * I) * ((k2 * K) * W)
    BY <1>2, <1>6, <1>12
  <2>3. k1 * I \in Int /\ (k2 * K) * W \in Int /\ k2 * K \in Int
    BY <1>2, <1>6
  <2>4. Same((k1 * I) * ((k2 * K) * W), (k2 * K) * W)
    BY <1>3, <2>3, SameOne
  <2>5. Same((k2 * K) * W, W)
    BY <1>3, <1>6, <2>3, SameOne
  <2> QED
    BY <2>1, <2>2, <2>4, <2>5, Zenon DEF Same
<1>14. ~ Same(W, 0)
  <2>1. W % q # 0
    BY DEF W, r
  <2> QED
    BY <2>1, Numbers, ModSmall DEF Same
<1>15. s # 0 /\ s \in 1 .. q - 1
  <2>1. s % q # 0
    BY <1>6, <1>10, <1>12, <1>13, <1>14, SameNonzero
  <2>2. s # 0
    BY <2>1, Numbers, ModSmall
  <2> QED
    BY <1>10, <2>2, <1>0
<1>16. low \in {s, q - s}
  <2>1. q - s \in Int
    BY <1>0, <1>10
  <2> QED
    BY <1>10, <2>1, MinTwo DEF XCoord
<1>17. low \in 1 .. q - 1 /\ low \in Int
  BY <1>0, <1>15, <1>16
<1> DEFINE J == Inv(low)
           R == (J * W) % q
<1>18. J \in Int /\ Same(low * J, 1)
  BY <1>17, Invertible
<1> HIDE DEF J, low
<1>19. J * W \in Int /\ R \in 0 .. q - 1 /\ R \in Int /\ Same(R, J * W)
  <2>1. J * W \in Int
    BY <1>6, <1>18
  <2> QED
    BY <2>1, SameRes
<1>20. Same(J * (s * p), J * W) /\ J * (s * p) \in Int
  <2>1. s * p \in Int
    BY <1>10, <1>12
  <2>2. J * (s * p) \in Int
    BY <1>18, <2>1
  <2> QED
    BY <1>6, <1>13, <1>18, <2>1, <2>2, SameTimes
<1>21. R \in {p % q, q - (p % q)}
  <2>1. CASE low = s
    <3>1. J * (s * p) = (low * J) * p /\ low * J \in Int
      BY <1>12, <1>17, <1>18, <2>1
    <3>2. Same((low * J) * p, p)
      BY <1>12, <1>18, <3>1, SameOne
    <3>4. Same(R, p)
      BY <1>19, <1>20, <3>1, <3>2, Zenon DEF Same
    <3>5. Same(R, p % q) /\ p % q \in 0 .. q - 1
      BY <1>12, <3>4, SameRes DEF Same
    <3> QED
      BY <1>19, <3>5, SameSmall
  <2>2. CASE low = q - s
    <3>1. s = q + (-1) * low
      BY <1>0, <1>10, <2>2
    <3> DEFINE g == (-1) * ((low * J) * p)
    <3>2. low * J \in Int /\ (low * J) * p \in Int /\ J * p \in Int /\ g \in Int
      BY <1>12, <1>17, <1>18
    <3>3. J * (s * p) = g + q * (J * p)
      BY <1>0, <1>12, <1>17, <1>18, <3>1
    <3>4. Same(g + q * (J * p), g)
      BY <3>2, SameMultiple
    <3>7. Same((low * J) * p, p)
      BY <1>12, <1>18, <3>2, SameOne
    <3>8. Same(g, (-1) * p)
      BY <1>12, <3>2, <3>7, SameTimes
    <3>9. Same(p, p % q) /\ p % q \in Int
      BY <1>12, SameRes
    <3>10. Same((-1) * p, (-1) * (p % q)) /\ (-1) * (p % q) \in Int
      BY <1>12, <3>9, SameTimes
    <3> DEFINE u == p % q
    <3>11. u \in Int /\ u \in 1 .. q - 1 /\ Same((-1) * p, (-1) * u) /\ (-1) * u \in Int
      BY <1>1, <3>9, <3>10 DEF p
    <3> HIDE DEF u, g
    <3>12. Same((-1) * u + q * 1, (-1) * u)
      BY <3>11, SameMultiple
    <3>13. (-1) * u + q * 1 = q - u /\ q - u \in 0 .. q - 1
      BY <1>0, <3>11
    <3>14. Same(R, q - u)
      BY <1>19, <1>20, <3>3, <3>4, <3>8, <3>11, <3>12, <3>13, Zenon DEF Same
    <3>15. R = q - u
      BY <1>19, <3>13, <3>14, SameSmall
    <3> QED
      BY <3>15 DEF u
  <2> QED
    BY <1>16, <2>1, <2>2
<1>22. R # 0 /\ XCoord(R) = r
  <2> DEFINE u == p % q
  <2>1. u \in 1 .. q - 1 /\ R \in {u, q - u}
    BY <1>1, <1>21 DEF p
  <2>2. r = XCoord(u)
    BY DEF r, p, Nonce
  <2> HIDE DEF u, R
  <2>3. u \in Int /\ q - u \in Int /\ q - (q - u) = u /\ u # 0 /\ q - u # 0
    BY <1>0, <2>1
  <2>4. XCoord(q - u) = XCoord(u)
    BY <2>3, MinTwo DEF XCoord
  <2> QED
    BY <2>1, <2>2, <2>3, <2>4
<1>23. low # 0
  BY <1>17
<1>24. Completed(SignCipher(c_key, k2, x2, m, r, rho).v, k1) = low
  BY <1>7, <1>9
<1>25. Verifies(Q, m, r, low)
  BY <1>22, <1>23 DEF Verifies, J, W
<1>26. t % N \in 0 .. N - 1
  BY <1>8, Numbers, ModDef
<1>27. SignCipher(c_key, k2, x2, m, r, rho).n = c_key.n
  BY DEF SignCipher, Enc
<1> QED
  BY <1>7, <1>24, <1>25, <1>26, <1>27 DEF r

-----------------------------------------------------------------------------
(* What a session has sent and how its calls may have ended.               *)

(* The callers' part: both hold keys when they sign.                       *)
Calls ==
  /\ DOMAIN msgs = Honest
  /\ kind \in Sign => \A p \in Honest : msgs[p] \in Batches /\ key[p] # None
  /\ \A p \in Honest : pc[p] \in {"opened", "unverified", "leak"} => kind \in Sign

SignFirst ==
  (1 \in Honest /\ kind \in Sign) =>
    /\ pc[1] = "start" => msg[1] = None
    /\ pc[1] \in {"start", "sent"} => msg[3] = None
    /\ (msg[1] # None \/ msg[3] # None \/ pc[1] \in {"sent", "opened", "unverified", "leak"}) =>
         draw[1] \in Draws(Len(msgs[1])) /\ msg[1] = SignCom(msgs[1], draw[1])
    /\ msg[3] # None => msg[3] = draw[1]
    /\ pc[1] \in {"opened", "unverified", "leak"} =>
         msg[2] # None /\ \A i \in DOMAIN msgs[1] : OnCurve(msg[2][i])
    /\ msg[2] # None => msg[2] \in Seq(Nat)

(* The ciphertext and the proof P2 makes for its i-th message.             *)
Item(i, rho) ==
  SignItem(key[2].c, key[2].x, draw[2][i], msgs[2][i], Nonce(draw[2][i], msg[3][i]), rho, i)

Answer ==
  \E rho \in [DOMAIN msgs[2] -> RhoDraw] : msg[4] = [i \in DOMAIN msgs[2] |-> Item(i, rho[i])]

SignSecond ==
  (2 \in Honest /\ kind \in Sign) =>
    /\ pc[2] = "start" => msg[2] = None
    /\ pc[2] \in {"start", "sent"} => msg[4] = None
    /\ (msg[2] # None \/ msg[4] # None \/ pc[2] = "sent") =>
         draw[2] \in Draws(Len(msgs[2])) /\ msg[2] = draw[2] /\ msg[1] # None
    /\ msg[4] # None =>
         msg[3] # None /\ msg[1] = SignCom(msgs[2], msg[3]) /\ Answer

(* Only true statements have a proof, of whichever P2.                     *)
TrueStatement(zk) ==
  \E rho \in Masks : zk.c = SignCipher(zk.c_key, zk.R2, zk.Q2, zk.m, zk.r, rho)

TrueStatements ==
  (1 \in Honest /\ kind \in Sign /\ msg[4] # None) =>
    \/ msg[4] = <<>>
    \/ DOMAIN msg[4] = DOMAIN msgs[1] /\ \A i \in DOMAIN msg[4] : TrueStatement(msg[4][i].zk)

(* Parties whose callers did nothing apart.                                *)
Matching ==
  BothHonest /\ lineage[1] \ {session} = lineage[2] \ {session} /\ msgs[1] = msgs[2]

(* What P1 has proved in a session for keys, and from which ciphertext.    *)
KeyRun ==
  /\ (1 \in Honest /\ kind = "dkg") =>
       /\ (msg[1] # None \/ pc[1] \in {"sent", "done"}) => msg[1].c_gen = msg[1].c_key
       /\ pc[1] = "done" => msg[3].pdl = PdlStatement(msg[1].c_key, draw[1])
  /\ (1 \in Honest /\ kind = "refresh") =>
       ((msg[1] # None \/ pc[1] \in {"sent", "done"}) => msg[1].N_tag = session)
  /\ (Matching /\ kind = "refresh" /\ pc[2] # "done") =>
       IF pc[1] = "done" THEN msg[3].equal = EqualStatement(key[2].c, msg[1].c_key_tag)
                         ELSE key[1].c = key[2].c

Alarms == {"crypto", "format", "unverified", "leak"}

(* Such parties reject nothing but P1 a degenerate signature.              *)
Quiet ==
  Matching => /\ pc[2] \notin Alarms
              /\ pc[1] \in Alarms => kind \in Sign /\ Degenerate

RunInv ==
  /\ Calls /\ SignFirst /\ SignSecond /\ TrueStatements /\ KeyRun /\ Quiet
  /\ LeakNeedsFaultOrTornKey /\ ProvedCiphertextsSign

-----------------------------------------------------------------------------
(* Before the first session.                                               *)
LEMMA InitRun ==
  ASSUME Init
  PROVE  RunInv
<1>1. kind = "none" /\ kind \notin Sign /\ DOMAIN msgs = Honest /\ \A p \in Honest : pc[p] = "idle"
  BY DEF Init, Sign
<1>2. BothHonest => 1 \in Honest /\ 2 \in Honest
  BY DEF BothHonest, Honest
<1>3. Calls
  BY <1>1 DEF Calls
<1>4. SignFirst /\ SignSecond /\ TrueStatements /\ KeyRun
  BY <1>1 DEF SignFirst, SignSecond, TrueStatements, KeyRun
<1>5. Quiet
  BY <1>1, <1>2 DEF Quiet, Matching, Alarms
<1>6. LeakNeedsFaultOrTornKey /\ ProvedCiphertextsSign
  BY <1>1 DEF LeakNeedsFaultOrTornKey, ProvedCiphertextsSign
<1> QED
  BY <1>3, <1>4, <1>5, <1>6 DEF RunInv

(* A signature that was degenerate stays so.                               *)
LEMMA DegenerateStays ==
  ASSUME UNCHANGED <<key, msgs>>, draw'[1] = draw[1], msg[2] # None => msg'[2] = msg[2], Degenerate
  PROVE  Degenerate'
BY DEF Degenerate

LEMMA AnswerStays ==
  ASSUME UNCHANGED <<key, msgs>>, draw'[2] = draw[2], msg'[3] = msg[3], msg'[4] = msg[4], Answer
  PROVE  Answer'
<1>1. \A i, rho : Item(i, rho)' = Item(i, rho)
  BY DEF Item
<1>2. PICK rho \in [DOMAIN msgs[2] -> RhoDraw] : msg[4] = [i \in DOMAIN msgs[2] |-> Item(i, rho[i])]
  BY DEF Answer
<1>3. msg'[4] = [i \in DOMAIN msgs'[2] |-> Item(i, rho[i])'] /\ rho \in [DOMAIN msgs'[2] -> RhoDraw]
  BY <1>1, <1>2
<1> QED
  BY <1>3 DEF Answer

(* A step keeps the parties matching, whether it stores a key or not.      *)
LEMMA MatchingStays ==
  ASSUME UNCHANGED <<setup, session, msgs>>,
         \A p \in Honest : lineage'[p] \in {lineage[p], lineage[p] \union {session}}
  PROVE  /\ Matching' <=> Matching
         /\ Honest' = Honest /\ (BothHonest' <=> BothHonest)
<1>1. Honest' = Honest /\ (BothHonest' <=> BothHonest)
  BY DEF Honest, BothHonest
<1>2. BothHonest => 1 \in Honest /\ 2 \in Honest
  BY DEF BothHonest, Honest
<1>3. \A p \in Honest : lineage'[p] \ {session} = lineage[p] \ {session}
  OBVIOUS
<1> QED
  BY <1>1, <1>2, <1>3 DEF Matching

(* Stored keys load.                                                       *)
LEMMA BlobsLoad ==
  ASSUME IndInv, NEW p \in Honest
  PROVE  BlobOk(p)
<1> SUFFICES ASSUME key[p] # None PROVE key[p].x \in 0 .. N - 1 /\ (p = 1 => key[1].c.v = key[1].x)
  BY DEF BlobOk
<1>1. setup \in Setups /\ session \in 0 .. Len(setup.kinds) /\ session # 0
  BY DEF IndInv, Sessions
<1>2. KeyOk(p)
  BY DEF IndInv, Keys
<1>3. Len(setup.kinds) \in Nat /\ q * Len(setup.kinds) < N /\ q * Len(setup.kinds) \in Nat
  BY <1>1, SessionsFit
<1> DEFINE L == Len(setup.kinds)
<1>4. L \in Nat /\ q * L < N /\ session \in 1 .. L /\ q * L \in Nat
  BY <1>1, <1>3
<1> HIDE DEF L
<1>5. q * session <= q * L /\ q * 1 <= q * session /\ q * session \in Nat
  <2>1. session \in Nat /\ session <= L /\ 1 <= session /\ q \in Nat
    BY <1>4, Numbers
  <2> QED
    BY <1>4, <2>1, TimesMono
<1>6. q * session < N /\ q <= q * session
  BY <1>4, <1>5, Numbers
<1>7. p \in {1, 2}
  BY DEF Honest
<1> QED
  BY <1>2, <1>5, <1>6, <1>7, Numbers DEF KeyOk

LEMMA NewSessionRun ==
  ASSUME IndInv, IndInv', NewSession
  PROVE  RunInv'
<1>1. Honest' = Honest /\ (BothHonest' <=> BothHonest) /\ UNCHANGED <<setup, key, lineage>>
  BY DEF NewSession, Honest, BothHonest
<1>2. pc' = [p \in Honest |-> "start"]
  BY BlobsLoad DEF NewSession
<1>3. /\ \A p \in Honest : pc'[p] = "start"
      /\ msg'[1] = None /\ msg'[2] = None /\ msg'[3] = None /\ msg'[4] = None
  BY <1>2 DEF NewSession
<1>4. DOMAIN msgs' = Honest /\ (kind' \in Sign => \A p \in Honest : msgs'[p] \in Batches)
  BY DEF NewSession, Sign
<1>5. kind' \in Sign \union {"refresh"} => \A p \in Honest : key[p] # None
  <2>1. /\ setup \in Setups /\ Len(setup.kinds) \in Nat /\ session \in 0 .. Len(setup.kinds) - 1
        /\ setup.kinds # <<>>
    BY SetupTypes DEF IndInv, Sessions, NewSession
  <2>2. kind' \in setup.kinds[session + 1]
    BY DEF NewSession
  <2>3. session = 0 => kind' = "dkg"
    BY <2>1, <2>2, SetupTypes
  <2> QED
    BY <2>1, <2>3 DEF NewSession, Sign
<1>6. Calls'
  BY <1>1, <1>3, <1>4, <1>5 DEF Calls
<1>7. SignFirst' /\ SignSecond' /\ TrueStatements'
  BY <1>1, <1>3 DEF SignFirst, SignSecond, TrueStatements
<1>8. BothHonest => 1 \in Honest /\ 2 \in Honest
  BY DEF BothHonest, Honest
<1>9. KeyRun'
  <2>0. kind' = "refresh" => \A p \in Honest : key[p] # None
    BY <1>5
  <2>1. ASSUME Matching', kind' = "refresh" PROVE key'[1].c = key'[2].c
    <3>1. \A p \in Honest : lineage[p] \subseteq 1 .. session /\ session' = session + 1 /\ session \in Int
      <4>1. Len(setup.kinds) \in Nat
        BY SetupTypes DEF IndInv, Sessions
      <4> QED
        BY <4>1 DEF IndInv, Sessions, NewSession
    <3>2. \A p \in Honest : session' \notin lineage[p]
      BY <3>1
    <3>3. lineage[1] \ {session'} = lineage[2] \ {session'}
      BY <1>1, <2>1 DEF Matching
    <3>4. session' \notin lineage[1] /\ session' \notin lineage[2]
      BY <1>1, <1>8, <2>1, <3>2 DEF Matching
    <3>5. lineage[1] = lineage[2]
      BY <3>3, <3>4
    <3> QED
      BY <1>1, <1>8, <2>0, <2>1, <3>5 DEF IndInv, CipherHoldsPeerShare, Matching
  <2>2. 1 \in Honest => pc'[1] = "start"
    BY <1>3
  <2>3. Matching' => pc'[1] = "start"
    BY <1>1, <1>3, <1>8 DEF Matching
  <2> QED
    BY <1>1, <1>3, <2>1, <2>2, <2>3 DEF KeyRun
<1>10. Quiet'
  BY <1>1, <1>3, <1>8 DEF Quiet, Matching, Alarms
<1>11. LeakNeedsFaultOrTornKey' /\ ProvedCiphertextsSign'
  BY <1>1, <1>3 DEF LeakNeedsFaultOrTornKey, ProvedCiphertextsSign
<1> QED
  BY <1>6, <1>7, <1>9, <1>10, <1>11 DEF RunInv

(* A call that fails; a check that fails needs a reason.                   *)
LEMMA FailRun ==
  ASSUME IndInv, RunInv, NEW p \in Honest, Running(p), NEW code \in {"net", "crypto"}, Fail(p, code),
         UNCHANGED <<setup, kind, session, msgs>>,
         (code = "crypto" /\ Matching) => p = 1 /\ kind \in Sign /\ Degenerate
  PROVE  RunInv'
<1>1. DOMAIN pc = Honest /\ pc' = [pc EXCEPT ![p] = code] /\ UNCHANGED <<key, lineage, draw, msg>>
  BY DEF IndInv, Sessions, Fail, Enter
<1>2. pc'[p] = code /\ \A j \in Honest \ {p} : pc'[j] = pc[j]
  BY <1>1
<1>3. (Matching' <=> Matching) /\ Honest' = Honest /\ (BothHonest' <=> BothHonest)
  BY <1>1, MatchingStays
<1>4. Degenerate' <=> Degenerate
  BY <1>1 DEF Degenerate
<1>5. Calls'
  BY <1>1, <1>2, <1>3 DEF RunInv, Calls
<1>6. 1 \in Honest => pc'[1] = pc[1] \/ pc'[1] \in {"net", "crypto"}
  BY <1>2
<1>7. 2 \in Honest => pc'[2] = pc[2] \/ pc'[2] \in {"net", "crypto"}
  BY <1>2
<1>8. SignFirst'
  BY <1>1, <1>3, <1>6 DEF RunInv, SignFirst
<1>9. SignSecond'
  BY <1>1, <1>3, <1>7, AnswerStays DEF RunInv, SignSecond
<1>10. TrueStatements'
  BY <1>1, <1>3 DEF RunInv, TrueStatements
<1>11. KeyRun'
  <2>1. Matching => 1 \in Honest /\ 2 \in Honest
    BY DEF Matching, BothHonest, Honest
  <2>2. 1 \in Honest => (pc'[1] = "done" <=> pc[1] = "done") /\ (pc'[1] \in {"sent", "done"} => pc[1] \in {"sent", "done"})
    BY <1>2 DEF Running
  <2>3. 2 \in Honest => (pc'[2] = "done" <=> pc[2] = "done")
    BY <1>2 DEF Running
  <2> QED
    BY <1>1, <1>3, <2>1, <2>2, <2>3 DEF RunInv, KeyRun
<1>12. Quiet'
  <2>1. Matching => 1 \in Honest /\ 2 \in Honest
    BY DEF Matching, BothHonest, Honest
  <2>2. Matching => pc'[2] \notin Alarms
    BY <1>2, <2>1 DEF RunInv, Quiet, Alarms
  <2>3. Matching /\ pc'[1] \in Alarms => kind \in Sign /\ Degenerate
    BY <1>2, <2>1 DEF RunInv, Quiet, Alarms
  <2> QED
    BY <1>3, <1>4, <2>2, <2>3 DEF Quiet
<1>13. LeakNeedsFaultOrTornKey' /\ ProvedCiphertextsSign'
  BY <1>1, <1>3, <1>4, <1>6 DEF RunInv, LeakNeedsFaultOrTornKey, ProvedCiphertextsSign
<1> QED
  BY <1>5, <1>8, <1>9, <1>10, <1>11, <1>12, <1>13 DEF RunInv

-----------------------------------------------------------------------------
(* A step of a session for keys that raises no alarm.                      *)
LEMMA KeyStepRun ==
  ASSUME IndInv, RunInv, KeySession, UNCHANGED <<setup, kind, session, msgs>>,
         \A p \in Honest : lineage'[p] \in {lineage[p], lineage[p] \union {session}},
         \A p \in Honest : pc'[p] = pc[p] \/ pc'[p] \in {"sent", "done"}, KeyRun'
  PROVE  RunInv'
<1>1. kind \notin Sign /\ kind' \notin Sign
  BY DEF KeySession, Sign
<1>2. (Matching' <=> Matching) /\ Honest' = Honest /\ (BothHonest' <=> BothHonest)
  BY MatchingStays
<1>3. Matching => 1 \in Honest /\ 2 \in Honest
  BY DEF Matching, BothHonest, Honest
<1>4. \A p \in Honest : pc'[p] \notin {"opened", "unverified", "leak"}
  BY <1>1 DEF RunInv, Calls
<1>5. Calls'
  BY <1>1, <1>2, <1>4 DEF RunInv, Calls
<1>6. SignFirst' /\ SignSecond' /\ TrueStatements'
  BY <1>1 DEF SignFirst, SignSecond, TrueStatements
<1>7. \A p \in Honest : pc'[p] \in Alarms => pc[p] \in Alarms
  BY DEF Alarms
<1>8. Quiet'
  BY <1>1, <1>2, <1>3, <1>7 DEF RunInv, Quiet
<1>9. LeakNeedsFaultOrTornKey' /\ ProvedCiphertextsSign'
  BY <1>2, <1>4 DEF LeakNeedsFaultOrTornKey, ProvedCiphertextsSign
<1> QED
  BY <1>5, <1>6, <1>8, <1>9 DEF RunInv

LEMMA DkgStep1Run ==
  ASSUME IndInv, RunInv, DkgStep1, UNCHANGED <<setup, kind, session, msgs, errs>>
  PROVE  RunInv'
<1>1. 1 \in Honest /\ kind = "dkg" /\ pc[1] = "start" /\ KeySession /\ UNCHANGED <<key, lineage>>
  BY DEF DkgStep1, At, KeySession
<1>2. DOMAIN pc = Honest /\ DOMAIN msg = 1 .. 4
  BY DEF IndInv, Sessions
<1>3. pc' = [pc EXCEPT ![1] = "sent"]
  BY DEF DkgStep1, Enter
<1>4. PICK x \in Draw :
        Send(1, [com |-> Com(x), N |-> session, c_gen |-> Enc(session, x), c_key |-> Enc(session, x)])
  BY DEF DkgStep1
<1>5. pc'[1] = "sent" /\ msg'[1].c_gen = msg'[1].c_key /\ \A p \in Honest \ {1} : pc'[p] = pc[p]
  BY <1>1, <1>2, <1>3, <1>4 DEF Send
<1>6. KeyRun'
  BY <1>1, <1>5 DEF KeyRun
<1> QED
  BY <1>1, <1>5, <1>6, KeyStepRun

LEMMA DkgStep2Run ==
  ASSUME IndInv, RunInv, DkgStep2, UNCHANGED <<setup, kind, session, msgs, errs>>
  PROVE  RunInv'
<1>1. 2 \in Honest /\ kind = "dkg" /\ pc[2] = "start" /\ KeySession /\ msg[1] # None
  BY DEF DkgStep2, At, KeySession
<1>2. Matching => 1 \in Honest
  BY DEF Matching, BothHonest, Honest
<1>3. CASE msg[1].c_gen # msg[1].c_key
  <2>1. Fail(2, "crypto")
    BY <1>3 DEF DkgStep2
  <2>2. ~ Matching
    BY <1>1, <1>2, <1>3 DEF RunInv, KeyRun
  <2> QED
    BY <1>1, <2>1, <2>2, FailRun DEF Running
<1>4. CASE msg[1].c_gen = msg[1].c_key
  <2>1. PICK x \in Draw : draw' = [draw EXCEPT ![2] = x] /\ Send(2, [Q2 |-> x])
    BY <1>4 DEF DkgStep2
  <2>2. pc' = [pc EXCEPT ![2] = "sent"] /\ UNCHANGED <<key, lineage>>
    BY <1>4 DEF DkgStep2, Enter
  <2>3. DOMAIN pc = Honest /\ DOMAIN draw = Honest /\ DOMAIN msg = 1 .. 4
    BY DEF IndInv, Sessions
  <2>4. /\ pc'[2] = "sent" /\ \A p \in Honest \ {2} : pc'[p] = pc[p] /\ draw'[p] = draw[p]
        /\ msg'[1] = msg[1] /\ msg'[3] = msg[3]
    BY <1>1, <2>1, <2>2, <2>3 DEF Send
  <2>5. Honest' = Honest
    BY DEF Honest
  <2>6. KeyRun'
    BY <1>1, <2>4, <2>5 DEF RunInv, KeyRun
  <2> QED
    BY <1>1, <2>2, <2>4, <2>6, KeyStepRun
<1> QED
  BY <1>3, <1>4

LEMMA DkgStep3Run ==
  ASSUME IndInv, RunInv, DkgStep3, UNCHANGED <<setup, kind, session, msgs, errs>>
  PROVE  RunInv'
<1>1. 1 \in Honest /\ kind = "dkg" /\ pc[1] = "sent" /\ KeySession /\ msg[2] # None
  BY DEF DkgStep3, At, KeySession
<1>2. Matching => 2 \in Honest
  BY DEF Matching, BothHonest, Honest
<1>3. CASE ~ OnCurve(msg[2].Q2)
  <2>1. Fail(1, "crypto")
    BY <1>3 DEF DkgStep3
  <2>2. 2 \in Honest => msg[2].Q2 \in Draw
    BY <1>1 DEF IndInv, Second
  <2>3. \A x \in Draw : OnCurve(x)
    BY Numbers DEF OnCurve, Zq
  <2>4. ~ Matching
    BY <1>2, <1>3, <2>2, <2>3
  <2> QED
    BY <1>1, <2>1, <2>4, FailRun DEF Running
<1>4. CASE OnCurve(msg[2].Q2)
  <2> DEFINE new == [x |-> draw[1], Q |-> (draw[1] + msg[2].Q2) % q, c |-> msg[1].c_key]
  <2>1. /\ Store(1, new) /\ UNCHANGED draw
        /\ msg' = [msg EXCEPT ![3] = [Q1 |-> draw[1], pdl |-> PdlStatement(msg[1].c_key, draw[1])]]
    BY <1>4 DEF DkgStep3, Send
  <2>2. DOMAIN pc = Honest /\ DOMAIN msg = 1 .. 4 /\ DOMAIN lineage = Honest
    BY DEF IndInv, Sessions
  <2>3. /\ pc'[1] = "done" /\ \A p \in Honest \ {1} : pc'[p] = pc[p] /\ lineage'[p] = lineage[p]
        /\ lineage'[1] = lineage[1] \union {session}
    BY <1>1, <2>1, <2>2 DEF Store, Enter
  <2>4. msg'[1] = msg[1] /\ msg'[3].pdl = PdlStatement(msg[1].c_key, draw[1])
    BY <2>1, <2>2
  <2>5. msg[1].c_gen = msg[1].c_key
    BY <1>1 DEF RunInv, KeyRun
  <2>6. KeyRun'
    BY <1>1, <2>1, <2>3, <2>4, <2>5 DEF KeyRun
  <2> QED
    BY <1>1, <2>3, <2>6, KeyStepRun
<1> QED
  BY <1>3, <1>4

LEMMA DkgStep4Run ==
  ASSUME IndInv, RunInv, DkgStep4, UNCHANGED <<setup, kind, session, msgs, errs>>
  PROVE  RunInv'
<1> DEFINE ok == OnCurve(msg[3].Q1) /\ msg[1].com = Com(msg[3].Q1) /\ PaillierProved
<1>1. 2 \in Honest /\ kind = "dkg" /\ pc[2] = "sent" /\ KeySession /\ msg[3] # None
  BY DEF DkgStep4, At, KeySession
<1>2. Matching => 1 \in Honest
  BY DEF Matching, BothHonest, Honest
<1>3. CASE ~ ok
  <2>1. Fail(2, "crypto")
    BY <1>3 DEF DkgStep4
  <2>2. 1 \in Honest => ok
    <3> SUFFICES ASSUME 1 \in Honest PROVE ok
      OBVIOUS
    <3>1. pc[1] = "done"
      BY <1>1 DEF IndInv, First
    <3>2. draw[1] \in Draw /\ msg[1].com = Com(draw[1]) /\ msg[1].N = session /\ msg[3].Q1 = draw[1]
      BY <1>1, <3>1 DEF IndInv, First
    <3>3. msg[3].pdl = PdlStatement(msg[1].c_key, draw[1])
      BY <1>1, <3>1 DEF RunInv, KeyRun
    <3>4. session # 0
      BY <1>1 DEF IndInv, Sessions
    <3>5. \A x \in Draw : OnCurve(x)
      BY Numbers DEF OnCurve, Zq
    <3> QED
      BY <3>2, <3>3, <3>4, <3>5 DEF PaillierProved
  <2>3. ~ Matching
    BY <1>2, <1>3, <2>2
  <2> QED
    BY <1>1, <2>1, <2>3, FailRun DEF Running
<1>4. CASE ok
  <2> DEFINE new == [x |-> draw[2], Q |-> (msg[3].Q1 + draw[2]) % q, c |-> msg[1].c_key]
  <2>1. Store(2, new) /\ UNCHANGED <<draw, msg>>
    BY <1>4 DEF DkgStep4
  <2>2. DOMAIN pc = Honest /\ DOMAIN lineage = Honest
    BY DEF IndInv, Sessions
  <2>3. /\ pc'[2] = "done" /\ \A p \in Honest \ {2} : pc'[p] = pc[p] /\ lineage'[p] = lineage[p]
        /\ lineage'[2] = lineage[2] \union {session}
    BY <1>1, <2>1, <2>2 DEF Store, Enter
  <2>4. Honest' = Honest
    BY DEF Honest
  <2>5. KeyRun'
    BY <1>1, <2>1, <2>3, <2>4 DEF RunInv, KeyRun
  <2> QED
    BY <1>1, <2>3, <2>5, KeyStepRun
<1> QED
  BY <1>3, <1>4

LEMMA RefreshStep1Run ==
  ASSUME IndInv, RunInv, RefreshStep1, UNCHANGED <<setup, kind, session, msgs, errs>>
  PROVE  RunInv'
<1>1. 1 \in Honest /\ kind = "refresh" /\ pc[1] = "start" /\ KeySession /\ UNCHANGED <<key, lineage>>
  BY DEF RefreshStep1, At, KeySession
<1>2. DOMAIN pc = Honest /\ DOMAIN msg = 1 .. 4
  BY DEF IndInv, Sessions
<1>3. pc' = [pc EXCEPT ![1] = "sent"]
  BY DEF RefreshStep1, Enter
<1>4. PICK rho1 \in Draw :
        Send(1, [com |-> Com(rho1), N_tag |-> session, c_key_tag |-> Enc(session, key[1].x)])
  BY DEF RefreshStep1
<1>5. pc'[1] = "sent" /\ msg'[1].N_tag = session /\ \A p \in Honest \ {1} : pc'[p] = pc[p]
  BY <1>1, <1>2, <1>3, <1>4 DEF Send
<1>6. Matching' <=> Matching
  BY <1>1, MatchingStays
<1>7. Matching => 2 \in Honest
  BY DEF Matching, BothHonest, Honest
<1>8. (Matching /\ pc'[2] # "done") => key[1].c = key[2].c
  BY <1>1, <1>5, <1>7 DEF RunInv, KeyRun
<1>9. KeyRun'
  BY <1>1, <1>5, <1>6, <1>8 DEF KeyRun
<1> QED
  BY <1>1, <1>5, <1>9, KeyStepRun

LEMMA RefreshStep2Run ==
  ASSUME IndInv, RunInv, RefreshStep2, UNCHANGED <<setup, kind, session, msgs, errs>>
  PROVE  RunInv'
<1>1. 2 \in Honest /\ kind = "refresh" /\ pc[2] = "start" /\ KeySession /\ msg[1] # None
  BY DEF RefreshStep2, At, KeySession
<1>2. Matching => 1 \in Honest
  BY DEF Matching, BothHonest, Honest
<1>3. CASE msg[1].N_tag = 0 /\ Fail(2, "crypto")
  <2>1. session # 0
    BY <1>1 DEF IndInv, Sessions
  <2>2. ~ Matching
    BY <1>1, <1>2, <1>3, <2>1 DEF RunInv, KeyRun
  <2> QED
    BY <1>1, <1>3, <2>2, FailRun DEF Running
<1>4. CASE ~ (msg[1].N_tag = 0 /\ Fail(2, "crypto"))
  <2>1. DOMAIN pc = Honest /\ DOMAIN msg = 1 .. 4
    BY DEF IndInv, Sessions
  <2>2. pc' = [pc EXCEPT ![2] = "sent"] /\ UNCHANGED <<key, lineage>>
    BY <1>4 DEF RefreshStep2, Enter
  <2>3. pc'[2] = "sent" /\ \A p \in Honest \ {2} : pc'[p] = pc[p]
    BY <1>1, <2>1, <2>2
  <2>4. msg'[1] = msg[1] /\ msg'[3] = msg[3]
    BY <1>4, <2>1 DEF RefreshStep2, Send
  <2>5. (Matching' <=> Matching) /\ Honest' = Honest
    BY <1>1, <2>2, MatchingStays
  <2>6. KeyRun'
    BY <1>1, <1>2, <2>2, <2>3, <2>4, <2>5 DEF RunInv, KeyRun
  <2> QED
    BY <1>1, <2>2, <2>3, <2>6, KeyStepRun
<1> QED
  BY <1>3, <1>4

LEMMA RefreshStep3Run ==
  ASSUME IndInv, RunInv, RefreshStep3, UNCHANGED <<setup, kind, session, msgs, errs>>
  PROVE  RunInv'
<1> DEFINE tag == msg[1].c_key_tag
           new == Shifted(key[1], 1, tag, (draw[1] + msg[2].rho2) % q)
<1>1. /\ 1 \in Honest /\ kind = "refresh" /\ pc[1] = "sent" /\ KeySession
      /\ msg' = [msg EXCEPT ![3] = [rho1 |-> draw[1], equal |-> EqualStatement(key[1].c, tag)]]
      /\ Store(1, new)
  BY DEF RefreshStep3, At, KeySession, Send
<1>2. /\ DOMAIN pc = Honest /\ DOMAIN msg = 1 .. 4 /\ DOMAIN lineage = Honest /\ DOMAIN key = Honest
      /\ key[1] # None
  BY <1>1 DEF IndInv, Sessions
<1>3. /\ pc'[1] = "done" /\ \A p \in Honest \ {1} : pc'[p] = pc[p] /\ lineage'[p] = lineage[p] /\ key'[p] = key[p]
      /\ lineage'[1] = lineage[1] \union {session}
  BY <1>1, <1>2 DEF Store, Enter
<1>4. msg'[1] = msg[1] /\ msg'[3].equal = EqualStatement(key[1].c, tag)
  BY <1>1, <1>2
<1>5. (Matching' <=> Matching) /\ Honest' = Honest
  BY <1>3, MatchingStays
<1>6. Matching => 2 \in Honest
  BY DEF Matching, BothHonest, Honest
<1>7. (Matching /\ pc'[2] # "done") => key'[2] = key[2] /\ key[1].c = key[2].c
  BY <1>1, <1>2, <1>3, <1>6 DEF RunInv, KeyRun
<1>8. msg[1].N_tag = session
  BY <1>1 DEF RunInv, KeyRun
<1>9. KeyRun'
  <2> HIDE DEF new
  <2> QED
    BY <1>1, <1>3, <1>4, <1>5, <1>7, <1>8 DEF KeyRun
<1> QED
  BY <1>1, <1>3, <1>9, KeyStepRun

LEMMA RefreshStep4Run ==
  ASSUME IndInv, RunInv, RefreshStep4, UNCHANGED <<setup, kind, session, msgs, errs>>
  PROVE  RunInv'
<1>1. 2 \in Honest /\ kind = "refresh" /\ pc[2] = "sent" /\ KeySession /\ msg[3] # None /\ key[2] # None
  BY DEF RefreshStep4, At, KeySession, IndInv, Sessions
<1>2. Matching => 1 \in Honest
  BY DEF Matching, BothHonest, Honest
<1>3. CASE ~ RefreshProved
  <2>1. Fail(2, "crypto")
    BY <1>3 DEF RefreshStep4
  <2>2. ASSUME Matching PROVE RefreshProved
    <3>1. pc[1] = "done" /\ 1 \in Honest
      BY <1>1, <1>2, <2>2 DEF IndInv, First
    <3>2. msg[1].com = Com(draw[1]) /\ msg[3].rho1 = draw[1]
      BY <1>1, <3>1 DEF IndInv, First
    <3>3. session # 0
      BY <1>1 DEF IndInv, Sessions
    <3>4. msg[1].N_tag = session /\ msg[3].equal = EqualStatement(key[2].c, msg[1].c_key_tag)
      BY <1>1, <2>2, <3>1 DEF RunInv, KeyRun
    <3> QED
      BY <3>2, <3>3, <3>4 DEF RefreshProved
  <2> QED
    BY <1>1, <1>3, <2>1, <2>2, FailRun DEF Running
<1>4. CASE RefreshProved
  <2> DEFINE new == Shifted(key[2], 2, msg[1].c_key_tag, (msg[3].rho1 + draw[2]) % q)
  <2>1. Store(2, new) /\ UNCHANGED <<draw, msg>>
    BY <1>4 DEF RefreshStep4
  <2>2. DOMAIN pc = Honest /\ DOMAIN lineage = Honest
    BY DEF IndInv, Sessions
  <2>3. /\ pc'[2] = "done" /\ \A p \in Honest \ {2} : pc'[p] = pc[p] /\ lineage'[p] = lineage[p]
        /\ lineage'[2] = lineage[2] \union {session}
    BY <1>1, <2>1, <2>2 DEF Store, Enter
  <2>4. Honest' = Honest
    BY DEF Honest
  <2>5. KeyRun'
    BY <1>1, <2>1, <2>3, <2>4 DEF RunInv, KeyRun
  <2> QED
    BY <1>1, <2>3, <2>5, KeyStepRun
<1> QED
  BY <1>3, <1>4

-----------------------------------------------------------------------------
(* A step of a signing session that raises no alarm.                       *)
LEMMA SignStepRun ==
  ASSUME IndInv, RunInv, kind \in Sign, UNCHANGED <<setup, key, lineage, kind, session, msgs>>,
         \A p \in Honest : pc'[p] = pc[p] \/ pc'[p] \in {"sent", "opened", "done"},
         1 \in Honest => draw'[1] = draw[1] \/ pc'[1] = "sent",
         msg[2] # None => msg'[2] = msg[2],
         SignFirst', SignSecond', TrueStatements'
  PROVE  RunInv'
<1>1. (Matching' <=> Matching) /\ Honest' = Honest /\ (BothHonest' <=> BothHonest)
  BY MatchingStays
<1>2. Matching => 1 \in Honest /\ 2 \in Honest
  BY DEF Matching, BothHonest, Honest
<1>3. Calls'
  BY <1>1 DEF RunInv, Calls
<1>4. KeyRun'
  BY DEF KeyRun, Sign
<1>5. \A p \in Honest : pc'[p] \in Alarms => pc'[p] = pc[p] /\ pc[p] \in Alarms
  BY DEF Alarms
<1>6. (1 \in Honest /\ pc'[1] \in Alarms /\ Degenerate) => Degenerate'
  BY DegenerateStays DEF Alarms
<1>7. Quiet'
  BY <1>1, <1>2, <1>5, <1>6 DEF RunInv, Quiet
<1>8. LeakNeedsFaultOrTornKey' /\ ProvedCiphertextsSign'
  BY <1>1, <1>5, <1>6 DEF RunInv, LeakNeedsFaultOrTornKey, ProvedCiphertextsSign, Alarms
<1> QED
  BY <1>3, <1>4, <1>7, <1>8 DEF RunInv

LEMMA SeqOf ==
  ASSUME NEW S, NEW n \in Nat, NEW f \in [1 .. n -> S]
  PROVE  f \in Seq(S) /\ Len(f) = n /\ DOMAIN f = 1 .. n
OBVIOUS

(* The batches as sequences.                                               *)
LEMMA BatchTypes ==
  ASSUME RunInv, kind \in Sign, NEW p \in Honest
  PROVE  /\ msgs[p] \in Seq(0 .. q - 1) /\ Len(msgs[p]) \in Nat \ {0}
         /\ DOMAIN msgs[p] = 1 .. Len(msgs[p]) /\ key[p] # None
<1>1. msgs[p] \in Batches /\ key[p] # None
  BY DEF RunInv, Calls
<1>2. msgs[p] \in Seq(0 .. q - 1) /\ msgs[p] # <<>>
  BY <1>1, ConstantTypes
<1> QED
  BY <1>1, <1>2

LEMMA SignStep1Run ==
  ASSUME IndInv, RunInv, SignStep1, UNCHANGED <<setup, kind, session, msgs, errs>>
  PROVE  RunInv'
<1>1. 1 \in Honest /\ kind \in Sign /\ pc[1] = "start" /\ UNCHANGED <<key, lineage>>
  BY DEF SignStep1, At
<1>2. DOMAIN pc = Honest /\ DOMAIN draw = Honest /\ DOMAIN msg = 1 .. 4 /\ Honest' = Honest
  BY DEF IndInv, Sessions, Honest
<1>3. PICK k1 \in Draws(Len(msgs[1])) : draw' = [draw EXCEPT ![1] = k1] /\ Send(1, SignCom(msgs[1], k1))
  BY DEF SignStep1
<1>4. pc' = [pc EXCEPT ![1] = "sent"]
  BY DEF SignStep1, Enter
<1>5. /\ pc'[1] = "sent" /\ \A p \in Honest \ {1} : pc'[p] = pc[p] /\ draw'[p] = draw[p]
      /\ draw'[1] = k1 /\ msg'[1] = SignCom(msgs[1], k1)
      /\ msg'[2] = msg[2] /\ msg'[3] = msg[3] /\ msg'[4] = msg[4]
  BY <1>1, <1>2, <1>3, <1>4 DEF Send
<1>6. msg[1] = None /\ msg[3] = None
  BY <1>1 DEF RunInv, SignFirst
<1>7. 2 \in Honest => msg[2] = None /\ msg[4] = None /\ pc[2] # "sent"
  BY <1>1, <1>6 DEF RunInv, SignSecond
<1>8. SignFirst'
  BY <1>1, <1>3, <1>5, <1>6 DEF RunInv, SignFirst
<1>9. SignSecond'
  BY <1>2, <1>5, <1>7 DEF SignSecond
<1>10. TrueStatements'
  BY <1>2, <1>5 DEF RunInv, TrueStatements
<1> QED
  BY <1>1, <1>5, <1>8, <1>9, <1>10, SignStepRun

LEMMA SignStep2Run ==
  ASSUME IndInv, RunInv, SignStep2, UNCHANGED <<setup, kind, session, msgs, errs>>
  PROVE  RunInv'
<1>1. 2 \in Honest /\ kind \in Sign /\ pc[2] = "start" /\ msg[1] # None /\ UNCHANGED <<key, lineage>>
  BY DEF SignStep2, At
<1>2. DOMAIN pc = Honest /\ DOMAIN draw = Honest /\ DOMAIN msg = 1 .. 4 /\ Honest' = Honest
  BY DEF IndInv, Sessions, Honest
<1>3. PICK k2 \in Draws(Len(msgs[2])) : draw' = [draw EXCEPT ![2] = k2] /\ Send(2, k2)
  BY DEF SignStep2
<1>4. pc' = [pc EXCEPT ![2] = "sent"]
  BY DEF SignStep2, Enter
<1>5. /\ pc'[2] = "sent" /\ \A p \in Honest \ {2} : pc'[p] = pc[p] /\ draw'[p] = draw[p]
      /\ draw'[2] = k2 /\ msg'[2] = k2
      /\ msg'[1] = msg[1] /\ msg'[3] = msg[3] /\ msg'[4] = msg[4]
  BY <1>1, <1>2, <1>3, <1>4 DEF Send
<1>6. msg[2] = None /\ msg[4] = None
  BY <1>1 DEF RunInv, SignSecond
<1>7. k2 \in Seq(Nat)
  <2>1. Len(msgs[2]) \in Nat
    BY <1>1, BatchTypes
  <2>2. k2 \in [1 .. Len(msgs[2]) -> Nat]
    BY <1>3, Numbers DEF Draws
  <2> QED
    BY <2>1, <2>2, SeqOf
<1>8. SignFirst'
  BY <1>1, <1>2, <1>5, <1>6, <1>7 DEF RunInv, SignFirst
<1>9. SignSecond'
  BY <1>1, <1>2, <1>3, <1>5, <1>6 DEF RunInv, SignSecond
<1>10. TrueStatements'
  BY <1>2, <1>5 DEF RunInv, TrueStatements
<1> QED
  BY <1>1, <1>5, <1>6, <1>8, <1>9, <1>10, SignStepRun

LEMMA SignStep3Run ==
  ASSUME IndInv, RunInv, SignStep3, UNCHANGED <<setup, kind, session, msgs, errs>>
  PROVE  RunInv'
<1> DEFINE ok == Len(msg[2]) = Len(msgs[1]) /\ \A i \in DOMAIN msg[2] : OnCurve(msg[2][i])
<1>1. 1 \in Honest /\ kind \in Sign /\ pc[1] = "sent" /\ msg[2] # None
  BY DEF SignStep3, At
<1>2. DOMAIN pc = Honest /\ DOMAIN draw = Honest /\ DOMAIN msg = 1 .. 4 /\ Honest' = Honest
  BY DEF IndInv, Sessions, Honest
<1>3. CASE ~ ok
  <2>1. Fail(1, "crypto")
    BY <1>3 DEF SignStep3
  <2>2. ASSUME Matching PROVE ok
    <3>1. 2 \in Honest /\ msgs[1] = msgs[2]
      BY <2>2 DEF Matching, BothHonest, Honest
    <3>2. msg[2] \in [1 .. Len(msgs[2]) -> Draw]
      BY <1>1, <3>1 DEF RunInv, SignSecond, Draws
    <3>3. Len(msgs[2]) \in Nat
      BY <1>1, <3>1, BatchTypes
    <3>4. Len(msg[2]) = Len(msgs[2]) /\ DOMAIN msg[2] = 1 .. Len(msgs[2])
      BY <3>2, <3>3, SeqOf
    <3>5. \A x \in Draw : OnCurve(x)
      BY Numbers DEF OnCurve, Zq
    <3> QED
      BY <3>1, <3>2, <3>4, <3>5
  <2> QED
    BY <1>1, <1>3, <2>1, <2>2, FailRun DEF Running
<1>4. CASE ok
  <2>1. Send(3, draw[1]) /\ pc' = [pc EXCEPT ![1] = "opened"] /\ UNCHANGED <<key, lineage, draw>>
    BY <1>4 DEF SignStep3, Enter
  <2>2. /\ pc'[1] = "opened" /\ \A p \in Honest \ {1} : pc'[p] = pc[p]
        /\ msg'[1] = msg[1] /\ msg'[2] = msg[2] /\ msg'[3] = draw[1] /\ msg'[4] = msg[4]
    BY <1>1, <1>2, <2>1 DEF Send
  <2>3. DOMAIN msg[2] = DOMAIN msgs[1] /\ msg[2] \in Seq(Nat)
    <3>1. msg[2] \in Seq(Nat)
      BY <1>1 DEF RunInv, SignFirst
    <3>2. DOMAIN msg[2] = 1 .. Len(msg[2]) /\ DOMAIN msgs[1] = 1 .. Len(msgs[1])
      BY <1>1, <3>1, BatchTypes
    <3> QED
      BY <1>4, <3>1, <3>2
  <2>4. msg[3] = None
    BY <1>1 DEF RunInv, SignFirst
  <2>5. 2 \in Honest => msg[4] = None
    BY <1>1, <2>4 DEF RunInv, SignSecond
  <2>6. draw[1] \in Draws(Len(msgs[1])) /\ msg[1] = SignCom(msgs[1], draw[1])
    BY <1>1 DEF RunInv, SignFirst
  <2>7. SignFirst'
    BY <1>1, <1>4, <2>1, <2>2, <2>3, <2>6 DEF SignFirst
  <2>8. SignSecond'
    BY <1>2, <2>1, <2>2, <2>5 DEF RunInv, SignSecond
  <2>9. TrueStatements'
    BY <1>2, <2>2 DEF RunInv, TrueStatements
  <2> QED
    BY <1>1, <2>1, <2>2, <2>7, <2>8, <2>9, SignStepRun
<1> QED
  BY <1>3, <1>4

(* What P2 proves of a ciphertext it computed is true.                     *)
LEMMA TrueItem ==
  ASSUME NEW c_key, NEW x2, NEW k2, NEW m, NEW r, NEW rho \in Masks, NEW i
  PROVE  TrueStatement(SignItem(c_key, x2, k2, m, r, rho, i).zk)
BY DEF TrueStatement, SignItem, SignStatement

LEMMA SignStep4Run ==
  ASSUME IndInv, RunInv, SignStep4, UNCHANGED <<setup, kind, session, msgs, errs>>
  PROVE  RunInv'
<1>1. 2 \in Honest /\ kind \in Sign /\ pc[2] = "sent" /\ msg[3] # None
  BY DEF SignStep4, At
<1>2. DOMAIN pc = Honest /\ DOMAIN draw = Honest /\ DOMAIN msg = 1 .. 4 /\ Honest' = Honest
  BY DEF IndInv, Sessions, Honest
<1>3. CASE msg[1] # SignCom(msgs[2], msg[3])
  <2>1. Fail(2, "crypto")
    BY <1>3 DEF SignStep4
  <2>2. ASSUME Matching PROVE FALSE
    <3>1. 1 \in Honest /\ msgs[1] = msgs[2]
      BY <2>2 DEF Matching, BothHonest, Honest
    <3>2. msg[1] = SignCom(msgs[1], draw[1]) /\ msg[3] = draw[1]
      BY <1>1, <3>1 DEF RunInv, SignFirst
    <3> QED
      BY <1>3, <3>1, <3>2
  <2> QED
    BY <1>1, <2>1, <2>2, FailRun DEF Running
<1>4. CASE msg[1] = SignCom(msgs[2], msg[3])
  <2>1. PICK rho \in [DOMAIN msgs[2] -> RhoDraw] : Send(4, [i \in DOMAIN msgs[2] |-> Item(i, rho[i])])
    BY <1>4 DEF SignStep4, Item
  <2>2. pc' = [pc EXCEPT ![2] = "done"] /\ UNCHANGED <<key, lineage, draw>>
    BY <1>4 DEF SignStep4, Enter
  <2>3. /\ pc'[2] = "done" /\ \A p \in Honest \ {2} : pc'[p] = pc[p]
        /\ msg'[1] = msg[1] /\ msg'[2] = msg[2] /\ msg'[3] = msg[3]
        /\ msg'[4] = [i \in DOMAIN msgs[2] |-> Item(i, rho[i])]
    BY <1>1, <1>2, <2>1, <2>2 DEF Send
  <2>4. \A i, h : Item(i, h)' = Item(i, h)
    BY <2>2, <2>3 DEF Item
  <2>5. Answer'
    BY <2>3, <2>4 DEF Answer
  <2>6. draw[2] \in Draws(Len(msgs[2])) /\ msg[2] = draw[2] /\ msg[1] # None
    BY <1>1 DEF RunInv, SignSecond
  <2>7. SignFirst'
    BY <1>2, <2>2, <2>3 DEF RunInv, SignFirst
  <2>8. SignSecond'
    BY <1>1, <1>4, <2>2, <2>3, <2>5, <2>6 DEF SignSecond
  <2>9. ASSUME 1 \in Honest
        PROVE  DOMAIN msg'[4] = DOMAIN msgs[1] /\ \A i \in DOMAIN msg'[4] : TrueStatement(msg'[4][i].zk)
    <3>1. SignCom(msgs[2], msg[3]) = SignCom(msgs[1], draw[1])
      BY <1>1, <1>4, <2>9 DEF RunInv, SignFirst
    <3>2. msgs[1] = msgs[2]
      BY <3>1 DEF SignCom, Com
    <3>3. DOMAIN msg'[4] = DOMAIN msgs[1]
      BY <2>3, <3>2
    <3>4. ASSUME NEW i \in DOMAIN msgs[2] PROVE TrueStatement(msg'[4][i].zk)
      <4>1. msg'[4][i] = Item(i, rho[i]) /\ rho[i] \in Masks
        BY <2>1, <2>3, <3>4 DEF Masks
      <4> QED
        BY <4>1, TrueItem DEF Item
    <3> QED
      BY <3>2, <3>3, <3>4
  <2>10. TrueStatements'
    BY <1>2, <2>9 DEF TrueStatements
  <2> QED
    BY <1>1, <2>2, <2>3, <2>7, <2>8, <2>10, SignStepRun
<1> QED
  BY <1>3, <1>4

(* The lies of a faulty party.                                             *)
LEMMA FaultyRun ==
  ASSUME IndInv, RunInv, FaultySteps, UNCHANGED <<setup, kind, session, msgs, errs>>
  PROVE  RunInv'
<1>1. /\ Honest' = Honest /\ UNCHANGED <<setup, key, lineage, kind, session, msgs, pc, draw>>
  BY DEF Honest, FaultySteps
<1>2. DOMAIN msg = 1 .. 4 /\ Honest = {1, 2} \ setup.faulty
  BY DEF IndInv, Sessions, Honest
<1>3. setup.faulty # {} /\ ~ BothHonest /\ ~ Matching /\ ~ Matching'
  BY <1>1 DEF FaultySteps, FaultyP1First, FaultyP1Third, FaultyP2Second, FaultyP2Fourth, Matching, BothHonest
<1>4. CASE kind \notin Sign
  <2>1. KeySession
    BY <1>4 DEF FaultySteps, FaultyP1First, FaultyP1Third, FaultyP2Second, FaultyP2Fourth, KeySession
  <2>2. 1 \in Honest => msg'[1] = msg[1] /\ msg'[3] = msg[3]
    BY <1>2, <1>4 DEF FaultySteps, FaultyP1First, FaultyP1Third, FaultyP2Second, FaultyP2Fourth, Send
  <2>3. KeyRun'
    BY <1>1, <1>3, <2>2 DEF RunInv, KeyRun
  <2> QED
    BY <1>1, <2>1, <2>3, KeyStepRun
<1>5. CASE kind \in Sign /\ FaultyP2Second
  <2>1. 2 \notin Honest /\ msg[2] = None
    BY <1>2, <1>5 DEF FaultyP2Second
  <2>2. PICK n \in {Len(msgs[1]), Len(msgs[1]) + 1}, x \in Draw \union {0} : Send(2, [i \in 1 .. n |-> x])
    BY <1>5 DEF FaultyP2Second, Sign
  <2>3. msg'[1] = msg[1] /\ msg'[3] = msg[3] /\ msg'[4] = msg[4] /\ msg'[2] = [i \in 1 .. n |-> x]
    BY <1>2, <2>2 DEF Send
  <2>4. 1 \in Honest => msg'[2] \in Seq(Nat)
    <3> SUFFICES ASSUME 1 \in Honest PROVE [i \in 1 .. n |-> x] \in Seq(Nat)
      BY <2>3
    <3>1. n \in Nat
      BY <1>5, <2>2, BatchTypes
    <3>2. x \in Nat
      BY Numbers
    <3>3. [i \in 1 .. n |-> x] \in [1 .. n -> Nat]
      BY <3>2
    <3> QED
      BY <3>1, <3>3, SeqOf
  <2>5. SignFirst'
    BY <1>1, <2>1, <2>3, <2>4 DEF RunInv, SignFirst
  <2>6. SignSecond'
    BY <1>1, <2>1 DEF SignSecond
  <2>7. TrueStatements'
    BY <1>1, <2>3 DEF RunInv, TrueStatements
  <2> QED
    BY <1>1, <1>5, <2>1, <2>5, <2>6, <2>7, SignStepRun
<1>6. CASE kind \in Sign /\ FaultyP2Fourth
  <2>1. 2 \notin Honest
    BY <1>2, <1>6 DEF FaultyP2Fourth
  <2>2. msg'[1] = msg[1] /\ msg'[2] = msg[2] /\ msg'[3] = msg[3]
    BY <1>2, <1>6 DEF FaultyP2Fourth, Send
  <2>3. SignFirst'
    BY <1>1, <2>2 DEF RunInv, SignFirst
  <2>4. SignSecond'
    BY <1>1, <2>1 DEF SignSecond
  <2>5. ASSUME NEW i, NEW item \in FaultyItem(i) PROVE TrueStatement(item.zk)
    <3>1. \/ \E x, m, r, k, j : \E rho \in FaultyRho : item = SignItem(key[1].c, x, k, m, r, rho, j)
          \/ \E x, m, r, k : item.zk = SignItem(key[1].c, x, k, m, r, 0, i).zk
      BY <2>5 DEF FaultyItem
    <3> QED
      BY <3>1, TrueItem DEF Masks
  <2>6. TrueStatements'
    <3>1. CASE Send(4, <<>>)
      BY <1>2, <3>1 DEF TrueStatements, Send
    <3>2. CASE ~ Send(4, <<>>)
      <4>1. PICK items \in [DOMAIN msgs[1] -> UNION {FaultyItem(i) : i \in DOMAIN msgs[1]}] :
              (\A i \in DOMAIN items : items[i] \in FaultyItem(i)) /\ Send(4, items)
        BY <1>6, <3>2 DEF FaultyP2Fourth
      <4>2. msg'[4] = items /\ DOMAIN items = DOMAIN msgs[1] /\ \A i \in DOMAIN items : TrueStatement(items[i].zk)
        BY <1>2, <2>5, <4>1 DEF Send
      <4> QED
        BY <1>1, <4>2 DEF TrueStatements
    <3> QED
      BY <3>1, <3>2
  <2> QED
    BY <1>1, <1>6, <2>2, <2>3, <2>4, <2>6, SignStepRun
<1> QED
  BY <1>4, <1>5, <1>6 DEF FaultySteps, FaultyP1First, FaultyP1Third, Sign

-----------------------------------------------------------------------------
(* The inputs of one signature, and what becomes of them.                  *)
Fits(c_key, Q, x2, m, k1, k2, rho) ==
  /\ c_key.v \in Nat /\ c_key.v < q * 2 ^ (2 * SEC_P_STAT) /\ x2 \in 0 .. q - 1 /\ Q \in 0 .. q - 1
  /\ (c_key.v + x2) % q = Q /\ m \in 0 .. q - 1 /\ k1 \in 1 .. q - 1 /\ k2 \in 1 .. q - 1
  /\ rho \in Masks /\ (m + Nonce(k1, k2) * Q) % q # 0

Completes(c, c_key, Q, m, k1, k2) ==
  c.v \in 0 .. N - 1 /\ c.n = c_key.n /\ Verifies(Q, m, Nonce(k1, k2), Completed(c.v, k1))

LEMMA FitCompletes ==
  ASSUME NEW c_key, NEW Q, NEW x2, NEW m, NEW k1, NEW k2, NEW rho, Fits(c_key, Q, x2, m, k1, k2, rho)
  PROVE  Completes(SignCipher(c_key, k2, x2, m, Nonce(k1, k2), rho), c_key, Q, m, k1, k2)
<1> DEFINE v == c_key.v
<1>1. /\ v \in Nat /\ v < q * 2 ^ (2 * SEC_P_STAT) /\ x2 \in 0 .. q - 1 /\ Q \in 0 .. q - 1
      /\ (v + x2) % q = Q /\ m \in 0 .. q - 1 /\ k1 \in 1 .. q - 1 /\ k2 \in 1 .. q - 1
      /\ rho \in Masks /\ c_key.v = v /\ (m + Nonce(k1, k2) * Q) % q # 0
  BY DEF Fits
<1> HIDE DEF v
<1> QED
  BY <1>1, SignatureVerifies DEF Completes

(* The stored keys as numbers when they are used to sign.                  *)
LEMMA KeyNumbers ==
  ASSUME IndInv, NEW p \in Honest, key[p] # None
  PROVE  /\ key[p].c.v \in Nat /\ key[p].c.v < q * 2 ^ (2 * SEC_P_STAT)
         /\ key[p].Q \in 0 .. q - 1 /\ key[p].x \in Nat
         /\ p = 1 => key[p].x = key[p].c.v
         /\ p = 2 => key[p].x \in 0 .. q - 1 /\ (key[p].c.v + key[p].x) % q = key[p].Q
<1>1. KeyOk(p) /\ setup \in Setups /\ session \in 0 .. Len(setup.kinds)
  BY DEF IndInv, Sessions, Keys
<1> DEFINE L == Len(setup.kinds)
           qE == q * 2 ^ (2 * SEC_P_STAT)
<1>2. L \in Nat /\ q * L \in Nat /\ q * L <= qE /\ qE \in Nat
  BY <1>1, SessionsFit
<1>3. session \in Nat /\ session <= L /\ q \in Nat
  BY <1>1, <1>2, Numbers
<1> HIDE DEF L, qE
<1>4. q * session <= q * L /\ q * session \in Nat
  BY <1>2, <1>3, TimesMono
<1>5. key[p].c.v \in Nat /\ key[p].c.v < q * session /\ key[p].x \in Nat /\ key[p].Q \in 0 .. q - 1
  BY <1>1 DEF KeyOk, Zq
<1>6. key[p].c.v < qE
  BY <1>2, <1>4, <1>5
<1>7. p = 2 => key[p].x \in 0 .. q - 1
  BY <1>1, <1>3, <1>5 DEF KeyOk
<1> QED
  BY <1>1, <1>5, <1>6, <1>7 DEF KeyOk, qE

(* P2's share from the public key and P1's, and back.                      *)
LEMMA Complement ==
  ASSUME NEW x \in Nat, NEW Q \in 0 .. q - 1
  PROVE  /\ (Q - x) % q \in 0 .. q - 1 /\ (x + ((Q - x) % q)) % q = Q
         /\ (Q - x) % q = 0 => Q = x % q
<1> DEFINE y == (Q - x) % q
<1>1. Q \in Int /\ x \in Int /\ Q - x \in Int /\ Q % q = Q
  BY Numbers, ModSmall
<1>2. y \in 0 .. q - 1 /\ y \in Int /\ Same(y, Q - x)
  BY <1>1, SameRes
<1>3. y = 0 => Q = x % q
  BY <1>1, Numbers, ModDiff
<1> HIDE DEF y
<1>4. Same(x + y, x + (Q - x))
  BY <1>1, <1>2, SamePlus
<1>5. x + (Q - x) = Q
  BY <1>1
<1>6. (x + y) % q = Q
  BY <1>1, <1>4, <1>5, Zenon DEF Same
<1> QED
  BY <1>2, <1>3, <1>6 DEF y

LEMMA PeerShare ==
  ASSUME NEW v \in Nat, NEW x2 \in 0 .. q - 1
  PROVE  (((v + x2) % q) - v) % q = x2
<1> DEFINE w == (v + x2) % q
           g == - v
<1>1. v + x2 \in Int /\ g \in Int /\ x2 \in Int
  BY Numbers
<1>2. w \in Int /\ Same(w, v + x2)
  BY <1>1, SameRes
<1>3. (v + x2) + g = x2 /\ w - v = w + g
  <2> HIDE DEF w
  <2> QED
    BY <1>1, <1>2
<1> HIDE DEF w, g
<1>4. Same(w + g, (v + x2) + g)
  BY <1>1, <1>2, SamePlus
<1>5. x2 % q = x2
  BY Numbers, ModSmall
<1>6. (w - v) % q = x2
  BY <1>3, <1>4, <1>5, Zenon DEF Same
<1> QED
  BY <1>6 DEF w

(* What P1 uses when it completes the i-th signature.                      *)
LEMMA TurnInputs ==
  ASSUME IndInv, RunInv, 1 \in Honest, kind \in Sign, pc[1] = "opened", NEW i \in DOMAIN msgs[1]
  PROVE  /\ msgs[1][i] \in 0 .. q - 1 /\ draw[1][i] \in 1 .. q - 1 /\ msg[2] # None
         /\ msg[2][i] \in 1 .. q - 1 /\ key[1] # None
<1>1. msgs[1] \in Seq(0 .. q - 1) /\ DOMAIN msgs[1] = 1 .. Len(msgs[1]) /\ key[1] # None
  BY BatchTypes
<1>2. draw[1] \in [1 .. Len(msgs[1]) -> Draw] /\ msg[2] # None /\ OnCurve(msg[2][i])
  BY DEF RunInv, SignFirst, Draws
<1>3. draw[1][i] \in 1 .. q - 1
  BY <1>1, <1>2, Numbers
<1>4. msg[2][i] \in 1 .. q - 1
  BY <1>2, Numbers DEF OnCurve, Zq
<1>5. msgs[1][i] \in 0 .. q - 1
  <2> DEFINE T == 0 .. q - 1
             s == msgs[1]
  <2>1. s \in Seq(T) /\ i \in 1 .. Len(s)
    BY <1>1
  <2> HIDE DEF T, s
  <2>2. s[i] \in T
    BY <2>1
  <2> QED
    BY <2>2 DEF T, s
<1> QED
  BY <1>1, <1>2, <1>3, <1>4, <1>5

(* A proved ciphertext completes to a signature, whoever proved it.        *)
LEMMA ProvedSigns ==
  ASSUME IndInv, RunInv, 1 \in Honest, kind = "sign", pc[1] = "opened", msg[4] # None,
         Len(msg[4]) = Len(msgs[1]), NEW i \in DOMAIN msgs[1], NEW plain \in Decrypts(msg[4][i].c),
         ~ Degenerate
  PROVE  Turn(i, plain) # "unverified"
<1> SUFFICES ASSUME SignProved(i)
             PROVE  Verifies(key[1].Q, msgs[1][i], Nonce(draw[1][i], msg[2][i]), Completed(plain, draw[1][i]))
  BY DEF Turn
<1> DEFINE x2 == (key[1].Q - key[1].x) % q
           r == Nonce(draw[1][i], msg[2][i])
           zk == msg[4][i].zk
           c == msg[4][i].c
<1>0. kind \in Sign
  BY DEF Sign
<1>1. /\ msgs[1][i] \in 0 .. q - 1 /\ draw[1][i] \in 1 .. q - 1 /\ msg[2] # None
      /\ msg[2][i] \in 1 .. q - 1 /\ key[1] # None
  BY <1>0, TurnInputs
<1>2. /\ key[1].c.v \in Nat /\ key[1].c.v < q * 2 ^ (2 * SEC_P_STAT) /\ key[1].Q \in 0 .. q - 1
      /\ key[1].x \in Nat /\ key[1].x = key[1].c.v
  BY <1>1, KeyNumbers
<1>3. x2 \in 0 .. q - 1 /\ (key[1].c.v + x2) % q = key[1].Q
  <2> DEFINE x == key[1].x
             Q == key[1].Q
  <2>1. x \in Nat /\ Q \in 0 .. q - 1 /\ key[1].c.v = x
    BY <1>2
  <2> HIDE DEF x, Q
  <2>2. (Q - x) % q \in 0 .. q - 1 /\ (x + ((Q - x) % q)) % q = Q
    BY <2>1, Complement
  <2> QED
    BY <2>1, <2>2 DEF x, Q
<1>4. zk = SignStatement(key[1].c, c, x2, msg[2][i], msgs[1][i], r, i)
  BY DEF SignProved
<1>5. i \in DOMAIN msg[4] /\ \A j \in DOMAIN msg[4] : TrueStatement(msg[4][j].zk)
  <2>1. msg[4] # <<>>
    <3>1. Len(msgs[1]) # 0
      BY <1>0, BatchTypes
    <3> QED
      BY <3>1
  <2> QED
    BY <1>0, <2>1 DEF RunInv, TrueStatements
<1>6. PICK rho \in Masks : zk.c = SignCipher(zk.c_key, zk.R2, zk.Q2, zk.m, zk.r, rho)
  BY <1>5 DEF TrueStatement
<1>7. c = SignCipher(key[1].c, msg[2][i], x2, msgs[1][i], r, rho)
  <2> HIDE DEF zk, x2, r, c
  <2>1. zk.c = c /\ zk.c_key = key[1].c /\ zk.R2 = msg[2][i] /\ zk.Q2 = x2 /\ zk.m = msgs[1][i] /\ zk.r = r
    BY <1>4 DEF SignStatement
  <2> QED
    BY <1>6, <2>1
<1>8. (msgs[1][i] + r * key[1].Q) % q # 0
  BY <1>1 DEF Degenerate
<1> HIDE DEF x2
<1>9. Verifies(key[1].Q, msgs[1][i], r, Completed(c.v, draw[1][i])) /\ c.n = key[1].c.n
  <2>1. Fits(key[1].c, key[1].Q, x2, msgs[1][i], draw[1][i], msg[2][i], rho)
    BY <1>1, <1>2, <1>3, <1>6, <1>8 DEF Fits
  <2>2. Completes(c, key[1].c, key[1].Q, msgs[1][i], draw[1][i], msg[2][i])
    BY <1>7, <2>1, FitCompletes
  <2> QED
    BY <2>2 DEF Completes
<1>10. plain = c.v
  BY <1>9 DEF Decrypts
<1> QED
  BY <1>9, <1>10

(* Honest parties whose keys have one history sign.                        *)
LEMMA HonestSigns ==
  ASSUME IndInv, RunInv, BothHonest, lineage[1] = lineage[2], kind \in Sign, pc[1] = "opened", msg[4] # None,
         NEW i \in DOMAIN msgs[1], NEW plain \in Decrypts(msg[4][i].c), ~ Degenerate
  PROVE  Turn(i, plain) = "done"
<1> DEFINE k1 == draw[1][i]
           k2 == draw[2][i]
           m == msgs[1][i]
           r == Nonce(k1, k2)
           c == msg[4][i].c
<1>0. 1 \in Honest /\ 2 \in Honest
  BY DEF BothHonest, Honest
<1>1. m \in 0 .. q - 1 /\ k1 \in 1 .. q - 1 /\ msg[2] # None /\ msg[2][i] \in 1 .. q - 1 /\ key[1] # None
  BY <1>0, TurnInputs
<1>2. key[2] # None /\ msg[2] = draw[2] /\ msg[3] # None /\ msg[1] = SignCom(msgs[2], msg[3]) /\ Answer
  BY <1>0, <1>1, BatchTypes DEF RunInv, SignSecond
<1>3. msg[1] = SignCom(msgs[1], draw[1]) /\ msg[3] = draw[1]
  BY <1>0, <1>2 DEF RunInv, SignFirst
<1>4. msgs[1] = msgs[2]
  BY <1>2, <1>3 DEF SignCom, Com
<1>5. PICK rho \in [DOMAIN msgs[2] -> RhoDraw] : msg[4] = [j \in DOMAIN msgs[2] |-> Item(j, rho[j])]
  BY <1>2 DEF Answer
<1>6. msg[4][i] = Item(i, rho[i]) /\ rho[i] \in Masks
  BY <1>4, <1>5 DEF Masks
<1>7. key[1].c = key[2].c /\ key[1].x = key[2].c.v /\ key[1].Q = key[2].Q
  BY <1>1, <1>2 DEF IndInv, CipherHoldsPeerShare
<1>8. /\ key[2].c.v \in Nat /\ key[2].c.v < q * 2 ^ (2 * SEC_P_STAT) /\ key[2].Q \in 0 .. q - 1
      /\ key[2].x \in 0 .. q - 1 /\ (key[2].c.v + key[2].x) % q = key[2].Q
  BY <1>0, <1>2, KeyNumbers
<1>9. k2 \in 1 .. q - 1 /\ Nonce(k2, k1) = r /\ k2 = msg[2][i]
  <2>1. k2 \in 1 .. q - 1 /\ k2 = msg[2][i]
    BY <1>1, <1>2
  <2> HIDE DEF k1, k2
  <2> QED
    BY <1>1, <2>1, NonceRange
<1>10. msg[4][i] = SignItem(key[2].c, key[2].x, k2, m, r, rho[i], i)
  BY <1>3, <1>4, <1>6, <1>9 DEF Item
<1>11. /\ c = SignCipher(key[2].c, k2, key[2].x, m, r, rho[i])
       /\ msg[4][i].zk = SignStatement(key[2].c, c, key[2].x, k2, m, r, i)
  <2> HIDE DEF k2, m, r
  <2> QED
    BY <1>10 DEF SignItem
<1>12. (m + r * key[2].Q) % q # 0 /\ key[1].Q # key[1].x % q
  BY <1>1, <1>7, <1>9 DEF Degenerate
<1> HIDE DEF k1, k2, m, c
<1>13. Fits(key[2].c, key[2].Q, key[2].x, m, k1, k2, rho[i])
  BY <1>1, <1>6, <1>8, <1>9, <1>12 DEF Fits
<1>14. Completes(c, key[2].c, key[2].Q, m, k1, k2)
  BY <1>11, <1>13, FitCompletes
<1>15. c.v \in 0 .. N - 1 /\ c.n = key[1].c.n /\ Verifies(key[1].Q, m, r, Completed(c.v, k1))
  BY <1>7, <1>14 DEF Completes
<1>16. plain = c.v /\ plain # None
  <2>1. plain = c.v
    BY <1>15 DEF Decrypts, c
  <2> QED
    BY <1>15, <2>1, ConstantTypes
<1>17. SignProved(i)
  <2> DEFINE y == (key[1].Q - key[1].x) % q
  <2>1. y = key[2].x
    <3> DEFINE v == key[2].c.v
               x2 == key[2].x
    <3>1. v \in Nat /\ x2 \in 0 .. q - 1 /\ key[1].Q = (v + x2) % q /\ key[1].x = v
      BY <1>7, <1>8
    <3> HIDE DEF v, x2
    <3>2. (((v + x2) % q) - v) % q = x2
      BY <3>1, PeerShare
    <3> QED
      BY <3>1, <3>2, Zenon DEF x2
  <2>2. y # 0
    <3> DEFINE x == key[1].x
               Q == key[1].Q
    <3>1. x \in Nat /\ Q \in 0 .. q - 1 /\ Q # x % q
      BY <1>7, <1>8, <1>12
    <3> HIDE DEF x, Q
    <3>2. (Q - x) % q # 0
      BY <3>1, Complement
    <3> QED
      BY <3>2 DEF x, Q
  <2> HIDE DEF y
  <2>3. OnCurve(y)
    BY <1>8, <2>1, <2>2 DEF OnCurve, Zq
  <2>4. msg[4][i].zk = SignStatement(key[1].c, c, y, msg[2][i], m, r, i)
    BY <1>7, <1>9, <1>11, <2>1
  <2>5. r = Nonce(draw[1][i], msg[2][i])
    BY <1>9 DEF k1
  <2> QED
    BY <2>3, <2>4, <2>5 DEF SignProved, c, m, y
<1>18. r = Nonce(draw[1][i], msg[2][i])
  BY <1>9 DEF k1
<1> QED
  BY <1>15, <1>16, <1>17, <1>18 DEF Turn, m, k1

(* P1 completes the signatures.                                            *)
LEMMA SignStep5Run ==
  ASSUME IndInv, RunInv, SignStep5, UNCHANGED <<setup, kind, session, msgs, errs>>
  PROVE  RunInv'
<1>1. 1 \in Honest /\ kind \in Sign /\ pc[1] = "opened" /\ msg[4] # None
  BY DEF SignStep5, At
<1>2. DOMAIN pc = Honest /\ Honest' = Honest /\ UNCHANGED <<key, lineage, draw, msg>>
  BY DEF IndInv, Sessions, Honest, SignStep5, Fail
<1>3. Matching => BothHonest /\ 2 \in Honest /\ lineage[1] = lineage[2] /\ msgs[1] = msgs[2]
  <2> SUFFICES ASSUME Matching PROVE BothHonest /\ 2 \in Honest /\ lineage[1] = lineage[2] /\ msgs[1] = msgs[2]
    OBVIOUS
  <2>1. BothHonest /\ 2 \in Honest /\ msgs[1] = msgs[2] /\ lineage[1] \ {session} = lineage[2] \ {session}
    BY DEF Matching, BothHonest, Honest
  <2>2. session \notin lineage[1] /\ session \notin lineage[2]
    BY <1>1, <2>1 DEF IndInv, Sessions, Done, KeySession, Sign
  <2> QED
    BY <2>1, <2>2
<1>4. CASE Len(msg[4]) # Len(msgs[1])
  <2>1. Fail(1, "crypto")
    BY <1>4 DEF SignStep5
  <2>2. ASSUME Matching PROVE FALSE
    <3>1. Answer
      BY <1>1, <1>3, <2>2 DEF RunInv, SignSecond
    <3>2. PICK rho \in [DOMAIN msgs[2] -> RhoDraw] : msg[4] = [j \in DOMAIN msgs[2] |-> Item(j, rho[j])]
      BY <3>1 DEF Answer
    <3> DEFINE S == {Item(j, rho[j]) : j \in DOMAIN msgs[2]}
    <3>3. DOMAIN msgs[2] = 1 .. Len(msgs[1]) /\ Len(msgs[1]) \in Nat
      BY <1>1, <1>3, <2>2, BatchTypes
    <3>4. msg[4] \in [1 .. Len(msgs[1]) -> S]
      BY <3>2, <3>3
    <3>5. Len(msg[4]) = Len(msgs[1])
      <4> HIDE DEF S
      <4> QED
        BY <3>3, <3>4, SeqOf
    <3> QED
      BY <1>4, <3>5
  <2> QED
    BY <1>1, <2>1, <2>2, FailRun DEF Running
<1>5. CASE Len(msg[4]) = Len(msgs[1])
  <2>1. PICK plain \in {f \in [DOMAIN msgs[1] -> UNION {Decrypts(msg[4][i].c) : i \in DOMAIN msgs[1]}] :
                          \A i \in DOMAIN f : f[i] \in Decrypts(msg[4][i].c)} :
               LET bad == {i \in DOMAIN plain : Turn(i, plain[i]) # "done"}
               IN  Enter(1, IF bad = {} THEN "done" ELSE Turn(Min(bad), plain[Min(bad)]))
    BY <1>5 DEF SignStep5
  <2> DEFINE bad == {i \in DOMAIN plain : Turn(i, plain[i]) # "done"}
             end == IF bad = {} THEN "done" ELSE Turn(Min(bad), plain[Min(bad)])
  <2>2. DOMAIN plain = DOMAIN msgs[1] /\ \A i \in DOMAIN msgs[1] : plain[i] \in Decrypts(msg[4][i].c)
    BY <2>1
  <2>3. pc' = [pc EXCEPT ![1] = end]
    BY <2>1 DEF Enter
  <2>4. pc'[1] = end /\ \A p \in Honest \ {1} : pc'[p] = pc[p]
    <3> HIDE DEF end
    <3> QED
      BY <1>1, <1>2, <2>3
  <2>5. bad # {} => Min(bad) \in bad
    <3> SUFFICES ASSUME bad # {} PROVE Min(bad) \in bad
      OBVIOUS
    <3>1. bad \in SUBSET Nat
      <4>1. DOMAIN msgs[1] = 1 .. Len(msgs[1])
        BY <1>1, BatchTypes
      <4> QED
        BY <2>2, <4>1
    <3> HIDE DEF bad
    <3>2. \E n \in bad : \A k \in bad : n <= k
      BY <3>1, LeastNat
    <3> QED
      BY <3>2 DEF Min
  <2>6. \/ end = "done"
        \/ \E i \in DOMAIN msgs[1] : end = Turn(i, plain[i]) /\ Turn(i, plain[i]) # "done"
    BY <2>2, <2>5
  <2>7. end \in {"done", "crypto", "unverified", "leak"}
    BY <2>6 DEF Turn
  <2>8. end = "unverified" => Degenerate
    <3> SUFFICES ASSUME end = "unverified", ~ Degenerate PROVE FALSE
      OBVIOUS
    <3>1. PICK i \in DOMAIN msgs[1] : Turn(i, plain[i]) = "unverified"
      BY <2>6
    <3>2. kind = "sign"
      BY <3>1 DEF Turn
    <3> QED
      BY <1>1, <1>5, <2>2, <3>1, <3>2, ProvedSigns
  <2>9. (BothHonest /\ lineage[1] = lineage[2] /\ end # "done") => Degenerate
    <3> SUFFICES ASSUME BothHonest, lineage[1] = lineage[2], end # "done", ~ Degenerate PROVE FALSE
      OBVIOUS
    <3>1. PICK i \in DOMAIN msgs[1] : Turn(i, plain[i]) # "done"
      BY <2>6
    <3> QED
      BY <1>1, <2>2, <3>1, HonestSigns
  <2> HIDE DEF end, bad
  <2>10. (Matching' <=> Matching) /\ (BothHonest' <=> BothHonest) /\ (Degenerate' <=> Degenerate)
    BY <1>2, MatchingStays DEF Degenerate
  <2>11. Calls'
    BY <1>1, <1>2 DEF RunInv, Calls
  <2>12. SignFirst'
    BY <1>1, <1>2, <2>4, <2>7 DEF RunInv, SignFirst
  <2>13. SignSecond'
    BY <1>2, <2>4, AnswerStays DEF RunInv, SignSecond
  <2>14. TrueStatements'
    BY <1>2 DEF RunInv, TrueStatements
  <2>15. KeyRun'
    BY <1>1 DEF KeyRun, Sign
  <2>16. Quiet'
    BY <1>1, <1>3, <2>4, <2>7, <2>9, <2>10 DEF RunInv, Quiet, Alarms
  <2>17. ProvedCiphertextsSign'
    BY <2>4, <2>8, <2>10 DEF ProvedCiphertextsSign
  <2>18. LeakNeedsFaultOrTornKey'
    <3>1. (end = "leak" /\ ~ Degenerate /\ 2 \notin setup.faulty) => lineage[1] # lineage[2]
      <4>1. setup.faulty \subseteq {1, 2}
        BY SetupTypes DEF IndInv, Sessions
      <4>2. 2 \notin setup.faulty => BothHonest
        BY <1>1, <4>1 DEF Honest, BothHonest
      <4> QED
        BY <2>9, <4>2
    <3> QED
      BY <1>2, <2>4, <2>10, <3>1 DEF LeakNeedsFaultOrTornKey
  <2> QED
    BY <2>11, <2>12, <2>13, <2>14, <2>15, <2>16, <2>17, <2>18 DEF RunInv
<1> QED
  BY <1>4, <1>5

-----------------------------------------------------------------------------
LEMMA NextRun ==
  ASSUME IndInv, IndInv', RunInv, [Next]_vars
  PROVE  RunInv'
<1>1. CASE NewSession
  BY <1>1, NewSessionRun
<1>2. ASSUME NEW p \in Honest, TransportError(p), UNCHANGED <<setup, kind, session, msgs>> PROVE RunInv'
  BY <1>2, FailRun DEF TransportError
<1>3. CASE FaultySteps /\ UNCHANGED <<setup, kind, session, msgs, errs>>
  BY <1>3, FaultyRun
<1>4. ASSUME NEW p \in Honest, PeerGone(p), UNCHANGED <<setup, kind, session, msgs, errs>> PROVE RunInv'
  BY <1>4, FailRun DEF PeerGone
<1>5. CASE /\ DkgStep1 \/ DkgStep2 \/ DkgStep3 \/ DkgStep4
           /\ UNCHANGED <<setup, kind, session, msgs, errs>>
  BY <1>5, DkgStep1Run, DkgStep2Run, DkgStep3Run, DkgStep4Run
<1>6. CASE /\ RefreshStep1 \/ RefreshStep2 \/ RefreshStep3 \/ RefreshStep4
           /\ UNCHANGED <<setup, kind, session, msgs, errs>>
  BY <1>6, RefreshStep1Run, RefreshStep2Run, RefreshStep3Run, RefreshStep4Run
<1>7. CASE /\ SignStep1 \/ SignStep2 \/ SignStep3 \/ SignStep4 \/ SignStep5
           /\ UNCHANGED <<setup, kind, session, msgs, errs>>
  BY <1>7, SignStep1Run, SignStep2Run, SignStep3Run, SignStep4Run, SignStep5Run
<1>8. CASE UNCHANGED vars
  <2>1. UNCHANGED <<setup, key, lineage, kind, session, msgs, pc, draw, msg>>
    BY <1>8 DEF vars
  <2>2. (Matching' <=> Matching) /\ Honest' = Honest /\ (BothHonest' <=> BothHonest) /\ (Degenerate' <=> Degenerate)
    BY <2>1, MatchingStays DEF Degenerate
  <2>3. Calls' /\ SignFirst' /\ TrueStatements'
    BY <2>1, <2>2 DEF RunInv, Calls, SignFirst, TrueStatements
  <2>4. SignSecond'
    BY <2>1, <2>2, AnswerStays DEF RunInv, SignSecond
  <2>5. KeyRun' /\ Quiet'
    BY <2>1, <2>2 DEF RunInv, KeyRun, Quiet
  <2>6. LeakNeedsFaultOrTornKey' /\ ProvedCiphertextsSign'
    BY <2>1, <2>2 DEF RunInv, LeakNeedsFaultOrTornKey, ProvedCiphertextsSign
  <2> QED
    BY <2>3, <2>4, <2>5, <2>6 DEF RunInv
<1> QED
  BY <1>1, <1>2, <1>3, <1>4, <1>5, <1>6, <1>7, <1>8 DEF Next, Steps

(* What was sent in every session, that only true statements were proved   *)
(* about it, and how every call may have ended: the induction behind the   *)
(* three results below, on top of the one about the keys.                  *)
THEOREM RunInductive == Spec => []RunInv
<1>1. Init => RunInv
  BY InitRun
<1>2. IndInv /\ IndInv' /\ RunInv /\ [Next]_vars => RunInv'
  BY NextRun
<1> QED
  BY <1>1, <1>2, Inductive, PTL DEF Spec

(* Once P1 has accepted the proof of a ciphertext, the signature it        *)
(* completes from it verifies: the masks, of either sign, never wrap       *)
(* around N, however far P1's share has grown.                             *)
THEOREM ProvedSign == Spec => []ProvedCiphertextsSign
<1>1. RunInv => ProvedCiphertextsSign
  BY DEF RunInv
<1> QED
  BY <1>1, RunInductive, PTL

(* E_ECDSA_2P_BIT_LEAK takes a faulty P2 or keys that fell apart.          *)
THEOREM LeakNeeds == Spec => []LeakNeedsFaultOrTornKey
<1>1. RunInv => LeakNeedsFaultOrTornKey
  BY DEF RunInv
<1> QED
  BY <1>1, RunInductive, PTL

(* Honest parties with keys of one history and the same batch never reject *)
(* each other in a dkg, a refresh or a signature.                          *)
THEOREM NoAlarm == Spec => []NoFalseAlarm
<1>1. RunInv => NoFalseAlarm
  <2> SUFFICES ASSUME RunInv, Matching, NEW p \in Honest
               PROVE  pc[p] \notin Alarms \/ (kind \in Sign /\ Degenerate)
    BY DEF NoFalseAlarm, Matching, Alarms
  <2>1. p \in {1, 2}
    BY DEF Honest
  <2> QED
    BY <2>1 DEF RunInv, Quiet
<1> QED
  BY <1>1, RunInductive, PTL
=============================================================================
