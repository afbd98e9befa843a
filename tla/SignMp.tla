------------------------------- MODULE SignMp -------------------------------
(***************************************************************************)
(* Signing by n parties with additive key shares: sign_batch of            *)
(* schnorr_mp.cpp (EdDSA and BIP340) and sign of ecdsa_mp.cpp.  All three  *)
(* begin with a round that commits to a fresh point and compares the       *)
(* inputs, and a round that opens it; Schnorr then releases its shares of  *)
(* s, ECDSA multiplies and checks the products in six more rounds.  Shares *)
(* are released to one receiver, whom each caller names.                   *)
(*                                                                         *)
(* A point is its discrete logarithm, 0 being infinity; an ElGamal         *)
(* commitment is the value it commits to under the E of its round.         *)
(* Hashes and commitments are injective.  A proof is what it was made for: *)
(* the public values, the statement, the prover; nobody proves what is not *)
(* true.  What a faulty party does in the oblivious transfers shows in     *)
(* their failing, or in the sum of the products.  Rounds are aligned       *)
(* (module MpcJob).                                                        *)
(***************************************************************************)
EXTENDS Integers, Sequences, Functions

CONSTANTS
  N,
  q,           \* order of the group, a prime
  Share,       \* Share[e][p]: p's share of the e-th key, or epoch of a key
  Draws,       \* Draws[p]: what p draws in a call: [k : nonces, s, rho]
  Challenge,   \* Challenge[R][m]: the Schnorr hash of R, the key and m
  Setups,      \* [scheme, faulty, args, errs]
  None

Party == 0 .. N - 1
Zq == 0 .. q - 1

ASSUME ConstantTypes ==
  /\ N \in 2 .. 64 /\ q \in Nat \ (0 .. 2)
  /\ \A e \in DOMAIN Share : Share[e] \in [Party -> Zq \ {0}]
  /\ \A s \in Setups : s.scheme \in {"eddsa", "bip340", "ecdsa"} /\ s.faulty \subseteq Party

(* A prime that is larger than the number of parties.                      *)
ASSUME GroupOrder == q > N /\ \A a \in 1 .. q - 1 : \E b \in 1 .. q - 1 : (a * b) % q = 1

(* A message is a number, and a nonce is drawn for each.                   *)
ASSUME CallTypes ==
  /\ \A p \in Party : \A d \in Draws[p] : d.k \in Seq(Zq) /\ d.k # <<>> /\ d.s \in Zq /\ d.rho \in Zq
  /\ \A s \in Setups : \A a \in s.args : \A p \in Party :
       /\ a[p].epoch \in DOMAIN Share /\ a[p].owner \in Party
       /\ a[p].msgs \in Seq(Nat) /\ (s.scheme = "ecdsa" => a[p].msgs # <<>>)
       /\ \A d \in Draws[p] : Len(d.k) >= Len(a[p].msgs)
       /\ \A P \in Zq : \A l \in DOMAIN a[p].msgs : Challenge[P][a[p].msgs[l]] \in Nat

VARIABLES
  setup,    \* the scheme of the key, faulty parties, arguments; never changes
  arg,      \* arg[p]: messages, receiver, variant and key of p's call
  pc,       \* pc[p]: the last round p sent, or how its call returned
  draw,     \* draw[p]: what p drew
  sent,     \* sent[r][j][p]: what j sent p in round r, or None
  errs

vars == <<setup, arg, pc, draw, sent, errs>>

Honest == Party \ setup.faulty
Ecdsa == setup.scheme = "ecdsa"

Release == 9     \* the round in which shares go to the receiver
Done == 10
Failed == 11
BadSig == 12     \* failed: the finished signature did not verify
Returned(p) == pc[p] \in {Done, Failed, BadSig}

SUM(f) == SumFunction(f) % q
Inv(a) == CHOOSE b \in Zq : (a * b) % q = 1 % q

(* A point and its negative have the same x, and one of them an odd y.     *)
is_odd(P) == 2 * P > q
get_x(P) == IF is_odd(P) THEN q - P ELSE P

(* ecurve_t::check rejects infinity.                                       *)
OnCurve(P) == P \in Zq \ {0}

Com(sid, pid, v) == <<"com", sid, pid, v>>
Proof(public, statement, pid) == <<"proof", public, statement, pid>>

-----------------------------------------------------------------------------
Key(p) == [x |-> Share[arg[p].epoch][arg[p].owner], Qis |-> Share[arg[p].epoch],
           Q |-> SUM(Share[arg[p].epoch])]

Init ==
  /\ setup \in Setups
  /\ \E a \in setup.args : arg = a
  /\ pc = [p \in Honest |-> 0]
  /\ draw \in {d \in [Honest -> UNION {Draws[p] : p \in Honest}] : \A p \in Honest : d[p] \in Draws[p]}
  /\ sent = [r \in 1 .. Release |-> [j \in Party |-> [p \in Party |-> None]]]
  /\ errs = 0

Msg(p, r, j) == sent[r][j][p]
Others(p) == Party \ {p}

(* p waits for round r, and has received it.                               *)
Has(p, r) == pc[p] = r /\ \A j \in Party : Msg(p, r, j) # None

Stop(p, how) == pc' = [pc EXCEPT ![p] = how] /\ UNCHANGED sent

(* plain_broadcast.  It sends to one peer after the other; module MpcJob   *)
(* has that loop, and what a peer can tell when it stops half way.         *)
Broadcast(p, r, m) ==
  /\ pc' = [pc EXCEPT ![p] = r]
  /\ sent' = [sent EXCEPT ![r][p] = [j \in Party |-> m]]

(* send_message_all_to_one: the receiver goes on to wait, the others are   *)
(* done.                                                                   *)
SendToReceiver(p, m) ==
  /\ pc' = [pc EXCEPT ![p] = IF arg[p].receiver = p THEN Release ELSE Done]
  /\ sent' = [sent EXCEPT ![Release][p][arg[p].receiver] = m]

-----------------------------------------------------------------------------
(* The two rounds in common.                                               *)

(* "x_share does not match Qi", "Q does not match the sum of Qis" and, in  *)
(* Schnorr alone, "Wrong role".  Every key has N public shares.            *)
KeyOk(p) ==
  /\ Ecdsa \/ arg[p].owner = p
  /\ Key(p).x = Key(p).Qis[p]
  /\ SUM(Key(p).Qis) = Key(p).Q

(* Seeded fault: the messages are left out.                                *)
h_consistency_NoMsgs(p) == <<Key(p).Q, Key(p).Qis>>

h_consistency(p) == <<arg[p].msgs, Key(p).Q, Key(p).Qis>>

SidShare(p, k) == <<p, k>>

(* What p commits to: its nonce points, or its part of the ElGamal key.    *)
Opening(p) == IF Ecdsa THEN <<draw[p].s>> ELSE SubSeq(draw[p].k, 1, Len(arg[p].msgs))

Commit(p) ==
  /\ pc[p] = 0
  /\ \/ ~ KeyOk(p) /\ Stop(p, Failed)
     \/ /\ KeyOk(p)
        /\ Broadcast(p, 1, [sid |-> SidShare(p, 0), c |-> Com(SidShare(p, 0), p, Opening(p)),
                            hc |-> h_consistency(p)])

(* The hashes of what p received: the session id, and the echo.            *)
Sid(p) == [j \in Party |-> Msg(p, 1, j).sid]
Echo(p) == [j \in Party |-> Msg(p, 1, j).c]

SameInputs(p) == \A j \in Others(p) : Msg(p, 1, j).hc = h_consistency(p)

(* Schnorr sends its sid along, ECDSA the first message of the transfers.  *)
Open(p) ==
  /\ Has(p, 1)
  /\ \/ ~ SameInputs(p) /\ Stop(p, Failed)
     \/ /\ SameInputs(p)
        /\ Broadcast(p, 2, [sid |-> Sid(p), h |-> Echo(p), v |-> Opening(p), ot |-> TRUE,
                            pi |-> Proof(Sid(p), Opening(p), p)])

(* Seeded fault: the echo is not compared.                                 *)
Opens_NoEcho(p, j) ==
  LET m == Msg(p, 2, j)
  IN /\ Ecdsa \/ m.sid = Sid(p)
     /\ Len(m.v) = Len(Opening(p))
     /\ \A l \in DOMAIN m.v : OnCurve(m.v[l])
     /\ m.pi = Proof(Sid(p), m.v, j)
     /\ Msg(p, 1, j).c = Com(Msg(p, 1, j).sid, j, m.v)

Opens(p, j) ==
  LET m == Msg(p, 2, j)
  IN /\ Ecdsa \/ m.sid = Sid(p)
     /\ m.h = Echo(p)
     /\ Len(m.v) = Len(Opening(p))
     /\ \A l \in DOMAIN m.v : OnCurve(m.v[l])
     /\ m.pi = Proof(Sid(p), m.v, j)
     /\ Msg(p, 1, j).c = Com(Msg(p, 1, j).sid, j, m.v)

AllOpen(p) == \A j \in Others(p) : Opens(p, j)

-----------------------------------------------------------------------------
(* Schnorr: EdDSA and BIP340.                                              *)

R(p, l) == SUM([j \in Party |-> Msg(p, 2, j).v[l]])

(* The variant fits the curve; BIP340 messages are 32 bytes long, 0 being  *)
(* one that is not.                                                        *)
VariantOk(p) ==
  /\ arg[p].variant = setup.scheme
  /\ setup.scheme = "bip340" => \A l \in DOMAIN arg[p].msgs : arg[p].msgs[l] # 0

(* Seeded fault: the nonce is used as drawn.                               *)
NonceFor_Plain(p, l) == draw[p].k[l]

(* ki, negated in BIP340 when R has an odd y.                              *)
NonceFor(p, l) ==
  IF setup.scheme = "bip340" /\ is_odd(R(p, l)) THEN q - draw[p].k[l] ELSE draw[p].k[l]

(* e, negated in BIP340 when Q has an odd y.                               *)
ChallengeFor(p, l) ==
  IF setup.scheme = "eddsa" THEN Challenge[R(p, l)][arg[p].msgs[l]]
  ELSE LET e == Challenge[get_x(R(p, l))][arg[p].msgs[l]]
       IN  IF is_odd(Key(p).Q) THEN q - e ELSE e

SchnorrShare(p) ==
  [l \in DOMAIN arg[p].msgs |-> (ChallengeFor(p, l) * Key(p).x + NonceFor(p, l)) % q]

SchnorrRelease(p) ==
  /\ ~ Ecdsa /\ Has(p, 2)
  /\ \/ ~ (AllOpen(p) /\ VariantOk(p)) /\ Stop(p, Failed)
     \/ AllOpen(p) /\ VariantOk(p) /\ SendToReceiver(p, [ss |-> SchnorrShare(p)])

(* Ed25519 and BIP340 verification.                                        *)
SchnorrVerifies(p, l, s) ==
  LET m == arg[p].msgs[l]
      Even(P) == IF is_odd(P) THEN q - P ELSE P
  IN IF setup.scheme = "eddsa" THEN s = (R(p, l) + Challenge[R(p, l)][m] * Key(p).Q) % q
     ELSE s = (Even(R(p, l)) + Challenge[get_x(R(p, l))][m] * Even(Key(p).Q)) % q

SchnorrOutput(p) ==
  /\ ~ Ecdsa /\ Has(p, Release)
  /\ LET batch == DOMAIN arg[p].msgs
         sizes == \A j \in Party : DOMAIN Msg(p, Release, j).ss = batch
         valid == \A l \in batch :
                    SchnorrVerifies(p, l, SUM([j \in Party |-> Msg(p, Release, j).ss[l]]))
     IN \/ ~ sizes /\ Stop(p, Failed)
        \/ sizes /\ ~ valid /\ Stop(p, BadSig)
        \/ sizes /\ valid /\ Stop(p, Done)

-----------------------------------------------------------------------------
(* ECDSA.  OT says whether the other party's transfers go through.         *)

OT(p, r) == \A j \in Others(p) : Msg(p, r, j).ot

E(p) == SUM([j \in Party |-> Msg(p, 2, j).v[1]])

EcdsaRound2(p) ==
  /\ Ecdsa /\ Has(p, 2)
  /\ \/ ~ (AllOpen(p) /\ OT(p, 2)) /\ Stop(p, Failed)
     \/ AllOpen(p) /\ OT(p, 2) /\ Broadcast(p, 3, [ot |-> TRUE])

(* A proof of round r by j, as p checks it: the public values are p's.     *)
Public4(p) == <<Sid(p), E(p)>>

(* eK_i and eRHO_i with their proofs.                                      *)
EcdsaRound3(p) ==
  /\ Has(p, 3)
  /\ \/ ~ OT(p, 3) /\ Stop(p, Failed)
     \/ /\ OT(p, 3)
        /\ LET v == [eK |-> draw[p].k[1], eRHO |-> draw[p].rho]
           IN Broadcast(p, 4, [v |-> v, ot |-> TRUE, pi |-> Proof(Public4(p), v, p)])

Proved4(p) == \A j \in Others(p) : Msg(p, 4, j).pi = Proof(Public4(p), Msg(p, 4, j).v, j)

EcdsaRound4(p) ==
  /\ Has(p, 4)
  /\ \/ ~ (OT(p, 4) /\ Proved4(p)) /\ Stop(p, Failed)
     \/ OT(p, 4) /\ Proved4(p) /\ Broadcast(p, 5, [ot |-> TRUE])

eK(p) == SUM([j \in Party |-> Msg(p, 4, j).v.eK])

(* The shares of a product of p and j: the sender's, of lower index, is    *)
(* what the receiver's, a random number, leaves.                           *)
ProductShare(p, j, product) == IF p < j THEN product - (p + j) ELSE p + j

(* rho_k_i and rho_x_i.                                                    *)
rho_k(p) ==
  (draw[p].rho * draw[p].k[1]
   + SumFunction([j \in Others(p) |->
       ProductShare(p, j, draw[p].rho * Msg(p, 4, j).v.eK + draw[p].k[1] * Msg(p, 4, j).v.eRHO)])) % q
rho_x(p) ==
  (draw[p].rho * Key(p).x
   + SumFunction([j \in Others(p) |->
       ProductShare(p, j, draw[p].rho * Key(p).Qis[j] + Key(p).x * Msg(p, 4, j).v.eRHO)])) % q

Public6(p, j) == <<Sid(p), E(p), eK(p), Key(p).Q, Msg(p, 4, j).v.eRHO>>

(* Commitments to the shares of the products, and rho_i times the          *)
(* commitments to k and x.                                                 *)
EcdsaRound5(p) ==
  /\ Has(p, 5)
  /\ \/ ~ OT(p, 5) /\ Stop(p, Failed)
     \/ /\ OT(p, 5)
        /\ LET v == [eRHO_K |-> rho_k(p), eRHO_X |-> rho_x(p),
                     F_K |-> (draw[p].rho * eK(p)) % q, F_X |-> (draw[p].rho * Key(p).Q) % q]
           IN Broadcast(p, 6, [v |-> v, pi |-> Proof(Public6(p, p), v, p)])

Proved6(p) == \A j \in Others(p) : Msg(p, 6, j).pi = Proof(Public6(p, j), Msg(p, 6, j).v, j)

(* h: all commitments and proofs so far.                                   *)
View(p) == [j \in Party |-> <<Msg(p, 2, j).v, Msg(p, 4, j).v, Msg(p, 4, j).pi, Msg(p, 6, j)>>]

(* Y: by how much the shares miss the product of rho and k, or x.          *)
Sum6(p, field) == SumFunction([j \in Party |-> Msg(p, 6, j).v[field]])
Y_K(p) == (Sum6(p, "F_K") - Sum6(p, "eRHO_K")) % q
Y_X(p) == (Sum6(p, "F_X") - Sum6(p, "eRHO_X")) % q

Public7(p) == <<Sid(p), E(p), Y_K(p), Y_X(p)>>

(* Z: Y times a random number (one, or what a faulty party takes; that the *)
(* numbers cancel has odds of 1 in q).                                     *)
EcdsaRound6(p) ==
  /\ Has(p, 6)
  /\ \/ ~ Proved6(p) /\ Stop(p, Failed)
     \/ /\ Proved6(p)
        /\ LET v == [Z_K |-> Y_K(p), Z_X |-> Y_X(p)]
           IN Broadcast(p, 7, [h |-> View(p), v |-> v, pi |-> Proof(Public7(p), v, p)])

Proved7(p) ==
  \A j \in Others(p) : /\ Msg(p, 7, j).h = View(p)
                       /\ Msg(p, 7, j).pi = Proof(Public7(p), Msg(p, 7, j).v, j)

(* h2: all of round 7, and h.                                              *)
View7(p) == <<[j \in Party |-> <<Msg(p, 7, j).v, Msg(p, 7, j).pi>>], View(p)>>

Z_K(p) == SUM([j \in Party |-> Msg(p, 7, j).v.Z_K])
Z_X(p) == SUM([j \in Party |-> Msg(p, 7, j).v.Z_X])

Public8(p, j) == <<Sid(p), E(p), Msg(p, 2, j).v, Z_K(p), Z_X(p), Msg(p, 4, j).v.eK>>

(* W_i, fixed by its proof, and K_i = k_i * G.                             *)
EcdsaRound7(p) ==
  /\ Has(p, 7)
  /\ \/ ~ Proved7(p) /\ Stop(p, Failed)
     \/ /\ Proved7(p)
        /\ Broadcast(p, 8, [K |-> draw[p].k[1], h2 |-> View7(p),
                            pi |-> Proof(Public8(p, p), draw[p].k[1], p)])

Proved8(p) ==
  \A j \in Others(p) : /\ Msg(p, 8, j).h2 = View7(p)
                       /\ Msg(p, 8, j).pi = Proof(Public8(p, j), Msg(p, 8, j).K, j)

(* Seeded fault: only the product with k is checked.                       *)
ProductsRight_K(p) == Z_K(p) = 0

(* W = Z.R, for both products.                                             *)
ProductsRight(p) == Z_K(p) = 0 /\ Z_X(p) = 0

r(p) == get_x(SUM([j \in Party |-> Msg(p, 8, j).K]))

Public9(p, j) ==
  <<Sid(p), E(p), Msg(p, 6, j).v.eRHO_K,
    (r(p) * Msg(p, 6, j).v.eRHO_X + arg[p].msgs[1] * Msg(p, 4, j).v.eRHO) % q>>

(* rho_k and beta, with the proofs that they are in eRHO_K and eB.         *)
EcdsaRelease(p) ==
  /\ Has(p, 8)
  /\ \/ ~ (Proved8(p) /\ ProductsRight(p)) /\ Stop(p, Failed)
     \/ /\ Proved8(p) /\ ProductsRight(p)
        /\ LET beta == (r(p) * rho_x(p) + arg[p].msgs[1] * draw[p].rho) % q
           IN SendToReceiver(p, [v |-> <<rho_k(p), beta>>, pi |-> Proof(Public9(p, p), <<rho_k(p), beta>>, p)])

Proved9(p) == \A j \in Others(p) : Msg(p, Release, j).pi = Proof(Public9(p, j), Msg(p, Release, j).v, j)

EcdsaVerifies(p, s) ==
  LET m == arg[p].msgs[1]
  IN s # 0 /\ get_x(((m + r(p) * Key(p).Q) * Inv(s)) % q) = r(p)

EcdsaOutput(p) ==
  /\ Ecdsa /\ Has(p, Release)
  /\ LET total(i) == SUM([j \in Party |-> Msg(p, Release, j).v[i]])
         s == (total(2) * Inv(total(1))) % q
         low == IF q - s < s THEN q - s ELSE s
     IN \/ ~ Proved9(p) /\ Stop(p, Failed)
        \/ Proved9(p) /\ ~ EcdsaVerifies(p, low) /\ Stop(p, BadSig)
        \/ Proved9(p) /\ EcdsaVerifies(p, low) /\ Stop(p, Done)

-----------------------------------------------------------------------------
TransportError(p) ==
  /\ ~ Returned(p) /\ errs < setup.errs
  /\ errs' = errs + 1
  /\ Stop(p, Failed)

(* The transport reports that a peer returned without sending what p       *)
(* waits for.                                                              *)
PeerGone(p) ==
  /\ pc[p] \in 1 .. Release
  /\ \E j \in Honest : Returned(j) /\ Msg(p, pc[p], j) = None
  /\ Stop(p, Failed)

(* Commitments to points of the right number or one too many, infinity     *)
(* among them.                                                             *)
FaultyMsg1(f, p) ==
  LET n == Len(Opening(p))
      values == {[l \in 1 .. n |-> v] : v \in {0, 1, 3}} \union {[l \in 1 .. n + 1 |-> 1]}
      Fit(v) == [sid |-> SidShare(f, 0), c |-> Com(SidShare(f, 0), f, v), hc |-> h_consistency(p)]
      one == Fit([l \in 1 .. n |-> 1])
  IN {Fit(v) : v \in values} \union {[one EXCEPT !.sid = SidShare(f, 1)], [one EXCEPT !.hc = None]}

Committed(p, f) == Msg(p, 1, f).c[4]

FaultyMsg2(f, p) ==
  LET v == Committed(p, f)
      other == [l \in DOMAIN v |-> 2]
      fit == [sid |-> Sid(p), h |-> Echo(p), v |-> v, ot |-> TRUE, pi |-> Proof(Sid(p), v, f)]
  IN {fit, [fit EXCEPT !.h = None], [fit EXCEPT !.pi = None], [fit EXCEPT !.sid = None],
      [fit EXCEPT !.ot = FALSE], [fit EXCEPT !.v = other, !.pi = Proof(Sid(p), other, f)]}

FaultyOt == {[ot |-> TRUE], [ot |-> FALSE]}

FaultyMsg4(f, p) ==
  LET Fit(v) == [v |-> v, ot |-> TRUE, pi |-> Proof(Public4(p), v, f)]
      one == [eK |-> 1, eRHO |-> 1]
      two == [eK |-> 3, eRHO |-> 2]
  IN {Fit(one), Fit(two), [Fit(one) EXCEPT !.pi = None], [Fit(one) EXCEPT !.ot = FALSE]}

(* From here on a proof shows what is true, whatever it is sent with.      *)

(* F is what it is proved to be; the shares of the products are the right  *)
(* ones, or miss them by d and e.                                          *)
FaultyProducts(f, p, d, e) ==
  LET rho == SUM([j \in Party |-> Msg(p, 4, j).v.eRHO])
      mine == Msg(p, 4, f).v.eRHO
      Honestly(field) == SumFunction([j \in Honest |-> Msg(p, 6, j).v[field]])
  IN [eRHO_K |-> (rho * eK(p) - Honestly("eRHO_K") + d) % q,
      eRHO_X |-> (rho * Key(p).Q - Honestly("eRHO_X") + e) % q,
      F_K |-> (mine * eK(p)) % q, F_X |-> (mine * Key(p).Q) % q]

FaultyMsg6(f, p) ==
  LET V(d, e) == FaultyProducts(f, p, d, e)
      Pi(v) == Proof(Public6(p, f), v, f)
  IN {[v |-> V(0, 0), pi |-> Pi(V(0, 0))], [v |-> V(0, 1), pi |-> Pi(V(0, 1))],
      [v |-> V(1, 0), pi |-> Pi(V(1, 0))],
      [v |-> [V(0, 1) EXCEPT !.F_X = (@ + 1) % q], pi |-> Pi(V(0, 1))]}

FaultyMsg7(f, p) ==
  LET V(o) == [Z_K |-> (o * Y_K(p)) % q, Z_X |-> (o * Y_X(p)) % q]
      Fit(o) == [h |-> View(p), v |-> V(o), pi |-> Proof(Public7(p), V(o), f)]
      cancel == - (N - 1)
  IN {Fit(0), Fit(1), [Fit(1) EXCEPT !.h = None], [Fit(1) EXCEPT !.v = V(cancel)]}

FaultyMsg8(f, p) ==
  LET k == Msg(p, 4, f).v.eK
      fit == [K |-> k, h2 |-> View7(p), pi |-> Proof(Public8(p, f), k, f)]
  IN {fit, [fit EXCEPT !.h2 = None], [fit EXCEPT !.K = (k + 1) % q]}

FaultyRelease(f, p) ==
  IF Ecdsa
  THEN LET v == <<Public9(p, f)[3], Public9(p, f)[4]>>
           fit == [v |-> v, pi |-> Proof(Public9(p, f), v, f)]
       IN {fit, [fit EXCEPT !.v = <<v[1], (v[2] + 1) % q>>]}
  ELSE LET n == Committed(p, f)
           k(l) == IF setup.scheme = "bip340" /\ is_odd(R(p, l)) THEN q - n[l] ELSE n[l]
           ss == [l \in DOMAIN n |-> (ChallengeFor(p, l) * Key(p).Qis[f] + k(l)) % q]
       IN {[ss |-> ss], [ss |-> [ss EXCEPT ![1] = (@ + 1) % q]], [ss |-> Append(ss, 0)]}

FaultyMsgs(f, rd, p) ==
  CASE rd = 1 -> FaultyMsg1(f, p)
    [] rd = 2 -> FaultyMsg2(f, p)
    [] rd \in {3, 5} -> FaultyOt
    [] rd = 4 -> FaultyMsg4(f, p)
    [] rd = 6 -> FaultyMsg6(f, p)
    [] rd = 7 -> FaultyMsg7(f, p)
    [] rd = 8 -> FaultyMsg8(f, p)
    [] rd = Release -> FaultyRelease(f, p)

(* Faulty parties send last, and to each waiting party what they like,     *)
(* unless the others have already failed it.                               *)
FaultySends(f, rd) ==
  LET W == {p \in Honest : pc[p] = rd}
  IN /\ W # {} /\ \A p \in Honest : pc[p] >= rd
     /\ \A p \in W : Msg(p, rd, f) = None /\ \A j \in Honest : Msg(p, rd, j) # None
     /\ \E c \in [W -> UNION {FaultyMsgs(f, rd, p) : p \in W}] :
          /\ \A p \in W : c[p] \in FaultyMsgs(f, rd, p)
          /\ sent' = [sent EXCEPT ![rd][f] = [p \in Party |-> IF p \in W THEN c[p] ELSE @[p]]]
     /\ UNCHANGED pc

PartyStep(p) ==
  \/ Commit(p) \/ Open(p) \/ SchnorrRelease(p) \/ SchnorrOutput(p)
  \/ EcdsaRound2(p) \/ EcdsaRound3(p) \/ EcdsaRound4(p) \/ EcdsaRound5(p)
  \/ EcdsaRound6(p) \/ EcdsaRound7(p) \/ EcdsaRelease(p) \/ EcdsaOutput(p)
  \/ PeerGone(p)

FaultyStep(f) == \E rd \in 1 .. Release : FaultySends(f, rd)

Next ==
  \/ \E p \in Honest : PartyStep(p) /\ UNCHANGED <<setup, arg, draw, errs>>
  \/ \E p \in Honest : TransportError(p) /\ UNCHANGED <<setup, arg, draw>>
  \/ \E f \in setup.faulty : FaultyStep(f) /\ UNCHANGED <<setup, arg, draw, errs>>

Spec == Init /\ [][Next]_vars

(* A party that can go on does, and the transport reports stopped peers.   *)
FairSpec ==
  Spec /\ \A p \in Party : WF_vars(/\ p \in Honest /\ PartyStep(p)
                                  /\ UNCHANGED <<setup, arg, draw, errs>>)

-----------------------------------------------------------------------------
Released(p) == \E j \in Party : sent[Release][p][j] # None

(* The messages, the key with everybody's public shares, and the nonce     *)
(* that p's released shares belong to.                                     *)
Signature(p) ==
  <<arg[p].msgs, Key(p).Q, Key(p).Qis,
    IF Ecdsa THEN <<r(p), View(p)>> ELSE [l \in DOMAIN arg[p].msgs |-> R(p, l)]>>

(* All honest parties that release shares release them for one signature:  *)
(* the same messages in the same order, key, epoch and nonce, whatever     *)
(* each was asked for and whatever a faulty party sent to each of them.    *)
OneSignature ==
  \A p, j \in Honest : (Released(p) /\ Released(j)) => Signature(p) = Signature(j)

(* ECDSA shares are released only when the committed shares add up to both *)
(* products, of rho and k and of rho and the key: a wrong multiplication   *)
(* never gets as far as being seen in what honest parties release.         *)
ReleaseMeansProducts ==
  \A p \in Honest : (Ecdsa /\ Released(p)) =>
    LET rho == SUM([j \in Party |-> Msg(p, 4, j).v.eRHO])
    IN /\ Sum6(p, "eRHO_K") % q = (rho * eK(p)) % q
       /\ Sum6(p, "eRHO_X") % q = (rho * Key(p).Q) % q

(* ECDSA divides by the sum of the shares of rho_k, and s is not to be 0:  *)
(* with random k and rho the odds of missing that are about 1 in q.        *)
Degenerate(p) ==
  \/ eK(p) = 0 \/ SUM([j \in Party |-> Msg(p, 4, j).v.eRHO]) = 0
  \/ (arg[p].msgs[1] + r(p) * Key(p).Q) % q = 0

(* A signature put together by the receiver fails to verify only in the    *)
(* Schnorr variants, whose shares carry no proof, and only when a faulty   *)
(* party took part (or ECDSA's draws are degenerate); never because the    *)
(* callers asked for different things.                                     *)
BadSigNeedsFault ==
  \A p \in Honest : pc[p] = BadSig => IF Ecdsa THEN Degenerate(p) ELSE setup.faulty # {}

TwoReceivers == \E p, j \in Honest : p # j /\ arg[p].receiver = p /\ arg[j].receiver = j

Alike == \A p, j \in Honest : /\ [arg[p] EXCEPT !.owner = 0] = [arg[j] EXCEPT !.owner = 0]
                              /\ KeyOk(p) /\ (Ecdsa \/ VariantOk(p))

(* Without faulty parties every call returns, unless two parties each name *)
(* themselves as the receiver; and calls that ask for the same thing       *)
(* succeed everywhere, the receiver's with verified signatures.            *)
CallsReturn ==
  (setup.faulty = {} /\ ~ TwoReceivers)
    ~> \A p \in Honest : Returned(p) /\ ((Alike /\ errs = 0) => pc[p] = Done)
=============================================================================
