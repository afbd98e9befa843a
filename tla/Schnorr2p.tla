----------------------------- MODULE Schnorr2p -----------------------------
(***************************************************************************)
(* schnorr2p::sign_batch (schnorr_2p.cpp) with the keys of KeyShare2p: the *)
(* parties generate and refresh a key, session after session, and then     *)
(* sign with whatever each of them holds by then.  Signing changes no key, *)
(* so that one batch, after any history of the keys, is enough.            *)
(*                                                                         *)
(* The two calls are never compared: each party hashes its own messages,   *)
(* P2 sends its shares of s and is done, and P1 learns from the final      *)
(* verification whether the calls and the keys fitted together.            *)
(*                                                                         *)
(* A message is a number, 0 being one that is not 32 bytes long; y of a    *)
(* point is odd in the upper half of Z_q.                                  *)
(***************************************************************************)
EXTENDS KeyShare2p, Sequences

CONSTANTS
  Calls,       \* the arguments of both calls: [curve, msgs, variant] for each
               \* party, curve being that of the keys and the same for both
  Nonces,      \* Nonces[p]: the sequences of nonces p may draw
  Challenge    \* Challenge[R][m]: the hash of R, the public key and m

ASSUME SigningTypes ==
  \A c \in Calls :
    /\ c[1].curve = c[2].curve /\ c[1].curve \in {"secp256k1", "ed25519"}
    /\ \A p \in Party : /\ c[p].variant \in {"BIP340", "EdDSA"}
                       /\ c[p].msgs \in Seq(Nat)
                       /\ \A k \in Nonces[p] : k \in Seq(Zq \ {0}) /\ Len(k) >= Len(c[p].msgs)

(* q is a prime; the challenges of the messages to be signed are distinct  *)
(* and none is 0.                                                          *)
Messages == UNION {{c[p].msgs[i] : i \in DOMAIN c[p].msgs} : c \in Calls, p \in Party}

ASSUME GroupOrder == \A a, b \in 1 .. q - 1 : (a * b) % q # 0

ASSUME ChallengeTypes ==
  \A P \in Zq : \A m, n \in Messages :
    Challenge[P][m] \in 1 .. q - 1 /\ (Challenge[P][m] = Challenge[P][n] => m = n)

VARIABLES
  arg,     \* arg[p]: what p was called with, None before
  at,      \* at[p]: where p is in sign_batch, or how it returned
  nonce,   \* nonce[p]: k1 or k2
  wire,    \* wire[k]: the k-th message of the protocol
  hit      \* a transport error struck during signing

signing == <<arg, at, nonce, wire, hit>>
all == <<vars, signing>>

InitAll ==
  /\ Init
  /\ arg = None
  /\ at = [p \in Honest |-> "idle"] /\ nonce = [p \in Honest |-> <<>>]
  /\ wire = [k \in 1 .. 4 |-> None] /\ hit = FALSE

(* Both are called, with the keys they hold; nothing else is left of the   *)
(* key sessions.  Bound: a faulty party's batch follows the first session. *)
StartSigning ==
  /\ arg = None
  /\ \A p \in Honest : key[p] # None /\ ~ Running(p)
  /\ faulty = {} \/ session = 1
  /\ arg' \in Calls
  /\ at' = [p \in Honest |-> "start"]
  /\ kind' = "sign" /\ entry' = key
  /\ pc' = [p \in Honest |-> "idle"]
  /\ draw' = [p \in Honest |-> None]
  /\ msg' = [k \in 1 .. 3 |-> None]
  /\ UNCHANGED <<nonce, wire, hit, faulty, key, lineage, session, errs>>

In(p, state) == arg # None /\ p \in Honest /\ at[p] = state
Go(p, state) == at' = [at EXCEPT ![p] = state]
Put(k, m) == wire' = [wire EXCEPT ![k] = m]
GiveUp(p) == Go(p, "failed") /\ UNCHANGED <<arg, nonce, wire>>

n_sigs(p) == Len(arg[p].msgs)
Sid(p) == <<"sign", p>>
Drawn(p) == {[i \in 1 .. n_sigs(p) |-> k[i]] : k \in Nonces[p]}

EmptyBatch(p) ==
  /\ In(p, "start") /\ n_sigs(p) = 0
  /\ GiveUp(p)

SignStep1 ==
  /\ In(1, "start") /\ n_sigs(1) > 0
  /\ \E k1 \in Drawn(1) : /\ nonce' = [nonce EXCEPT ![1] = k1]
                          /\ Put(1, [sid1 |-> Sid(1), com |-> Com(Sid(1), 1, k1)])
  /\ Go(1, "committed")
  /\ UNCHANGED arg

SignStep2 ==
  /\ In(2, "start") /\ n_sigs(2) > 0 /\ wire[1] # None
  /\ \E k2 \in Drawn(2) :
       /\ nonce' = [nonce EXCEPT ![2] = k2]
       /\ Put(2, [R2 |-> k2, pi |-> Proof(k2, <<wire[1].sid1, Sid(2)>>, 2), sid2 |-> Sid(2)])
  /\ Go(2, "answered")
  /\ UNCHANGED arg

AllOnCurve(points) == \A i \in DOMAIN points : OnCurve(points[i])

R2Accepted ==
  /\ Len(wire[2].R2) = n_sigs(1)
  /\ AllOnCurve(wire[2].R2)
  /\ wire[2].pi = Proof(wire[2].R2, <<Sid(1), wire[2].sid2>>, 2)

SignStep3 ==
  /\ In(1, "committed") /\ wire[2] # None
  /\ \/ ~ R2Accepted /\ GiveUp(1)
     \/ /\ R2Accepted
        /\ Put(3, [R1 |-> nonce[1], pi |-> Proof(nonce[1], <<Sid(1), wire[2].sid2>>, 1)])
        /\ Go(1, "opened")
        /\ UNCHANGED <<arg, nonce>>

-----------------------------------------------------------------------------
(* R, the parities and e, as each party computes them.                     *)
is_odd(P) == 2 * P > q
EvenY(P) == IF is_odd(P) THEN q - P ELSE P

R(i) == (wire[3].R1[i] + wire[2].R2[i]) % q

VariantOk(p) ==
  \/ arg[p].variant = "EdDSA" /\ arg[p].curve = "ed25519"
  \/ /\ arg[p].variant = "BIP340" /\ arg[p].curve = "secp256k1"
     /\ \A i \in DOMAIN arg[p].msgs : arg[p].msgs[i] # 0

NonceFor(p, i) ==
  IF arg[p].variant = "BIP340" /\ is_odd(R(i)) THEN q - nonce[p][i] ELSE nonce[p][i]

ChallengeFor(p, i) ==
  IF arg[p].variant = "EdDSA" THEN Challenge[R(i)][arg[p].msgs[i]]
  ELSE LET e == Challenge[EvenY(R(i))][arg[p].msgs[i]]
       IN  IF is_odd(key[p].Q) THEN q - e ELSE e

ShareOfS(p) == [i \in 1 .. n_sigs(p) |-> (ChallengeFor(p, i) * key[p].x + NonceFor(p, i)) % q]

-----------------------------------------------------------------------------
(* Seeded fault: R1 is not compared with the commitment.                   *)
R1Accepted_Unopened ==
  /\ Len(wire[3].R1) = n_sigs(2)
  /\ AllOnCurve(wire[3].R1)
  /\ wire[3].pi = Proof(wire[3].R1, <<wire[1].sid1, Sid(2)>>, 1)

R1Accepted ==
  /\ Len(wire[3].R1) = n_sigs(2)
  /\ wire[1].com = Com(wire[1].sid1, 1, wire[3].R1)
  /\ AllOnCurve(wire[3].R1)
  /\ wire[3].pi = Proof(wire[3].R1, <<wire[1].sid1, Sid(2)>>, 1)

(* P2 is done when it has sent its shares.                                 *)
SignStep4 ==
  /\ In(2, "answered") /\ wire[3] # None
  /\ \/ ~ (R1Accepted /\ VariantOk(2)) /\ GiveUp(2)
     \/ /\ R1Accepted /\ VariantOk(2)
        /\ Put(4, ShareOfS(2))
        /\ Go(2, "done")
        /\ UNCHANGED <<arg, nonce>>

(* Seeded fault: the candidate signatures are returned unverified.         *)
Verifies_Unchecked(i, s) == TRUE

(* Ed25519 and BIP340 verification under P1's key.                         *)
Verifies(i, s) ==
  IF arg[1].variant = "EdDSA" THEN s = (R(i) + Challenge[R(i)][arg[1].msgs[i]] * key[1].Q) % q
  ELSE s = (EvenY(R(i)) + Challenge[EvenY(R(i))][arg[1].msgs[i]] * EvenY(key[1].Q)) % q

SignStep5 ==
  /\ In(1, "opened")
  /\ LET valid == /\ Len(wire[4]) = n_sigs(1)
                  /\ \A i \in 1 .. n_sigs(1) : Verifies(i, (ShareOfS(1)[i] + wire[4][i]) % q)
     IN  \/ ~ VariantOk(1) /\ GiveUp(1)
         \/ VariantOk(1) /\ wire[4] # None /\ ~ valid /\ GiveUp(1)
         \/ /\ VariantOk(1) /\ wire[4] # None /\ valid
            /\ Go(1, "done")
            /\ UNCHANGED <<arg, nonce, wire>>

-----------------------------------------------------------------------------
Busy(p) == at[p] \notin {"idle", "done", "failed"}

SignError(p) ==
  /\ Busy(p) /\ ~ hit
  /\ hit' = TRUE
  /\ GiveUp(p)

(* The transport reports that the peer stopped without sending.            *)
SignPeerGone(p) ==
  /\ Busy(p)
  /\ \E j \in Honest \ {p} : at[j] = "failed"
  /\ \/ In(1, "committed") /\ p = 1 /\ wire[2] = None
     \/ In(1, "opened") /\ p = 1 /\ VariantOk(1) /\ wire[4] = None
     \/ In(2, "start") /\ p = 2 /\ wire[1] = None
     \/ In(2, "answered") /\ p = 2 /\ wire[3] = None
  /\ GiveUp(p)

(* A faulty party proves what it sends; its points may be off the curve,   *)
(* too few or other than those it committed to, its shares anything.       *)
Points == UNION {[1 .. n -> Draw \union {0, q}] : n \in 1 .. 2}

FaultyMessages ==
  /\ arg # None
  /\ \/ /\ 1 \in faulty /\ wire[1] = None
        /\ \E k \in Points : Put(1, [sid1 |-> Sid(1), com |-> Com(Sid(1), 1, k)])
     \/ /\ 2 \in faulty /\ wire[1] # None /\ wire[2] = None
        /\ \E k \in Points, pid \in Party :
             Put(2, [R2 |-> k, pi |-> Proof(k, <<Sid(1), Sid(2)>>, pid), sid2 |-> Sid(2)])
     \/ /\ 1 \in faulty /\ wire[2] # None /\ wire[3] = None
        /\ \E k \in Points, pid \in Party :
             Put(3, [R1 |-> k, pi |-> Proof(k, <<Sid(1), Sid(2)>>, pid)])
     \/ /\ 2 \in faulty /\ wire[3] # None /\ wire[4] = None
        /\ \E n \in 1 .. 2 : \E s \in [1 .. n -> Zq] : Put(4, s)
  /\ UNCHANGED <<arg, at, nonce>>

SignSteps ==
  \/ SignStep1 \/ SignStep2 \/ SignStep3 \/ SignStep4 \/ SignStep5
  \/ \E p \in Honest : EmptyBatch(p) \/ SignPeerGone(p)

NextAll ==
  \/ arg = None /\ Next /\ UNCHANGED signing
  \/ StartSigning
  \/ (SignSteps \/ FaultyMessages) /\ UNCHANGED <<vars, hit>>
  \/ (\E p \in Honest : SignError(p)) /\ UNCHANGED vars

(* A party that can go on does, in key sessions and in signing.            *)
FairSpecAll ==
  /\ InitAll /\ [][NextAll]_all
  /\ WF_all(arg = None /\ Steps /\ UNCHANGED <<faulty, entry, kind, session, errs, signing>>)
  /\ WF_all(SignSteps /\ UNCHANGED <<vars, hit>>)

-----------------------------------------------------------------------------
Fit == key[1].Q = key[2].Q /\ Gap(key) = 0

(* In so small a group the signature may come out right by accident.       *)
Accident == key[2].x = 0 \/ (~ Fit /\ arg[1].msgs # arg[2].msgs)

CalledAlike ==
  arg[1] = arg[2] /\ arg[1].msgs # <<>> /\ VariantOk(1)

(* Two honest parties whose calls are alike get their signatures, unless   *)
(* an error struck the signing, or struck a refresh and left them with     *)
(* different histories; and P1 gets signatures only from shares that fit   *)
(* together and a P2 that signed the same messages, although neither is    *)
(* compared before P2 has returned.                                        *)
SignsWhenSharesFit ==
  (faulty = {} /\ arg # None /\ ~ Accident) =>
    /\ at[1] = "done" => Fit /\ arg[1].msgs = arg[2].msgs
    /\ (at[1] = "failed" /\ ~ hit /\ CalledAlike) => errs > 0 /\ lineage[1] # lineage[2]

(* The shares of s that P2 sends belong to nonces of P1 that were fixed by *)
(* the commitment P2 had before it drew its own.                           *)
NoncesFixedBeforeAnswer ==
  (arg # None /\ 2 \in Honest /\ at[2] = "done") =>
    wire[1].com = Com(Sid(1), 1, [i \in DOMAIN wire[4] |-> (R(i) - nonce[2][i]) % q])

(* Two honest parties' calls return, be they key generations, refreshes or *)
(* signatures: with a result, with an error, or because the transport      *)
(* reports that the peer is gone.                                          *)
EveryCallReturns ==
  \A p \in Party :
    /\ (faulty = {} /\ Running(p)) ~> (faulty = {} /\ ~ Running(p))
    /\ (faulty = {} /\ Busy(p)) ~> (faulty = {} /\ ~ Busy(p))
=============================================================================
