------------------------- MODULE CommittedBroadcast -------------------------
(***************************************************************************)
(* committed_group_broadcast (committed_broadcast.h) as multi_agree_random *)
(* (agree_random.cpp) uses it: every party broadcasts a commitment to its  *)
(* contribution, then the opening together with a hash of all commitments  *)
(* it received, and compares.                                              *)
(*                                                                         *)
(* Rounds are reliable and aligned (module MpcJob): a party reads in a     *)
(* round what each peer sent it for that round.  plain_broadcast gives no  *)
(* more than that: it is one send per receiver, so a member of Faulty may  *)
(* send different things to different receivers.  Hashes and commitments   *)
(* are injective: a commitment is the pair of the committer's pid and the  *)
(* value, a hash is what is hashed.                                        *)
(***************************************************************************)
EXTENDS Naturals

CONSTANTS
  Party, Faulty,
  Bits,       \* contributions of the agreed length
  Short,      \* a contribution of another length
  None        \* nothing received yet

ASSUME FaultyType == Faulty \subseteq Party

Honest == Party \ Faulty
Value == Bits \union {Short}

Commitment == Party \X Value

(* What a party sends in the second round: echo hash and opened value.     *)
Opening == [v : [Party -> Commitment \union {None}], msg : Value]

ASSUME NoneFresh ==
  None \notin Commitment /\ None \notin Opening /\ None \notin [Party -> Value]

VARIABLES
  pc,        \* pc[p]: idle, com, open, done, failed, or assert
  r,         \* r[p]: p's contribution
  com,       \* com[q][p]: the commitment q sent to p
  opening,   \* opening[q][p]: echo hash and opened value q sent to p
  got        \* got[p][i]: the contribution of i that p accepted

vars == <<pc, r, com, opening, got>>

(* commitment_t(pid).gen(msg): the committer's pid is hashed in.           *)
Com(pid, msg) == <<pid, msg>>

(* Seeded fault: the own commitment is left out of the hash.               *)
View_OthersOnly(p) == [i \in Party |-> IF i = p THEN None ELSE com[i][p]]

(* com_msg.all_received() of p, and its hash.                              *)
View(p) == [i \in Party |-> com[i][p]]

Init ==
  /\ pc = [p \in Honest |-> "idle"]
  /\ r = [p \in Honest |-> None]
  /\ com = [q \in Party |-> [p \in Party |-> None]]
  /\ opening = [q \in Party |-> [p \in Party |-> None]]
  /\ got = [p \in Honest |-> None]

(* First round: com.gen and plain_broadcast(com_msg).                      *)
Commit(p) ==
  /\ pc[p] = "idle"
  /\ \E x \in Bits :
       /\ r' = [r EXCEPT ![p] = x]
       /\ com' = [com EXCEPT ![p] = [q \in Party |-> Com(p, x)]]
  /\ pc' = [pc EXCEPT ![p] = "com"]
  /\ UNCHANGED <<opening, got>>

(* Seeded fault: the own opening is not among the received ones.           *)
Open_SkipSelf(p) ==
  /\ pc[p] = "com"
  /\ \A q \in Party : com[q][p] # None
  /\ opening' = [opening EXCEPT ![p] =
                   [q \in Party |-> IF q = p THEN None ELSE [v |-> View(p), msg |-> r[p]]]]
  /\ pc' = [pc EXCEPT ![p] = "open"]
  /\ UNCHANGED <<r, com, got>>

(* Second round: plain_broadcast(v, com_rand, args).                       *)
Open(p) ==
  /\ pc[p] = "com"
  /\ \A q \in Party : com[q][p] # None
  /\ opening' = [opening EXCEPT ![p] =
                   [q \in Party |-> [v |-> View(p), msg |-> r[p]]]]
  /\ pc' = [pc EXCEPT ![p] = "open"]
  /\ UNCHANGED <<r, com, got>>

(* Seeded faults: the echo is not compared; the opening is accepted under  *)
(* any party's pid.                                                        *)
Accepts_NoEcho(p, i) == com[i][p] = Com(i, opening[i][p].msg)

Accepts_AnyPid(p, i) ==
  /\ opening[i][p].v = View(p)
  /\ \E j \in Party : com[i][p] = Com(j, opening[i][p].msg)

(* The body of the checking loop for sender i.                             *)
Accepts(p, i) ==
  /\ opening[i][p].v = View(p)
  /\ com[i][p] = Com(i, opening[i][p].msg)

Opened(p) == [i \in Party |-> opening[i][p].msg]

(* The checking loop, then the xor of multi_agree_random, which asserts    *)
(* that all contributions have one length.                                 *)
Finish(p) ==
  /\ pc[p] = "open"
  /\ \A i \in Party : opening[i][p] # None
  /\ \/ /\ \A i \in Party : Accepts(p, i)
        /\ got' = [got EXCEPT ![p] = Opened(p)]
        /\ pc' = [pc EXCEPT ![p] =
                    IF \A i \in Party : Opened(p)[i] \in Bits THEN "done" ELSE "assert"]
     \/ /\ \E i \in Party : ~ Accepts(p, i)
        /\ pc' = [pc EXCEPT ![p] = "failed"]
        /\ UNCHANGED got
  /\ UNCHANGED <<r, com, opening>>

(* A transport error in either round.                                      *)
TransportError(p) ==
  /\ pc[p] \in {"com", "open"}
  /\ pc' = [pc EXCEPT ![p] = "failed"]
  /\ UNCHANGED <<r, com, opening, got>>

(* A faulty party's rounds: anything of the right format, each receiver    *)
(* its own; echoes of any honest party's view or of none.                  *)
FaultyCommit(f) ==
  /\ \A p \in Honest : com[f][p] = None
  /\ \E m \in [Honest -> Commitment] :
       com' = [com EXCEPT ![f] = [q \in Party |-> IF q \in Honest THEN m[q] ELSE None]]
  /\ UNCHANGED <<pc, r, opening, got>>

FaultyOpen(f) ==
  /\ \A p \in Honest : com[f][p] # None /\ opening[f][p] = None
  /\ \A p \in Honest : pc[p] \notin {"idle", "com"}
  /\ \E m \in [Honest -> [v : {View(h) : h \in Honest} \union {[i \in Party |-> None]},
                          msg : Value]] :
       opening' = [opening EXCEPT ![f] = [q \in Party |-> IF q \in Honest THEN m[q] ELSE None]]
  /\ UNCHANGED <<pc, r, com, got>>

PartyStep(p) == Commit(p) \/ Open(p) \/ Finish(p)

Ended == \A p \in Honest : pc[p] \in {"done", "failed", "assert"}

Next ==
  \/ \E p \in Honest : PartyStep(p) \/ TransportError(p)
  \/ \E f \in Faulty : FaultyCommit(f) \/ FaultyOpen(f)

Spec == Init /\ [][Next]_vars

FairSpec == Spec /\ \A p \in Honest : WF_vars(PartyStep(p))

-----------------------------------------------------------------------------
TypeOK ==
  /\ pc \in [Honest -> {"idle", "com", "open", "done", "failed", "assert"}]
  /\ r \in [Honest -> Bits \union {None}]
  /\ com \in [Party -> [Party -> Commitment \union {None}]]
  /\ opening \in [Party -> [Party -> Opening \union {None}]]
  /\ got \in [Honest -> [Party -> Value] \union {None}]

(* Two honest parties that complete accepted the same contributions from   *)
(* everybody, so they computed the same random string, although a faulty   *)
(* party can commit and open differently towards each of them.             *)
Agreement ==
  \A p, q \in Honest :
    (pc[p] \in {"done", "assert"} /\ pc[q] \in {"done", "assert"}) => got[p] = got[q]

(* A contribution is fixed in the first round: what p accepts from i is    *)
(* what i committed to p under its own pid, so nobody's contribution is a  *)
(* copy of somebody else's commitment, and an honest one is the value its  *)
(* owner drew.                                                             *)
FixedByCommitment ==
  \A p \in Honest : pc[p] \in {"done", "assert"} =>
    \A i \in Party : /\ com[i][p] = Com(i, got[p][i])
                     /\ i \in Honest => got[p][i] = r[i]

(* The detailed protocol implements agree-or-abort.                        *)
Decided == {p \in Honest : pc[p] \in {"done", "assert"}}

Decision == IF Decided = {} THEN None ELSE got[CHOOSE p \in Decided : TRUE]

Status ==
  [p \in Honest |-> IF pc[p] \in {"done", "assert"} THEN "done"
                    ELSE IF pc[p] = "failed" THEN "failed" ELSE "running"]

Abstract == INSTANCE AgreeOrAbort
  WITH Member <- Honest, Outcome <- [Party -> Value], NoOutcome <- None,
       decision <- Decision, status <- Status

ImplementsAgreeOrAbort == Abstract!Spec

(* An honest party never rejects another because of what that one did: the *)
(* opening fits the commitment, and the echoes differ only when a faulty   *)
(* party sent the two of them different commitments.                       *)
HonestAccepted ==
  \A p, q \in Honest :
    (pc[p] = "open" /\ \A i \in Party : opening[i][p] # None)
      => /\ com[q][p] = Com(q, opening[q][p].msg)
         /\ (\A f \in Faulty : com[f][p] = com[f][q]) => Accepts(p, q)

(* Once the faulty parties, if any, have sent their openings, every honest *)
(* call returns; nothing is said once an honest party has failed, by an    *)
(* error or a check, since others may then wait for what it did not send.  *)
HonestRunsComplete ==
  (\A f \in Faulty : \A p \in Honest : opening[f][p] # None)
    ~> (Ended \/ \E p \in Honest : pc[p] = "failed")

(* What makes the above inductive.  An honest party's messages are those   *)
(* of its state, the same for every receiver, and its view is complete,    *)
(* hence final, when it opens; what it accepted, it still would accept.    *)
HonestMessages ==
  \A p \in Honest : \A q \in Party :
    /\ pc[p] = "idle" => com[p][q] = None
    /\ pc[p] # "idle" => r[p] \in Bits /\ com[p][q] = Com(p, r[p])
    /\ pc[p] \in {"idle", "com"} => opening[p][q] = None
    /\ opening[p][q] # None =>
         /\ opening[p][q] = [v |-> View(p), msg |-> r[p]]
         /\ \A i \in Party : com[i][p] # None

StillAccepted ==
  \A p \in Honest : pc[p] \in {"done", "assert"} =>
    /\ got[p] = Opened(p)
    /\ \A i \in Party : com[i][p] # None /\ opening[i][p] # None /\ Accepts(p, i)

Waiting ==
  \A p \in Honest : pc[p] = "open" =>
    \A q \in Party : com[q][p] # None /\ opening[p][q] # None

IndInv == TypeOK /\ HonestMessages /\ StillAccepted /\ Waiting
=============================================================================
