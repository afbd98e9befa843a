---------------------- MODULE CommittedBroadcastProofs ----------------------
(* Agreement of committed_group_broadcast, for every number of parties and *)
(* every set of faulty ones.                                               *)
EXTENDS CommittedBroadcast, TLAPS

LEMMA InitInd == Init => IndInv
<1> SUFFICES ASSUME Init PROVE IndInv
  OBVIOUS
<1>1. Honest \subseteq Party
  BY FaultyType DEF Honest
<1>2. TypeOK
  BY DEF Init, TypeOK
<1>3. HonestMessages
  BY <1>1 DEF Init, HonestMessages
<1>4. StillAccepted /\ Waiting
  BY DEF Init, StillAccepted, Waiting
<1> QED
  BY <1>2, <1>3, <1>4 DEF IndInv

LEMMA ComType ==
  ASSUME NEW p \in Party, NEW x \in Bits
  PROVE  Com(p, x) \in Commitment /\ Com(p, x) # None
BY NoneFresh DEF Com, Commitment, Value

LEMMA ComInj ==
  ASSUME NEW p, NEW x, NEW y, Com(p, x) = Com(p, y)
  PROVE  x = y
BY DEF Com

LEMMA StepType == IndInv /\ [Next]_vars => TypeOK'
<1> SUFFICES ASSUME IndInv, [Next]_vars PROVE TypeOK'
  OBVIOUS
<1> USE DEF TypeOK
<1>0. TypeOK /\ Honest \subseteq Party
  BY FaultyType DEF Honest, IndInv
<1>1. ASSUME NEW p \in Honest, Commit(p) PROVE TypeOK'
  BY <1>0, <1>1, ComType DEF Commit
<1>2. ASSUME NEW p \in Honest, Open(p) PROVE TypeOK'
  <2>1. r[p] \in Bits
    BY <1>0, <1>2 DEF Open, IndInv, HonestMessages
  <2>2. [v |-> View(p), msg |-> r[p]] \in Opening
    BY <1>0, <2>1 DEF View, Opening, Value
  <2> QED
    BY <1>0, <1>2, <2>2 DEF Open
<1>3. ASSUME NEW p \in Honest, Finish(p) PROVE TypeOK'
  <2>1. Opened(p) \in [Party -> Value]
    BY <1>0, <1>3 DEF Finish, Opened, Opening
  <2> QED
    BY <1>0, <1>3, <2>1 DEF Finish
<1>4. ASSUME NEW p \in Honest, TransportError(p) PROVE TypeOK'
  BY <1>0, <1>4 DEF TransportError
<1>5. ASSUME NEW f \in Faulty, FaultyCommit(f) PROVE TypeOK'
  <2>1. PICK m \in [Honest -> Commitment] :
          com' = [com EXCEPT ![f] = [q \in Party |-> IF q \in Honest THEN m[q] ELSE None]]
    BY <1>5 DEF FaultyCommit
  <2>2. com' \in [Party -> [Party -> Commitment \union {None}]]
    BY <1>0, <2>1
  <2> QED
    BY <1>0, <1>5, <2>2 DEF FaultyCommit
<1>6. ASSUME NEW f \in Faulty, FaultyOpen(f) PROVE TypeOK'
  <2>1. PICK m \in [Honest -> [v : {View(h) : h \in Honest} \union {[i \in Party |-> None]}, msg : Value]] :
          opening' = [opening EXCEPT ![f] = [q \in Party |-> IF q \in Honest THEN m[q] ELSE None]]
    BY <1>6 DEF FaultyOpen
  <2>2. \A q \in Honest : m[q] \in Opening
    BY <1>0 DEF Opening, View
  <2> QED
    BY <1>0, <1>6, <2>1, <2>2 DEF FaultyOpen
<1>7. CASE UNCHANGED vars
  BY <1>0, <1>7 DEF vars
<1> QED
  BY <1>1, <1>2, <1>3, <1>4, <1>5, <1>6, <1>7 DEF Next, PartyStep

(* A round's message, once received by an honest party, does not change.   *)
LEMMA MessagesStay ==
  ASSUME IndInv, [Next]_vars, NEW i \in Party, NEW p \in Honest
  PROVE  /\ com[i][p] # None => com'[i][p] = com[i][p]
         /\ opening[i][p] # None => opening'[i][p] = opening[i][p]
<1>0. TypeOK /\ HonestMessages /\ Honest \subseteq Party /\ Honest \cap Faulty = {}
  BY FaultyType DEF Honest, IndInv
<1>1. ASSUME NEW q \in Honest, Commit(q)
      PROVE  /\ com[i][p] # None => com'[i][p] = com[i][p]
             /\ opening' = opening
  <2>1. pc[q] = "idle" /\ opening' = opening
    BY <1>1 DEF Commit
  <2>2. \A j \in Party : j # q => com'[j] = com[j]
    BY <1>0, <1>1 DEF Commit, TypeOK
  <2>3. com[q][p] = None
    BY <1>0, <2>1 DEF HonestMessages
  <2> QED
    BY <2>1, <2>2, <2>3
<1>2. ASSUME NEW q \in Honest, Open(q)
      PROVE  /\ com' = com
             /\ opening[i][p] # None => opening'[i][p] = opening[i][p]
  BY <1>0, <1>2 DEF Open, HonestMessages, TypeOK
<1>3. ASSUME NEW f \in Faulty, FaultyCommit(f)
      PROVE  /\ com[i][p] # None => com'[i][p] = com[i][p]
             /\ opening' = opening
  BY <1>0, <1>3 DEF FaultyCommit, TypeOK
<1>4. ASSUME NEW f \in Faulty, FaultyOpen(f)
      PROVE  /\ com' = com
             /\ opening[i][p] # None => opening'[i][p] = opening[i][p]
  BY <1>0, <1>4 DEF FaultyOpen, TypeOK
<1> QED
  BY <1>1, <1>2, <1>3, <1>4 DEF Next, PartyStep, Finish, TransportError, vars

(* A complete view is final, and so is what was accepted.                  *)
LEMMA ViewStays ==
  ASSUME IndInv, [Next]_vars, NEW p \in Honest, \A i \in Party : com[i][p] # None
  PROVE  View(p)' = View(p) /\ \A i \in Party : com'[i][p] # None
BY MessagesStay DEF View

LEMMA StepMessages == IndInv /\ [Next]_vars => HonestMessages'
<1> SUFFICES ASSUME IndInv, [Next]_vars, NEW p \in Honest, NEW q \in Party
             PROVE  /\ pc'[p] = "idle" => com'[p][q] = None
                    /\ pc'[p] # "idle" => r'[p] \in Bits /\ com'[p][q] = Com(p, r'[p])
                    /\ pc'[p] \in {"idle", "com"} => opening'[p][q] = None
                    /\ opening'[p][q] # None =>
                         /\ opening'[p][q] = [v |-> View(p)', msg |-> r'[p]]
                         /\ \A i \in Party : com'[i][p] # None
  BY DEF HonestMessages
<1>0. TypeOK /\ HonestMessages /\ Honest \subseteq Party /\ Honest \cap Faulty = {}
  BY FaultyType DEF Honest, IndInv
<1>1. /\ pc[p] = "idle" => com[p][q] = None
      /\ pc[p] # "idle" => r[p] \in Bits /\ com[p][q] = Com(p, r[p])
      /\ pc[p] \in {"idle", "com"} => opening[p][q] = None
      /\ opening[p][q] # None =>
           /\ opening[p][q] = [v |-> View(p), msg |-> r[p]]
           /\ \A i \in Party : com[i][p] # None
  BY <1>0 DEF HonestMessages
<1>2. opening[p][q] # None => View(p)' = View(p) /\ \A i \in Party : com'[i][p] # None
  BY <1>1, ViewStays
<1>3. ASSUME NEW s \in Honest, Commit(s) \/ Open(s) \/ Finish(s) \/ TransportError(s), s # p
      PROVE  pc'[p] = pc[p] /\ r'[p] = r[p] /\ com'[p] = com[p] /\ opening'[p] = opening[p]
  BY <1>0, <1>3 DEF Commit, Open, Finish, TransportError, TypeOK
<1>4. ASSUME NEW f \in Faulty, FaultyCommit(f) \/ FaultyOpen(f)
      PROVE  pc'[p] = pc[p] /\ r'[p] = r[p] /\ com'[p] = com[p] /\ opening'[p] = opening[p]
  BY <1>0, <1>4 DEF FaultyCommit, FaultyOpen, TypeOK
<1>5. ASSUME pc'[p] = pc[p], r'[p] = r[p], com'[p] = com[p], opening'[p] = opening[p]
      PROVE  /\ pc'[p] = "idle" => com'[p][q] = None
             /\ pc'[p] # "idle" => r'[p] \in Bits /\ com'[p][q] = Com(p, r'[p])
             /\ pc'[p] \in {"idle", "com"} => opening'[p][q] = None
             /\ opening'[p][q] # None =>
                  /\ opening'[p][q] = [v |-> View(p)', msg |-> r'[p]]
                  /\ \A i \in Party : com'[i][p] # None
  BY <1>1, <1>2, <1>5
<1>6. CASE Commit(p)
  <2>1. pc[p] = "idle" /\ pc'[p] = "com" /\ opening' = opening
    BY <1>0, <1>6 DEF Commit, TypeOK
  <2>2. r'[p] \in Bits /\ com'[p][q] = Com(p, r'[p])
    BY <1>0, <1>6 DEF Commit, TypeOK
  <2> QED
    BY <1>1, <2>1, <2>2
<1>7. CASE Open(p)
  <2>1. pc[p] = "com" /\ pc'[p] = "open" /\ com' = com /\ r' = r
    BY <1>0, <1>7 DEF Open, TypeOK
  <2>2. opening'[p][q] = [v |-> View(p), msg |-> r[p]] /\ View(p)' = View(p)
    BY <1>0, <1>7, <2>1 DEF Open, TypeOK, View
  <2>3. \A i \in Party : com'[i][p] # None
    BY <1>7, <2>1 DEF Open
  <2> QED
    BY <1>1, <2>1, <2>2, <2>3
<1>8. CASE Finish(p) \/ TransportError(p)
  <2>1. /\ pc'[p] \notin {"idle", "com"} /\ pc[p] # "idle"
        /\ com' = com /\ r' = r /\ opening' = opening
    BY <1>0, <1>8 DEF Finish, TransportError, TypeOK
  <2> QED
    BY <1>1, <1>2, <2>1
<1>9. CASE UNCHANGED vars
  BY <1>5, <1>9 DEF vars
<1> QED
  BY <1>3, <1>4, <1>5, <1>6, <1>7, <1>8, <1>9 DEF Next, PartyStep

LEMMA StepAccepted == IndInv /\ [Next]_vars => StillAccepted' /\ Waiting'
<1> SUFFICES ASSUME IndInv, [Next]_vars PROVE StillAccepted' /\ Waiting'
  OBVIOUS
<1>0. TypeOK /\ HonestMessages /\ Honest \subseteq Party /\ Honest \cap Faulty = {}
  BY FaultyType DEF Honest, IndInv
<1>1. ASSUME NEW p \in Honest, pc'[p] \in {"done", "assert"}
      PROVE  /\ got'[p] = Opened(p)'
             /\ \A i \in Party : com'[i][p] # None /\ opening'[i][p] # None /\ Accepts(p, i)'
  <2>1. CASE pc[p] \in {"done", "assert"}
    <3>1. /\ got[p] = Opened(p)
          /\ \A i \in Party : com[i][p] # None /\ opening[i][p] # None /\ Accepts(p, i)
      BY <2>1 DEF IndInv, StillAccepted
    <3>2. \A i \in Party : com'[i][p] = com[i][p] /\ opening'[i][p] = opening[i][p]
      BY <3>1, MessagesStay
    <3>3. View(p)' = View(p) /\ Opened(p)' = Opened(p)
      BY <3>2 DEF View, Opened
    <3>4. got'[p] = got[p]
      BY <1>0, <2>1 DEF Next, PartyStep, Commit, Open, Finish, TransportError, FaultyCommit,
         FaultyOpen, vars, TypeOK
    <3> QED
      BY <3>1, <3>2, <3>3, <3>4 DEF Accepts
  <2>2. CASE pc[p] \notin {"done", "assert"}
    <3>1. Finish(p)
      BY <1>0, <1>1, <2>2 DEF Next, PartyStep, Commit, Open, Finish, TransportError, FaultyCommit,
         FaultyOpen, vars, TypeOK
    <3>2. /\ pc[p] = "open" /\ \A i \in Party : opening[i][p] # None /\ Accepts(p, i)
          /\ got'[p] = Opened(p) /\ com' = com /\ opening' = opening
      BY <1>0, <1>1, <3>1 DEF Finish, TypeOK
    <3>3. \A i \in Party : com[i][p] # None
      BY <3>2 DEF IndInv, Waiting
    <3>4. View(p)' = View(p) /\ Opened(p)' = Opened(p)
      BY <3>2 DEF View, Opened
    <3> QED
      BY <3>2, <3>3, <3>4 DEF Accepts
  <2> QED
    BY <2>1, <2>2
<1>2. ASSUME NEW p \in Honest, pc'[p] = "open", NEW q \in Party
      PROVE  com'[q][p] # None /\ opening'[p][q] # None
  <2>1. CASE pc[p] = "open"
    <3>1. com[q][p] # None /\ opening[p][q] # None
      BY <2>1 DEF IndInv, Waiting
    <3>2. com'[q][p] # None
      BY <3>1, MessagesStay
    <3>3. opening'[p] = opening[p]
      BY <1>0, <2>1 DEF Next, PartyStep, Commit, Open, Finish, TransportError, FaultyCommit,
         FaultyOpen, vars, TypeOK
    <3> QED
      BY <3>1, <3>2, <3>3
  <2>2. CASE pc[p] # "open"
    <3>1. Open(p)
      BY <1>0, <1>2, <2>2 DEF Next, PartyStep, Commit, Open, Finish, TransportError, FaultyCommit,
         FaultyOpen, vars, TypeOK
    <3>2. opening'[p][q] = [v |-> View(p), msg |-> r[p]]
      BY <1>0, <3>1 DEF Open, TypeOK
    <3>3. [v |-> View(p), msg |-> r[p]] \in Opening
      BY <1>0, <3>1 DEF Open, HonestMessages, View, Opening, Value, TypeOK
    <3> QED
      BY <3>1, <3>2, <3>3, NoneFresh DEF Open
  <2> QED
    BY <2>1, <2>2
<1> QED
  BY <1>1, <1>2 DEF StillAccepted, Waiting

(* The invariant above holds in every reachable state, for any parties.    *)
THEOREM Inductive == Spec => []IndInv
<1>1. IndInv /\ [Next]_vars => IndInv'
  BY StepType, StepMessages, StepAccepted DEF IndInv
<1> QED
  BY InitInd, <1>1, PTL DEF Spec

LEMMA AgreementFromInv == IndInv => Agreement
<1> SUFFICES ASSUME IndInv, NEW p \in Honest, NEW q \in Honest,
                    pc[p] \in {"done", "assert"}, pc[q] \in {"done", "assert"}
             PROVE  got[p] = got[q]
  BY DEF Agreement
<1>1. p \in Party /\ q \in Party
  BY DEF Honest
<1>2. /\ got[p] = Opened(p) /\ \A i \in Party : opening[i][p] # None /\ Accepts(p, i)
      /\ got[q] = Opened(q) /\ \A i \in Party : opening[i][q] # None /\ Accepts(q, i)
  BY DEF IndInv, StillAccepted
<1>3. opening[q][p].v = View(q)
  <2>1. opening[q][p] = [v |-> View(q), msg |-> r[q]]
    BY <1>1, <1>2 DEF IndInv, HonestMessages
  <2> QED
    BY <2>1
<1>4. View(p) = View(q)
  BY <1>1, <1>2, <1>3 DEF Accepts
<1>5. \A i \in Party : com[i][p] = com[i][q]
  BY <1>4 DEF View
<1>6. \A i \in Party : Com(i, opening[i][p].msg) = Com(i, opening[i][q].msg)
  BY <1>2, <1>5 DEF Accepts
<1>7. \A i \in Party : opening[i][p].msg = opening[i][q].msg
  BY <1>6, ComInj
<1> QED
  BY <1>2, <1>7 DEF Opened

(* Honest parties that complete committed_group_broadcast accepted the     *)
(* same contributions, for every number of parties and faulty parties.     *)
THEOREM AgreementHolds == Spec => []Agreement
BY Inductive, AgreementFromInv, PTL

LEMMA FixedFromInv == IndInv => FixedByCommitment
<1> SUFFICES ASSUME IndInv, NEW p \in Honest, pc[p] \in {"done", "assert"}, NEW i \in Party
             PROVE  /\ com[i][p] = Com(i, got[p][i])
                    /\ i \in Honest => got[p][i] = r[i]
  BY DEF FixedByCommitment
<1>1. got[p][i] = opening[i][p].msg /\ opening[i][p] # None /\ com[i][p] = Com(i, opening[i][p].msg)
  BY DEF IndInv, StillAccepted, Opened, Accepts
<1>2. ASSUME i \in Honest PROVE opening[i][p].msg = r[i]
  <2>1. opening[i][p] = [v |-> View(i), msg |-> r[i]]
    BY <1>1, <1>2 DEF IndInv, HonestMessages, Honest
  <2> QED
    BY <2>1
<1> QED
  BY <1>1, <1>2

(* What is accepted from a party is what that party committed to in the    *)
(* first round, under its own pid (commitment_t::open).                    *)
THEOREM FixedHolds == Spec => []FixedByCommitment
BY Inductive, FixedFromInv, PTL

(* Two honest parties that got the same commitments from the faulty ones   *)
(* have the same view, and each one's opening fits its commitment.         *)
LEMMA AcceptedFromInv == IndInv => HonestAccepted
<1> SUFFICES ASSUME IndInv, NEW p \in Honest, NEW q \in Honest,
                    pc[p] = "open", \A i \in Party : opening[i][p] # None
             PROVE  /\ com[q][p] = Com(q, opening[q][p].msg)
                    /\ (\A f \in Faulty : com[f][p] = com[f][q]) => Accepts(p, q)
  BY DEF HonestAccepted
<1>1. p \in Party /\ q \in Party /\ HonestMessages
  BY DEF Honest, IndInv
<1>2. /\ opening[q][p] = [v |-> View(q), msg |-> r[q]]
      /\ \A i \in Party : com[i][q] # None
  BY <1>1 DEF HonestMessages
<1>3. \A i \in Honest : com[i][p] = Com(i, r[i]) /\ com[i][q] = Com(i, r[i])
  BY <1>1, <1>2 DEF HonestMessages, Honest
<1>4. com[q][p] = Com(q, opening[q][p].msg)
  BY <1>2, <1>3
<1>5. ASSUME \A f \in Faulty : com[f][p] = com[f][q] PROVE Accepts(p, q)
  <2>1. View(p) = View(q)
    BY <1>3, <1>5 DEF View, Honest
  <2> QED
    BY <1>2, <1>4, <2>1 DEF Accepts
<1> QED
  BY <1>4, <1>5

(* HonestAccepted is an invariant: committed_group_broadcast makes an      *)
(* honest party reject another only after an equivocation.                 *)
THEOREM AcceptedHolds == Spec => []HonestAccepted
BY Inductive, AcceptedFromInv, PTL

-----------------------------------------------------------------------------
(* The decision is what any party that decided has.                        *)
LEMMA DecisionIs ==
  ASSUME Agreement, NEW p \in Decided
  PROVE  Decision = got[p]
<1> DEFINE c == CHOOSE x \in Decided : TRUE
<1>1. c \in Decided
  OBVIOUS
<1>2. got[c] = got[p]
  BY <1>1 DEF Decided, Agreement
<1> QED
  BY <1>2 DEF Decision

(* A step that leaves the outcome of every party alone is a stutter.       *)
LEMMA SameStatus ==
  ASSUME got' = got,
         \A p \in Honest : pc'[p] \in {"done", "assert", "failed"} <=> pc[p] \in {"done", "assert", "failed"},
         \A p \in Honest : pc[p] \in {"done", "assert", "failed"} => pc'[p] = pc[p]
  PROVE  Decision' = Decision /\ Status' = Status
<1>1. Decided' = Decided
  BY DEF Decided
<1>2. Status' = Status
  BY DEF Status
<1> QED
  BY <1>1, <1>2 DEF Decision

LEMMA AbstractStep ==
  ASSUME IndInv, IndInv', [Next]_vars
  PROVE  [Abstract!Next]_<<Decision, Status>>
<1>0. TypeOK /\ TypeOK' /\ Agreement /\ Agreement'
  <2>1. IndInv' => Agreement'
    BY AgreementFromInv, PTL
  <2> QED
    BY <2>1, AgreementFromInv DEF IndInv
<1>1. ASSUME NEW p \in Honest, Finish(p), pc'[p] # "failed" PROVE Abstract!Complete(p)
  <2>1. /\ pc[p] = "open" /\ pc'[p] \in {"done", "assert"}
        /\ got' = [got EXCEPT ![p] = Opened(p)]
        /\ \A q \in Honest : q # p => pc'[q] = pc[q]
    BY <1>0, <1>1 DEF Finish, TypeOK
  <2>2. Decided' = Decided \union {p} /\ p \notin Decided
    BY <2>1 DEF Decided
  <2>3. Decision' = got'[p]
    <3>1. p \in Decided'
      BY <2>2
    <3>2. Agreement' /\ p \in Decided' => (Decision = got[p])'
      BY <2>1 DEF Decision, Decided, Agreement
    <3> QED
      BY <1>0, <3>1, <3>2
  <2>4. got'[p] \in [Party -> Value]
    <3>1. got'[p] = Opened(p)
      BY <1>0, <2>1 DEF TypeOK
    <3>2. \A i \in Party : opening[i][p] \in Opening
      BY <1>0, <1>1 DEF Finish, TypeOK, Honest
    <3> QED
      BY <3>1, <3>2 DEF Opened, Opening
  <2>5. Decision \in {None, got'[p]}
    <3>1. CASE Decided = {}
      BY <3>1 DEF Decision
    <3>2. CASE Decided # {}
      <4>1. PICK q \in Decided : TRUE
        BY <3>2
      <4>2. Decision = got[q]
        BY <1>0, DecisionIs
      <4>3. q \in Honest /\ q # p /\ pc'[q] \in {"done", "assert"}
        BY <2>1, <2>2 DEF Decided
      <4>4. got'[q] = got'[p]
        BY <1>0, <2>1, <4>3 DEF Agreement
      <4>5. got'[q] = got[q]
        BY <1>0, <2>1, <4>3 DEF TypeOK
      <4> QED
        BY <4>2, <4>4, <4>5
    <3> QED
      BY <3>1, <3>2
  <2>6. Status[p] = "running" /\ Status' = [Status EXCEPT ![p] = "done"]
    BY <2>1 DEF Status
  <2> QED
    BY <2>3, <2>4, <2>5, <2>6 DEF Abstract!Complete
<1>2. ASSUME NEW p \in Honest, Finish(p) \/ TransportError(p), pc'[p] = "failed" PROVE Abstract!Abort(p)
  <2>1. /\ pc[p] \in {"com", "open"} /\ got' = got
        /\ \A q \in Honest : q # p => pc'[q] = pc[q]
    BY <1>0, <1>2 DEF Finish, TransportError, TypeOK
  <2>2. Decided' = Decided
    BY <1>2, <2>1 DEF Decided
  <2>3. Decision' = Decision
    BY <2>1, <2>2 DEF Decision
  <2>4. Status[p] = "running" /\ Status' = [Status EXCEPT ![p] = "failed"]
    BY <1>2, <2>1 DEF Status
  <2> QED
    BY <2>3, <2>4 DEF Abstract!Abort
<1>3. ASSUME NEW p \in Honest, Commit(p) \/ Open(p) PROVE Decision' = Decision /\ Status' = Status
  <2>1. /\ got' = got /\ pc[p] \in {"idle", "com"} /\ pc'[p] \in {"com", "open"}
        /\ \A q \in Honest : q # p => pc'[q] = pc[q]
    BY <1>0, <1>3 DEF Commit, Open, TypeOK
  <2> QED
    BY <2>1, SameStatus
<1>4. ASSUME pc' = pc, got' = got PROVE Decision' = Decision /\ Status' = Status
  BY <1>4, SameStatus
<1>5. ASSUME NEW p \in Honest, TransportError(p) PROVE pc'[p] = "failed"
  BY <1>0, <1>5 DEF TransportError, TypeOK
<1> QED
  BY <1>1, <1>2, <1>3, <1>4, <1>5 DEF Next, PartyStep, FaultyCommit, FaultyOpen, vars, Abstract!Next

(* The protocol implements agree-or-abort (committed_group_broadcast and   *)
(* the loop of multi_agree_random).                                        *)
THEOREM Refinement == Spec => ImplementsAgreeOrAbort
<1>1. Init => Abstract!Init
  BY DEF Init, Abstract!Init, Decision, Decided, Status
<1>2. IndInv /\ IndInv' /\ [Next]_vars => [Abstract!Next]_<<Decision, Status>>
  BY AbstractStep
<1> QED
  BY <1>1, <1>2, Inductive, PTL DEF Spec, ImplementsAgreeOrAbort, Abstract!Spec
=============================================================================
