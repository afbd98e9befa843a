---------------------------- MODULE MpcJobProofs ----------------------------
(* Proofs about the messaging layer, for every number of parties, every    *)
(* script of rounds the parties agree on, and every channel capacity.      *)
EXTENDS MpcJob, FiniteSetTheorems, TLAPS

(* Positions in peer_roles are positions of the outs vector.               *)
LEMMA RoleIdxRange ==
  ASSUME NEW S \in SUBSET Party, NEW i \in S
  PROVE  RoleIdx(S, i) \in 1 .. N
<1> DEFINE U == {j \in S : j <= i}
<1>1. N \in Nat /\ N >= 2
  BY PartyCount
<1>2. IsFiniteSet(Party) /\ Cardinality(Party) = N
  BY <1>1, FS_Interval DEF Party
<1>3. IsFiniteSet(U) /\ Cardinality(U) <= N
  BY <1>2, FS_Subset
<1>4. i \in U
  BY DEF Party
<1>5. Cardinality(U) \in Nat
  BY <1>3, FS_CardinalityType
<1>6. Cardinality(U) # 0
  BY <1>3, <1>4, FS_EmptySet
<1> QED
  BY <1>1, <1>3, <1>5, <1>6 DEF RoleIdx

(* Different senders have different positions.                             *)
LEMMA RoleIdxLess ==
  ASSUME NEW S \in SUBSET Party, NEW i \in S, NEW j \in S, i < j
  PROVE  RoleIdx(S, i) < RoleIdx(S, j)
<1> DEFINE U == {k \in S : k <= i}
<1> DEFINE V == {k \in S : k <= j}
<1>1. IsFiniteSet(Party)
  BY PartyCount, FS_Interval DEF Party
<1>2. IsFiniteSet(V)
  BY <1>1, FS_Subset
<1>3. j \in V
  BY DEF Party
<1>4. IsFiniteSet(V \ {j}) /\ Cardinality(V \ {j}) = Cardinality(V) - 1
  BY <1>2, <1>3, FS_RemoveElement
<1>5. U \subseteq V \ {j}
  <2> SUFFICES ASSUME NEW k \in U PROVE k \in V \ {j}
    OBVIOUS
  <2>1. k \in Int /\ i \in Int /\ j \in Int /\ k <= i
    BY PartyCount DEF Party
  <2> QED
    BY <2>1
<1>6. IsFiniteSet(U) /\ Cardinality(U) <= Cardinality(V \ {j})
  BY <1>4, <1>5, FS_Subset
<1>7. Cardinality(U) \in Nat /\ Cardinality(V) \in Nat
  BY <1>2, <1>6, FS_CardinalityType
<1> QED
  BY <1>4, <1>6, <1>7 DEF RoleIdx

LEMMA RoleIdxInj ==
  ASSUME NEW S \in SUBSET Party, NEW i \in S, NEW j \in S, i # j
  PROVE  RoleIdx(S, i) # RoleIdx(S, j)
<1>1. RoleIdx(S, i) \in Int /\ RoleIdx(S, j) \in Int
  BY RoleIdxRange
<1>2. i < j \/ j < i
  BY DEF Party
<1> QED
  BY <1>1, <1>2, RoleIdxLess

(* What the script gives a party in a round is a set of parties.           *)
LEMMA ScriptSets ==
  ASSUME NEW r \in Round, NEW p \in Party
  PROVE  /\ Script[r].to[p] \in SUBSET Party
         /\ Script[r].from[p] \in SUBSET Party
         /\ r \in Nat
         /\ Round = 1 .. Len(Script)
         /\ Len(Script) \in Nat
<1>1. Round = 1 .. Len(Script) /\ Len(Script) \in Nat
  BY ScriptType DEF Round
<1>2. Script[r] \in RoundDescr
  BY ScriptType DEF Round
<1> QED
  BY <1>1, <1>2 DEF RoundDescr

LEMMA PartyInt == Party \subseteq Nat
BY PartyCount DEF Party

LEMMA NoMsgNotMessage == NoMsg \notin Message
BY DEF NoMsg, Message, Party

-----------------------------------------------------------------------------
LEMMA InitType == Init => TypeOK
<1> SUFFICES ASSUME Init PROVE TypeOK
  OBVIOUS
<1>1. Round = 1 .. Len(Script) /\ Len(Script) \in Nat
  BY ScriptType DEF Round
<1>2. N \in Nat
  BY PartyCount
<1>3. \A p \in Party : Running(p) => round[p] \in Round
  BY <1>1, ScriptType DEF Init, Running
<1> QED
  BY <1>1, <1>2, <1>3 DEF Init, TypeOK

LEMMA StepType == TypeOK /\ [Next]_vars => TypeOK'
<1> SUFFICES ASSUME TypeOK, [Next]_vars PROVE TypeOK'
  OBVIOUS
<1> USE DEF TypeOK, Running
<1>0. Round = 1 .. Len(Script) /\ Len(Script) \in Nat /\ N \in Nat
  BY ScriptType, PartyCount DEF Round
<1>1. ASSUME NEW p \in Party, SendOne(p) PROVE TypeOK'
  <2>1. round[p] \in Round
    BY <1>1 DEF SendOne
  <2>2. PICK i \in Targets(p) :
           /\ chan' = [chan EXCEPT ![p][i] = Append(@, Msg(p, i, round[p]))]
           /\ next' = [next EXCEPT ![p] = i + 1]
    BY <1>1 DEF SendOne, NextIndex
  <2>3. i \in Party
    BY <2>1, ScriptSets DEF Targets
  <2>4. Msg(p, i, round[p]) \in Message
    BY <2>1, <2>3 DEF Msg, Message
  <2>5. chan' \in [Party -> [Party -> Seq(Message)]]
    BY <2>2, <2>3, <2>4
  <2>6. next' \in [Party -> 0 .. N]
    <3>1. i + 1 \in 0 .. N
      BY <2>3, <1>0 DEF Party
    <3> QED
      BY <2>2, <3>1
  <2> QED
    BY <1>1, <2>5, <2>6 DEF SendOne
<1>2. ASSUME NEW p \in Party, StartReceive(p) PROVE TypeOK'
  BY <1>2 DEF StartReceive
<1>3. ASSUME NEW p \in Party, NEW q \in Party, ReceiveOne(p, q) PROVE TypeOK'
  <2>1. chan[q][p] \in Seq(Message) /\ chan[q][p] # <<>>
    BY <1>3 DEF ReceiveOne
  <2>2. Head(chan[q][p]) \in Message /\ Tail(chan[q][p]) \in Seq(Message)
    BY <2>1
  <2>3. outs' \in [Party -> [1 .. N -> Message \union {NoMsg}]]
    BY <1>3, <2>2 DEF ReceiveOne
  <2>4. chan' \in [Party -> [Party -> Seq(Message)]]
    BY <1>3, <2>2 DEF ReceiveOne
  <2> QED
    BY <1>3, <2>3, <2>4 DEF ReceiveOne
<1>4. ASSUME NEW p \in Party, Unpack(p) PROVE TypeOK'
  <2>1. round[p] \in Round
    BY <1>4 DEF Unpack, Collected, Spread, PhaseAfter
  <2>2. \A q \in Senders(p) : outs[p][RoleIdx(Senders(p), q)] \in Message \union {NoMsg}
    <3> SUFFICES ASSUME NEW q \in Senders(p)
                 PROVE  outs[p][RoleIdx(Senders(p), q)] \in Message \union {NoMsg}
      OBVIOUS
    <3>1. Senders(p) \in SUBSET Party
      BY <2>1, ScriptSets DEF Senders
    <3>2. RoleIdx(Senders(p), q) \in 1 .. N
      BY <3>1, RoleIdxRange
    <3>3. outs[p] \in [1 .. N -> Message \union {NoMsg}]
      OBVIOUS
    <3> HIDE DEF TypeOK
    <3> QED
      BY <3>2, <3>3
  <2>3. inbox' \in [Party -> [Party -> Message \union {NoMsg}]]
    BY <1>4, <2>2 DEF Unpack, Collected, Spread, PhaseAfter
  <2>4. round' \in [Party -> 1 .. Len(Script) + 1]
    BY <1>4, <2>1, <1>0 DEF Unpack, Collected, Spread, PhaseAfter
  <2>5. \A x \in Party : Running(x)' => round'[x] \in Round
    BY <1>4, <2>1, <1>0 DEF Unpack, Collected, Spread, PhaseAfter
  <2>6. /\ phase' \in [Party -> {"send", "recv", "done", "failed"}]
        /\ next' \in [Party -> 0 .. N]
    BY <1>4, <1>0 DEF Unpack, Collected, Spread, PhaseAfter
  <2>7. outs' \in [Party -> [1 .. N -> Message \union {NoMsg}]]
    BY <1>4 DEF Unpack, Collected, Spread, PhaseAfter
  <2> QED
    BY <1>4, <2>3, <2>4, <2>5, <2>6, <2>7 DEF Unpack, Collected, Spread, PhaseAfter
<1>5. ASSUME NEW p \in Party, TransportError(p) PROVE TypeOK'
  BY <1>5 DEF TransportError
<1>6. ASSUME NEW p \in Party, PeerGone(p) PROVE TypeOK'
  BY <1>6 DEF PeerGone
<1>7. CASE UNCHANGED vars
  BY <1>7 DEF vars
<1> QED
  BY <1>1, <1>2, <1>3, <1>4, <1>5, <1>6, <1>7 DEF Next, PartyStep, AllReturned

(* Every reachable state of the messaging layer is well-typed: the send    *)
(* loop of send_to_parties never leaves the party range, and no party      *)
(* enters a round its protocol does not have.                              *)
THEOREM TypeCorrect == Spec => []TypeOK
BY InitType, StepType, PTL DEF Spec

-----------------------------------------------------------------------------
(* A message that was handed to the transport stays handed over.           *)
LEMMA SentStays ==
  ASSUME TypeOK, [Next]_vars,
         NEW a \in Party, NEW b \in Party, NEW r \in Round, SentTo(a, b, r)
  PROVE  SentTo(a, b, r)'
<1>0. /\ round[a] \in Int /\ next[a] \in Int /\ r \in Int /\ b \in Int
      /\ round \in [Party -> 1 .. Len(Script) + 1] /\ next \in [Party -> 0 .. N]
  BY ScriptSets, PartyInt, PartyCount DEF TypeOK
<1>1. ASSUME NEW p \in Party, SendOne(p) PROVE SentTo(a, b, r)'
  <2>1. PICK i \in Targets(p) : i >= next[p] /\ next' = [next EXCEPT ![p] = i + 1]
    BY <1>1 DEF SendOne, NextIndex
  <2>2. round[p] \in Round
    BY <1>1 DEF SendOne, Running, TypeOK
  <2>3. i \in Party
    BY <2>2, ScriptSets DEF Targets
  <2>4. i \in Int
    BY <2>3, PartyInt
  <2>5. next'[a] \in Int /\ next'[a] >= next[a]
    BY <2>1, <2>4, <1>0
  <2>6. round' = round
    BY <1>1 DEF SendOne
  <2> QED
    BY <2>5, <2>6, <1>0 DEF SentTo
<1>2. ASSUME NEW p \in Party, Unpack(p) PROVE SentTo(a, b, r)'
  <2>1. round' = [round EXCEPT ![p] = @ + 1] /\ next' = [next EXCEPT ![p] = 0]
    BY <1>2 DEF Unpack, Collected, Spread, PhaseAfter
  <2> QED
    BY <2>1, <1>0 DEF SentTo
<1>3. ASSUME UNCHANGED <<round, next>> PROVE SentTo(a, b, r)'
  BY <1>3 DEF SentTo
<1> QED
  BY <1>1, <1>2, <1>3 DEF Next, PartyStep, AllReturned, StartReceive, ReceiveOne,
     TransportError, PeerGone, vars

(* The oldest message a collecting party finds from a sender it still      *)
(* waits for is that sender's message of the same round.                   *)
LEMMA HeadIsCurrent ==
  ASSUME IndInv, NEW p \in Party, NEW q \in Party, ReceiveOne(p, q)
  PROVE  /\ Head(chan[q][p]) = Msg(q, p, round[p])
         /\ SentTo(q, p, round[p])
         /\ p \in Script[round[p]].to[q] \ {q}
<1> DEFINE c == chan[q][p]
<1> DEFINE R == round[p]
<1>1. R \in Round /\ Round = 1 .. Len(Script) /\ Len(Script) \in Nat
  BY ScriptType DEF Round, IndInv, TypeOK, Running, ReceiveOne
<1>2. c \in Seq(Message) /\ c # <<>> /\ Len(c) \in Nat /\ 1 \in 1 .. Len(c) /\ Head(c) = c[1]
  BY DEF IndInv, TypeOK, ReceiveOne
<1>3. ChannelOK(q, p)
  BY DEF IndInv, InFlight
<1>4. PICK r0 \in Round : c[1].rnd = r0 /\ c[1] = Msg(q, p, r0)
  <2>1. c[1] \in Message
    BY <1>2
  <2>2. c[1].rnd \in Round
    BY <2>1 DEF Message
  <2> QED
    BY <1>2, <1>3, <2>2 DEF ChannelOK
<1>5. SentTo(q, p, r0) /\ ~ Taken(p, q, r0)
  BY <1>2, <1>3, <1>4 DEF ChannelOK
<1>6. round[q] \in Int /\ next[q] \in Int /\ R \in Int /\ r0 \in Int /\ p \in Int
  BY <1>1, <1>4, PartyCount DEF IndInv, TypeOK, Party
<1>7. R <= r0
  BY <1>5, <1>6 DEF Taken
<1>8. SentTo(q, p, R)
  BY <1>5, <1>6, <1>7 DEF SentTo
<1>9. ~ Taken(p, q, R)
  BY <1>6 DEF Taken, ReceiveOne, Senders
<1>10. q \in Script[R].from[p] /\ q # p
  BY DEF ReceiveOne, Senders
<1>11. p \in Script[R].to[q] \ {q}
  BY <1>1, <1>10, ScriptMatched
<1>12. PICK k \in 1 .. Len(c) : c[k].rnd = R
  BY <1>1, <1>3, <1>8, <1>9, <1>11 DEF ChannelOK
<1>13. k = 1
  <2> SUFFICES ASSUME k # 1 PROVE FALSE
    OBVIOUS
  <2>1. 1 \in 1 .. k - 1
    BY <1>2
  <2>2. c[1].rnd < c[k].rnd
    BY <1>3, <2>1 DEF ChannelOK
  <2> QED
    BY <2>2, <1>4, <1>6, <1>7, <1>12
<1> QED
  BY <1>2, <1>4, <1>8, <1>11, <1>12, <1>13

-----------------------------------------------------------------------------
(* Channels, action by action.                                             *)

LEMMA SendInFlight ==
  ASSUME IndInv, NEW p \in Party, SendOne(p)
  PROVE  InFlight'
<1>1. PICK i \in Targets(p) :
         /\ i >= next[p]
         /\ \A j \in Targets(p) : j >= next[p] => i <= j
         /\ chan' = [chan EXCEPT ![p][i] = Append(@, Msg(p, i, round[p]))]
         /\ next' = [next EXCEPT ![p] = i + 1]
  BY DEF SendOne, NextIndex
<1> DEFINE R == round[p]
<1>2. R \in Round /\ round' = round /\ outs' = outs
  BY DEF SendOne, Running, IndInv, TypeOK
<1>3. Script[R].to[p] \in SUBSET Party
  BY <1>2, ScriptSets
<1>4. i \in Party /\ i \in Int /\ i # p /\ i \in Script[R].to[p]
  BY <1>3, PartyInt DEF Targets
<1>5. /\ \A x \in Party : round[x] \in Int /\ next[x] \in Int
      /\ next \in [Party -> 0 .. N]
      /\ chan \in [Party -> [Party -> Seq(Message)]]
  BY PartyCount DEF IndInv, TypeOK
<1>6. \A x, y \in Party : \A r \in Round : Taken(x, y, r)' <=> Taken(x, y, r)
  BY <1>2 DEF Taken
<1>7. ASSUME NEW a \in Party, NEW b \in Party, NEW r \in Round, b \in Script[r].to[a] \ {a},
             ~ (a = p /\ b = i /\ r = R)
      PROVE  SentTo(a, b, r)' <=> SentTo(a, b, r)
  <2>1. CASE a # p \/ r # R
    BY <2>1, <1>1, <1>2, <1>5 DEF SentTo
  <2>2. CASE a = p /\ r = R
    <3>1. b \in Targets(p) /\ b # i /\ b \in Int
      BY <2>2, <1>7, PartyInt DEF Targets
    <3>2. next'[p] = i + 1
      BY <1>1, <1>5
    <3>3. b >= next[p] => i <= b
      BY <3>1, <1>1
    <3> QED
      BY <2>2, <1>1, <1>2, <1>4, <1>5, <3>1, <3>2, <3>3 DEF SentTo
  <2> QED
    BY <2>1, <2>2
<1>8. ASSUME NEW a \in Party, NEW b \in Party, ~ (a = p /\ b = i)
      PROVE  ChannelOK(a, b)'
  <2>1. chan'[a][b] = chan[a][b]
    BY <1>1, <1>4, <1>5, <1>8
  <2>2. ChannelOK(a, b)
    BY DEF IndInv, InFlight
  <2>3. \A r \in Round : b \in Script[r].to[a] \ {a} => (SentTo(a, b, r)' <=> SentTo(a, b, r))
    BY <1>7, <1>8
  <2>4. \A r \in Round : Taken(b, a, r)' <=> Taken(b, a, r)
    BY <1>6
  <2> QED
    BY <2>1, <2>2, <2>3, <2>4 DEF ChannelOK
<1>9. ChannelOK(p, i)'
  <2> DEFINE c == chan[p][i]
  <2> DEFINE d == chan'[p][i]
  <2>1. c \in Seq(Message) /\ Len(c) \in Nat /\ d = Append(c, Msg(p, i, R))
    BY <1>1, <1>4, <1>5
  <2>2. /\ Len(d) = Len(c) + 1
        /\ d[Len(c) + 1] = Msg(p, i, R)
        /\ \A k \in 1 .. Len(c) : d[k] = c[k]
    BY <2>1
  <2>3. ChannelOK(p, i)
    BY <1>4 DEF IndInv, InFlight
  <2>4. ~ SentTo(p, i, R)
    BY <1>1, <1>4, <1>5, <1>2 DEF SentTo
  <2>5. \A k \in 1 .. Len(c) : c[k].rnd \in Round /\ c[k].rnd < R
    <3> SUFFICES ASSUME NEW k \in 1 .. Len(c) PROVE c[k].rnd \in Round /\ c[k].rnd < R
      OBVIOUS
    <3>1. c[k] \in Message
      BY <2>1
    <3>2. c[k].rnd \in Round
      BY <3>1 DEF Message
    <3>3. SentTo(p, i, c[k].rnd)
      BY <2>3, <3>2 DEF ChannelOK
    <3>4. c[k].rnd \in Int /\ R \in Int
      BY <3>2, <1>4, <1>5, ScriptSets
    <3> QED
      BY <2>4, <3>2, <3>3, <3>4, <1>5 DEF SentTo
  <2>6. Msg(p, i, R).rnd = R
    BY DEF Msg
  <2>7. \A k \in 1 .. Len(d) :
          /\ d[k] = Msg(p, i, d[k].rnd)
          /\ \A l \in 1 .. k - 1 : d[l].rnd < d[k].rnd
    <3> SUFFICES ASSUME NEW k \in 1 .. Len(d)
                 PROVE  /\ d[k] = Msg(p, i, d[k].rnd)
                        /\ \A l \in 1 .. k - 1 : d[l].rnd < d[k].rnd
      OBVIOUS
    <3>1. CASE k = Len(c) + 1
      <4>1. d[k] = Msg(p, i, R) /\ d[k].rnd = R
        BY <3>1, <2>2, <2>6
      <4>2. \A l \in 1 .. k - 1 : l \in 1 .. Len(c)
        BY <3>1, <2>1
      <4> QED
        BY <4>1, <4>2, <2>2, <2>5
    <3>2. CASE k # Len(c) + 1
      <4>1. k \in 1 .. Len(c) /\ \A l \in 1 .. k - 1 : l \in 1 .. Len(c)
        BY <3>2, <2>1, <2>2
      <4> QED
        BY <4>1, <2>2, <2>3 DEF ChannelOK
    <3> QED
      BY <3>1, <3>2
  <2>8. ASSUME NEW r \in Round
        PROVE  (\E k \in 1 .. Len(d) : d[k].rnd = r)
                 <=> (i \in Script[r].to[p] \ {p} /\ SentTo(p, i, r)' /\ ~ Taken(i, p, r)')
    <3>1. CASE r = R
      <4>1. \E k \in 1 .. Len(d) : d[k].rnd = r
        BY <3>1, <2>1, <2>2, <2>6
      <4>2. SentTo(p, i, r)'
        BY <3>1, <1>1, <1>2, <1>4, <1>5 DEF SentTo
      <4>3. p \in Script[R].from[i] \ {i}
        BY <1>2, <1>4, ScriptMatched
      <4>4. ~ Taken(i, p, R)
        <5>1. ~ (round[i] > R)
          BY <1>2, <1>4, <2>4, <4>3 DEF IndInv, NobodyRunsAhead
        <5>2. ~ (round[i] = R /\ outs[i][RoleIdx(Script[R].from[i] \ {i}, p)] # NoMsg)
          BY <1>2, <1>4, <2>4, <4>3 DEF IndInv, OutsAligned
        <5> QED
          BY <5>1, <5>2 DEF Taken
      <4>5. ~ Taken(i, p, r)'
        BY <4>4, <1>4, <1>6, <3>1
      <4> QED
        BY <4>1, <4>2, <4>5, <1>4, <3>1
    <3>2. CASE r # R
      <4>1. (\E k \in 1 .. Len(d) : d[k].rnd = r) <=> (\E k \in 1 .. Len(c) : c[k].rnd = r)
        <5>1. \A k \in 1 .. Len(d) : k \in 1 .. Len(c) \/ k = Len(c) + 1
          BY <2>1, <2>2
        <5>2. 1 .. Len(c) \subseteq 1 .. Len(d)
          BY <2>1, <2>2
        <5> QED
          BY <5>1, <5>2, <2>2, <2>6, <3>2
      <4>2. (\E k \in 1 .. Len(c) : c[k].rnd = r)
              <=> (i \in Script[r].to[p] \ {p} /\ SentTo(p, i, r) /\ ~ Taken(i, p, r))
        BY <2>3 DEF ChannelOK
      <4>3. i \in Script[r].to[p] \ {p} => (SentTo(p, i, r)' <=> SentTo(p, i, r))
        BY <1>4, <1>7, <3>2
      <4>4. Taken(i, p, r)' <=> Taken(i, p, r)
        BY <1>4, <1>6
      <4> QED
        BY <4>1, <4>2, <4>3, <4>4
    <3> QED
      BY <3>1, <3>2
  <2> QED
    BY <2>7, <2>8 DEF ChannelOK
<1> QED
  BY <1>8, <1>9 DEF InFlight

(* Taking a message fills one position of outs and no other.               *)
LEMMA ReceiveTaken ==
  ASSUME IndInv, NEW p \in Party, NEW q \in Party, ReceiveOne(p, q)
  PROVE  /\ Taken(p, q, round[p])'
         /\ \A x, y \in Party : \A r \in Round :
              (y \in Script[r].from[x] \ {x} /\ ~ (x = p /\ y = q /\ r = round[p]))
                => (Taken(x, y, r)' <=> Taken(x, y, r))
<1> DEFINE S == Script[round[p]].from[p] \ {p}
<1>1. round[p] \in Round /\ round' = round
  BY DEF ReceiveOne, IndInv, TypeOK, Running
<1>2. S \in SUBSET Party /\ q \in S
  BY <1>1, ScriptSets DEF ReceiveOne, Senders
<1>3. outs' = [outs EXCEPT ![p][RoleIdx(S, q)] = Head(chan[q][p])]
  BY DEF ReceiveOne, Senders
<1>4. outs \in [Party -> [1 .. N -> Message \union {NoMsg}]]
  BY DEF IndInv, TypeOK
<1>5. Head(chan[q][p]) # NoMsg
  <2>1. chan[q][p] \in Seq(Message) /\ chan[q][p] # <<>>
    BY DEF IndInv, TypeOK, ReceiveOne
  <2> QED
    BY <2>1, NoMsgNotMessage
<1>6. RoleIdx(S, q) \in 1 .. N
  BY <1>2, RoleIdxRange
<1>7. outs'[p][RoleIdx(S, q)] = Head(chan[q][p])
  BY <1>3, <1>4, <1>6
<1>8. Taken(p, q, round[p])'
  BY <1>1, <1>5, <1>7 DEF Taken
<1>9. ASSUME NEW x \in Party, NEW y \in Party, NEW r \in Round,
             y \in Script[r].from[x] \ {x}, ~ (x = p /\ y = q /\ r = round[p])
      PROVE  Taken(x, y, r)' <=> Taken(x, y, r)
  <2>1. CASE x # p
    BY <2>1, <1>1, <1>3, <1>4 DEF Taken
  <2>2. CASE x = p /\ r # round[p]
    BY <2>2, <1>1 DEF Taken
  <2>3. CASE x = p /\ r = round[p]
    <3>1. y \in S /\ y # q
      BY <2>3, <1>9
    <3>2. RoleIdx(S, y) # RoleIdx(S, q) /\ RoleIdx(S, y) \in 1 .. N
      BY <3>1, <1>2, RoleIdxInj, RoleIdxRange
    <3>3. outs'[p][RoleIdx(S, y)] = outs[p][RoleIdx(S, y)]
      BY <3>2, <1>3, <1>4
    <3> QED
      BY <2>3, <3>3, <1>1 DEF Taken
  <2> QED
    BY <2>1, <2>2, <2>3
<1> QED
  BY <1>8, <1>9

LEMMA ReceiveInFlight ==
  ASSUME IndInv, NEW p \in Party, NEW q \in Party, ReceiveOne(p, q)
  PROVE  InFlight'
<1> DEFINE R == round[p]
<1>1. R \in Round /\ round' = round /\ next' = next
  BY DEF ReceiveOne, IndInv, TypeOK, Running
<1>2. chan' = [chan EXCEPT ![q][p] = Tail(@)]
  BY DEF ReceiveOne
<1>3. chan \in [Party -> [Party -> Seq(Message)]]
  BY DEF IndInv, TypeOK
<1>4. \A a, b \in Party : \A r \in Round : SentTo(a, b, r)' <=> SentTo(a, b, r)
  BY <1>1 DEF SentTo
<1>5. \A a, b \in Party : \A r \in Round :
        b \in Script[r].to[a] \ {a} => a \in Script[r].from[b] \ {b}
  BY ScriptMatched
<1>6. ASSUME NEW a \in Party, NEW b \in Party, ~ (a = q /\ b = p)
      PROVE  ChannelOK(a, b)'
  <2>1. chan'[a][b] = chan[a][b]
    BY <1>2, <1>3, <1>6
  <2>2. ChannelOK(a, b)
    BY DEF IndInv, InFlight
  <2>3. \A r \in Round : b \in Script[r].to[a] \ {a} => (Taken(b, a, r)' <=> Taken(b, a, r))
    BY <1>5, <1>6, ReceiveTaken
  <2>4. \A r \in Round : SentTo(a, b, r)' <=> SentTo(a, b, r)
    BY <1>4
  <2> QED
    BY <2>1, <2>2, <2>3, <2>4 DEF ChannelOK
<1>7. ChannelOK(q, p)'
  <2> DEFINE c == chan[q][p]
  <2> DEFINE d == chan'[q][p]
  <2>1. c \in Seq(Message) /\ c # <<>> /\ d = Tail(c)
    BY <1>2, <1>3 DEF ReceiveOne
  <2>2. /\ Len(c) \in Nat /\ Len(c) >= 1 /\ Len(d) = Len(c) - 1
        /\ \A k \in 1 .. Len(d) : d[k] = c[k + 1]
        /\ c[1] = Head(c)
    BY <2>1
  <2>3. ChannelOK(q, p)
    BY DEF IndInv, InFlight
  <2>4. c[1].rnd = R
    <3>1. Head(c) = Msg(q, p, R)
      BY HeadIsCurrent
    <3>2. Msg(q, p, R).rnd = R
      BY DEF Msg
    <3> QED
      BY <2>2, <3>1, <3>2
  <2>5. \A k \in 1 .. Len(d) : k + 1 \in 1 .. Len(c) /\ 1 \in 1 .. (k + 1) - 1
    BY <2>2
  <2>6. \A k \in 1 .. Len(d) : d[k] = Msg(q, p, d[k].rnd)
    BY <2>2, <2>3, <2>5 DEF ChannelOK
  <2>7. ASSUME NEW k \in 1 .. Len(d), NEW l \in 1 .. k - 1
        PROVE  d[l].rnd < d[k].rnd
    <3>1. l \in 1 .. Len(d) /\ l + 1 \in 1 .. (k + 1) - 1
      BY <2>2
    <3> QED
      BY <3>1, <2>2, <2>3, <2>5 DEF ChannelOK
  <2>8. ASSUME NEW r \in Round
        PROVE  (\E k \in 1 .. Len(d) : d[k].rnd = r)
                 <=> (p \in Script[r].to[q] \ {q} /\ SentTo(q, p, r)' /\ ~ Taken(p, q, r)')
    <3>0. r \in Int /\ R \in Int
      BY <1>1, ScriptSets
    <3>1. CASE r = R
      <4>1. ASSUME NEW k \in 1 .. Len(d) PROVE d[k].rnd # R
        <5>1. c[1].rnd < c[k + 1].rnd
          BY <2>3, <2>5 DEF ChannelOK
        <5> QED
          BY <5>1, <2>2, <2>4, <3>0
      <4>2. Taken(p, q, r)'
        BY ReceiveTaken, <1>1, <3>1 DEF Taken
      <4> QED
        BY <3>1, <4>1, <4>2
    <3>2. CASE r # R
      <4>1. (\E k \in 1 .. Len(d) : d[k].rnd = r) <=> (\E k \in 1 .. Len(c) : c[k].rnd = r)
        <5>1. ASSUME NEW k \in 1 .. Len(c), c[k].rnd = r PROVE \E l \in 1 .. Len(d) : d[l].rnd = r
          <6>1. k # 1
            BY <5>1, <2>4, <3>2
          <6>2. k - 1 \in 1 .. Len(d) /\ (k - 1) + 1 = k
            BY <6>1, <2>2
          <6> QED
            BY <6>2, <5>1, <2>2
        <5> QED
          BY <5>1, <2>2, <2>5
      <4>2. (\E k \in 1 .. Len(c) : c[k].rnd = r)
              <=> (p \in Script[r].to[q] \ {q} /\ SentTo(q, p, r) /\ ~ Taken(p, q, r))
        BY <2>3 DEF ChannelOK
      <4>3. p \in Script[r].to[q] \ {q} => (Taken(p, q, r)' <=> Taken(p, q, r))
        BY <1>5, <3>2, ReceiveTaken
      <4> QED
        BY <4>1, <4>2, <4>3, <1>4
    <3> QED
      BY <3>1, <3>2
  <2> QED
    BY <2>6, <2>7, <2>8 DEF ChannelOK
<1> QED
  BY <1>6, <1>7 DEF InFlight

LEMMA UnpackInFlight ==
  ASSUME IndInv, NEW p \in Party, Unpack(p)
  PROVE  InFlight'
<1> DEFINE R == round[p]
<1>1. /\ R \in Round
      /\ round' = [round EXCEPT ![p] = @ + 1]
      /\ next' = [next EXCEPT ![p] = 0]
      /\ outs' = [outs EXCEPT ![p] = [k \in 1 .. N |-> NoMsg]]
      /\ chan' = chan
  BY DEF Unpack, Collected, Spread, PhaseAfter, IndInv, TypeOK, Running
<1>2. /\ \A x \in Party : round[x] \in Int /\ next[x] \in Int
      /\ round \in [Party -> 1 .. Len(Script) + 1] /\ next \in [Party -> 0 .. N]
      /\ outs \in [Party -> [1 .. N -> Message \union {NoMsg}]]
  BY PartyCount, ScriptType DEF IndInv, TypeOK
<1>3. ASSUME NEW a \in Party, NEW b \in Party, NEW r \in Round, b \in Script[r].to[a] \ {a}
      PROVE  SentTo(a, b, r)' <=> SentTo(a, b, r)
  <2>0. r \in Int /\ b \in Nat
    BY ScriptSets, PartyInt
  <2>1. CASE a # p
    BY <2>1, <1>1, <1>2 DEF SentTo
  <2>2. CASE a = p
    <3>1. round'[p] = R + 1 /\ next'[p] = 0
      BY <1>1, <1>2
    <3>2. r = R => next[p] > b
      BY <2>0, <2>2, <1>2, <1>3, PartyInt DEF IndInv, SendLoopDone, Unpack
    <3> QED
      BY <2>0, <2>2, <3>1, <3>2, <1>2 DEF SentTo
  <2> QED
    BY <2>1, <2>2
<1>4. ASSUME NEW a \in Party, NEW b \in Party, NEW r \in Round, a \in Script[r].from[b] \ {b}
      PROVE  Taken(b, a, r)' <=> Taken(b, a, r)
  <2>0. r \in Int
    BY ScriptSets
  <2>1. CASE b # p
    BY <2>1, <1>1, <1>2 DEF Taken
  <2>2. CASE b = p
    <3> DEFINE S == Script[r].from[p] \ {p}
    <3>1. S \in SUBSET Party /\ a \in S
      BY <2>2, <1>4, ScriptSets
    <3>2. RoleIdx(S, a) \in 1 .. N
      BY <3>1, RoleIdxRange
    <3>3. round'[p] = R + 1 /\ outs'[p][RoleIdx(S, a)] = NoMsg
      BY <3>2, <1>1, <1>2
    <3>4. r = R => outs[p][RoleIdx(S, a)] # NoMsg
      BY <3>1 DEF Unpack, Collected, Spread, PhaseAfter, Senders
    <3> QED
      BY <2>0, <2>2, <3>3, <3>4, <1>2 DEF Taken
  <2> QED
    BY <2>1, <2>2
<1>5. ASSUME NEW a \in Party, NEW b \in Party PROVE ChannelOK(a, b)'
  <2>1. ChannelOK(a, b)
    BY DEF IndInv, InFlight
  <2>2. \A r \in Round : b \in Script[r].to[a] \ {a} =>
          (SentTo(a, b, r)' <=> SentTo(a, b, r)) /\ (Taken(b, a, r)' <=> Taken(b, a, r))
    BY <1>3, <1>4, ScriptMatched
  <2> QED
    BY <2>1, <2>2, <1>1 DEF ChannelOK
<1> QED
  BY <1>5 DEF InFlight

-----------------------------------------------------------------------------
LEMMA InitInd == Init => IndInv
<1> SUFFICES ASSUME Init PROVE IndInv
  OBVIOUS
<1>1. TypeOK
  BY InitType
<1>2. /\ \A p \in Party : round[p] = 1 /\ next[p] = 0 /\ phase[p] # "recv"
      /\ \A p \in Party : \A k \in 1 .. N : outs[p][k] = NoMsg
      /\ \A p, q \in Party : chan[p][q] = <<>> /\ inbox[p][q] = NoMsg
  BY DEF Init
<1>3. \A r \in Round : r \in Nat /\ r >= 1
  BY ScriptType DEF Round
<1>4. \A q, p \in Party : \A r \in Round : ~ SentTo(q, p, r)
  BY <1>2, <1>3, PartyInt DEF SentTo
<1>5. InFlight
  BY <1>2, <1>4 DEF InFlight, ChannelOK
<1>6. \A p, q \in Party : \A r \in Round : q \in Script[r].from[p] \ {p} =>
        outs[p][RoleIdx(Script[r].from[p] \ {p}, q)] = NoMsg
  <2> SUFFICES ASSUME NEW p \in Party, NEW q \in Party, NEW r \in Round,
                      q \in Script[r].from[p] \ {p}
               PROVE  outs[p][RoleIdx(Script[r].from[p] \ {p}, q)] = NoMsg
    OBVIOUS
  <2>1. Script[r].from[p] \ {p} \in SUBSET Party
    BY ScriptSets
  <2>2. RoleIdx(Script[r].from[p] \ {p}, q) \in 1 .. N
    BY <2>1, RoleIdxRange
  <2> QED
    BY <2>2, <1>2
<1>7. OutsAligned
  BY <1>2, <1>6 DEF OutsAligned
<1>8. SendLoopDone
  BY <1>2 DEF SendLoopDone
<1>9. NobodyRunsAhead
  BY <1>2, <1>3 DEF NobodyRunsAhead
<1>10. RoundAligned
  BY <1>2 DEF RoundAligned
<1> QED
  BY <1>1, <1>5, <1>7, <1>8, <1>9, <1>10 DEF IndInv

(* Actions that only end a party's run or turn it to receiving.            *)
LEMMA PhaseStep ==
  ASSUME IndInv, NEW p \in Party,
         UNCHANGED <<round, next, outs, inbox, chan>>,
         \/ phase' = [phase EXCEPT ![p] = "failed"]
         \/ /\ phase' = [phase EXCEPT ![p] = "recv"]
            /\ \A i \in Targets(p) : i < next[p]
         \/ phase' = phase
  PROVE  /\ InFlight' /\ OutsAligned' /\ SendLoopDone' /\ NobodyRunsAhead' /\ RoundAligned'
<1>1. phase \in [Party -> {"send", "recv", "done", "failed"}]
  BY DEF IndInv, TypeOK
<1>2. InFlight'
  <2>1. ASSUME NEW a \in Party, NEW b \in Party PROVE ChannelOK(a, b)'
    <3>1. ChannelOK(a, b)
      BY DEF IndInv, InFlight
    <3>2. \A r \in Round : SentTo(a, b, r)' <=> SentTo(a, b, r)
      BY DEF SentTo
    <3>3. \A r \in Round : Taken(b, a, r)' <=> Taken(b, a, r)
      BY DEF Taken
    <3> QED
      BY <3>1, <3>2, <3>3 DEF ChannelOK
  <2> QED
    BY <2>1 DEF InFlight
<1>3. OutsAligned'
  BY <1>1 DEF IndInv, OutsAligned, SentTo
<1>4. SendLoopDone'
  BY <1>1 DEF IndInv, SendLoopDone, Targets
<1>5. NobodyRunsAhead'
  BY DEF IndInv, NobodyRunsAhead, SentTo
<1>6. RoundAligned'
  BY DEF IndInv, RoundAligned
<1> QED
  BY <1>2, <1>3, <1>4, <1>5, <1>6

LEMMA SendRest ==
  ASSUME IndInv, NEW p \in Party, SendOne(p), [Next]_vars
  PROVE  OutsAligned' /\ SendLoopDone' /\ NobodyRunsAhead' /\ RoundAligned'
<1>1. UNCHANGED <<round, phase, outs, inbox>>
  BY DEF SendOne
<1>2. TypeOK
  BY DEF IndInv
<1>3. \A a, b \in Party : \A r \in Round : SentTo(a, b, r) => SentTo(a, b, r)'
  BY <1>2, SentStays
<1>4. OutsAligned'
  <2>1. \A x \in Party : phase'[x] = "send" => \A k \in 1 .. N : outs'[x][k] = NoMsg
    BY <1>1 DEF IndInv, OutsAligned
  <2>2. ASSUME NEW x \in Party, NEW q \in Party, round'[x] \in Round,
               q \in Script[round'[x]].from[x] \ {x},
               outs'[x][RoleIdx(Script[round'[x]].from[x] \ {x}, q)] # NoMsg
        PROVE  /\ outs'[x][RoleIdx(Script[round'[x]].from[x] \ {x}, q)] = Msg(q, x, round'[x])
               /\ SentTo(q, x, round[x])'
    <3>1. /\ outs[x][RoleIdx(Script[round[x]].from[x] \ {x}, q)] = Msg(q, x, round[x])
          /\ SentTo(q, x, round[x])
      BY <2>2, <1>1 DEF IndInv, OutsAligned
    <3>2. PICK r \in Round : r = round[x]
      BY <2>2, <1>1
    <3>3. SentTo(q, x, r)'
      BY <3>1, <3>2, <1>3
    <3>4. SentTo(q, x, round[x])'
      BY <3>2, <3>3, <1>1 DEF SentTo
    <3> QED
      BY <3>1, <3>4, <1>1
  <2> QED
    BY <2>1, <2>2 DEF OutsAligned
<1>5. SendLoopDone'
  <2>1. phase[p] = "send"
    BY DEF SendOne
  <2>2. \A x \in Party : x # p => next'[x] = next[x]
    BY <1>2 DEF SendOne, TypeOK
  <2> QED
    BY <1>1, <2>1, <2>2 DEF IndInv, SendLoopDone
<1>6. NobodyRunsAhead'
  BY <1>1, <1>3 DEF IndInv, NobodyRunsAhead
<1>7. RoundAligned'
  BY <1>1 DEF IndInv, RoundAligned
<1> QED
  BY <1>4, <1>5, <1>6, <1>7

LEMMA ReceiveRest ==
  ASSUME IndInv, NEW p \in Party, NEW q \in Party, ReceiveOne(p, q)
  PROVE  OutsAligned' /\ SendLoopDone' /\ NobodyRunsAhead' /\ RoundAligned'
<1> DEFINE S == Script[round[p]].from[p] \ {p}
<1>1. UNCHANGED <<round, phase, next, inbox>> /\ round[p] \in Round
  BY DEF ReceiveOne, IndInv, TypeOK, Running
<1>2. S \in SUBSET Party /\ q \in S
  BY <1>1, ScriptSets DEF ReceiveOne, Senders
<1>3. /\ outs' = [outs EXCEPT ![p][RoleIdx(S, q)] = Msg(q, p, round[p])]
      /\ SentTo(q, p, round[p])
  BY HeadIsCurrent DEF ReceiveOne, Senders
<1>4. outs \in [Party -> [1 .. N -> Message \union {NoMsg}]]
  BY DEF IndInv, TypeOK
<1>5. OutsAligned'
  <2>1. \A x \in Party : phase'[x] = "send" => \A k \in 1 .. N : outs'[x][k] = NoMsg
    BY <1>1, <1>3, <1>4 DEF IndInv, OutsAligned, ReceiveOne
  <2>2. ASSUME NEW x \in Party, NEW y \in Party, round[x] \in Round,
               y \in Script[round[x]].from[x] \ {x},
               outs'[x][RoleIdx(Script[round[x]].from[x] \ {x}, y)] # NoMsg
        PROVE  /\ outs'[x][RoleIdx(Script[round[x]].from[x] \ {x}, y)] = Msg(y, x, round[x])
               /\ SentTo(y, x, round[x])
    <3>1. CASE x # p
      BY <3>1, <2>2, <1>3, <1>4 DEF IndInv, OutsAligned
    <3>2. CASE x = p /\ y = q
      <4>1. RoleIdx(S, q) \in 1 .. N
        BY <1>2, RoleIdxRange
      <4> QED
        BY <3>2, <4>1, <1>3, <1>4
    <3>3. CASE x = p /\ y # q
      <4>1. RoleIdx(S, y) # RoleIdx(S, q) /\ RoleIdx(S, y) \in 1 .. N
        BY <3>3, <2>2, <1>2, RoleIdxInj, RoleIdxRange
      <4>2. outs'[p][RoleIdx(S, y)] = outs[p][RoleIdx(S, y)]
        BY <4>1, <1>3, <1>4
      <4> QED
        BY <3>3, <4>2, <2>2 DEF IndInv, OutsAligned
    <3> QED
      BY <3>1, <3>2, <3>3
  <2>3. \A x, y \in Party : SentTo(y, x, round[x])' <=> SentTo(y, x, round[x])
    BY <1>1 DEF SentTo
  <2> QED
    BY <2>1, <2>2, <2>3, <1>1 DEF OutsAligned
<1>6. SendLoopDone'
  BY <1>1 DEF IndInv, SendLoopDone
<1>7. NobodyRunsAhead'
  BY <1>1 DEF IndInv, NobodyRunsAhead, SentTo
<1>8. RoundAligned'
  BY <1>1 DEF IndInv, RoundAligned
<1> QED
  BY <1>5, <1>6, <1>7, <1>8

LEMMA UnpackRest ==
  ASSUME IndInv, NEW p \in Party, Unpack(p), [Next]_vars
  PROVE  OutsAligned' /\ SendLoopDone' /\ NobodyRunsAhead' /\ RoundAligned'
<1> DEFINE R == round[p]
<1>1. /\ R \in Round
      /\ round' = [round EXCEPT ![p] = @ + 1]
      /\ outs' = [outs EXCEPT ![p] = [k \in 1 .. N |-> NoMsg]]
      /\ phase' = [phase EXCEPT ![p] = IF round[p] = Len(Script) THEN "done" ELSE "send"]
      /\ next' = [next EXCEPT ![p] = 0]
  BY DEF Unpack, Collected, Spread, PhaseAfter, IndInv, TypeOK, Running
<1>2. /\ round \in [Party -> 1 .. Len(Script) + 1] /\ next \in [Party -> 0 .. N]
      /\ outs \in [Party -> [1 .. N -> Message \union {NoMsg}]]
      /\ inbox \in [Party -> [Party -> Message \union {NoMsg}]]
      /\ phase \in [Party -> {"send", "recv", "done", "failed"}]
      /\ Len(Script) \in Nat
      /\ TypeOK
  BY ScriptType DEF IndInv, TypeOK
<1>3. \A a, b \in Party : \A r \in Round : SentTo(a, b, r) => SentTo(a, b, r)'
  BY <1>2, SentStays
<1>4. OutsAligned'
  <2>1. \A x \in Party : phase'[x] = "send" => \A k \in 1 .. N : outs'[x][k] = NoMsg
    BY <1>1, <1>2 DEF IndInv, OutsAligned
  <2>2. ASSUME NEW x \in Party, NEW y \in Party, round'[x] \in Round,
               y \in Script[round'[x]].from[x] \ {x},
               outs'[x][RoleIdx(Script[round'[x]].from[x] \ {x}, y)] # NoMsg
        PROVE  /\ outs'[x][RoleIdx(Script[round'[x]].from[x] \ {x}, y)] = Msg(y, x, round'[x])
               /\ SentTo(y, x, round[x])'
    <3>1. x # p
      <4> SUFFICES ASSUME x = p PROVE FALSE
        OBVIOUS
      <4>1. Script[round'[p]].from[p] \ {p} \in SUBSET Party
        BY <2>2, ScriptSets
      <4>2. RoleIdx(Script[round'[p]].from[p] \ {p}, y) \in 1 .. N
        BY <4>1, <2>2, RoleIdxRange
      <4>3. outs'[p] = [k \in 1 .. N |-> NoMsg]
        BY <1>1, <1>2
      <4> QED
        BY <4>2, <4>3, <2>2
    <3>2. round'[x] = round[x] /\ outs'[x] = outs[x]
      BY <3>1, <1>1, <1>2
    <3>3. /\ outs[x][RoleIdx(Script[round[x]].from[x] \ {x}, y)] = Msg(y, x, round[x])
          /\ SentTo(y, x, round[x])
      BY <2>2, <3>2 DEF IndInv, OutsAligned
    <3>4. PICK r \in Round : r = round[x]
      BY <2>2, <3>2
    <3>5. SentTo(y, x, r)'
      BY <3>3, <3>4, <1>3
    <3>6. SentTo(y, x, round[x])'
      BY <3>2, <3>4, <3>5 DEF SentTo
    <3> QED
      BY <3>2, <3>3, <3>6
  <2> QED
    BY <2>1, <2>2 DEF OutsAligned
<1>5. SendLoopDone'
  <2>1. phase'[p] # "recv"
    BY <1>1, <1>2
  <2>2. \A x \in Party : x # p => next'[x] = next[x] /\ round'[x] = round[x] /\ phase'[x] = phase[x]
    BY <1>1, <1>2
  <2> QED
    BY <2>1, <2>2 DEF IndInv, SendLoopDone
<1>6. \A q \in Script[R].from[p] \ {p} :
        /\ outs[p][RoleIdx(Script[R].from[p] \ {p}, q)] = Msg(q, p, R)
        /\ SentTo(q, p, R)
  <2>1. Script[R].from[p] \in SUBSET Party
    BY <1>1, ScriptSets
  <2> QED
    BY <1>1, <2>1 DEF Unpack, Collected, Spread, PhaseAfter, Senders, IndInv, OutsAligned
<1>7. NobodyRunsAhead'
  <2> SUFFICES ASSUME NEW x \in Party, NEW q \in Party, NEW r \in Round,
                      q \in Script[r].from[x] \ {x}, round'[x] > r
               PROVE  SentTo(q, x, r)'
    BY DEF NobodyRunsAhead
  <2>0. r \in Int
    BY ScriptSets
  <2>1. CASE round[x] > r
    BY <2>1, <1>3 DEF IndInv, NobodyRunsAhead
  <2>2. CASE ~ (round[x] > r)
    <3>1. x = p /\ r = R
      BY <2>0, <2>2, <1>1, <1>2
    <3> QED
      BY <3>1, <1>3, <1>6
  <2> QED
    BY <2>1, <2>2
<1>8. RoundAligned'
  <2> SUFFICES ASSUME NEW x \in Party, NEW q \in Party
               PROVE  inbox'[x][q] = IF round'[x] > 1 /\ q \in Script[round'[x] - 1].from[x] \ {x}
                                     THEN Msg(q, x, round'[x] - 1)
                                     ELSE NoMsg
    BY DEF RoundAligned
  <2>1. CASE x # p
    <3>1. round'[x] = round[x] /\ inbox'[x] = inbox[x]
      BY <2>1, <1>1, <1>2 DEF Unpack, Collected, Spread, PhaseAfter
    <3> QED
      BY <3>1 DEF IndInv, RoundAligned
  <2>2. CASE x = p
    <3>1. round'[p] = R + 1 /\ R \in Int /\ R >= 1
      BY <1>1, <1>2
    <3>2. round'[p] > 1 /\ round'[p] - 1 = R
      BY <3>1
    <3>3. inbox'[p][q] = IF q \in Senders(p) THEN outs[p][RoleIdx(Senders(p), q)] ELSE NoMsg
      BY <1>2 DEF Unpack, Collected, Spread, PhaseAfter
    <3> QED
      BY <2>2, <3>2, <3>3, <1>6 DEF Senders
  <2> QED
    BY <2>1, <2>2
<1> QED
  BY <1>4, <1>5, <1>7, <1>8

(* The invariant is inductive: one step per action.                        *)
LEMMA StepInd == IndInv /\ [Next]_vars => IndInv'
<1> SUFFICES ASSUME IndInv, [Next]_vars PROVE IndInv'
  OBVIOUS
<1>0. TypeOK'
  BY StepType DEF IndInv
<1>1. ASSUME NEW p \in Party, SendOne(p) PROVE IndInv'
  BY <1>0, <1>1, SendInFlight, SendRest DEF IndInv
<1>2. ASSUME NEW p \in Party, StartReceive(p) PROVE IndInv'
  <2>1. /\ UNCHANGED <<round, next, outs, inbox, chan>>
        /\ phase' = [phase EXCEPT ![p] = "recv"]
        /\ \A i \in Targets(p) : i < next[p]
    BY <1>2 DEF StartReceive, LoopDone
  <2> QED
    BY <1>0, <2>1, PhaseStep DEF IndInv
<1>3. ASSUME NEW p \in Party, NEW q \in Party, ReceiveOne(p, q) PROVE IndInv'
  BY <1>0, <1>3, ReceiveInFlight, ReceiveRest DEF IndInv
<1>4. ASSUME NEW p \in Party, Unpack(p) PROVE IndInv'
  BY <1>0, <1>4, UnpackInFlight, UnpackRest DEF IndInv
<1>5. ASSUME NEW p \in Party, TransportError(p) \/ PeerGone(p) PROVE IndInv'
  <2>1. /\ UNCHANGED <<round, next, outs, inbox, chan>>
        /\ phase' = [phase EXCEPT ![p] = "failed"]
    BY <1>5 DEF TransportError, PeerGone
  <2> QED
    BY <1>0, <2>1, PhaseStep DEF IndInv
<1>6. CASE UNCHANGED vars
  <2>1. UNCHANGED <<round, next, outs, inbox, chan>> /\ phase' = phase
    BY <1>6 DEF vars
  <2>2. 0 \in Party
    BY PartyCount DEF Party
  <2> QED
    BY <1>0, <2>1, <2>2, PhaseStep DEF IndInv
<1> QED
  BY <1>1, <1>2, <1>3, <1>4, <1>5, <1>6 DEF Next, PartyStep, AllReturned

THEOREM Inductive == Spec => []IndInv
BY InitInd, StepInd, PTL DEF Spec

(* For every number of parties, script and channel capacity, what a party  *)
(* unpacks from a peer in a round is what that peer packed for it in that  *)
(* round (receive_from_parties, unpack_msgs).                              *)
THEOREM Alignment == Spec => []RoundAligned
<1>1. IndInv => RoundAligned
  BY DEF IndInv
<1> QED
  BY <1>1, Inductive, PTL

(* A party leaves a messaging call only after all the peers it waits for   *)
(* have sent their message of that call (group_message).                   *)
THEOREM Synchrony == Spec => []NobodyRunsAhead
<1>1. IndInv => NobodyRunsAhead
  BY DEF IndInv
<1> QED
  BY <1>1, Inductive, PTL

(* Channels hold exactly the messages sent and not yet taken, in order,    *)
(* also after a call failed half-way (send_to_parties, receive_all).       *)
THEOREM ChannelContents == Spec => []InFlight
<1>1. IndInv => InFlight
  BY DEF IndInv
<1> QED
  BY <1>1, Inductive, PTL

(* A broadcast is a barrier: the receiver of a later message has sent its  *)
(* own part of the broadcast, hence has taken all earlier messages.        *)
LEMMA BarrierFromInv == IndInv => BroadcastBarrier
<1>1. Round = 1 .. Len(Script) /\ Len(Script) \in Nat
  BY ScriptType DEF Round
<1>2. ASSUME IndInv, NEW r \in Round, Script[r] = plain_broadcast,
             NEW q \in Party, NEW p \in Party,
             NEW k \in 1 .. Len(chan[q][p]), NEW l \in 1 .. Len(chan[q][p]),
             chan[q][p][k].rnd < r
      PROVE  chan[q][p][l].rnd <= r
  <2> DEFINE c == chan[q][p]
  <2>1. c \in Seq(Message)
    BY <1>2 DEF IndInv, TypeOK
  <2>2. round[p] \in Int /\ round[q] \in Int
    BY <1>1, <1>2 DEF IndInv, TypeOK
  <2>3. c[k] \in Message /\ c[l] \in Message
    BY <2>1
  <2>4. c[k].rnd \in Round /\ c[l].rnd \in Round
    BY <2>3 DEF Message
  <2> HIDE DEF c
  <2>5. ChannelOK(q, p)
    BY <1>2 DEF IndInv, InFlight
  <2>6. /\ p \in Script[c[k].rnd].to[q] \ {q} /\ ~ Taken(p, q, c[k].rnd)
        /\ SentTo(q, p, c[l].rnd)
    BY <1>2, <2>4, <2>5 DEF ChannelOK, c
  <2>7. round[p] <= c[k].rnd
    BY <1>1, <2>2, <2>4, <2>6 DEF Taken
  <2>8. round[q] >= c[l].rnd
    BY <1>1, <2>2, <2>4, <2>6 DEF SentTo
  <2>9. SUFFICES ASSUME c[l].rnd > r PROVE FALSE
    BY <1>1, <2>4 DEF c
  <2>10. p \in Script[r].from[q] \ {q}
    <3>1. Script[r].from = [x \in Party |-> Party]
      BY <1>2 DEF plain_broadcast
    <3> QED
      BY <1>2, <2>6, <3>1
  <2>11. round[q] > r
    BY <1>1, <2>2, <2>4, <2>8, <2>9
  <2>12. SentTo(p, q, r)
    BY <1>2, <2>10, <2>11 DEF IndInv, NobodyRunsAhead
  <2>13. c[k].rnd < r
    BY <1>2 DEF c
  <2> QED
    BY <1>1, <2>2, <2>4, <2>7, <2>12, <2>13 DEF SentTo
<1> QED
  BY <1>2 DEF BroadcastBarrier

(* No channel holds messages from both sides of a broadcast round of       *)
(* plain_broadcast, whatever the protocol, the capacity and the errors.    *)
THEOREM Barrier == Spec => []BroadcastBarrier
BY Inductive, BarrierFromInv, PTL


LEMMA LockStepFromInv == IndInv => LockStep
<1> SUFFICES ASSUME IndInv, AllBroadcast, NEW p \in Party, NEW q \in Party
             PROVE  round[p] <= round[q] + 1
  BY DEF LockStep
<1>1. /\ Round = 1 .. Len(Script) /\ Len(Script) \in Nat
      /\ round[p] \in 1 .. Len(Script) + 1 /\ round[q] \in 1 .. Len(Script) + 1
  BY ScriptType DEF Round, IndInv, TypeOK
<1> SUFFICES ASSUME round[p] > round[q] + 1 PROVE FALSE
  BY <1>1
<1> DEFINE r == round[q] + 1
<1>2. r \in Round /\ p # q /\ round[p] > r
  BY <1>1
<1>3. q \in Script[r].from[p] \ {p}
  <2>1. Script[r].from = [x \in Party |-> Party]
    BY <1>2 DEF AllBroadcast, plain_broadcast
  <2> QED
    BY <1>2, <2>1
<1>4. SentTo(q, p, r)
  BY <1>2, <1>3 DEF IndInv, NobodyRunsAhead
<1> QED
  BY <1>1, <1>4 DEF SentTo

LEMMA QueueBoundFromInv == IndInv => QueueBound
<1> SUFFICES ASSUME IndInv, AllBroadcast, NEW q \in Party, NEW p \in Party
             PROVE  Len(chan[q][p]) <= 2
  BY DEF QueueBound
<1> DEFINE c == chan[q][p]
<1>1. /\ round[p] \in Int /\ round[q] \in Int /\ next[q] \in Int
      /\ c \in Seq(Message) /\ Len(c) \in Nat
  BY ScriptType, PartyCount DEF IndInv, TypeOK
<1>2. round[q] <= round[p] + 1
  BY LockStepFromInv DEF LockStep
<1>3. ChannelOK(q, p)
  BY DEF IndInv, InFlight
<1>4. ASSUME NEW k \in 1 .. Len(c)
      PROVE  c[k].rnd \in Int /\ round[p] <= c[k].rnd /\ c[k].rnd <= round[p] + 1
  <2>1. c[k] \in Message
    BY <1>1
  <2>2. c[k].rnd \in Round
    BY <2>1 DEF Message
  <2>3. c[k].rnd \in Int
    BY <2>2, ScriptType DEF Round
  <2>4. SentTo(q, p, c[k].rnd) /\ ~ Taken(p, q, c[k].rnd)
    BY <1>3, <2>2 DEF ChannelOK
  <2> QED
    BY <1>1, <1>2, <2>3, <2>4 DEF SentTo, Taken
<1>5. ASSUME Len(c) > 2 PROVE FALSE
  <2>1. /\ 1 \in 1 .. Len(c) /\ 2 \in 1 .. Len(c) /\ 3 \in 1 .. Len(c)
        /\ 1 \in 1 .. 2 - 1 /\ 2 \in 1 .. 3 - 1
    BY <1>1, <1>5
  <2>2. c[1].rnd < c[2].rnd /\ c[2].rnd < c[3].rnd
    BY <1>3, <2>1 DEF ChannelOK
  <2>3. /\ c[1].rnd \in Int /\ c[2].rnd \in Int /\ c[3].rnd \in Int
        /\ round[p] <= c[1].rnd /\ c[3].rnd <= round[p] + 1
    BY <1>4, <2>1
  <2>4. \A x, y, z, R \in Int : x < y /\ y < z /\ R <= x => ~ (z <= R + 1)
    OBVIOUS
  <2> HIDE DEF c
  <2> QED
    BY <2>2, <2>3, <2>4, <1>1
<1> QED
  BY <1>1, <1>5

(* In a protocol of broadcasts no two parties are more than one round      *)
(* apart, also when transport errors stop some of them (plain_broadcast).  *)
THEOREM BroadcastLockStep == Spec => []LockStep
BY Inductive, LockStepFromInv, PTL

(* In such a protocol a channel never holds more than two messages, so a   *)
(* transport with room for two per pair never blocks a sender              *)
(* (plain_broadcast over data_transport_i).                                *)
THEOREM TwoMessagesPerChannel == Spec => []QueueBound
BY Inductive, QueueBoundFromInv, PTL
=============================================================================
