-------------------------- MODULE KeyShareMpProofs --------------------------
(***************************************************************************)
(* The n-party additive key: what key_share_mp_t::dkg and ::refresh        *)
(* guarantee, for every number of parties, every q, every faulty subset    *)
(* and any number of sessions and errors.                                  *)
(***************************************************************************)
EXTENDS KeyShareMp, ArithTheorems

(* The inductive invariant.  An honest party's messages are those of its   *)
(* state, the same for every receiver but for the share r._ij.             *)
Refreshing == kind \in {"refresh", "refresh_sid"}

EntryHc(p) == <<sid[p], entry[p].Q, entry[p].Qis>>

Msg1(p) ==
  IF kind = "dkg"
  THEN [sid |-> SidShare(p, 0), hc |-> "curve", c |-> Com(SidShare(p, 0), p, draw[p])]
  ELSE [sid |-> None, hc |-> EntryHc(p),
        c |-> Com(sid[p], p, <<draw[p], Proof(draw[p], sid[p], p)>>)]

Msg2(p, i) ==
  [sid |-> IF kind = "dkg" THEN sid[p] ELSE None, h |-> Coms(p), pt |-> draw[p],
   sh |-> IF kind = "dkg" THEN 0 ELSE draw[p][i], pi |-> Proof(draw[p], sid[p], p)]

(* p has read the first round and compared it with its own input.          *)
Checked1(p) ==
  /\ \A j \in Party : m1[j][p] # None
  /\ kind = "dkg" => sid[p] = Sids1(p)
  /\ Refreshing => \A j \in Party \ {p} : m1[j][p].hc = EntryHc(p)

Messages(p) ==
  \A i \in Party :
    /\ pc[p] = "idle" => m0[p][i] = None
    /\ pc[p] \in {"idle", "sid"} => m1[p][i] = None
    /\ pc[p] \in {"idle", "sid", "r1"} => m2[p][i] = None
    /\ m0[p][i] # None => m0[p][i] = SidShare(p, 0)
    /\ m1[p][i] # None => m1[p][i] = Msg1(p) /\ OnCurve(draw[p])
    /\ m2[p][i] # None => m2[p][i] = Msg2(p, i) /\ Checked1(p)

(* What p has when it reached a round.                                     *)
SidFixed(p) ==
  /\ kind = "refresh" => sid[p] = Sids0(p) /\ \A j \in Party : m0[j][p] # None
  /\ kind = "refresh_sid" => sid[p] = "given"

NewKeyFrom(k, p) ==
  [x |-> (k.x + Delta(p, [j \in Party |-> draw[p][j] + m2[j][p].sh])) % q,
   Qis |-> [j \in Party |->
              (k.Qis[j] + Delta(j, [l \in Party |-> m2[j][p].pt[l] + m2[l][p].pt[j]])) % q],
   Q |-> k.Q]

Finished(p) ==
  /\ \A j \in Party : m2[j][p] # None
  /\ kind = "dkg" =>
       /\ \A j \in Party \ {p} : DkgAccepts(p, j)
       /\ key[p] = [x |-> draw[p][p], Qis |-> DkgQis(p), Q |-> SUM(DkgQis(p))]
  /\ Refreshing =>
       /\ \A j \in Party \ {p} : RefreshAccepts(p, j)
       /\ key[p] = NewKeyFrom(entry[p], p) /\ Consistent(p, key[p])

Progress(p) ==
  /\ pc[p] \in {"r1", "r2", "done"} => m1[p][p] = Msg1(p) /\ OnCurve(draw[p]) /\ SidFixed(p)
  /\ pc[p] \in {"r2", "done"} => m2[p][p] = Msg2(p, p) /\ Checked1(p)
  /\ pc[p] = "done" => Finished(p)
  /\ pc[p] # "done" => key[p] = entry[p]

KeyOk(p) ==
  /\ key[p] # None => Consistent(p, key[p])
  /\ entry[p] # None => Consistent(p, entry[p])

PartyInv(p) == Messages(p) /\ Progress(p) /\ KeyOk(p)

Shape ==
  /\ setup \in Setups
  /\ DOMAIN m0 = Party /\ DOMAIN m1 = Party /\ DOMAIN m2 = Party /\ DOMAIN sid = Honest
  /\ kind \in {"none", "dkg", "refresh", "refresh_sid"}
  /\ kind = "none" => session = 0 /\ \A p \in Honest : pc[p] = "failed"
  /\ kind # "none" => session > 0
  /\ entry \in [Honest -> KeyShare \union {None}]
  /\ Refreshing => \A p \in Honest : entry[p] # None

(* Without errors and faulty parties all parties enter a refresh with the  *)
(* same public shares.                                                     *)
Clean == setup.faulty = {} /\ errs = 0

SamePublic(k) ==
  \A p, j \in Honest : (k[p] # None /\ k[j] # None) => k[p].Q = k[j].Q /\ k[p].Qis = k[j].Qis

CleanRuns ==
  Clean => /\ session = 0 => SamePublic(key)
           /\ Refreshing => SamePublic(entry)

IndInv ==
  /\ TypeOK /\ Shape
  /\ \A p \in Honest : PartyInv(p)
  /\ CleanRuns /\ NoFalseAlarm

-----------------------------------------------------------------------------
LEMMA PartyFacts ==
  /\ Party \subseteq Int /\ IsFiniteSet(Party)
  /\ q \in Nat \ {0} /\ 1 \in Zq \ {0} /\ Zq \subseteq Int
BY ConstantTypes, FS_Interval DEF Party, Zq

LEMMA ZqPlus ==
  ASSUME NEW a \in Zq, NEW b \in Zq
  PROVE  a + b \in Int
BY PartyFacts DEF Zq

LEMMA ModInZq ==
  ASSUME NEW a \in Int
  PROVE  a % q \in Zq
BY PartyFacts, ModDef DEF Zq

LEMMA SumInZq ==
  ASSUME NEW f \in [Party -> Int]
  PROVE  SUM(f) \in Zq
<1>1. SumFunction(f) \in Int
  BY PartyFacts, SumType DEF SumFunction
<1> QED
  BY <1>1, PartyFacts, ModDef DEF SUM, Zq

LEMMA DeltaType ==
  ASSUME NEW i \in Party, NEW pair \in [Party -> Int]
  PROVE  Delta(i, pair) \in Int
<1> DEFINE f == [j \in Party \ {i} |-> IF j < i THEN pair[j] ELSE - pair[j]]
<1>1. f \in [Party \ {i} -> Int] /\ IsFiniteSet(Party \ {i}) /\ DOMAIN f = Party \ {i}
  BY PartyFacts, FS_Subset
<1> HIDE DEF f
<1>2. SumFunctionOnSet(f, Party \ {i}) \in Int
  BY <1>1, SumType
<1> QED
  BY <1>1, <1>2 DEF Delta, SumFunction, f

LEMMA InitInd == Init => IndInv
<1> SUFFICES ASSUME Init PROVE IndInv
  OBVIOUS
<1>1. setup \in Setups /\ setup \in SetupType /\ Honest \subseteq Party
  BY ConstantTypes DEF Init, Honest
<1>2. \A p \in Honest : key[p] = StartKey(p) /\ key[p] = entry[p]
  BY DEF Init
<1>3. ASSUME NEW p \in Honest, setup.shares # None
      PROVE  StartKey(p) \in KeyShare /\ Consistent(p, StartKey(p))
  <2>1. setup.shares \in [Party -> Zq]
    BY <1>1, <1>3 DEF SetupType
  <2>2. SUM(setup.shares) \in Zq
    BY <2>1, PartyFacts, SumInZq
  <2> QED
    BY <1>1, <1>3, <2>1, <2>2 DEF StartKey, KeyShare, Consistent
<1>4. key \in [Honest -> KeyShare \union {None}] /\ entry = key
  BY <1>3 DEF Init, StartKey
<1>5. TypeOK
  BY <1>1, <1>4, PartyFacts DEF Init, TypeOK, SetupType, Zq
<1>6. Shape
  BY <1>1, <1>4 DEF Init, Shape, Blank, Refreshing
<1>7. ASSUME NEW p \in Honest PROVE PartyInv(p)
  <2>1. Messages(p) /\ Progress(p)
    BY <1>1, <1>2 DEF Init, Messages, Progress, Blank
  <2>2. KeyOk(p)
    BY <1>2, <1>3 DEF KeyOk, StartKey
  <2> QED
    BY <2>1, <2>2 DEF PartyInv
<1>8. CleanRuns /\ NoFalseAlarm
  BY <1>2 DEF Init, CleanRuns, NoFalseAlarm, SamePublic, StartKey, Refreshing
<1> QED
  BY <1>5, <1>6, <1>7, <1>8 DEF IndInv

-----------------------------------------------------------------------------
(* Steps within a session: what they leave alone.                          *)
Frame == setup' = setup /\ kind' = kind /\ entry' = entry /\ session' = session

(* What p has received stays.                                              *)
Kept(p) ==
  \A j \in Party : /\ m0[j][p] # None => m0'[j][p] = m0[j][p]
                   /\ m1[j][p] # None => m1'[j][p] = m1[j][p]
                   /\ m2[j][p] # None => m2'[j][p] = m2[j][p]

SameRows(p) == m0'[p] = m0[p] /\ m1'[p] = m1[p] /\ m2'[p] = m2[p]

Untouched(p) ==
  /\ draw'[p] = draw[p] /\ sid'[p] = sid[p] /\ key'[p] = key[p]
  /\ SameRows(p)

LEMMA Views ==
  ASSUME NEW p \in Honest, Frame, Kept(p), sid'[p] = sid[p], Checked1(p)
  PROVE  Checked1(p)' /\ Coms(p)' = Coms(p)
<1>1. \A j \in Party : m1'[j][p] = m1[j][p]
  BY DEF Kept, Checked1
<1>2. Coms(p)' = Coms(p) /\ Sids1(p)' = Sids1(p)
  BY <1>1 DEF Coms, Sids1
<1>3. EntryHc(p)' = EntryHc(p) /\ Refreshing' = Refreshing
  BY DEF EntryHc, Refreshing, Frame
<1> QED
  BY <1>1, <1>2, <1>3 DEF Checked1, Frame

LEMMA OwnMsgs ==
  ASSUME NEW p \in Honest, Frame, sid'[p] = sid[p], draw'[p] = draw[p]
  PROVE  /\ Msg1(p)' = Msg1(p)
         /\ Coms(p)' = Coms(p) => \A i \in Party : Msg2(p, i)' = Msg2(p, i)
BY DEF Frame, Msg1, Msg2, EntryHc

(* The messages of a party that sends nothing.                             *)
LEMMA MessagesKept ==
  ASSUME NEW p \in Honest, Frame, Kept(p), Untouched(p), Messages(p),
         pc'[p] = pc[p] \/ pc'[p] = "failed"
  PROVE  Messages(p)'
<1> SUFFICES ASSUME NEW i \in Party
             PROVE  /\ pc'[p] = "idle" => m0'[p][i] = None
                    /\ pc'[p] \in {"idle", "sid"} => m1'[p][i] = None
                    /\ pc'[p] \in {"idle", "sid", "r1"} => m2'[p][i] = None
                    /\ m0'[p][i] # None => m0'[p][i] = SidShare(p, 0)
                    /\ m1'[p][i] # None => m1'[p][i] = Msg1(p)' /\ OnCurve(draw'[p])
                    /\ m2'[p][i] # None => m2'[p][i] = Msg2(p, i)' /\ Checked1(p)'
  BY DEF Messages
<1>1. m0'[p][i] = m0[p][i] /\ m1'[p][i] = m1[p][i] /\ m2'[p][i] = m2[p][i]
  BY DEF Untouched, SameRows
<1>2. m1[p][i] # None => m1[p][i] = Msg1(p)' /\ OnCurve(draw'[p])
  BY OwnMsgs DEF Untouched, Messages
<1>3. m2[p][i] # None => m2[p][i] = Msg2(p, i)' /\ Checked1(p)'
  BY OwnMsgs, Views DEF Untouched, Messages
<1> QED
  BY <1>1, <1>2, <1>3 DEF Messages

LEMMA FinishedStays ==
  ASSUME NEW p \in Honest, Frame, Kept(p), Untouched(p), Checked1(p), Finished(p)
  PROVE  Finished(p)'
<1>0. Honest \subseteq Party
  BY DEF Honest
<1>1. \A j \in Party : m1'[j][p] = m1[j][p] /\ m2'[j][p] = m2[j][p]
  BY DEF Kept, Checked1, Finished
<1>2. Coms(p)' = Coms(p) /\ sid'[p] = sid[p] /\ draw'[p] = draw[p] /\ key'[p] = key[p]
  BY <1>1 DEF Coms, Untouched
<1>3. \A j \in Party : DkgAccepts(p, j)' <=> DkgAccepts(p, j)
  BY <1>1, <1>2 DEF DkgAccepts
<1>4. \A j \in Party : RefreshAccepts(p, j)' <=> RefreshAccepts(p, j)
  BY <1>0, <1>1, <1>2 DEF RefreshAccepts
<1>5. DkgQis(p)' = DkgQis(p)
  BY <1>1 DEF DkgQis
<1>6. NewKeyFrom(entry[p], p)' = NewKeyFrom(entry[p], p)
  <2>1. \A j \in Party : m2'[j][p].sh = m2[j][p].sh /\ m2'[j][p].pt = m2[j][p].pt
    BY <1>1
  <2>2. [j \in Party |-> draw'[p][j] + m2'[j][p].sh] = [j \in Party |-> draw[p][j] + m2[j][p].sh]
    BY <1>2, <2>1
  <2>3. ASSUME NEW j \in Party
        PROVE  [l \in Party |-> m2'[j][p].pt[l] + m2'[l][p].pt[j]]
                 = [l \in Party |-> m2[j][p].pt[l] + m2[l][p].pt[j]]
    BY <2>1
  <2> QED
    BY <2>2, <2>3 DEF NewKeyFrom, Frame
<1>7. Refreshing' = Refreshing /\ kind' = kind
  BY DEF Refreshing, Frame
<1> QED
  BY <1>1, <1>2, <1>3, <1>4, <1>5, <1>6, <1>7 DEF Finished, Consistent

LEMMA Passive ==
  ASSUME NEW p \in Honest, Frame, Kept(p), Untouched(p), PartyInv(p), pc'[p] = pc[p]
  PROVE  PartyInv(p)'
<1>0. Honest \subseteq Party
  BY DEF Honest
<1>1. Messages(p)'
  BY MessagesKept DEF PartyInv
<1>2. KeyOk(p)'
  BY DEF PartyInv, KeyOk, Consistent, Frame, Untouched
<1>3. Progress(p)
  BY DEF PartyInv
<1>4. pc[p] \in {"r1", "r2", "done"} => m1'[p][p] = Msg1(p)' /\ OnCurve(draw'[p]) /\ SidFixed(p)'
  <2> SUFFICES ASSUME pc[p] \in {"r1", "r2", "done"}
               PROVE  m1'[p][p] = Msg1(p)' /\ OnCurve(draw'[p]) /\ SidFixed(p)'
    OBVIOUS
  <2>1. m1'[p][p] = Msg1(p)' /\ OnCurve(draw'[p])
    BY <1>3, OwnMsgs DEF Progress, Untouched, SameRows
  <2>2. SidFixed(p)'
    BY <1>3 DEF Progress, SidFixed, Sids0, Kept, Untouched, Frame
  <2> QED
    BY <2>1, <2>2
<1>5. pc[p] \in {"r2", "done"} => m2'[p][p] = Msg2(p, p)' /\ Checked1(p)'
  BY <1>0, <1>3, OwnMsgs, Views DEF Progress, Untouched, SameRows
<1>6. pc[p] = "done" => Finished(p)'
  BY <1>3, FinishedStays DEF Progress
<1>7. pc[p] # "done" => key'[p] = entry'[p]
  BY <1>3 DEF Progress, Untouched, Frame
<1> QED
  BY <1>1, <1>2, <1>4, <1>5, <1>6, <1>7 DEF PartyInv, Progress

(* A call that returns an error.                                           *)
LEMMA Stops ==
  ASSUME NEW p \in Honest, Frame, Kept(p), Untouched(p), PartyInv(p),
         pc[p] # "done", pc'[p] = "failed"
  PROVE  PartyInv(p)'
<1>1. Messages(p)'
  BY MessagesKept DEF PartyInv
<1>2. KeyOk(p)'
  BY DEF PartyInv, KeyOk, Consistent, Frame, Untouched
<1>3. Progress(p)'
  BY DEF PartyInv, Progress, Untouched, Frame
<1> QED
  BY <1>1, <1>2, <1>3 DEF PartyInv

-----------------------------------------------------------------------------
(* A step of p alone: nobody's received messages change, and the others    *)
(* keep their state.                                                       *)
Solo(p) ==
  /\ \A j \in Honest : Kept(j)
  /\ \A j \in Honest \ {p} : Untouched(j) /\ pc'[j] = pc[j]

Steady == TypeOK' /\ Shape' /\ Frame

LEMMA SoloKeeps ==
  ASSUME IndInv, Frame, NEW p \in Honest, Solo(p), PartyInv(p)'
  PROVE  \A j \in Honest : PartyInv(j)'
<1> SUFFICES ASSUME NEW j \in Honest, j # p PROVE PartyInv(j)'
  OBVIOUS
<1> QED
  BY Passive DEF IndInv, Solo

LEMMA TypeFacts ==
  ASSUME IndInv
  PROVE  /\ Honest \subseteq Party
         /\ DOMAIN pc = Honest /\ DOMAIN key = Honest /\ DOMAIN draw = Honest /\ DOMAIN sid = Honest
         /\ DOMAIN m0 = Party /\ DOMAIN m1 = Party /\ DOMAIN m2 = Party
BY DEF IndInv, TypeOK, Shape, Honest

LEMMA RejectStep ==
  ASSUME IndInv, NEW p \in Honest, Reject(p), Frame, pc[p] # "done", errs' \in 0 .. setup.errors,
         kind # "none"
  PROVE  Solo(p) /\ PartyInv(p)' /\ Steady
<1>1. /\ pc' = [pc EXCEPT ![p] = "failed"]
      /\ UNCHANGED <<key, draw, sid, m0, m1, m2>>
  BY DEF Reject, Enter
<1>2. pc'[p] = "failed" /\ \A j \in Honest \ {p} : pc'[j] = pc[j]
  BY <1>1, TypeFacts
<1>3. \A j \in Honest : Kept(j) /\ Untouched(j)
  BY <1>1 DEF Kept, Untouched, SameRows
<1>4. PartyInv(p)'
  BY <1>2, <1>3, Stops DEF IndInv
<1>5. Honest' = Honest /\ Refreshing' = Refreshing
  BY DEF Frame, Honest, Refreshing
<1>6. TypeOK'
  BY <1>1, <1>5 DEF IndInv, TypeOK, Frame
<1>7. Shape'
  BY <1>1, <1>5 DEF IndInv, Shape, Frame
<1> QED
  BY <1>2, <1>3, <1>4, <1>6, <1>7 DEF Solo, Steady

LEMMA DkgCommitStep ==
  ASSUME IndInv, NEW p \in Honest, DkgCommit(p), Frame, errs' = errs
  PROVE  Solo(p) /\ PartyInv(p)' /\ Steady
<1>1. PICK x \in Draw :
        LET v == [j \in Party |-> IF j = p THEN x ELSE 1]
        IN  /\ draw' = [draw EXCEPT ![p] = v]
            /\ m1' = ToAll(m1, p, [sid |-> SidShare(p, 0), hc |-> "curve",
                                   c |-> Com(SidShare(p, 0), p, v)])
  BY DEF DkgCommit
<1> DEFINE v == [j \in Party |-> IF j = p THEN x ELSE 1]
<1>2. /\ kind = "dkg" /\ pc[p] = "idle" /\ pc' = [pc EXCEPT ![p] = "r1"]
      /\ UNCHANGED <<key, sid, m0, m2>>
  BY DEF DkgCommit, Enter
<1>3. v \in [Party -> Zq] /\ OnCurve(v)
  BY PartyFacts, ConstantTypes DEF OnCurve
<1> DEFINE msg == [sid |-> SidShare(p, 0), hc |-> "curve", c |-> Com(SidShare(p, 0), p, v)]
<1>4. /\ draw' = [draw EXCEPT ![p] = v]
      /\ m1' = [m1 EXCEPT ![p] = [j \in Party |-> msg]]
  BY <1>1 DEF ToAll
<1> HIDE DEF v
<1>5. /\ draw'[p] = v /\ pc'[p] = "r1" /\ \A i \in Party : m1'[p][i] = msg
      /\ \A j \in Honest \ {p} : draw'[j] = draw[j] /\ pc'[j] = pc[j]
      /\ \A j \in Party \ {p} : m1'[j] = m1[j]
      /\ DOMAIN m1' = Party
  BY <1>2, <1>4, TypeFacts
<1>6. Msg1(p)' = msg
  BY <1>2, <1>5 DEF Msg1, Frame
<1> HIDE DEF msg
<1>7. PartyInv(p) /\ \A i \in Party : m1[p][i] = None /\ m2[p][i] = None
  BY <1>2 DEF IndInv, PartyInv, Messages
<1>8. Solo(p)
  <2>1. \A j \in Honest : Kept(j)
    BY <1>2, <1>5, <1>7, TypeFacts DEF Kept
  <2>2. \A j \in Honest \ {p} : Untouched(j)
    BY <1>2, <1>5, TypeFacts DEF Untouched, SameRows
  <2> QED
    BY <1>5, <2>1, <2>2 DEF Solo
<1>9. PartyInv(p)'
  <2>1. Messages(p)'
    BY <1>2, <1>3, <1>5, <1>6, <1>7 DEF PartyInv, Messages
  <2>2. SidFixed(p)'
    BY <1>2 DEF SidFixed, Frame
  <2>3. Progress(p)'
    BY <1>2, <1>3, <1>5, <1>6, <1>7, <2>2, TypeFacts DEF PartyInv, Progress, Frame
  <2>4. KeyOk(p)'
    BY <1>2, <1>7 DEF PartyInv, KeyOk, Consistent, Frame
  <2> QED
    BY <2>1, <2>3, <2>4 DEF PartyInv
<1>10. Honest' = Honest /\ Refreshing' = Refreshing
  BY DEF Frame, Honest, Refreshing
<1>11. TypeOK'
  BY <1>2, <1>3, <1>4, <1>10 DEF IndInv, TypeOK, Frame
<1>12. Shape'
  BY <1>2, <1>5, <1>10 DEF IndInv, Shape, Frame
<1> QED
  BY <1>8, <1>9, <1>11, <1>12 DEF Steady

LEMMA DkgOpenStep ==
  ASSUME IndInv, NEW p \in Honest, DkgOpen(p), Frame, errs' = errs
  PROVE  Solo(p) /\ PartyInv(p)' /\ Steady
<1>0. /\ kind = "dkg" /\ pc[p] = "r1" /\ \A j \in Party : m1[j][p] # None
      /\ PartyInv(p) /\ errs \in 0 .. setup.errors /\ p \in Party
  BY TypeFacts DEF DkgOpen, IndInv, TypeOK
<1>1. CASE Reject(p)
  BY <1>0, <1>1, RejectStep
<1>2. CASE /\ sid' = [sid EXCEPT ![p] = Sids1(p)]
           /\ m2' = ToAll(m2, p, [sid |-> Sids1(p), h |-> Coms(p), pt |-> draw[p], sh |-> 0,
                                  pi |-> Proof(draw[p], Sids1(p), p)])
           /\ Enter(p, "r2")
           /\ UNCHANGED <<key, draw, m0, m1>>
  <2> DEFINE msg == [sid |-> Sids1(p), h |-> Coms(p), pt |-> draw[p], sh |-> 0,
                     pi |-> Proof(draw[p], Sids1(p), p)]
  <2>1. /\ sid'[p] = Sids1(p) /\ pc'[p] = "r2" /\ \A i \in Party : m2'[p][i] = msg
        /\ \A j \in Honest \ {p} : sid'[j] = sid[j] /\ pc'[j] = pc[j]
        /\ \A j \in Party \ {p} : m2'[j] = m2[j]
        /\ DOMAIN m2' = Party /\ DOMAIN sid' = Honest
    BY <1>2, TypeFacts DEF ToAll, Enter
  <2>2. Coms(p)' = Coms(p) /\ Sids1(p)' = Sids1(p)
    BY <1>2 DEF Coms, Sids1
  <2>3. \A i \in Party : Msg2(p, i)' = msg
    BY <1>0, <1>2, <2>1, <2>2 DEF Msg2, Frame
  <2>4. Checked1(p)'
    BY <1>0, <1>2, <2>1, <2>2 DEF Checked1, Frame, Refreshing
  <2>5. Msg1(p)' = Msg1(p)
    BY <1>0, <1>2 DEF Msg1, Frame
  <2>6. \A i \in Party : m2[p][i] = None
    BY <1>0 DEF PartyInv, Messages
  <2> HIDE DEF msg
  <2>7. Solo(p)
    <3>1. \A j \in Honest : Kept(j)
      BY <1>2, <2>1, <2>6, TypeFacts DEF Kept
    <3>2. \A j \in Honest \ {p} : Untouched(j)
      BY <1>2, <2>1, TypeFacts DEF Untouched, SameRows
    <3> QED
      BY <2>1, <3>1, <3>2 DEF Solo
  <2>8. Messages(p)'
    BY <1>0, <1>2, <2>1, <2>3, <2>4, <2>5 DEF PartyInv, Messages
  <2>9. SidFixed(p)'
    BY <1>0 DEF SidFixed, Frame
  <2>10. Progress(p)'
    BY <1>0, <1>2, <2>1, <2>3, <2>4, <2>5, <2>9 DEF PartyInv, Progress, Frame
  <2>11. KeyOk(p)'
    BY <1>0, <1>2 DEF PartyInv, KeyOk, Consistent, Frame
  <2>12. Honest' = Honest /\ Refreshing' = Refreshing
    BY DEF Frame, Honest, Refreshing
  <2>13. TypeOK'
    BY <1>2, <2>12 DEF IndInv, TypeOK, Frame, Enter
  <2>14. Shape'
    BY <1>0, <1>2, <2>1, <2>12 DEF IndInv, Shape, Frame
  <2> QED
    BY <2>7, <2>8, <2>10, <2>11, <2>13, <2>14 DEF PartyInv, Steady
<1> QED
  BY <1>1, <1>2 DEF DkgOpen

(* A call that succeeds: only pc and key change.                           *)
LEMMA ReturnStep ==
  ASSUME IndInv, NEW p \in Honest, NEW k \in KeyShare, Consistent(p, k), pc[p] = "r2",
         key' = [key EXCEPT ![p] = k], Enter(p, "done"), UNCHANGED <<draw, sid, m0, m1, m2>>,
         Frame, errs' = errs, Finished(p)'
  PROVE  Solo(p) /\ PartyInv(p)' /\ Steady
<1>1. /\ key'[p] = k /\ pc'[p] = "done"
      /\ \A j \in Honest \ {p} : key'[j] = key[j] /\ pc'[j] = pc[j]
  BY TypeFacts DEF Enter
<1>2. PartyInv(p) /\ p \in Party
  BY TypeFacts DEF IndInv
<1>3. Solo(p)
  BY <1>1 DEF Solo, Kept, Untouched, SameRows
<1>4. /\ Msg1(p)' = Msg1(p) /\ Coms(p)' = Coms(p)
      /\ \A i \in Party : Msg2(p, i)' = Msg2(p, i)
      /\ Checked1(p)' = Checked1(p) /\ SidFixed(p)' = SidFixed(p)
  BY DEF Frame, Msg1, Msg2, Coms, EntryHc, Checked1, SidFixed, Sids0, Sids1, Refreshing
<1>5. Messages(p)'
  BY <1>1, <1>2, <1>4 DEF PartyInv, Messages
<1>6. Progress(p)'
  BY <1>1, <1>2, <1>4 DEF PartyInv, Progress
<1>7. KeyOk(p)'
  BY <1>1, <1>2 DEF PartyInv, KeyOk, Consistent, Frame
<1>8. Honest' = Honest /\ Refreshing' = Refreshing
  BY DEF Frame, Honest, Refreshing
<1>9. TypeOK'
  BY <1>8 DEF IndInv, TypeOK, Frame, Enter
<1>10. Shape'
  BY <1>1, <1>8 DEF IndInv, Shape, Frame
<1> QED
  BY <1>3, <1>5, <1>6, <1>7, <1>9, <1>10 DEF PartyInv, Steady

(* Everything p adds up is a number.                                       *)
LEMMA ReadType ==
  ASSUME IndInv, NEW p \in Honest, pc[p] = "r2",
         \A j \in Party \ {p} : OnCurve(m2[j][p].pt)
  PROVE  \A j \in Party : \A l \in Party : m2[j][p].pt[l] \in Zq
<1>1. m2[p][p].pt = draw[p] /\ draw[p] \in [Party -> Zq]
  <2>1. m2[p][p] = Msg2(p, p)
    BY DEF IndInv, PartyInv, Progress
  <2>2. draw[p] \in [Party -> Zq]
    BY DEF IndInv, TypeOK
  <2> QED
    BY <2>1, <2>2 DEF Msg2
<1> QED
  BY <1>1 DEF OnCurve

LEMMA DkgOutputStep ==
  ASSUME IndInv, NEW p \in Honest, DkgOutput(p), Frame, errs' = errs
  PROVE  Solo(p) /\ PartyInv(p)' /\ Steady
<1>0. /\ kind = "dkg" /\ pc[p] = "r2" /\ \A j \in Party : m2[j][p] # None
      /\ PartyInv(p) /\ errs \in 0 .. setup.errors /\ p \in Party
  BY TypeFacts DEF DkgOutput, IndInv, TypeOK
<1>1. CASE Reject(p)
  BY <1>0, <1>1, RejectStep
<1> DEFINE k == [x |-> draw[p][p], Qis |-> DkgQis(p), Q |-> SUM(DkgQis(p))]
<1>2. CASE /\ \A j \in Party \ {p} : DkgAccepts(p, j)
           /\ key' = [key EXCEPT ![p] = k]
           /\ Enter(p, "done")
           /\ UNCHANGED <<draw, sid, m0, m1, m2>>
  <2>1. \A j \in Party : \A l \in Party : m2[j][p].pt[l] \in Zq
    BY <1>0, <1>2, ReadType DEF DkgAccepts
  <2>2. DkgQis(p) \in [Party -> Zq]
    BY <2>1 DEF DkgQis
  <2>3. SUM(DkgQis(p)) \in Zq
    BY <2>2, SumInZq, PartyFacts
  <2>4. draw[p] \in [Party -> Zq] /\ m2[p][p].pt = draw[p]
    BY <1>0 DEF IndInv, TypeOK, PartyInv, Progress, Msg2
  <2>5. k \in KeyShare /\ Consistent(p, k)
    BY <1>0, <2>2, <2>3, <2>4 DEF KeyShare, Consistent, DkgQis
  <2>6. Finished(p)'
    <3>1. DkgQis(p)' = DkgQis(p) /\ key'[p] = k
      BY <1>2, TypeFacts DEF DkgQis
    <3>2. \A j \in Party \ {p} : DkgAccepts(p, j)'
      BY <1>2 DEF DkgAccepts, Coms
    <3> QED
      BY <1>0, <1>2, <3>1, <3>2 DEF Finished, Frame, Refreshing
  <2> HIDE DEF k
  <2> QED
    BY <1>0, <1>2, <2>5, <2>6, ReturnStep
<1> QED
  BY <1>1, <1>2 DEF DkgOutput

LEMMA RefreshSidStep ==
  ASSUME IndInv, NEW p \in Honest, RefreshSid(p), Frame, errs' = errs
  PROVE  Solo(p) /\ PartyInv(p)' /\ Steady
<1>1. /\ kind = "refresh" /\ pc[p] = "idle" /\ pc' = [pc EXCEPT ![p] = "sid"]
      /\ m0' = [m0 EXCEPT ![p] = [j \in Party |-> SidShare(p, 0)]]
      /\ UNCHANGED <<key, draw, sid, m1, m2>>
  BY DEF RefreshSid, Enter, ToAll
<1>2. /\ pc'[p] = "sid" /\ \A i \in Party : m0'[p][i] = SidShare(p, 0)
      /\ \A j \in Honest \ {p} : pc'[j] = pc[j]
      /\ \A j \in Party \ {p} : m0'[j] = m0[j]
      /\ DOMAIN m0' = Party
  BY <1>1, TypeFacts
<1>3. PartyInv(p) /\ p \in Party /\ \A i \in Party : m0[p][i] = None /\ m1[p][i] = None /\ m2[p][i] = None
  BY <1>1, TypeFacts DEF IndInv, PartyInv, Messages
<1>4. Solo(p)
  <2>1. \A j \in Honest : Kept(j)
    BY <1>1, <1>2, <1>3, TypeFacts DEF Kept
  <2>2. \A j \in Honest \ {p} : Untouched(j)
    BY <1>1, <1>2, TypeFacts DEF Untouched, SameRows
  <2> QED
    BY <1>2, <2>1, <2>2 DEF Solo
<1>5. Messages(p)'
  BY <1>1, <1>2, <1>3 DEF Messages
<1>6. Progress(p)' /\ KeyOk(p)'
  BY <1>1, <1>2, <1>3 DEF PartyInv, Progress, KeyOk, Consistent, Frame
<1>7. Honest' = Honest /\ Refreshing' = Refreshing
  BY DEF Frame, Honest, Refreshing
<1>8. TypeOK'
  BY <1>1, <1>7 DEF IndInv, TypeOK, Frame
<1>9. Shape'
  BY <1>1, <1>2, <1>7 DEF IndInv, Shape, Frame
<1> QED
  BY <1>4, <1>5, <1>6, <1>8, <1>9 DEF PartyInv, Steady

LEMMA RefreshCommitStep ==
  ASSUME IndInv, NEW p \in Honest, RefreshCommit(p), Frame, errs' = errs
  PROVE  Solo(p) /\ PartyInv(p)' /\ Steady
<1>0. /\ \/ kind = "refresh" /\ pc[p] = "sid" /\ \A j \in Party : m0[j][p] # None
         \/ kind = "refresh_sid" /\ pc[p] = "idle"
      /\ PartyInv(p) /\ errs \in 0 .. setup.errors /\ p \in Party
  BY TypeFacts DEF RefreshCommit, IndInv, TypeOK
<1>1. CASE Reject(p)
  BY <1>0, <1>1, RejectStep
<1> DEFINE s == RefreshSidOf(p)
<1>2. CASE /\ sid' = [sid EXCEPT ![p] = RefreshSidOf(p)]
           /\ \E v \in RandVectors(p) :
                /\ draw' = [draw EXCEPT ![p] = v]
                /\ m1' = ToAll(m1, p, [sid |-> None, hc |-> Hc(p, RefreshSidOf(p)),
                                       c |-> Com(RefreshSidOf(p), p,
                                                 <<v, Proof(v, RefreshSidOf(p), p)>>)])
           /\ Enter(p, "r1")
           /\ UNCHANGED <<key, m0, m2>>
  <2>1. PICK v \in RandVectors(p) :
          /\ draw' = [draw EXCEPT ![p] = v]
          /\ m1' = ToAll(m1, p, [sid |-> None, hc |-> Hc(p, s), c |-> Com(s, p, <<v, Proof(v, s, p)>>)])
    BY <1>2
  <2> DEFINE msg == [sid |-> None, hc |-> Hc(p, s), c |-> Com(s, p, <<v, Proof(v, s, p)>>)]
  <2>2. v \in [Party -> Zq] /\ OnCurve(v)
    BY PartyFacts, ConstantTypes DEF OnCurve, RandVectors
  <2>3. /\ draw'[p] = v /\ sid'[p] = s /\ pc'[p] = "r1" /\ \A i \in Party : m1'[p][i] = msg
        /\ \A j \in Honest \ {p} : draw'[j] = draw[j] /\ sid'[j] = sid[j] /\ pc'[j] = pc[j]
        /\ \A j \in Party \ {p} : m1'[j] = m1[j]
        /\ DOMAIN m1' = Party /\ DOMAIN sid' = Honest
    <3> HIDE DEF s, msg
    <3> QED
      BY <1>2, <2>1, TypeFacts DEF Enter, ToAll, s, msg
  <2>4. key[p] = entry[p] /\ \A i \in Party : m1[p][i] = None /\ m2[p][i] = None
    BY <1>0 DEF PartyInv, Progress, Messages
  <2>5. Msg1(p)' = msg
    BY <1>0, <2>3, <2>4 DEF Msg1, EntryHc, Hc, Frame
  <2>6. SidFixed(p)'
    BY <1>0, <1>2, <2>3 DEF SidFixed, RefreshSidOf, Sids0, Frame
  <2> HIDE DEF msg, s
  <2>7. Solo(p)
    <3>1. \A j \in Honest : Kept(j)
      BY <1>2, <2>3, <2>4, TypeFacts DEF Kept
    <3>2. \A j \in Honest \ {p} : Untouched(j)
      BY <1>2, <2>3, TypeFacts DEF Untouched, SameRows
    <3> QED
      BY <2>3, <3>1, <3>2 DEF Solo
  <2>8. Messages(p)'
    BY <1>0, <1>2, <2>2, <2>3, <2>4, <2>5 DEF PartyInv, Messages
  <2>9. Progress(p)' /\ KeyOk(p)'
    BY <1>0, <1>2, <2>2, <2>3, <2>4, <2>5, <2>6 DEF PartyInv, Progress, KeyOk, Consistent, Frame
  <2>10. Honest' = Honest /\ Refreshing' = Refreshing
    BY DEF Frame, Honest, Refreshing
  <2>11. TypeOK'
    BY <1>2, <2>1, <2>2, <2>10 DEF IndInv, TypeOK, Frame, Enter
  <2>12. Shape'
    BY <1>0, <1>2, <2>3, <2>10 DEF IndInv, Shape, Frame
  <2> QED
    BY <2>7, <2>8, <2>9, <2>11, <2>12 DEF PartyInv, Steady
<1> QED
  BY <1>1, <1>2 DEF RefreshCommit

LEMMA RefreshOpenStep ==
  ASSUME IndInv, NEW p \in Honest, RefreshOpen(p), Frame, errs' = errs
  PROVE  Solo(p) /\ PartyInv(p)' /\ Steady
<1>0. /\ Refreshing /\ pc[p] = "r1" /\ \A j \in Party : m1[j][p] # None
      /\ PartyInv(p) /\ errs \in 0 .. setup.errors /\ p \in Party
      /\ kind # "dkg" /\ kind # "none"
  BY TypeFacts DEF RefreshOpen, IndInv, TypeOK, Refreshing
<1>1. CASE Reject(p)
  BY <1>0, <1>1, RejectStep
<1>2. CASE /\ \A j \in Party \ {p} : m1[j][p].hc = Hc(p, sid[p])
           /\ m2' = [m2 EXCEPT ![p] = [j \in Party |->
                       [sid |-> None, h |-> Coms(p), pt |-> draw[p], sh |-> draw[p][j],
                        pi |-> Proof(draw[p], sid[p], p)]]]
           /\ Enter(p, "r2")
           /\ UNCHANGED <<key, draw, sid, m0, m1>>
  <2>1. /\ pc'[p] = "r2"
        /\ \A i \in Party : m2'[p][i] = [sid |-> None, h |-> Coms(p), pt |-> draw[p],
                                         sh |-> draw[p][i], pi |-> Proof(draw[p], sid[p], p)]
        /\ \A j \in Honest \ {p} : pc'[j] = pc[j]
        /\ \A j \in Party \ {p} : m2'[j] = m2[j]
        /\ DOMAIN m2' = Party
    BY <1>2, TypeFacts DEF Enter
  <2>2. Coms(p)' = Coms(p) /\ Msg1(p)' = Msg1(p) /\ EntryHc(p)' = EntryHc(p)
    BY <1>2 DEF Coms, Msg1, EntryHc, Frame
  <2>3. \A i \in Party : m2'[p][i] = Msg2(p, i)'
    BY <1>0, <1>2, <2>1, <2>2 DEF Msg2, Frame
  <2>4. EntryHc(p) = Hc(p, sid[p])
    BY <1>0 DEF PartyInv, Progress, EntryHc, Hc
  <2>5. Checked1(p)'
    BY <1>0, <1>2, <2>2, <2>4 DEF Checked1, Frame
  <2>6. \A i \in Party : m2[p][i] = None
    BY <1>0 DEF PartyInv, Messages
  <2>7. Solo(p)
    <3>1. \A j \in Honest : Kept(j)
      BY <1>2, <2>1, <2>6, TypeFacts DEF Kept
    <3>2. \A j \in Honest \ {p} : Untouched(j)
      BY <1>2, <2>1, TypeFacts DEF Untouched, SameRows
    <3> QED
      BY <2>1, <3>1, <3>2 DEF Solo
  <2>8. Messages(p)'
    BY <1>0, <1>2, <2>1, <2>2, <2>3, <2>5 DEF PartyInv, Messages
  <2>9. SidFixed(p)' = SidFixed(p)
    BY <1>2 DEF SidFixed, Sids0, Frame
  <2>10. Progress(p)' /\ KeyOk(p)'
    BY <1>0, <1>2, <2>1, <2>2, <2>3, <2>5, <2>9
       DEF PartyInv, Progress, KeyOk, Consistent, Frame
  <2>11. Honest' = Honest /\ Refreshing' = Refreshing
    BY DEF Frame, Honest, Refreshing
  <2>12. TypeOK'
    BY <1>2, <2>11 DEF IndInv, TypeOK, Frame, Enter
  <2>13. Shape'
    BY <1>0, <1>2, <2>1, <2>11 DEF IndInv, Shape, Frame
  <2> QED
    BY <2>7, <2>8, <2>10, <2>12, <2>13 DEF PartyInv, Steady
<1> QED
  BY <1>1, <1>2 DEF RefreshOpen

(* The refreshed key is a key.                                             *)
LEMMA NewKeyType ==
  ASSUME IndInv, NEW p \in Honest, pc[p] = "r2", Refreshing,
         \A j \in Party \ {p} : RefreshAccepts(p, j)
  PROVE  NewKey(p) \in KeyShare /\ NewKey(p) = NewKeyFrom(entry[p], p)
<1>0. p \in Party /\ PartyInv(p) /\ key[p] = entry[p]
  BY TypeFacts DEF IndInv, PartyInv, Progress
<1>1. key[p] \in KeyShare
  BY <1>0 DEF IndInv, Shape
<1>2. \A j \in Party : \A l \in Party : m2[j][p].pt[l] \in Zq
  BY ReadType DEF RefreshAccepts
<1>3. draw[p] \in [Party -> Zq] /\ m2[p][p] = Msg2(p, p)
  BY <1>0 DEF IndInv, TypeOK, PartyInv, Progress
<1>4. \A j \in Party : m2[j][p].sh \in Zq
  <2>1. m2[p][p].sh \in Zq
    BY <1>0, <1>3 DEF Msg2, Refreshing
  <2> QED
    BY <1>0, <1>2, <2>1 DEF RefreshAccepts
<1>5. [j \in Party |-> draw[p][j] + m2[j][p].sh] \in [Party -> Int]
  <2> SUFFICES ASSUME NEW j \in Party PROVE draw[p][j] + m2[j][p].sh \in Int
    OBVIOUS
  <2>1. draw[p][j] \in Zq /\ m2[j][p].sh \in Zq
    BY <1>3, <1>4
  <2> QED
    BY <2>1, ZqPlus
<1>6. \A j \in Party : [l \in Party |-> m2[j][p].pt[l] + m2[l][p].pt[j]] \in [Party -> Int]
  <2> SUFFICES ASSUME NEW j \in Party, NEW l \in Party
               PROVE  m2[j][p].pt[l] + m2[l][p].pt[j] \in Int
    OBVIOUS
  <2>1. m2[j][p].pt[l] \in Zq /\ m2[l][p].pt[j] \in Zq
    BY <1>2
  <2> QED
    BY <2>1, ZqPlus
<1>7. NewShare(p) \in Zq
  <2> DEFINE d == Delta(p, [j \in Party |-> draw[p][j] + m2[j][p].sh])
  <2>1. d \in Int /\ key[p].x \in Int
    BY <1>0, <1>1, <1>5, DeltaType, PartyFacts DEF KeyShare
  <2> HIDE DEF d
  <2>2. key[p].x + d \in Int
    BY <2>1
  <2>3. (key[p].x + d) % q \in Zq
    BY <2>2, ModInZq
  <2> QED
    BY <2>3 DEF NewShare, d
<1>8. NewQis(p) \in [Party -> Zq]
  <2> SUFFICES ASSUME NEW j \in Party
               PROVE  (key[p].Qis[j] + Delta(j, [l \in Party |-> m2[j][p].pt[l] + m2[l][p].pt[j]])) % q \in Zq
    BY DEF NewQis
  <2> DEFINE d == Delta(j, [l \in Party |-> m2[j][p].pt[l] + m2[l][p].pt[j]])
  <2>1. d \in Int /\ key[p].Qis[j] \in Int
    BY <1>1, <1>6, DeltaType, PartyFacts DEF KeyShare
  <2> HIDE DEF d
  <2>2. key[p].Qis[j] + d \in Int
    BY <2>1
  <2>3. (key[p].Qis[j] + d) % q \in Zq
    BY <2>2, ModInZq
  <2> QED
    BY <2>3 DEF d
<1>9. NewKey(p) \in KeyShare
  BY <1>1, <1>7, <1>8 DEF NewKey, KeyShare
<1>10. NewKey(p) = NewKeyFrom(entry[p], p)
  BY <1>0 DEF NewKey, NewKeyFrom, NewShare, NewQis
<1> QED
  BY <1>9, <1>10

(* The sign rule: what the peers add to the public shares cancels out.     *)
LEMMA DeltasCancel ==
  ASSUME NEW D \in [Party -> [Party -> Int]], NEW Qis \in [Party -> Int], NEW R \in [Party -> Int],
         \A j \in Party : R[j] = (Qis[j] + Delta(j, [l \in Party |-> D[j][l] + D[l][j]])) % q
  PROVE  SUM(R) = SUM(Qis)
<1>0. Party \subseteq Int /\ IsFiniteSet(Party) /\ q \in Nat \ {0}
  BY PartyFacts
<1>1. \A j, l \in Party : D[j][l] + D[l][j] \in Int
  OBVIOUS
<1> DEFINE e == [j \in Party |-> [l \in Party |-> D[j][l] + D[l][j]]]
           h == [j \in Party |-> [l \in Party |-> IF l < j THEN e[j][l] ELSE - e[j][l]]]
           d == [j \in Party |-> SumFunctionOnSet(h[j], Party \ {j})]
           f == [j \in Party |-> Qis[j] + d[j]]
<1>2. e \in [Party -> [Party -> Int]] /\ \A j, l \in Party : e[j][l] = e[l][j]
  BY <1>1
<1>3. h \in [Party -> [Party -> Int]]
  <2> HIDE DEF e
  <2> QED
    BY <1>0, <1>2
<1>4. \A j, l \in Party : j # l => h[j][l] = - h[l][j]
  <2> HIDE DEF e
  <2> SUFFICES ASSUME NEW j \in Party, NEW l \in Party, j # l PROVE h[j][l] = - h[l][j]
    OBVIOUS
  <2>1. (l < j /\ ~ (j < l)) \/ (j < l /\ ~ (l < j))
    BY <1>0
  <2>2. e[j][l] \in Int /\ e[l][j] = e[j][l]
    BY <1>2
  <2>3. /\ h[j][l] = IF l < j THEN e[j][l] ELSE - e[j][l]
        /\ h[l][j] = IF j < l THEN e[l][j] ELSE - e[l][j]
    OBVIOUS
  <2> HIDE DEF h
  <2> QED
    BY <2>1, <2>2, <2>3
<1>5. ASSUME NEW j \in Party
      PROVE  Delta(j, [l \in Party |-> D[j][l] + D[l][j]]) = d[j]
  <2> DEFINE g == [l \in Party \ {j} |-> IF l < j THEN e[j][l] ELSE - e[j][l]]
  <2>1. IsFiniteSet(Party \ {j}) /\ \A l \in Party \ {j} : g[l] = h[j][l]
    BY <1>0, FS_Subset
  <2>2. Delta(j, e[j]) = SumFunctionOnSet(g, DOMAIN g)
    <3> HIDE DEF e
    <3> QED
      BY DEF Delta, SumFunction
  <2>3. DOMAIN g = Party \ {j} /\ e[j] = [l \in Party |-> D[j][l] + D[l][j]]
    OBVIOUS
  <2>4. d[j] = SumFunctionOnSet(h[j], Party \ {j})
    OBVIOUS
  <2> HIDE DEF g, h, e, d
  <2>5. SumFunctionOnSet(g, Party \ {j}) = SumFunctionOnSet(h[j], Party \ {j})
    BY <2>1, SumAgrees
  <2> QED
    BY <2>2, <2>3, <2>4, <2>5
<1>6. SumFunctionOnSet(d, Party) = 0
  <2> HIDE DEF h
  <2> QED
    BY <1>0, <1>3, <1>4, SumAntisymmetric
<1>7. d \in [Party -> Int]
  <2> SUFFICES ASSUME NEW j \in Party PROVE SumFunctionOnSet(h[j], Party \ {j}) \in Int
    OBVIOUS
  <2>1. h[j] \in [Party -> Int] /\ Party \ {j} \in SUBSET Party
    BY <1>3
  <2> HIDE DEF h
  <2> QED
    BY <1>0, <2>1, SumType
<1> HIDE DEF d, h, e
<1>8. f \in [Party -> Int]
  BY <1>7
<1>9. \A j \in Party : f[j] = Qis[j] + d[j]
  OBVIOUS
<1>10. \A j \in Party : R[j] = f[j] % q
  <2> SUFFICES ASSUME NEW j \in Party PROVE R[j] = f[j] % q
    OBVIOUS
  <2>1. R[j] = (Qis[j] + Delta(j, [l \in Party |-> D[j][l] + D[l][j]])) % q
    OBVIOUS
  <2>2. R[j] = (Qis[j] + d[j]) % q
    BY <1>5, <2>1, Zenon
  <2> QED
    BY <1>9, <2>2, Zenon
<1> HIDE DEF f
<1>11. SumFunctionOnSet(f, Party) = SumFunctionOnSet(Qis, Party) + SumFunctionOnSet(d, Party)
  <2>1. \A a, b, c \in [Party -> Int] :
          (\A j \in Party : c[j] = a[j] + b[j]) =>
             SumFunctionOnSet(c, Party) = SumFunctionOnSet(a, Party) + SumFunctionOnSet(b, Party)
    BY <1>0, SumPlusAll
  <2> QED
    BY <1>7, <1>8, <1>9, <2>1, Zenon
<1>12. SumFunctionOnSet(Qis, Party) \in Int
  BY <1>0, SumType
<1>13. SumFunctionOnSet(f, Party) = SumFunctionOnSet(Qis, Party)
  BY <1>6, <1>11, <1>12
<1>14. SumFunctionOnSet(R, Party) % q = SumFunctionOnSet(f, Party) % q
  BY <1>0, <1>8, <1>10, SumMod, Zenon
<1>15. DOMAIN R = Party /\ DOMAIN Qis = Party
  OBVIOUS
<1> QED
  BY <1>13, <1>14, <1>15 DEF SUM, SumFunction

(* The checks on what the peers sent, which come before the first write to *)
(* new_key, imply the two on the result, which come after it.              *)
LEMMA AcceptedKeyFits ==
  ASSUME IndInv, NEW p \in Honest, pc[p] = "r2", Refreshing,
         \A j \in Party \ {p} : RefreshAccepts(p, j)
  PROVE  Consistent(p, NewKey(p))
<1>0. /\ p \in Party /\ key[p] = entry[p] /\ key[p] # None
      /\ key[p] \in KeyShare /\ Consistent(p, key[p])
  <2>1. p \in Party /\ key[p] = entry[p] /\ key[p] # None
    BY TypeFacts DEF IndInv, PartyInv, Progress, Shape
  <2> QED
    BY <2>1 DEF IndInv, PartyInv, KeyOk, Shape
<1>1. \A j, l \in Party : m2[j][p].pt[l] \in Int
  <2>1. \A j, l \in Party : m2[j][p].pt[l] \in Zq
    BY ReadType DEF RefreshAccepts
  <2> QED
    BY <2>1, PartyFacts
<1>2. NewShare(p) = NewQis(p)[p]
  <2>1. m2[p][p].pt = draw[p] /\ m2[p][p].sh = draw[p][p]
    <3>1. m2[p][p] = Msg2(p, p)
      BY DEF IndInv, PartyInv, Progress
    <3> QED
      BY <3>1 DEF Msg2, Refreshing
  <2>2. \A j \in Party : draw[p][j] = m2[p][p].pt[j] /\ m2[j][p].sh = m2[j][p].pt[p]
    BY <2>1 DEF RefreshAccepts
  <2>3. [j \in Party |-> draw[p][j] + m2[j][p].sh] = [l \in Party |-> m2[p][p].pt[l] + m2[l][p].pt[p]]
    BY <2>2
  <2>4. key[p].x = key[p].Qis[p]
    BY <1>0 DEF Consistent
  <2> QED
    BY <1>0, <2>3, <2>4 DEF NewShare, NewQis
<1>3. SUM(NewQis(p)) = SUM(key[p].Qis)
  <2> DEFINE D == [j \in Party |-> [l \in Party |-> m2[j][p].pt[l]]]
  <2>1. D \in [Party -> [Party -> Int]]
    BY <1>1
  <2>2. key[p].Qis \in [Party -> Int] /\ NewQis(p) \in [Party -> Int]
    <3>1. NewKey(p) \in KeyShare
      BY NewKeyType
    <3>2. key[p].Qis \in [Party -> Zq] /\ NewQis(p) \in [Party -> Zq]
      BY <1>0, <3>1 DEF NewKey, KeyShare
    <3> QED
      BY <3>2, PartyFacts
  <2>3. ASSUME NEW j \in Party
        PROVE  NewQis(p)[j] = (key[p].Qis[j] + Delta(j, [l \in Party |-> D[j][l] + D[l][j]])) % q
    <3>1. [l \in Party |-> m2[j][p].pt[l] + m2[l][p].pt[j]] = [l \in Party |-> D[j][l] + D[l][j]]
      OBVIOUS
    <3> QED
      BY <3>1 DEF NewQis
  <2> HIDE DEF D
  <2> QED
    BY <2>1, <2>2, <2>3, DeltasCancel, Zenon
<1> QED
  BY <1>0, <1>2, <1>3 DEF Consistent, NewKey

LEMMA RefreshOutputStep ==
  ASSUME IndInv, NEW p \in Honest, RefreshOutput(p), Frame, errs' = errs
  PROVE  Solo(p) /\ PartyInv(p)' /\ Steady
<1>0. /\ Refreshing /\ pc[p] = "r2" /\ \A j \in Party : m2[j][p] # None
      /\ PartyInv(p) /\ errs \in 0 .. setup.errors /\ p \in Party
      /\ kind # "dkg" /\ kind # "none"
  BY TypeFacts DEF RefreshOutput, IndInv, TypeOK, Refreshing
<1>1. CASE Reject(p)
  BY <1>0, <1>1, RejectStep
<1>2. ASSUME \A j \in Party \ {p} : RefreshAccepts(p, j),
             key' = [key EXCEPT ![p] = NewKey(p)],
             Enter(p, "done"),
             UNCHANGED <<draw, sid, m0, m1, m2>>
      PROVE  Solo(p) /\ PartyInv(p)' /\ Steady
  <2>1. /\ \A j \in Party \ {p} : RefreshAccepts(p, j)
        /\ Consistent(p, NewKey(p))
    BY <1>0, <1>2, AcceptedKeyFits
  <2>2. NewKey(p) \in KeyShare /\ NewKey(p) = NewKeyFrom(entry[p], p)
    BY <1>0, <2>1, NewKeyType
  <2>3. NewKeyFrom(entry[p], p)' = NewKeyFrom(entry[p], p)
    BY <1>2 DEF NewKeyFrom, Frame
  <2>4. key'[p] = NewKey(p)
    BY <1>2, TypeFacts
  <2>5. \A j \in Party \ {p} : RefreshAccepts(p, j)'
    BY <1>2, <2>1 DEF RefreshAccepts, Coms
  <2>6. Finished(p)'
    BY <1>0, <1>2, <2>1, <2>2, <2>3, <2>4, <2>5 DEF Finished, Frame, Consistent
  <2> QED
    BY <1>0, <1>2, <2>1, <2>2, <2>6, ReturnStep
<1>3. CASE \A j \in Party \ {p} : RefreshAccepts(p, j)
  <2>1. Consistent(p, NewKey(p))
    BY <1>0, <1>3, AcceptedKeyFits
  <2>2. /\ key' = [key EXCEPT ![p] = NewKey(p)]
        /\ Enter(p, "done")
        /\ UNCHANGED <<draw, sid, m0, m1, m2>>
    BY <1>3, <2>1 DEF RefreshOutput
  <2> QED
    BY <1>2, <1>3, <2>2
<1> QED
  BY <1>1, <1>3 DEF RefreshOutput

LEMMA PartyStepKeeps ==
  ASSUME IndInv, NEW p \in Honest, PartyStep(p), Frame, errs' = errs
  PROVE  Solo(p) /\ PartyInv(p)' /\ Steady
<1>1. CASE PeerGone(p)
  <2>1. Reject(p) /\ pc[p] \in {"sid", "r1", "r2"}
    BY <1>1 DEF PeerGone
  <2>2. errs \in 0 .. setup.errors /\ kind # "none"
    BY <2>1 DEF IndInv, TypeOK, Shape
  <2> QED
    BY <2>1, <2>2, RejectStep
<1> QED
  BY <1>1, DkgCommitStep, DkgOpenStep, DkgOutputStep, RefreshSidStep, RefreshCommitStep,
     RefreshOpenStep, RefreshOutputStep DEF PartyStep

LEMMA ErrorKeeps ==
  ASSUME IndInv, NEW p \in Honest, TransportError(p), Frame
  PROVE  Solo(p) /\ PartyInv(p)' /\ Steady
<1>1. Reject(p) /\ pc[p] \in {"idle", "sid", "r1", "r2"} /\ errs < setup.errors /\ errs' = errs + 1
  BY DEF TransportError
<1>2. errs \in 0 .. setup.errors /\ setup.errors \in Nat /\ kind # "none"
  BY <1>1, ConstantTypes DEF IndInv, TypeOK, Shape, SetupType
<1> QED
  BY <1>1, <1>2, RejectStep

(* A faulty party's messages go where nothing was sent before.             *)
LEMMA FaultyKeeps ==
  ASSUME IndInv, NEW f \in setup.faulty, FaultyMsg0(f) \/ FaultyMsg1(f) \/ FaultyMsg2(f),
         Frame, errs' = errs
  PROVE  (\A j \in Honest : PartyInv(j)') /\ Steady /\ pc' = pc
<1>0. f \in Party /\ f \notin Honest
  BY ConstantTypes DEF IndInv, Shape, SetupType, Honest
<1>1. /\ UNCHANGED <<key, pc, draw, sid>>
      /\ \A j \in Party \ {f} : m0'[j] = m0[j] /\ m1'[j] = m1[j] /\ m2'[j] = m2[j]
      /\ DOMAIN m0' = Party /\ DOMAIN m1' = Party /\ DOMAIN m2' = Party
      /\ \A p \in Honest : /\ m0[f][p] # None => m0'[f] = m0[f]
                           /\ m1[f][p] # None => m1'[f] = m1[f]
                           /\ m2[f][p] # None => m2'[f] = m2[f]
  <2>1. CASE FaultyMsg0(f)
    <3>1. \E row : m0' = [m0 EXCEPT ![f] = row]
      BY <2>1 DEF FaultyMsg0, FaultySends
    <3> QED
      BY <2>1, <3>1, TypeFacts DEF FaultyMsg0
  <2>2. CASE FaultyMsg1(f)
    <3>1. \E row : m1' = [m1 EXCEPT ![f] = row]
      BY <2>2 DEF FaultyMsg1, FaultySends
    <3> QED
      BY <2>2, <3>1, TypeFacts DEF FaultyMsg1
  <2>3. CASE FaultyMsg2(f)
    <3>1. \E row : m2' = [m2 EXCEPT ![f] = row]
      BY <2>3 DEF FaultyMsg2, FaultySends
    <3> QED
      BY <2>3, <3>1, TypeFacts DEF FaultyMsg2
  <2> QED
    BY <2>1, <2>2, <2>3
<1>2. \A j \in Honest : Kept(j)
  BY <1>0, <1>1 DEF Kept
<1>3. \A j \in Honest : Untouched(j)
  BY <1>0, <1>1, TypeFacts DEF Untouched, SameRows
<1>4. ASSUME NEW j \in Honest PROVE PartyInv(j)'
  BY <1>1, <1>2, <1>3, Passive DEF IndInv
<1>5. Honest' = Honest /\ Refreshing' = Refreshing
  BY DEF Frame, Honest, Refreshing
<1>6. TypeOK'
  BY <1>1, <1>5 DEF IndInv, TypeOK, Frame
<1>7. Shape'
  BY <1>1, <1>5 DEF IndInv, Shape, Frame
<1> QED
  BY <1>1, <1>4, <1>6, <1>7 DEF Steady

-----------------------------------------------------------------------------
(* Parties that complete a session used the same messages.                 *)
LEMMA SameEntry ==
  ASSUME IndInv, Refreshing, NEW p \in Honest, NEW j \in Honest, Checked1(p)
  PROVE  EntryHc(p) = EntryHc(j)
<1>1. CASE p = j
  BY <1>1
<1>2. CASE p # j
  <2>1. m1[j][p] # None /\ m1[j][p].hc = EntryHc(p) /\ p \in Party /\ j \in Party
    BY <1>2, TypeFacts DEF Checked1
  <2>2. m1[j][p] = Msg1(j)
    BY <2>1 DEF IndInv, PartyInv, Messages
  <2>3. Msg1(j).hc = EntryHc(j)
    BY DEF Msg1, Refreshing
  <2> QED
    BY <2>1, <2>2, <2>3
<1> QED
  BY <1>1, <1>2

LEMMA SamePoints ==
  ASSUME IndInv, NEW p \in Honest, NEW j \in Honest, pc[p] = "done", pc[j] = "done", kind # "none"
  PROVE  \A l \in Party : m2[l][p].pt = m2[l][j].pt
<1>0. p \in Party /\ j \in Party /\ Finished(p) /\ Finished(j)
  BY TypeFacts DEF IndInv, PartyInv, Progress
<1>1. \A l \in Honest : m2[l][p] = Msg2(l, p) /\ m2[l][j] = Msg2(l, j)
  BY <1>0, TypeFacts DEF IndInv, PartyInv, Messages, Finished
<1>2. ASSUME NEW l \in Honest
      PROVE  m2[l][p].pt = draw[l] /\ m2[l][j].pt = draw[l] /\ m2[l][p].h = Coms(l)
  <2>1. Msg2(l, p).pt = draw[l] /\ Msg2(l, j).pt = draw[l] /\ Msg2(l, p).h = Coms(l)
    BY DEF Msg2
  <2> QED
    BY <1>1, <2>1
<1>3. CASE p = j
  BY <1>3
<1>4. CASE p # j
  <2>1. kind = "dkg" \/ Refreshing
    BY DEF IndInv, Shape, Refreshing
  <2>2. m2[j][p].h = Coms(p)
    BY <1>0, <1>4, <2>1 DEF Finished, DkgAccepts, RefreshAccepts
  <2>3. Coms(p) = Coms(j)
    BY <1>2, <2>2
  <2> SUFFICES ASSUME NEW l \in Party \ {p, j} PROVE m2[l][p].pt = m2[l][j].pt
    BY <1>2
  <2>4. m1[l][p].c = m1[l][j].c
    BY <2>3 DEF Coms
  <2>5. CASE kind = "dkg"
    BY <1>0, <2>4, <2>5 DEF Finished, DkgAccepts, Com
  <2>6. CASE Refreshing
    BY <1>0, <2>4, <2>6 DEF Finished, RefreshAccepts, Com
  <2> QED
    BY <2>1, <2>5, <2>6
<1> QED
  BY <1>3, <1>4

LEMMA SameKeys == IndInv => SameSessionSameKey
<1> SUFFICES ASSUME IndInv, NEW p \in Honest, NEW j \in Honest, pc[p] = "done", pc[j] = "done"
             PROVE  key[p].Q = key[j].Q /\ key[p].Qis = key[j].Qis /\ key[p].Qis[j] = key[j].x
  BY DEF SameSessionSameKey
<1>0. /\ p \in Party /\ j \in Party /\ Finished(p) /\ Finished(j)
      /\ kind = "dkg" \/ Refreshing
      /\ kind # "none"
  BY TypeFacts DEF IndInv, PartyInv, Progress, Shape, Refreshing
<1>1. \A l \in Party : m2[l][p].pt = m2[l][j].pt
  BY <1>0, SamePoints
<1>2. CASE kind = "dkg"
  <2>1. DkgQis(p) = DkgQis(j)
    BY <1>1 DEF DkgQis
  <2>2. /\ key[p] = [x |-> draw[p][p], Qis |-> DkgQis(p), Q |-> SUM(DkgQis(p))]
        /\ key[j] = [x |-> draw[j][j], Qis |-> DkgQis(j), Q |-> SUM(DkgQis(j))]
    BY <1>0, <1>2 DEF Finished
  <2>3. m2[j][j] = Msg2(j, j)
    BY DEF IndInv, PartyInv, Progress
  <2>4. DkgQis(j)[j] = draw[j][j]
    BY <1>0, <2>3 DEF DkgQis, Msg2
  <2> QED
    BY <2>1, <2>2, <2>4
<1>3. CASE Refreshing
  <2>1. Checked1(p)
    BY DEF IndInv, PartyInv, Progress
  <2>2. entry[p].Q = entry[j].Q /\ entry[p].Qis = entry[j].Qis
    BY <1>3, <2>1, SameEntry DEF EntryHc
  <2>3. /\ key[p] = NewKeyFrom(entry[p], p)
        /\ key[j] = NewKeyFrom(entry[j], j) /\ Consistent(j, key[j])
    BY <1>0, <1>3 DEF Finished
  <2>4. NewKeyFrom(entry[p], p).Qis = NewKeyFrom(entry[j], j).Qis
    <3>1. ASSUME NEW i \in Party
          PROVE  [l \in Party |-> m2[i][p].pt[l] + m2[l][p].pt[i]]
                   = [l \in Party |-> m2[i][j].pt[l] + m2[l][j].pt[i]]
      BY <1>1
    <3> QED
      BY <2>2, <3>1 DEF NewKeyFrom
  <2>5. NewKeyFrom(entry[p], p).Q = entry[p].Q /\ NewKeyFrom(entry[j], j).Q = entry[j].Q
    BY DEF NewKeyFrom
  <2> QED
    BY <2>2, <2>3, <2>4, <2>5 DEF Consistent
<1> QED
  BY <1>0, <1>2, <1>3

LEMMA NoMixing == IndInv => MixedSharesRefused
<1> SUFFICES ASSUME IndInv, Refreshing, NEW r \in Honest, pc[r] = "done", NEW p \in Honest, NEW j \in Honest
             PROVE  entry[p].Q = entry[j].Q /\ entry[p].Qis = entry[j].Qis
  BY DEF MixedSharesRefused, Refreshing
<1>1. Checked1(r)
  BY DEF IndInv, PartyInv, Progress
<1>2. EntryHc(r) = EntryHc(p) /\ EntryHc(r) = EntryHc(j)
  BY <1>1, SameEntry
<1> QED
  BY <1>2 DEF EntryHc

-----------------------------------------------------------------------------
(* Without errors and faulty parties everybody reads what everybody sent,  *)
(* and the session ids agree.                                              *)
LEMMA CleanReads ==
  ASSUME IndInv, Clean, session > 0, NEW p \in Honest
  PROVE  /\ Honest = Party
         /\ \A j \in Party : PartyInv(j) /\ pc[j] # "failed"
         /\ \A j \in Party : /\ m0[j][p] # None => m0[j][p] = SidShare(j, 0)
                             /\ m1[j][p] # None => m1[j][p] = Msg1(j) /\ OnCurve(draw[j])
                             /\ m2[j][p] # None => m2[j][p] = Msg2(j, p) /\ Checked1(j)
BY DEF IndInv, Clean, NoFalseAlarm, Honest, PartyInv, Messages

LEMMA CleanComs ==
  ASSUME IndInv, Clean, session > 0, NEW p \in Honest, Checked1(p)
  PROVE  Coms(p) = [l \in Party |-> Msg1(l).c] /\ Sids1(p) = [l \in Party |-> Msg1(l).sid]
<1>1. \A l \in Party : m1[l][p] = Msg1(l)
  BY CleanReads DEF Checked1
<1> QED
  BY <1>1 DEF Coms, Sids1

LEMMA CleanSid ==
  ASSUME IndInv, Clean, session > 0, Refreshing, NEW p \in Honest, pc[p] \in {"r1", "r2", "done"}
  PROVE  sid[p] = IF kind = "refresh" THEN [l \in Party |-> SidShare(l, 0)] ELSE "given"
<1>1. SidFixed(p)
  BY DEF IndInv, PartyInv, Progress
<1>2. kind = "refresh" => Sids0(p) = [l \in Party |-> SidShare(l, 0)]
  BY <1>1, CleanReads DEF SidFixed, Sids0
<1> QED
  BY <1>1, <1>2 DEF SidFixed, Refreshing

LEMMA CleanHc ==
  ASSUME IndInv, Clean, session > 0, Refreshing, NEW p \in Honest, pc[p] \in {"r1", "r2"},
         NEW j \in Party, m1[j][p] # None
  PROVE  sid[j] = sid[p] /\ EntryHc(j) = EntryHc(p)
<1>1. j \in Honest /\ pc[j] \in {"r1", "r2", "done"}
  BY CleanReads DEF IndInv, TypeOK, PartyInv, Messages
<1>2. sid[j] = sid[p]
  BY <1>1, CleanSid
<1>3. entry[p] # None /\ entry[j] # None /\ SamePublic(entry)
  BY <1>1 DEF IndInv, Shape, CleanRuns
<1> QED
  BY <1>1, <1>2, <1>3 DEF SamePublic, EntryHc

LEMMA CleanDkgAccepts ==
  ASSUME IndInv, Clean, session > 0, kind = "dkg", NEW p \in Honest, pc[p] = "r2",
         NEW j \in Party, m2[j][p] # None
  PROVE  DkgAccepts(p, j)
<1>1. Checked1(p) /\ j \in Honest /\ Checked1(j) /\ m2[j][p] = Msg2(j, p)
  BY CleanReads DEF IndInv, PartyInv, Progress
<1>2. Coms(p) = Coms(j) /\ sid[p] = sid[j]
  BY <1>1, CleanComs DEF Checked1
<1>3. m1[j][p] = Msg1(j) /\ OnCurve(draw[j])
  BY <1>1, CleanReads DEF Checked1
<1>4. /\ Msg2(j, p).sid = sid[j] /\ Msg2(j, p).h = Coms(j) /\ Msg2(j, p).pt = draw[j]
      /\ Msg2(j, p).pi = Proof(draw[j], sid[j], j)
  BY DEF Msg2
<1>5. Msg1(j).sid = SidShare(j, 0) /\ Msg1(j).c = Com(SidShare(j, 0), j, draw[j])
  BY DEF Msg1
<1> QED
  BY <1>1, <1>2, <1>3, <1>4, <1>5 DEF DkgAccepts

LEMMA CleanRefreshAccepts ==
  ASSUME IndInv, Clean, session > 0, Refreshing, NEW p \in Honest, pc[p] = "r2",
         NEW j \in Party, m2[j][p] # None
  PROVE  RefreshAccepts(p, j)
<1>1. Checked1(p) /\ j \in Honest /\ Checked1(j) /\ m2[j][p] = Msg2(j, p)
  BY CleanReads DEF IndInv, PartyInv, Progress
<1>2. m1[j][p] # None /\ m1[j][p] = Msg1(j) /\ OnCurve(draw[j])
  BY <1>1, CleanReads DEF Checked1
<1>3. Coms(p) = Coms(j) /\ sid[p] = sid[j]
  BY <1>1, <1>2, CleanComs, CleanHc
<1>4. /\ Msg2(j, p).h = Coms(j) /\ Msg2(j, p).pt = draw[j] /\ Msg2(j, p).sh = draw[j][p]
      /\ Msg2(j, p).pi = Proof(draw[j], sid[j], j)
  BY DEF Msg2, Refreshing
<1>5. Msg1(j).c = Com(sid[j], j, <<draw[j], Proof(draw[j], sid[j], j)>>)
  BY DEF Msg1, Refreshing
<1> QED
  BY <1>1, <1>2, <1>3, <1>4, <1>5 DEF RefreshAccepts

(* No check of an undisturbed session rejects.                             *)
LEMMA CleanStep ==
  ASSUME IndInv, Clean, session > 0, NEW p \in Honest, PartyStep(p)
  PROVE  pc'[p] # "failed"
<1>0. p \in Party /\ DOMAIN pc = Honest /\ PartyInv(p)
  BY TypeFacts DEF IndInv
<1>1. CASE DkgCommit(p) \/ RefreshSid(p)
  BY <1>0, <1>1 DEF DkgCommit, RefreshSid, Enter
<1>2. CASE DkgOpen(p)
  <2>1. \A j \in Party : m1[j][p].hc = "curve"
    <3> SUFFICES ASSUME NEW j \in Party PROVE m1[j][p].hc = "curve"
      OBVIOUS
    <3>1. m1[j][p] = Msg1(j) /\ kind = "dkg"
      BY <1>2, CleanReads DEF DkgOpen
    <3>2. Msg1(j).hc = "curve"
      BY <3>1 DEF Msg1
    <3> QED
      BY <3>1, <3>2
  <2> QED
    BY <1>0, <1>2, <2>1 DEF DkgOpen, Enter
<1>3. CASE DkgOutput(p)
  <2>1. \A j \in Party : DkgAccepts(p, j)
    BY <1>3, CleanDkgAccepts DEF DkgOutput
  <2> QED
    BY <1>0, <1>3, <2>1 DEF DkgOutput, Enter
<1>4. CASE RefreshCommit(p)
  <2>1. SidSharesOk(p)
    <3> SUFFICES ASSUME kind = "refresh", NEW j \in Party PROVE m0[j][p][2] < 2
      BY DEF SidSharesOk
    <3>1. m0[j][p] = <<j, 0>>
      BY <1>4, CleanReads DEF RefreshCommit, SidShare
    <3> QED
      BY <3>1
  <2>2. key[p] # None /\ Consistent(p, key[p])
    BY <1>0, <1>4 DEF RefreshCommit, IndInv, Shape, Refreshing, PartyInv, Progress, KeyOk
  <2> QED
    BY <1>0, <1>4, <2>1, <2>2 DEF RefreshCommit, Enter
<1>5. CASE RefreshOpen(p)
  <2>1. \A j \in Party : m1[j][p].hc = Hc(p, sid[p])
    <3> SUFFICES ASSUME NEW j \in Party PROVE m1[j][p].hc = Hc(p, sid[p])
      OBVIOUS
    <3>1. Refreshing /\ m1[j][p] # None /\ m1[j][p] = Msg1(j) /\ pc[p] = "r1"
      BY <1>5, CleanReads DEF RefreshOpen, Refreshing
    <3>2. Msg1(j).hc = EntryHc(j)
      BY <3>1 DEF Msg1, Refreshing
    <3>3. EntryHc(j) = EntryHc(p)
      BY <3>1, CleanHc
    <3>4. EntryHc(p) = Hc(p, sid[p])
      BY <1>0, <3>1 DEF EntryHc, Hc, PartyInv, Progress
    <3> QED
      BY <3>1, <3>2, <3>3, <3>4
  <2> QED
    BY <1>0, <1>5, <2>1 DEF RefreshOpen, Enter
<1>6. CASE RefreshOutput(p)
  <2>1. Refreshing /\ pc[p] = "r2" /\ \A j \in Party : m2[j][p] # None
    BY <1>6 DEF RefreshOutput, Refreshing
  <2>2. \A j \in Party \ {p} : RefreshAccepts(p, j)
    BY <2>1, CleanRefreshAccepts
  <2>3. Consistent(p, NewKey(p))
    BY <2>1, <2>2, AcceptedKeyFits
  <2> QED
    BY <1>0, <1>6, <2>2, <2>3 DEF RefreshOutput, Enter
<1>7. CASE PeerGone(p)
  BY <1>7, CleanReads DEF PeerGone
<1> QED
  BY <1>1, <1>2, <1>3, <1>4, <1>5, <1>6, <1>7 DEF PartyStep

-----------------------------------------------------------------------------
(* Every step keeps the invariant.                                         *)
LEMMA NewSessionKeeps ==
  ASSUME IndInv, NEW k \in {"dkg", "refresh", "refresh_sid"}, NewSession(k)
  PROVE  IndInv'
<1>0. /\ session < setup.sessions /\ \A p \in Honest : pc[p] \in {"done", "failed"}
      /\ k # "dkg" => \A p \in Honest : key[p] # None
      /\ kind' = k /\ session' = session + 1 /\ entry' = key
      /\ pc' = [p \in Honest |-> "idle"] /\ sid' = [p \in Honest |-> None]
      /\ m0' = Blank /\ m1' = Blank /\ m2' = Blank
      /\ UNCHANGED <<setup, key, draw, errs>>
  BY DEF NewSession
<1>1. Honest' = Honest /\ Honest \subseteq Party
  BY <1>0, TypeFacts DEF Honest
<1>2. session \in Nat /\ session' \in 0 .. setup.sessions /\ session' > 0
  <2>1. setup.sessions \in Nat /\ session \in 0 .. setup.sessions
    BY ConstantTypes DEF IndInv, TypeOK, Shape, SetupType
  <2> QED
    BY <1>0, <2>1
<1>3. TypeOK'
  BY <1>0, <1>1, <1>2 DEF IndInv, TypeOK
<1>4. Shape'
  BY <1>0, <1>1, <1>2 DEF IndInv, TypeOK, Shape, Blank, Refreshing
<1>5. ASSUME NEW p \in Honest PROVE PartyInv(p)'
  <2>1. \A i \in Party : m0'[p][i] = None /\ m1'[p][i] = None /\ m2'[p][i] = None
    BY <1>0, <1>1 DEF Blank
  <2>2. pc'[p] = "idle" /\ key'[p] = entry'[p]
    BY <1>0
  <2>3. Messages(p)'
    BY <1>1, <2>1, <2>2 DEF Messages
  <2>4. Progress(p)'
    BY <2>2 DEF Progress
  <2>5. KeyOk(p)'
    BY <1>0 DEF IndInv, PartyInv, KeyOk, Consistent
  <2> QED
    BY <2>3, <2>4, <2>5 DEF PartyInv
<1>6. CleanRuns'
  <2> SUFFICES ASSUME Clean', Refreshing' PROVE SamePublic(key)
    BY <1>0, <1>1, <1>2 DEF CleanRuns, SamePublic
  <2>1. Clean
    BY <1>0 DEF Clean
  <2>2. CASE session = 0
    BY <2>1, <2>2 DEF IndInv, CleanRuns
  <2>3. CASE session # 0
    <3>1. session > 0
      BY <1>2, <2>3
    <3>2. \A p \in Honest : pc[p] = "done"
      BY <1>0, <2>1, <3>1 DEF IndInv, NoFalseAlarm, Clean
    <3> QED
      BY <3>2, SameKeys DEF SameSessionSameKey, SamePublic
  <2> QED
    BY <2>2, <2>3
<1>7. NoFalseAlarm'
  BY <1>0, <1>1 DEF NoFalseAlarm
<1> QED
  BY <1>1, <1>3, <1>4, <1>5, <1>6, <1>7 DEF IndInv

LEMMA NextInd == IndInv /\ [Next]_vars => IndInv'
<1> SUFFICES ASSUME IndInv, [Next]_vars PROVE IndInv'
  OBVIOUS
<1>1. CASE \E k \in {"dkg", "refresh", "refresh_sid"} : NewSession(k)
  BY <1>1, NewSessionKeeps
<1>2. ASSUME (\A p \in Honest : PartyInv(p)'), Steady, NoFalseAlarm',
             errs' = errs \/ errs' # 0
      PROVE  IndInv'
  <2>1. Honest' = Honest /\ Refreshing' = Refreshing
    BY <1>2 DEF Steady, Frame, Honest, Refreshing
  <2>2. CleanRuns'
    <3>1. Clean' => Clean
      BY <1>2 DEF Clean, Steady, Frame
    <3>2. session' = 0 => kind = "none" /\ session = 0
      BY <1>2 DEF Steady, Frame, IndInv, Shape
    <3>3. kind = "none" => \A p \in Honest : key'[p] = entry[p] /\ key[p] = entry[p]
      <4>1. kind = "none" => \A p \in Honest : pc'[p] # "done" /\ pc[p] # "done"
        BY <1>2, <2>1 DEF Steady, Shape, Frame, IndInv
      <4> QED
        BY <1>2, <4>1 DEF IndInv, PartyInv, Progress, Steady, Frame
    <3> QED
      BY <1>2, <2>1, <3>1, <3>2, <3>3 DEF IndInv, CleanRuns, SamePublic, Steady, Frame
  <2> QED
    BY <1>2, <2>1, <2>2 DEF IndInv, Steady
<1>3. ASSUME NEW p \in Honest, PartyStep(p), UNCHANGED <<setup, entry, kind, session, errs>>
      PROVE  IndInv'
  <2>1. Solo(p) /\ PartyInv(p)' /\ Steady
    BY <1>3, PartyStepKeeps DEF Frame
  <2>2. \A j \in Honest : PartyInv(j)'
    BY <2>1, SoloKeeps DEF Steady
  <2>3. NoFalseAlarm'
    <3> SUFFICES ASSUME Clean, session > 0, NEW j \in Honest PROVE pc'[j] # "failed"
      BY <1>3 DEF NoFalseAlarm, Clean, Honest
    <3>1. CASE j = p
      BY <1>3, <3>1, CleanStep
    <3>2. CASE j # p
      BY <2>1, <3>2 DEF Solo, IndInv, NoFalseAlarm, Clean
    <3> QED
      BY <3>1, <3>2
  <2> QED
    BY <1>2, <1>3, <2>1, <2>2, <2>3
<1>4. ASSUME NEW p \in Honest, TransportError(p), UNCHANGED <<setup, entry, kind, session>>
      PROVE  IndInv'
  <2>1. Solo(p) /\ PartyInv(p)' /\ Steady
    BY <1>4, ErrorKeeps DEF Frame
  <2>2. \A j \in Honest : PartyInv(j)'
    BY <2>1, SoloKeeps DEF Steady
  <2>3. errs' # 0
    <3>1. errs \in Int /\ errs >= 0 /\ errs' = errs + 1
      BY <1>4 DEF TransportError, IndInv, TypeOK
    <3> QED
      BY <3>1
  <2>4. NoFalseAlarm'
    BY <2>3 DEF NoFalseAlarm
  <2> QED
    BY <1>2, <2>1, <2>2, <2>3, <2>4
<1>5. ASSUME NEW f \in setup.faulty, FaultyMsg0(f) \/ FaultyMsg1(f) \/ FaultyMsg2(f),
             UNCHANGED <<setup, entry, kind, session, errs>>
      PROVE  IndInv'
  <2>1. (\A j \in Honest : PartyInv(j)') /\ Steady
    BY <1>5, FaultyKeeps DEF Frame
  <2>2. NoFalseAlarm'
    BY <1>5 DEF NoFalseAlarm
  <2> QED
    BY <1>2, <1>5, <2>1, <2>2
<1>6. CASE UNCHANGED vars
  <2>1. Frame /\ errs' = errs /\ pc' = pc /\ \A p \in Honest : Kept(p) /\ Untouched(p)
    BY <1>6 DEF vars, Frame, Kept, Untouched, SameRows
  <2>2. \A p \in Honest : PartyInv(p)'
    BY <2>1, Passive DEF IndInv
  <2>3. TypeOK' /\ NoFalseAlarm'
    BY <1>6 DEF vars, IndInv, TypeOK, NoFalseAlarm, Honest
  <2>4. Shape'
    BY <1>6 DEF vars, IndInv, Shape, Honest, Refreshing
  <2> QED
    BY <1>2, <2>1, <2>2, <2>3, <2>4 DEF Steady
<1> QED
  BY <1>1, <1>3, <1>4, <1>5, <1>6 DEF Next

-----------------------------------------------------------------------------
(* The invariant of key_share_mp_t::dkg and ::refresh holds in every       *)
(* reachable state, for all N, q, faulty sets, sessions and errors.        *)
THEOREM Inductive == Spec => []IndInv
BY InitInd, NextInd, PTL DEF Spec

(* The stored key of a party is always a key: a scalar and public shares   *)
(* that are scalars, never a value read from a message unchecked.          *)
THEOREM TypesHold == Spec => []TypeOK
<1>1. IndInv => TypeOK
  BY DEF IndInv
<1> QED
  BY <1>1, Inductive, PTL

(* Honest parties that complete the same dkg or refresh hold the same Q    *)
(* and Qis, and each one's x_share is the share the others have for it,    *)
(* whatever the faulty parties send to whom: the echo h of the commitments *)
(* forces one opening on all.                                              *)
THEOREM SameKeyHolds == Spec => []SameSessionSameKey
BY SameKeys, Inductive, PTL

(* A refresh completes nowhere unless all honest parties entered it with   *)
(* the same Q and Qis: h_consistency refuses a mix of old and new shares.  *)
THEOREM MixingRefused == Spec => []MixedSharesRefused
BY NoMixing, Inductive, PTL

(* Without errors and faulty parties no check of dkg or refresh rejects,   *)
(* in any session: for every number of parties the signs of the r._ij      *)
(* cancel out in Q = SUM(Qis) and match in x_share * G = Qi.               *)
THEOREM NoFalseAlarmHolds == Spec => []NoFalseAlarm
<1>1. IndInv => NoFalseAlarm
  BY DEF IndInv
<1> QED
  BY <1>1, Inductive, PTL

(* A dkg or refresh that has not succeeded leaves its party's key as it    *)
(* was, whatever the faulty parties send and even if refresh writes to the *)
(* stored object: once the peers' messages are accepted, neither of the    *)
(* two checks that follow the update of new_key can fail.                  *)
THEOREM FailureHarmless == Spec => []FailureKeepsKey
<1>1. IndInv => FailureKeepsKey
  BY DEF IndInv, PartyInv, Progress, FailureKeepsKey
<1> QED
  BY <1>1, Inductive, PTL
=============================================================================
