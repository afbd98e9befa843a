---------------------------- MODULE SignMpProofs ----------------------------
(***************************************************************************)
(* Multi-party signing: what holds for every number of parties, any set of *)
(* faulty ones, every group and every batch of calls.                      *)
(***************************************************************************)
EXTENDS SignMp, ArithTheorems

(* p has everybody's message of round k, and what p found when it went on. *)
Full(p, k) == \A j \in Party : Msg(p, k, j) # None

Checked(p, k) ==
  /\ k = 1 => SameInputs(p)
  /\ k = 2 => AllOpen(p)
  /\ k = 6 => Proved6(p)
  /\ k = 7 => Proved7(p)
  /\ k = 8 => Proved8(p) /\ ProductsRight(p)

Passed(p, k) == Full(p, k) /\ Checked(p, k)

(* The rounds behind a party that sends round rd: in Schnorr signing, the  *)
(* shares follow on the second.                                            *)
Stage(p, rd) == \A k \in 1 .. rd - 1 : (Ecdsa \/ k <= 2) => Passed(p, k)

Products(p) ==
  [eRHO_K |-> rho_k(p), eRHO_X |-> rho_x(p),
   F_K |-> (draw[p].rho * eK(p)) % q, F_X |-> (draw[p].rho * Key(p).Q) % q]

Beta(p) == (r(p) * rho_x(p) + arg[p].msgs[1] * draw[p].rho) % q

(* What an honest party sends in round rd.                                 *)
Made(p, rd, m) ==
  /\ rd = 1 => KeyOk(p)
  /\ rd = 1 => m.c = Com(SidShare(p, 0), p, Opening(p)) /\ m.hc = h_consistency(p)
  /\ rd = 2 => m.h = Echo(p) /\ m.v = Opening(p)
  /\ rd = 4 => m.v = [eK |-> draw[p].k[1], eRHO |-> draw[p].rho]
  /\ rd = 6 => m.v = Products(p)
  /\ rd = 7 => m.h = View(p) /\ m.v = [Z_K |-> Y_K(p), Z_X |-> Y_X(p)]
  /\ rd = 8 => m.K = draw[p].k[1] /\ m.h2 = View7(p)
  /\ (rd = 9 /\ ~ Ecdsa) => m.ss = SchnorrShare(p)
  /\ (rd = 9 /\ Ecdsa) => m.v = <<rho_k(p), Beta(p)>> /\ m.pi = Proof(Public9(p, p), m.v, p)

(* What the messages of a faulty party come to for p: scalars, and proofs  *)
(* that show what is true, whatever they are sent with.                    *)
ProductType == [eRHO_K : Int, eRHO_X : Int, F_K : Int, F_X : Int]

Multiplied(p, j, v) ==
  /\ v.F_K = (Msg(p, 4, j).v.eRHO * eK(p)) % q
  /\ v.F_X = (Msg(p, 4, j).v.eRHO * Key(p).Q) % q

ProofShows(p, f, rd, m) ==
  /\ rd = 4 => m.v.eK \in Int /\ m.v.eRHO \in Int
  /\ rd = 6 => \E v \in ProductType : m.pi = Proof(Public6(p, f), v, f) /\ Multiplied(p, f, v)
  /\ rd = 7 => \E o \in {0, 1} :
                 m.pi = Proof(Public7(p), [Z_K |-> (o * Y_K(p)) % q, Z_X |-> (o * Y_X(p)) % q], f)
  /\ rd = 8 => m.pi = Proof(Public8(p, f), Msg(p, 4, f).v.eK, f)
  /\ (rd = 9 /\ Ecdsa) => m.pi = Proof(Public9(p, f), <<Public9(p, f)[3], Public9(p, f)[4]>>, f)

Types ==
  /\ setup \in Setups /\ arg \in setup.args
  /\ DOMAIN draw = Honest /\ \A p \in Honest : draw[p] \in Draws[p]
  /\ pc \in [Honest -> 0 .. BadSig]
  /\ DOMAIN sent = 1 .. Release
  /\ \A rd \in 1 .. Release : /\ DOMAIN sent[rd] = Party
                             /\ \A j \in Party : DOMAIN sent[rd][j] = Party

(* Where a party is, and what it has sent, tell what it has checked.       *)
Where ==
  \A p \in Honest : /\ pc[p] \in 1 .. Release => Stage(p, pc[p])
                    /\ pc[p] \in 3 .. 8 => Ecdsa

SentInOrder ==
  \A p \in Honest : \A rd \in 1 .. Release : \A j \in Party : sent[rd][p][j] # None =>
    /\ pc[p] >= rd /\ (rd \in 3 .. 8 => Ecdsa)
    /\ Stage(p, rd) /\ Made(p, rd, sent[rd][p][j])

FaultyProofs ==
  \A p \in Honest : \A rd \in 1 .. Release : \A f \in setup.faulty : sent[rd][f][p] # None =>
    /\ rd \in 3 .. 8 => Ecdsa
    /\ Stage(p, rd) /\ ProofShows(p, f, rd, sent[rd][f][p])

IndInv == Types /\ Where /\ SentInOrder /\ FaultyProofs

-----------------------------------------------------------------------------
(* A message that was received stays: nobody sends a round twice.          *)
Kept ==
  /\ setup' = setup /\ arg' = arg /\ draw' = draw
  /\ \A rd \in 1 .. Release : \A j, p \in Party :
       sent[rd][j][p] # None => sent'[rd][j][p] = sent[rd][j][p]

LEMMA HonestParty == Honest \subseteq Party /\ Release = 9
BY DEF Honest, Release

LEMMA RoundKept ==
  ASSUME Kept, NEW p \in Party, NEW k \in 1 .. Release, Full(p, k)
  PROVE  (\A j \in Party : Msg(p, k, j)' = Msg(p, k, j)) /\ Full(p, k)'
BY DEF Kept, Full, Msg

(* What p has computed from full rounds stays as it is.                    *)
Same(p, k) == \A j \in Party : Msg(p, k, j)' = Msg(p, k, j)

LEMMA FixedValues ==
  ASSUME Kept, NEW p
  PROVE  /\ Ecdsa' = Ecdsa /\ Key(p)' = Key(p) /\ Opening(p)' = Opening(p)
         /\ h_consistency(p)' = h_consistency(p) /\ Honest' = Honest
         /\ KeyOk(p)' = KeyOk(p)
BY DEF Kept, Ecdsa, Key, Opening, h_consistency, Honest, KeyOk

LEMMA Round1Values ==
  ASSUME Kept, NEW p, Same(p, 1)
  PROVE  Sid(p)' = Sid(p) /\ Echo(p)' = Echo(p) /\ SameInputs(p)' = SameInputs(p)
<1>1. Sid(p)' = Sid(p)
  BY DEF Same, Sid
<1>2. Echo(p)' = Echo(p)
  BY DEF Same, Echo
<1>3. SameInputs(p)' = SameInputs(p)
  BY FixedValues DEF Same, SameInputs, Others
<1> QED
  BY <1>1, <1>2, <1>3

LEMMA Round2Values ==
  ASSUME Kept, NEW p, Same(p, 1), Same(p, 2)
  PROVE  AllOpen(p)' = AllOpen(p) /\ E(p)' = E(p) /\ \A l : R(p, l)' = R(p, l)
<1>1. \A j \in Others(p) : Opens(p, j)' = Opens(p, j)
  BY FixedValues, Round1Values DEF Same, Opens, Others
<1>2. E(p)' = E(p)
  BY DEF Same, E
<1>3. \A l : R(p, l)' = R(p, l)
  BY DEF Same, R
<1> QED
  BY <1>1, <1>2, <1>3 DEF AllOpen, Others

LEMMA Round4Values ==
  ASSUME Kept, NEW p, Same(p, 4)
  PROVE  eK(p)' = eK(p) /\ Products(p)' = Products(p) /\ rho_k(p)' = rho_k(p) /\ rho_x(p)' = rho_x(p)
<1>1. eK(p)' = eK(p)
  BY DEF Same, eK
<1>2. draw' = draw /\ Key(p)' = Key(p) /\ \A j \in Others(p) : Msg(p, 4, j)' = Msg(p, 4, j)
  BY FixedValues DEF Kept, Same, Others
<1>3. rho_k(p)' = rho_k(p)
  BY <1>2 DEF rho_k
<1>4. rho_x(p)' = rho_x(p)
  BY <1>2 DEF rho_x
<1>5. Products(p)' = Products(p)
  BY <1>1, <1>2, <1>3, <1>4 DEF Products
<1> QED
  BY <1>1, <1>3, <1>4, <1>5

LEMMA Round6Values ==
  ASSUME Kept, NEW p \in Party, Same(p, 1), Same(p, 2), Same(p, 4), Same(p, 6)
  PROVE  /\ View(p)' = View(p) /\ Y_K(p)' = Y_K(p) /\ Y_X(p)' = Y_X(p)
         /\ \A j \in Party : Public6(p, j)' = Public6(p, j)
         /\ Public7(p)' = Public7(p) /\ Proved6(p)' = Proved6(p)
<1>1. View(p)' = View(p)
  BY DEF Same, View
<1>2. \A x : Sum6(p, x)' = Sum6(p, x)
  BY DEF Same, Sum6
<1>3. Y_K(p)' = Y_K(p) /\ Y_X(p)' = Y_X(p)
  BY <1>2 DEF Y_K, Y_X
<1>4. \A j \in Party : Public6(p, j)' = Public6(p, j)
  BY FixedValues, Round1Values, Round2Values, Round4Values DEF Same, Public6
<1>5. Public7(p)' = Public7(p)
  BY <1>3, Round1Values, Round2Values DEF Public7
<1>6. Proved6(p)' = Proved6(p)
  BY <1>4 DEF Proved6, Others, Same
<1> QED
  BY <1>1, <1>3, <1>4, <1>5, <1>6

LEMMA Round7Values ==
  ASSUME Kept, NEW p \in Party, Same(p, 1), Same(p, 2), Same(p, 4), Same(p, 6), Same(p, 7)
  PROVE  /\ View7(p)' = View7(p) /\ Z_K(p)' = Z_K(p) /\ Z_X(p)' = Z_X(p)
         /\ \A j \in Party : Public8(p, j)' = Public8(p, j)
         /\ Proved7(p)' = Proved7(p)
<1>1. View7(p)' = View7(p)
  BY Round6Values DEF Same, View7
<1>2. Z_K(p)' = Z_K(p)
  BY DEF Same, Z_K
<1>3. Z_X(p)' = Z_X(p)
  BY DEF Same, Z_X
<1>4. \A j \in Party : Public8(p, j)' = Public8(p, j)
  BY <1>2, <1>3, Round1Values, Round2Values DEF Same, Public8
<1>5. Proved7(p)' = Proved7(p)
  BY Round6Values DEF Proved7, Others, Same
<1> QED
  BY <1>1, <1>2, <1>3, <1>4, <1>5

LEMMA Round8Values ==
  ASSUME Kept, NEW p \in Party, Same(p, 1), Same(p, 2), Same(p, 4), Same(p, 6), Same(p, 7), Same(p, 8)
  PROVE  /\ Proved8(p)' = Proved8(p) /\ ProductsRight(p)' = ProductsRight(p)
         /\ r(p)' = r(p) /\ \A j \in Party : Public9(p, j)' = Public9(p, j)
<1>1. Proved8(p)' = Proved8(p)
  BY Round7Values DEF Same, Proved8, Others
<1>2. ProductsRight(p)' = ProductsRight(p)
  BY Round7Values DEF ProductsRight
<1>3. r(p)' = r(p)
  BY DEF Same, r
<1>4. \A j \in Party : Public9(p, j)' = Public9(p, j)
  BY <1>3, Round1Values, Round2Values DEF Same, Public9, Kept
<1> QED
  BY <1>1, <1>2, <1>3, <1>4

LEMMA StageSame ==
  ASSUME Kept, NEW p \in Party, NEW rd \in 1 .. Release, Stage(p, rd)
  PROVE  \A k \in 1 .. rd - 1 : (Ecdsa \/ k <= 2) => Same(p, k) /\ Full(p, k)'
<1> SUFFICES ASSUME NEW k \in 1 .. rd - 1, Ecdsa \/ k <= 2
             PROVE  Same(p, k) /\ Full(p, k)'
  OBVIOUS
<1>1. k \in 1 .. Release /\ Full(p, k)
  BY HonestParty DEF Stage, Passed
<1> QED
  BY <1>1, RoundKept DEF Same

LEMMA CheckedKept ==
  ASSUME Kept, NEW p \in Party, NEW k \in 1 .. 8, Checked(p, k),
         \A l \in 1 .. k : (Ecdsa \/ l <= 2) => Same(p, l),
         Ecdsa \/ k <= 2
  PROVE  Checked(p, k)'
<1>1. CASE k = 1
  BY <1>1, Round1Values DEF Checked
<1>2. CASE k = 2
  BY <1>2, Round2Values DEF Checked
<1>3. CASE k \in {3, 4, 5}
  BY <1>3 DEF Checked
<1>4. CASE k = 6
  BY <1>4, Round6Values DEF Checked
<1>5. CASE k = 7
  BY <1>5, Round7Values DEF Checked
<1>6. CASE k = 8
  BY <1>6, Round8Values DEF Checked
<1> QED
  BY <1>1, <1>2, <1>3, <1>4, <1>5, <1>6

LEMMA StageKept ==
  ASSUME Kept, NEW p \in Party, NEW rd \in 1 .. Release, Stage(p, rd)
  PROVE  Stage(p, rd)'
<1>1. \A k \in 1 .. rd - 1 : (Ecdsa \/ k <= 2) => Same(p, k) /\ Full(p, k)'
  BY StageSame
<1>2. ASSUME NEW k \in 1 .. rd - 1, Ecdsa \/ k <= 2
      PROVE  Passed(p, k)'
  <2>1. k \in 1 .. 8 /\ Checked(p, k) /\ \A l \in 1 .. k : l \in 1 .. rd - 1
    BY <1>2, HonestParty DEF Stage, Passed
  <2>2. Checked(p, k)'
    BY <1>1, <1>2, <2>1, CheckedKept
  <2> QED
    BY <1>1, <1>2, <2>2 DEF Passed
<1> QED
  BY <1>2, FixedValues DEF Stage

(* The shares of s in Schnorr signing.                                     *)
LEMMA ShareValues ==
  ASSUME Kept, NEW p, Same(p, 1), Same(p, 2)
  PROVE  SchnorrShare(p)' = SchnorrShare(p)
<1>1. /\ arg' = arg /\ draw' = draw /\ setup' = setup /\ Key(p)' = Key(p)
      /\ \A l : R(p, l)' = R(p, l)
  BY FixedValues, Round2Values DEF Kept
<1>2. \A l : NonceFor(p, l)' = NonceFor(p, l)
  BY <1>1 DEF NonceFor
<1>3. \A l : ChallengeFor(p, l)' = ChallengeFor(p, l)
  BY <1>1 DEF ChallengeFor
<1> QED
  BY <1>1, <1>2, <1>3 DEF SchnorrShare

LEMMA MadeKept ==
  ASSUME Kept, NEW p \in Party, NEW rd \in 1 .. Release, NEW m, Stage(p, rd), Made(p, rd, m),
         rd \in 3 .. 8 => Ecdsa
  PROVE  Made(p, rd, m)'
<1>1. \A k \in 1 .. rd - 1 : (Ecdsa \/ k <= 2) => Same(p, k)
  BY StageSame
<1>2. draw' = draw
  BY DEF Kept
<1>3. CASE rd = 1
  BY <1>3, FixedValues DEF Made
<1>4. CASE rd = 2
  <2>1. Same(p, 1)
    BY <1>1, <1>4
  <2> QED
    BY <1>4, <2>1, FixedValues, Round1Values DEF Made
<1>5. CASE rd \in {3, 4, 5}
  BY <1>2, <1>5 DEF Made
<1>9. CASE rd = 9 /\ ~ Ecdsa
  <2>1. Same(p, 1) /\ Same(p, 2)
    BY <1>1, <1>9
  <2>2. SchnorrShare(p)' = SchnorrShare(p) /\ Ecdsa' = Ecdsa
    BY <2>1, ShareValues, FixedValues
  <2> QED
    BY <1>9, <2>2 DEF Made
<1>10. CASE rd = 9 /\ Ecdsa
  <2>1. Same(p, 1) /\ Same(p, 2) /\ Same(p, 4) /\ Same(p, 6) /\ Same(p, 7) /\ Same(p, 8)
    BY <1>1, <1>10
  <2>2. rho_k(p)' = rho_k(p) /\ rho_x(p)' = rho_x(p) /\ r(p)' = r(p) /\ Public9(p, p)' = Public9(p, p)
    BY <2>1, Round4Values, Round8Values
  <2>3. Beta(p)' = Beta(p) /\ Ecdsa' = Ecdsa
    BY <2>2, FixedValues DEF Beta, Kept
  <2> QED
    BY <1>10, <2>2, <2>3 DEF Made
<1>6. CASE rd = 6
  <2>1. Same(p, 4)
    BY <1>1, <1>6
  <2> QED
    BY <1>2, <1>6, <2>1, FixedValues, Round4Values DEF Made
<1>7. CASE rd = 7
  <2>1. Same(p, 1) /\ Same(p, 2) /\ Same(p, 4) /\ Same(p, 6)
    BY <1>1, <1>7
  <2> QED
    BY <1>7, <2>1, Round6Values DEF Made
<1>8. CASE rd = 8
  <2>1. Same(p, 1) /\ Same(p, 2) /\ Same(p, 4) /\ Same(p, 6) /\ Same(p, 7)
    BY <1>1, <1>8
  <2> QED
    BY <1>2, <1>8, <2>1, Round7Values DEF Made
<1> QED
  BY <1>3, <1>4, <1>5, <1>6, <1>7, <1>8, <1>9, <1>10, HonestParty

LEMMA ProofKept ==
  ASSUME Kept, NEW p \in Party, NEW f \in Party, NEW rd \in 1 .. Release, NEW m, Stage(p, rd),
         ProofShows(p, f, rd, m), rd \in 3 .. 8 => Ecdsa
  PROVE  ProofShows(p, f, rd, m)'
<1>1. \A k \in 1 .. rd - 1 : (Ecdsa \/ k <= 2) => Same(p, k)
  BY StageSame
<1>0. CASE rd = 6
  <2>1. Same(p, 1) /\ Same(p, 2) /\ Same(p, 4)
    BY <1>0, <1>1
  <2>2. Msg(p, 4, f)' = Msg(p, 4, f) /\ eK(p)' = eK(p) /\ Key(p)' = Key(p)
    BY <2>1, Round4Values, FixedValues DEF Same
  <2>3. Public6(p, f)' = Public6(p, f)
    BY <2>1, <2>2, Round1Values, Round2Values DEF Public6
  <2>4. ASSUME NEW v PROVE Multiplied(p, f, v)' = Multiplied(p, f, v)
    BY <2>2 DEF Multiplied
  <2> QED
    BY <1>0, <2>3, <2>4 DEF ProofShows
<1>2. CASE rd = 7
  <2>1. Same(p, 1) /\ Same(p, 2) /\ Same(p, 4) /\ Same(p, 6)
    BY <1>1, <1>2
  <2> QED
    BY <1>2, <2>1, Round6Values DEF ProofShows
<1>3. CASE rd = 8
  <2>1. Same(p, 1) /\ Same(p, 2) /\ Same(p, 4) /\ Same(p, 6) /\ Same(p, 7)
    BY <1>1, <1>3
  <2>2. Msg(p, 4, f)' = Msg(p, 4, f)
    BY <2>1 DEF Same
  <2> QED
    BY <1>3, <2>1, <2>2, Round7Values DEF ProofShows
<1>4. CASE rd = 9 /\ Ecdsa
  <2>1. Same(p, 1) /\ Same(p, 2) /\ Same(p, 4) /\ Same(p, 6) /\ Same(p, 7) /\ Same(p, 8)
    BY <1>1, <1>4
  <2>2. Public9(p, f)' = Public9(p, f)
    BY <2>1, Round8Values
  <2> QED
    BY <1>4, <2>2 DEF ProofShows
<1>5. Ecdsa' = Ecdsa
  BY FixedValues
<1> QED
  BY <1>0, <1>2, <1>3, <1>4, <1>5 DEF ProofShows

-----------------------------------------------------------------------------
(* What a step adds to messages and counters, in terms of the old state.   *)
Moves ==
  \A p \in Honest :
    /\ pc'[p] >= pc[p]
    /\ \A rd \in 1 .. Release : (pc'[p] = rd /\ pc[p] # rd) =>
         Stage(p, rd) /\ (rd \in 3 .. 8 => Ecdsa)

NewMade ==
  \A p \in Honest : \A rd \in 1 .. Release : \A j \in Party : \A m :
    (sent[rd][p][j] = None /\ sent'[rd][p][j] = m /\ m # None) =>
      /\ pc'[p] >= rd /\ (rd \in 3 .. 8 => Ecdsa)
      /\ Stage(p, rd) /\ Made(p, rd, m)

NewProofs ==
  \A p \in Honest : \A rd \in 1 .. Release : \A f \in setup.faulty : \A m :
    (sent[rd][f][p] = None /\ sent'[rd][f][p] = m /\ m # None) =>
      /\ rd \in 3 .. 8 => Ecdsa
      /\ Stage(p, rd) /\ ProofShows(p, f, rd, m)

LEMMA FaultyParty == ASSUME IndInv PROVE setup.faulty \subseteq Party
BY ConstantTypes DEF IndInv, Types

LEMMA StepKeeps ==
  ASSUME IndInv, Kept, Types', Moves, NewMade, NewProofs
  PROVE  IndInv'
<1>1. Honest' = Honest /\ Honest \subseteq Party /\ Ecdsa' = Ecdsa /\ setup' = setup
  BY FixedValues, HonestParty DEF Kept
<1>2. Where'
  <2> SUFFICES ASSUME NEW p \in Honest
               PROVE  /\ pc'[p] \in 1 .. Release => Stage(p, pc[p])'
                      /\ pc'[p] \in 3 .. 8 => Ecdsa
    BY <1>1 DEF Where
  <2>1. ASSUME NEW rd \in 1 .. Release, pc'[p] = rd
        PROVE  Stage(p, rd)' /\ (rd \in 3 .. 8 => Ecdsa)
    <3>1. Stage(p, rd) /\ (rd \in 3 .. 8 => Ecdsa)
      BY <2>1 DEF Moves, IndInv, Where
    <3> QED
      BY <1>1, <3>1, StageKept
  <2> QED
    BY <2>1, HonestParty
<1>3. SentInOrder'
  <2> SUFFICES ASSUME NEW p \in Honest, NEW rd \in 1 .. Release, NEW j \in Party, sent'[rd][p][j] # None
               PROVE  /\ pc'[p] >= rd /\ (rd \in 3 .. 8 => Ecdsa)
                      /\ Stage(p, rd)' /\ Made(p, rd, sent[rd][p][j])'
    BY <1>1 DEF SentInOrder
  <2>0. PICK m : m = sent'[rd][p][j]
    OBVIOUS
  <2>1. /\ pc'[p] >= rd /\ (rd \in 3 .. 8 => Ecdsa)
        /\ Stage(p, rd) /\ Made(p, rd, m)
    <3>1. CASE sent[rd][p][j] = None
      BY <2>0, <3>1 DEF NewMade
    <3>2. CASE sent[rd][p][j] # None
      <4>1. p \in Party /\ m = sent[rd][p][j]
        BY <1>1, <2>0, <3>2 DEF Kept
      <4>2. pc[p] \in 0 .. BadSig /\ pc'[p] \in 0 .. BadSig
        BY <1>1 DEF IndInv, Types
      <4> QED
        BY <3>2, <4>1, <4>2 DEF IndInv, SentInOrder, Moves, BadSig
    <3> QED
      BY <3>1, <3>2
  <2>2. Stage(p, rd)' /\ Made(p, rd, m)'
    BY <1>1, <2>1, StageKept, MadeKept
  <2> QED
    BY <2>0, <2>1, <2>2
<1>4. FaultyProofs'
  <2> SUFFICES ASSUME NEW p \in Honest, NEW rd \in 1 .. Release, NEW f \in setup.faulty,
                      sent'[rd][f][p] # None
               PROVE  /\ rd \in 3 .. 8 => Ecdsa
                      /\ Stage(p, rd)' /\ ProofShows(p, f, rd, sent[rd][f][p])'
    BY <1>1 DEF FaultyProofs
  <2>0. PICK m : m = sent'[rd][f][p]
    OBVIOUS
  <2>1. /\ rd \in 3 .. 8 => Ecdsa
        /\ Stage(p, rd) /\ ProofShows(p, f, rd, m)
    <3>1. CASE sent[rd][f][p] = None
      BY <2>0, <3>1 DEF NewProofs
    <3>2. CASE sent[rd][f][p] # None
      BY <1>1, <2>0, <3>2, FaultyParty DEF IndInv, FaultyProofs, Kept
    <3> QED
      BY <3>1, <3>2
  <2>2. Stage(p, rd)' /\ ProofShows(p, f, rd, m)'
    BY <1>1, <2>1, StageKept, ProofKept, FaultyParty
  <2> QED
    BY <2>0, <2>1, <2>2
<1> QED
  BY <1>2, <1>3, <1>4 DEF IndInv

LEMMA StopKeeps ==
  ASSUME IndInv, NEW p \in Honest, NEW how \in {Done, Failed, BadSig}, ~ Returned(p), Stop(p, how),
         UNCHANGED <<setup, arg, draw>>
  PROVE  IndInv' /\ Kept
<1>1. sent' = sent /\ Honest' = Honest
  BY DEF Stop, Honest
<1>2. Kept /\ NewMade /\ NewProofs
  BY <1>1 DEF Kept, NewMade, NewProofs
<1>3. pc' \in [Honest -> 0 .. BadSig] /\ pc'[p] = how /\ \A j \in Honest \ {p} : pc'[j] = pc[j]
  BY DEF Stop, IndInv, Types, Done, Failed, BadSig
<1>4. Types'
  BY <1>1, <1>3 DEF IndInv, Types
<1>5. Moves
  BY <1>3 DEF Moves, Release, IndInv, Types, Done, Failed, BadSig, Returned
<1> QED
  BY <1>2, <1>4, <1>5, StepKeeps

(* A party goes on from round k with a message of round rd.                *)
LEMMA NextStage ==
  ASSUME IndInv, NEW p \in Honest, NEW k \in 1 .. 8, Has(p, k), Checked(p, k)
  PROVE  /\ Stage(p, k + 1) /\ (k \in 3 .. 8 => Ecdsa)
         /\ (~ Ecdsa /\ k = 2) => Stage(p, Release)
<1>1. pc[p] = k /\ Full(p, k) /\ Stage(p, k) /\ (k \in 3 .. 8 => Ecdsa)
  BY DEF Has, Full, IndInv, Where, Release
<1>2. Passed(p, k)
  BY <1>1 DEF Passed
<1>3. Stage(p, k + 1)
  BY <1>1, <1>2 DEF Stage
<1> QED
  BY <1>1, <1>2, <1>3 DEF Stage

LEMMA BroadcastKeeps ==
  ASSUME IndInv, NEW p \in Honest, NEW rd \in 1 .. 8, NEW m, pc[p] = rd - 1, Broadcast(p, rd, m),
         Stage(p, rd), Made(p, rd, m), rd \in 3 .. 8 => Ecdsa,
         UNCHANGED <<setup, arg, draw>>
  PROVE  IndInv' /\ Kept
<1>0. rd \in 1 .. Release /\ p \in Party /\ p \notin setup.faulty /\ Honest' = Honest
  BY HonestParty DEF Honest
<1>1. /\ DOMAIN sent = 1 .. Release
      /\ \A k \in 1 .. Release : DOMAIN sent[k] = Party /\ \A j \in Party : DOMAIN sent[k][j] = Party
  BY DEF IndInv, Types
<1>2. sent' = [sent EXCEPT ![rd][p] = [j \in Party |-> m]]
  BY DEF Broadcast
<1>3. /\ DOMAIN sent' = 1 .. Release
      /\ \A k \in 1 .. Release : DOMAIN sent'[k] = Party /\ \A j \in Party : DOMAIN sent'[k][j] = Party
  BY <1>0, <1>1, <1>2
<1>4. \A k \in 1 .. Release : \A j, l \in Party :
        sent'[k][j][l] = IF k = rd /\ j = p THEN m ELSE sent[k][j][l]
  BY <1>0, <1>1, <1>2
<1>5. pc' \in [Honest -> 0 .. BadSig] /\ pc'[p] = rd /\ \A j \in Honest \ {p} : pc'[j] = pc[j]
  BY DEF Broadcast, IndInv, Types, BadSig
<1>6. \A l \in Party : sent[rd][p][l] = None
  BY <1>0 DEF IndInv, SentInOrder
<1>7. Kept
  BY <1>0, <1>4, <1>6 DEF Kept
<1>8. Types'
  BY <1>0, <1>3, <1>5 DEF IndInv, Types
<1>9. Moves
  BY <1>0, <1>5 DEF Moves, IndInv, Types, BadSig
<1>10. NewMade
  BY <1>0, <1>4, <1>5, HonestParty DEF NewMade
<1>11. NewProofs
  BY <1>0, <1>4, HonestParty, FaultyParty DEF NewProofs
<1> QED
  BY <1>7, <1>8, <1>9, <1>10, <1>11, StepKeeps

LEMMA ReleaseKeeps ==
  ASSUME IndInv, NEW p \in Honest, NEW m, pc[p] \in 0 .. 8, SendToReceiver(p, m), Stage(p, Release),
         Made(p, Release, m), UNCHANGED <<setup, arg, draw>>
  PROVE  IndInv' /\ Kept
<1>0. Release \in 1 .. Release /\ p \in Party /\ p \notin setup.faulty /\ Honest' = Honest
  BY HonestParty DEF Honest, Release
<1>1. /\ DOMAIN sent = 1 .. Release
      /\ \A k \in 1 .. Release : DOMAIN sent[k] = Party /\ \A j \in Party : DOMAIN sent[k][j] = Party
  BY DEF IndInv, Types
<1>2. sent' = [sent EXCEPT ![Release][p][arg[p].receiver] = m]
  BY DEF SendToReceiver
<1>3. /\ DOMAIN sent' = 1 .. Release
      /\ \A k \in 1 .. Release : DOMAIN sent'[k] = Party /\ \A j \in Party : DOMAIN sent'[k][j] = Party
  BY <1>0, <1>1, <1>2
<1>4. \A k \in 1 .. Release : \A j, l \in Party :
        sent'[k][j][l] = IF k = Release /\ j = p /\ l = arg[p].receiver THEN m ELSE sent[k][j][l]
  BY <1>0, <1>1, <1>2
<1>5. /\ pc' \in [Honest -> 0 .. BadSig] /\ pc'[p] \in {Release, Done}
      /\ \A j \in Honest \ {p} : pc'[j] = pc[j]
  BY DEF SendToReceiver, IndInv, Types, BadSig, Release, Done
<1>6. \A l \in Party : sent[Release][p][l] = None
  BY <1>0 DEF IndInv, SentInOrder, Release
<1>7. Kept
  BY <1>0, <1>4, <1>6 DEF Kept
<1>8. Types'
  BY <1>0, <1>3, <1>5 DEF IndInv, Types
<1>9. Moves
  BY <1>0, <1>5 DEF Moves, IndInv, Types, BadSig, Release, Done
<1>10. NewMade
  <2>1. pc'[p] >= Release
    BY <1>5 DEF Release, Done
  <2> QED
    BY <1>0, <1>4, <2>1, HonestParty DEF NewMade
<1>11. NewProofs
  BY <1>0, <1>4, HonestParty, FaultyParty DEF NewProofs
<1> QED
  BY <1>7, <1>8, <1>9, <1>10, <1>11, StepKeeps

LEMMA Scalars == q \in Nat \ {0} /\ Zq \subseteq Int /\ N \in Nat /\ 2 <= N /\ N < q
BY ConstantTypes, GroupOrder DEF Zq

LEMMA ModInt == ASSUME NEW a \in Int PROVE a % q \in Int /\ a % q \in Zq
BY Scalars, ModDef DEF Zq

LEMMA MulInt == ASSUME NEW a \in Int, NEW b \in Int PROVE a * b \in Int /\ (a * b) % q \in Int
<1>1. a * b \in Int
  OBVIOUS
<1> QED
  BY <1>1, ModInt

LEMMA SumInt ==
  ASSUME NEW S \in SUBSET Party, NEW f \in [S -> Int]
  PROVE  SumFunction(f) = SumFunctionOnSet(f, S) /\ SumFunction(f) \in Int /\ SUM(f) \in Int /\ SUM(f) \in Zq
<1>1. IsFiniteSet(Party)
  BY Scalars, FS_Interval DEF Party
<1>2. IsFiniteSet(S)
  BY <1>1, FS_Subset
<1>3. SumFunction(f) = SumFunctionOnSet(f, S)
  BY DEF SumFunction
<1>4. SumFunction(f) \in Int
  BY <1>2, <1>3, SumType
<1> QED
  BY <1>3, <1>4, Scalars, ModDef DEF SUM, Zq

(* What an honest party draws and what its key is made of.                 *)
LEMMA OwnScalars ==
  ASSUME IndInv, NEW p \in Honest
  PROVE  /\ draw[p].k[1] \in Int /\ draw[p].rho \in Int
         /\ Key(p).x \in Int /\ Key(p).Qis \in [Party -> Int] /\ Key(p).Q \in Int
<1>1. p \in Party /\ draw[p] \in Draws[p] /\ setup \in Setups /\ arg \in setup.args
  BY HonestParty DEF IndInv, Types
<1>2. draw[p].k \in Seq(Zq) /\ draw[p].k # <<>> /\ draw[p].rho \in Zq
  BY <1>1, CallTypes
<1>3. draw[p].k[1] \in Zq
  BY <1>2
<1>4. arg[p].epoch \in DOMAIN Share /\ arg[p].owner \in Party
  BY <1>1, CallTypes
<1>5. Share[arg[p].epoch] \in [Party -> Zq \ {0}]
  BY <1>4, ConstantTypes
<1>6. Share[arg[p].epoch] \in [Party -> Int]
  BY <1>5, Scalars
<1>7. SUM(Share[arg[p].epoch]) \in Int
  BY <1>6, SumInt
<1> QED
  BY <1>2, <1>3, <1>4, <1>6, <1>7, Scalars DEF Key

LEMMA Scalars4 ==
  ASSUME IndInv, NEW p \in Honest, Full(p, 4)
  PROVE  /\ \A j \in Party : Msg(p, 4, j).v.eK \in Int /\ Msg(p, 4, j).v.eRHO \in Int
         /\ eK(p) \in Int
<1>1. ASSUME NEW j \in Party
      PROVE  Msg(p, 4, j).v.eK \in Int /\ Msg(p, 4, j).v.eRHO \in Int
  <2>1. sent[4][j][p] # None /\ Msg(p, 4, j) = sent[4][j][p] /\ p \in Party /\ 4 \in 1 .. Release
    BY HonestParty DEF Full, Msg
  <2>2. CASE j \in Honest
    <3>1. Made(j, 4, Msg(p, 4, j))
      BY <2>1, <2>2 DEF IndInv, SentInOrder
    <3>2. Msg(p, 4, j).v = [eK |-> draw[j].k[1], eRHO |-> draw[j].rho]
      BY <3>1 DEF Made
    <3> QED
      BY <2>2, <3>2, OwnScalars
  <2>3. CASE j \in setup.faulty
    <3>1. ProofShows(p, j, 4, Msg(p, 4, j))
      BY <2>1, <2>3 DEF IndInv, FaultyProofs
    <3> QED
      BY <3>1 DEF ProofShows
  <2> QED
    BY <2>2, <2>3 DEF Honest
<1>2. [j \in Party |-> Msg(p, 4, j).v.eK] \in [Party -> Int]
  BY <1>1
<1> QED
  BY <1>1, <1>2, SumInt DEF eK

LEMMA ProductShareInt ==
  ASSUME NEW p \in Party, NEW j \in Party, NEW x \in Int
  PROVE  ProductShare(p, j, x) \in Int
BY Scalars DEF ProductShare, Party

LEMMA ProductTypes ==
  ASSUME IndInv, NEW p \in Honest, Full(p, 4)
  PROVE  Products(p) \in ProductType
<1>1. /\ p \in Party /\ Others(p) \in SUBSET Party
      /\ draw[p].k[1] \in Int /\ draw[p].rho \in Int
      /\ Key(p).x \in Int /\ Key(p).Qis \in [Party -> Int] /\ Key(p).Q \in Int /\ eK(p) \in Int
  BY OwnScalars, Scalars4, HonestParty DEF Others
<1>2. rho_k(p) \in Int
  <2> DEFINE t == [j \in Others(p) |->
        ProductShare(p, j, draw[p].rho * Msg(p, 4, j).v.eK + draw[p].k[1] * Msg(p, 4, j).v.eRHO)]
  <2>1. \A j \in Others(p) :
          draw[p].rho * Msg(p, 4, j).v.eK + draw[p].k[1] * Msg(p, 4, j).v.eRHO \in Int
    BY <1>1, Scalars4
  <2>2. t \in [Others(p) -> Int]
    BY <1>1, <2>1, ProductShareInt
  <2>3. SumFunction(t) \in Int
    BY <1>1, <2>2, SumInt
  <2>4. draw[p].rho * draw[p].k[1] \in Int
    BY <1>1, MulInt
  <2> DEFINE y == draw[p].rho * draw[p].k[1] + SumFunction(t)
  <2>5. y \in Int
    BY <2>3, <2>4
  <2>6. y % q \in Int
    BY <2>5, ModInt
  <2> QED
    BY <2>6 DEF rho_k
<1>3. rho_x(p) \in Int
  <2> DEFINE t == [j \in Others(p) |->
        ProductShare(p, j, draw[p].rho * Key(p).Qis[j] + Key(p).x * Msg(p, 4, j).v.eRHO)]
  <2>1. \A j \in Others(p) : draw[p].rho * Key(p).Qis[j] + Key(p).x * Msg(p, 4, j).v.eRHO \in Int
    BY <1>1, Scalars4
  <2>2. t \in [Others(p) -> Int]
    BY <1>1, <2>1, ProductShareInt
  <2>3. SumFunction(t) \in Int
    BY <1>1, <2>2, SumInt
  <2>4. draw[p].rho * Key(p).x \in Int
    BY <1>1, MulInt
  <2> DEFINE y == draw[p].rho * Key(p).x + SumFunction(t)
  <2>5. y \in Int
    BY <2>3, <2>4
  <2>6. y % q \in Int
    BY <2>5, ModInt
  <2> QED
    BY <2>6 DEF rho_x
<1>4. (draw[p].rho * eK(p)) % q \in Int /\ (draw[p].rho * Key(p).Q) % q \in Int
  BY <1>1, MulInt
<1> QED
  BY <1>2, <1>3, <1>4 DEF Products, ProductType

LEMMA FaultyShows ==
  ASSUME IndInv, NEW p \in Honest, NEW f \in setup.faulty, NEW rd \in 1 .. Release,
         pc[p] = rd, \A j \in Honest : Msg(p, rd, j) # None, NEW m \in FaultyMsgs(f, rd, p)
  PROVE  ProofShows(p, f, rd, m)
<1>1. CASE rd = 7
  <2>1. m \in FaultyMsg7(f, p)
    BY <1>1 DEF FaultyMsgs, Release
  <2>2. \E o \in {0, 1} :
          m.pi = Proof(Public7(p), [Z_K |-> (o * Y_K(p)) % q, Z_X |-> (o * Y_X(p)) % q], f)
    BY <2>1 DEF FaultyMsg7
  <2> QED
    BY <1>1, <2>2 DEF ProofShows
<1>2. CASE rd = 8
  <2>1. m \in FaultyMsg8(f, p)
    BY <1>2 DEF FaultyMsgs, Release
  <2>2. m.pi = Proof(Public8(p, f), Msg(p, 4, f).v.eK, f)
    BY <2>1 DEF FaultyMsg8
  <2> QED
    BY <1>2, <2>2 DEF ProofShows
<1>3. CASE rd = 4
  <2>1. m \in FaultyMsg4(f, p)
    BY <1>3 DEF FaultyMsgs, Release
  <2>2. m.v \in {[eK |-> 1, eRHO |-> 1], [eK |-> 3, eRHO |-> 2]}
    BY <2>1 DEF FaultyMsg4
  <2> QED
    BY <1>3, <2>2 DEF ProofShows
<1>4. CASE rd = 6
  <2>1. m \in FaultyMsg6(f, p)
    BY <1>4 DEF FaultyMsgs, Release
  <2>2. /\ Full(p, 4) /\ f \in Party /\ p \in Party /\ Honest \in SUBSET Party
        /\ \A j \in Honest : Full(j, 4) /\ Msg(p, 6, j).v = Products(j)
    <3>1. Stage(p, 6) /\ Ecdsa
      BY <1>4, HonestParty DEF IndInv, Where
    <3>2. ASSUME NEW j \in Honest PROVE Stage(j, 6) /\ Made(j, 6, Msg(p, 6, j))
      <4>1. sent[6][j][p] # None /\ Msg(p, 6, j) = sent[6][j][p] /\ p \in Party /\ 6 \in 1 .. Release
        BY <1>4, HonestParty DEF Msg
      <4> QED
        BY <4>1 DEF IndInv, SentInOrder
    <3> QED
      BY <3>1, <3>2, FaultyParty, HonestParty DEF Stage, Passed, Made
  <2> DEFINE rho == SUM([j \in Party |-> Msg(p, 4, j).v.eRHO])
             mine == Msg(p, 4, f).v.eRHO
             hk == SumFunction([j \in Honest |-> Msg(p, 6, j).v["eRHO_K"]])
             hx == SumFunction([j \in Honest |-> Msg(p, 6, j).v["eRHO_X"]])
  <2>3. rho \in Int /\ mine \in Int /\ eK(p) \in Int /\ Key(p).Q \in Int
    <3>1. [j \in Party |-> Msg(p, 4, j).v.eRHO] \in [Party -> Int]
      BY <2>2, Scalars4
    <3> QED
      BY <2>2, <3>1, Scalars4, OwnScalars, SumInt
  <2>4. hk \in Int /\ hx \in Int
    <3>1. \A j \in Honest : Msg(p, 6, j).v.eRHO_K \in Int /\ Msg(p, 6, j).v.eRHO_X \in Int
      BY <2>2, ProductTypes DEF ProductType
    <3>2. /\ [j \in Honest |-> Msg(p, 6, j).v["eRHO_K"]] \in [Honest -> Int]
          /\ [j \in Honest |-> Msg(p, 6, j).v["eRHO_X"]] \in [Honest -> Int]
      BY <3>1
    <3> QED
      BY <2>2, <3>2, SumInt
  <2>5. \E d, e \in {0, 1} : m.pi = Proof(Public6(p, f), FaultyProducts(f, p, d, e), f)
    BY <2>1 DEF FaultyMsg6
  <2>6. ASSUME NEW d \in {0, 1}, NEW e \in {0, 1}
        PROVE  /\ FaultyProducts(f, p, d, e) \in ProductType
               /\ Multiplied(p, f, FaultyProducts(f, p, d, e))
    <3>1. FaultyProducts(f, p, d, e) =
            [eRHO_K |-> (rho * eK(p) - hk + d) % q, eRHO_X |-> (rho * Key(p).Q - hx + e) % q,
             F_K |-> (mine * eK(p)) % q, F_X |-> (mine * Key(p).Q) % q]
      BY DEF FaultyProducts
    <3> HIDE DEF rho, mine, hk, hx
    <3>2. (mine * eK(p)) % q \in Int /\ (mine * Key(p).Q) % q \in Int
      BY <2>3, MulInt
    <3>3. rho * eK(p) \in Int /\ rho * Key(p).Q \in Int
      BY <2>3, MulInt
    <3>4. rho * eK(p) - hk + d \in Int /\ rho * Key(p).Q - hx + e \in Int
      BY <2>4, <3>3
    <3>5. (rho * eK(p) - hk + d) % q \in Int /\ (rho * Key(p).Q - hx + e) % q \in Int
      BY <3>4, ModInt
    <3> QED
      BY <3>1, <3>2, <3>5 DEF ProductType, Multiplied, mine
  <2> QED
    BY <1>4, <2>5, <2>6 DEF ProofShows
<1>5. CASE rd = 9 /\ Ecdsa
  <2>1. m \in FaultyRelease(f, p)
    BY <1>5 DEF FaultyMsgs, Release
  <2>2. m.pi = Proof(Public9(p, f), <<Public9(p, f)[3], Public9(p, f)[4]>>, f)
    BY <1>5, <2>1 DEF FaultyRelease
  <2> QED
    BY <1>5, <2>2 DEF ProofShows
<1> QED
  BY <1>1, <1>2, <1>3, <1>4, <1>5 DEF ProofShows

LEMMA FaultyKeeps ==
  ASSUME IndInv, NEW f \in setup.faulty, NEW rd \in 1 .. Release, FaultySends(f, rd),
         UNCHANGED <<setup, arg, draw>>
  PROVE  IndInv' /\ Kept
<1> DEFINE W == {p \in Honest : pc[p] = rd}
<1>0. f \in Party /\ f \notin Honest /\ Honest' = Honest /\ W \subseteq Party
  BY FaultyParty, HonestParty DEF Honest
<1>1. /\ DOMAIN sent = 1 .. Release
      /\ \A k \in 1 .. Release : DOMAIN sent[k] = Party /\ \A j \in Party : DOMAIN sent[k][j] = Party
  BY DEF IndInv, Types
<1>2. PICK c : /\ \A p \in W : c[p] \in FaultyMsgs(f, rd, p)
               /\ sent' = [sent EXCEPT ![rd][f] = [p \in Party |-> IF p \in W THEN c[p] ELSE @[p]]]
  BY DEF FaultySends
<1>3. pc' = pc /\ \A p \in W : sent[rd][f][p] = None
  BY DEF FaultySends, Msg
<1> HIDE DEF W
<1>4. /\ DOMAIN sent' = 1 .. Release
      /\ \A k \in 1 .. Release : DOMAIN sent'[k] = Party /\ \A j \in Party : DOMAIN sent'[k][j] = Party
  BY <1>0, <1>1, <1>2
<1>5. \A k \in 1 .. Release : \A j, l \in Party :
        sent'[k][j][l] = IF k = rd /\ j = f /\ l \in W THEN c[l] ELSE sent[k][j][l]
  BY <1>0, <1>1, <1>2
<1>6. Kept
  BY <1>0, <1>3, <1>5 DEF Kept
<1>7. Types'
  BY <1>0, <1>3, <1>4 DEF IndInv, Types
<1>8. Moves
  BY <1>3 DEF Moves, IndInv, Types, BadSig
<1>9. NewMade
  BY <1>0, <1>5, HonestParty DEF NewMade
<1>10. NewProofs
  <2>1. ASSUME NEW p \in W
        PROVE  p \in Honest /\ (rd \in 3 .. 8 => Ecdsa) /\ Stage(p, rd)
    BY <2>1 DEF W, IndInv, Where
  <2>2. ASSUME NEW p \in W
        PROVE  ProofShows(p, f, rd, c[p])
    <3>1. pc[p] = rd /\ \A j \in Honest : Msg(p, rd, j) # None
      BY <2>2 DEF FaultySends, W
    <3> QED
      BY <1>2, <2>1, <2>2, <3>1, FaultyShows
  <2> QED
    BY <1>0, <1>5, <2>1, <2>2, HonestParty, FaultyParty DEF NewProofs
<1> QED
  BY <1>6, <1>7, <1>8, <1>9, <1>10, StepKeeps

LEMMA PartyStepKeeps ==
  ASSUME IndInv, NEW p \in Honest, PartyStep(p), UNCHANGED <<setup, arg, draw>>
  PROVE  IndInv' /\ Kept
<1>1. ASSUME NEW how \in {Done, Failed, BadSig}, Stop(p, how), pc[p] \in 0 .. Release
      PROVE  IndInv' /\ Kept
  BY <1>1, StopKeeps DEF Returned, Release, Done, Failed, BadSig
<1>2. CASE Commit(p)
  <2>1. CASE Stop(p, Failed)
    BY <1>1, <1>2, <2>1 DEF Commit, Release
  <2>2. ASSUME NEW m, m = [sid |-> SidShare(p, 0), c |-> Com(SidShare(p, 0), p, Opening(p)),
                           hc |-> h_consistency(p)], Broadcast(p, 1, m), KeyOk(p)
        PROVE  IndInv' /\ Kept
    <3>1. Made(p, 1, m) /\ Stage(p, 1)
      BY <2>2 DEF Made, Stage
    <3> QED
      BY <1>2, <2>2, <3>1, BroadcastKeeps DEF Commit
  <2> QED
    BY <1>2, <2>1, <2>2 DEF Commit
<1>3. CASE Open(p)
  <2>1. CASE Stop(p, Failed)
    BY <1>1, <1>3, <2>1 DEF Open, Has, Release
  <2>2. ASSUME NEW m, m = [sid |-> Sid(p), h |-> Echo(p), v |-> Opening(p), ot |-> TRUE,
                           pi |-> Proof(Sid(p), Opening(p), p)], Broadcast(p, 2, m), SameInputs(p)
        PROVE  IndInv' /\ Kept
    <3>1. Made(p, 2, m)
      BY <2>2 DEF Made
    <3>2. Has(p, 1) /\ Checked(p, 1) /\ pc[p] = 1
      BY <1>3, <2>2 DEF Open, Checked, Has
    <3>3. Stage(p, 2)
      BY <3>2, NextStage
    <3> QED
      BY <2>2, <3>1, <3>2, <3>3, BroadcastKeeps
  <2> QED
    BY <1>3, <2>1, <2>2 DEF Open
<1>4. CASE SchnorrRelease(p)
  <2>1. CASE Stop(p, Failed)
    BY <1>1, <1>4, <2>1 DEF SchnorrRelease, Has, Release
  <2>2. ASSUME NEW m, m = [ss |-> SchnorrShare(p)], SendToReceiver(p, m), AllOpen(p)
        PROVE  IndInv' /\ Kept
    <3>1. Has(p, 2) /\ Checked(p, 2) /\ pc[p] = 2 /\ ~ Ecdsa
      BY <1>4, <2>2 DEF SchnorrRelease, Checked, Has
    <3>2. Stage(p, Release)
      BY <3>1, NextStage
    <3>3. Made(p, Release, m)
      BY <2>2, <3>1 DEF Made, Release
    <3> QED
      BY <2>2, <3>1, <3>2, <3>3, ReleaseKeeps
  <2> QED
    BY <1>4, <2>1, <2>2 DEF SchnorrRelease
<1>5. CASE SchnorrOutput(p)
  BY <1>1, <1>5 DEF SchnorrOutput, Has, Release
<1>6. CASE EcdsaRound2(p)
  <2>1. CASE Stop(p, Failed)
    BY <1>1, <1>6, <2>1 DEF EcdsaRound2, Has, Release
  <2>2. ASSUME NEW m, Broadcast(p, 3, m), AllOpen(p)
        PROVE  IndInv' /\ Kept
    <3>1. Has(p, 2) /\ Checked(p, 2) /\ pc[p] = 2 /\ Ecdsa /\ Made(p, 3, m)
      BY <1>6, <2>2 DEF EcdsaRound2, Checked, Has, Made
    <3>2. Stage(p, 3)
      BY <3>1, NextStage
    <3> QED
      BY <2>2, <3>1, <3>2, BroadcastKeeps
  <2> QED
    BY <1>6, <2>1, <2>2 DEF EcdsaRound2
<1>7. CASE EcdsaRound3(p)
  <2>1. CASE Stop(p, Failed)
    BY <1>1, <1>7, <2>1 DEF EcdsaRound3, Has, Release
  <2>2. ASSUME NEW m, NEW v, v = [eK |-> draw[p].k[1], eRHO |-> draw[p].rho],
               m = [v |-> v, ot |-> TRUE, pi |-> Proof(Public4(p), v, p)], Broadcast(p, 4, m)
        PROVE  IndInv' /\ Kept
    <3>1. Has(p, 3) /\ Checked(p, 3) /\ pc[p] = 3 /\ Made(p, 4, m)
      BY <1>7, <2>2 DEF EcdsaRound3, Checked, Has, Made
    <3>2. Stage(p, 4) /\ Ecdsa
      BY <3>1, NextStage
    <3> QED
      BY <2>2, <3>1, <3>2, BroadcastKeeps
  <2> QED
    BY <1>7, <2>1, <2>2 DEF EcdsaRound3
<1>8. CASE EcdsaRound4(p)
  <2>1. CASE Stop(p, Failed)
    BY <1>1, <1>8, <2>1 DEF EcdsaRound4, Has, Release
  <2>2. ASSUME NEW m, Broadcast(p, 5, m)
        PROVE  IndInv' /\ Kept
    <3>1. Has(p, 4) /\ Checked(p, 4) /\ pc[p] = 4 /\ Made(p, 5, m)
      BY <1>8, <2>2 DEF EcdsaRound4, Checked, Has, Made
    <3>2. Stage(p, 5) /\ Ecdsa
      BY <3>1, NextStage
    <3> QED
      BY <2>2, <3>1, <3>2, BroadcastKeeps
  <2> QED
    BY <1>8, <2>1, <2>2 DEF EcdsaRound4
<1>9. CASE EcdsaRound5(p)
  <2>1. CASE Stop(p, Failed)
    BY <1>1, <1>9, <2>1 DEF EcdsaRound5, Has, Release
  <2>2. ASSUME NEW m, m = [v |-> Products(p), pi |-> Proof(Public6(p, p), Products(p), p)], Broadcast(p, 6, m)
        PROVE  IndInv' /\ Kept
    <3>1. Has(p, 5) /\ Checked(p, 5) /\ pc[p] = 5 /\ Made(p, 6, m)
      BY <1>9, <2>2 DEF EcdsaRound5, Checked, Has, Made
    <3>2. Stage(p, 6) /\ Ecdsa
      BY <3>1, NextStage
    <3> QED
      BY <2>2, <3>1, <3>2, BroadcastKeeps
  <2> QED
    BY <1>9, <2>1, <2>2 DEF EcdsaRound5, Products
<1>10. CASE EcdsaRound6(p)
  <2>1. CASE Stop(p, Failed)
    BY <1>1, <1>10, <2>1 DEF EcdsaRound6, Has, Release
  <2>2. ASSUME NEW m, NEW v, v = [Z_K |-> Y_K(p), Z_X |-> Y_X(p)],
               m = [h |-> View(p), v |-> v, pi |-> Proof(Public7(p), v, p)], Broadcast(p, 7, m), Proved6(p)
        PROVE  IndInv' /\ Kept
    <3>1. Has(p, 6) /\ Checked(p, 6) /\ pc[p] = 6 /\ Made(p, 7, m)
      BY <1>10, <2>2 DEF EcdsaRound6, Checked, Has, Made
    <3>2. Stage(p, 7) /\ Ecdsa
      BY <3>1, NextStage
    <3> QED
      BY <2>2, <3>1, <3>2, BroadcastKeeps
  <2> QED
    BY <1>10, <2>1, <2>2 DEF EcdsaRound6
<1>11. CASE EcdsaRound7(p)
  <2>1. CASE Stop(p, Failed)
    BY <1>1, <1>11, <2>1 DEF EcdsaRound7, Has, Release
  <2>2. ASSUME NEW m, m = [K |-> draw[p].k[1], h2 |-> View7(p), pi |-> Proof(Public8(p, p), draw[p].k[1], p)],
               Broadcast(p, 8, m), Proved7(p)
        PROVE  IndInv' /\ Kept
    <3>1. Has(p, 7) /\ Checked(p, 7) /\ pc[p] = 7 /\ Made(p, 8, m)
      BY <1>11, <2>2 DEF EcdsaRound7, Checked, Has, Made
    <3>2. Stage(p, 8) /\ Ecdsa
      BY <3>1, NextStage
    <3> QED
      BY <2>2, <3>1, <3>2, BroadcastKeeps
  <2> QED
    BY <1>11, <2>1, <2>2 DEF EcdsaRound7
<1>12. CASE EcdsaRelease(p)
  <2>1. CASE Stop(p, Failed)
    BY <1>1, <1>12, <2>1 DEF EcdsaRelease, Has, Release
  <2>2. ASSUME NEW m, SendToReceiver(p, m), Proved8(p) /\ ProductsRight(p),
               m = [v |-> <<rho_k(p), Beta(p)>>, pi |-> Proof(Public9(p, p), <<rho_k(p), Beta(p)>>, p)]
        PROVE  IndInv' /\ Kept
    <3>1. Has(p, 8) /\ Checked(p, 8) /\ pc[p] = 8
      BY <1>12, <2>2 DEF EcdsaRelease, Checked, Has
    <3>2. Stage(p, Release) /\ Ecdsa
      BY <3>1, NextStage DEF Release
    <3>3. Made(p, Release, m)
      BY <2>2, <3>2 DEF Made, Release
    <3> QED
      BY <2>2, <3>1, <3>2, <3>3, ReleaseKeeps
  <2> QED
    BY <1>12, <2>1, <2>2 DEF EcdsaRelease, Beta
<1>13. CASE EcdsaOutput(p)
  BY <1>1, <1>13 DEF EcdsaOutput, Has, Release
<1>14. CASE PeerGone(p)
  BY <1>1, <1>14 DEF PeerGone, Release
<1> QED
  BY <1>2, <1>3, <1>4, <1>5, <1>6, <1>7, <1>8, <1>9, <1>10, <1>11, <1>12, <1>13, <1>14 DEF PartyStep

LEMMA InitInv == Init => IndInv
<1> SUFFICES ASSUME Init PROVE IndInv
  OBVIOUS
<1>1. /\ setup \in Setups /\ arg \in setup.args /\ pc = [p \in Honest |-> 0]
      /\ sent = [rd \in 1 .. Release |-> [j \in Party |-> [p \in Party |-> None]]]
      /\ DOMAIN draw = Honest /\ \A p \in Honest : draw[p] \in Draws[p]
  BY DEF Init
<1>2. Types
  BY <1>1 DEF Types, BadSig
<1>3. setup.faulty \subseteq Party /\ Honest \subseteq Party
  BY <1>1, ConstantTypes, HonestParty
<1>4. \A rd \in 1 .. Release : \A j, p \in Party : sent[rd][j][p] = None
  BY <1>1
<1> QED
  BY <1>1, <1>2, <1>3, <1>4 DEF IndInv, Where, SentInOrder, FaultyProofs

LEMMA StepInv == IndInv /\ [Next]_vars => IndInv'
<1> SUFFICES ASSUME IndInv, [Next]_vars PROVE IndInv'
  OBVIOUS
<1>1. ASSUME NEW p \in Honest, PartyStep(p), UNCHANGED <<setup, arg, draw, errs>> PROVE IndInv'
  BY <1>1, PartyStepKeeps
<1>2. ASSUME NEW p \in Honest, TransportError(p), UNCHANGED <<setup, arg, draw>> PROVE IndInv'
  BY <1>2, StopKeeps DEF TransportError
<1>3. ASSUME NEW f \in setup.faulty, FaultyStep(f), UNCHANGED <<setup, arg, draw, errs>> PROVE IndInv'
  BY <1>3, FaultyKeeps DEF FaultyStep
<1>4. CASE UNCHANGED vars
  <2>1. setup' = setup /\ arg' = arg /\ pc' = pc /\ draw' = draw /\ sent' = sent /\ Honest' = Honest
    BY <1>4 DEF vars, Honest
  <2>2. Kept /\ NewMade /\ NewProofs
    BY <2>1 DEF Kept, NewMade, NewProofs
  <2>3. Types' /\ Moves
    BY <2>1 DEF Types, Moves, IndInv, BadSig
  <2> QED
    BY <2>2, <2>3, StepKeeps
<1> QED
  BY <1>1, <1>2, <1>3, <1>4 DEF Next

-----------------------------------------------------------------------------
(* Two honest parties that have released their shares.                     *)

LEMMA ReleasedStage ==
  ASSUME IndInv, NEW p \in Honest, Released(p)
  PROVE  /\ p \in Party /\ Passed(p, 1) /\ Passed(p, 2)
         /\ Ecdsa => \A k \in 1 .. 8 : Passed(p, k)
<1>1. PICK j \in Party : sent[Release][p][j] # None
  BY DEF Released
<1>2. Stage(p, Release) /\ p \in Party
  BY <1>1, HonestParty DEF IndInv, SentInOrder, Release
<1> QED
  BY <1>2 DEF Stage, Release

(* A message of an honest party, as p received it.                         *)
LEMMA FromHonest ==
  ASSUME IndInv, NEW p \in Party, NEW j \in Honest, NEW k \in 1 .. 8, Full(p, k)
  PROVE  Made(j, k, Msg(p, k, j)) /\ Msg(p, k, j) # None /\ Stage(j, k)
<1>1. j \in Party /\ k \in 1 .. Release
  BY HonestParty
<1>2. Msg(p, k, j) # None /\ Msg(p, k, j) = sent[k][j][p]
  BY <1>1 DEF Full, Msg
<1> QED
  BY <1>1, <1>2 DEF IndInv, SentInOrder

LEMMA SameCall ==
  ASSUME IndInv, NEW p \in Honest, NEW j \in Honest, Passed(p, 1)
  PROVE  arg[p].msgs = arg[j].msgs /\ Key(p).Q = Key(j).Q /\ Key(p).Qis = Key(j).Qis
<1>1. CASE p = j
  BY <1>1
<1>2. CASE p # j
  <2>1. Made(j, 1, Msg(p, 1, j))
    BY FromHonest, HonestParty DEF Passed
  <2>2. Msg(p, 1, j).hc = h_consistency(p)
    BY <1>2, HonestParty DEF Passed, Checked, SameInputs, Others
  <2>3. h_consistency(p) = h_consistency(j)
    BY <2>1, <2>2 DEF Made
  <2> QED
    BY <2>3 DEF h_consistency
<1> QED
  BY <1>1, <1>2

(* The echo: both opened the same commitments.                             *)
LEMMA SameOpenings ==
  ASSUME IndInv, NEW p \in Honest, NEW j \in Honest, p # j,
         Passed(p, 1), Passed(p, 2), Passed(j, 1), Passed(j, 2)
  PROVE  \A k \in Party : Msg(p, 2, k).v = Msg(j, 2, k).v
<1>1. p \in Party /\ j \in Party
  BY HonestParty
<1>2. Echo(p) = Echo(j)
  <2>1. Made(j, 2, Msg(p, 2, j))
    BY <1>1, FromHonest DEF Passed
  <2>2. Msg(p, 2, j).h = Echo(p)
    BY <1>1 DEF Passed, Checked, AllOpen, Opens, Others
  <2> QED
    BY <2>1, <2>2 DEF Made
<1>3. ASSUME NEW o \in Honest, Passed(o, 1), Passed(o, 2), NEW k \in Party
      PROVE  \E s : Msg(o, 1, k).c = Com(s, k, Msg(o, 2, k).v)
  <2>1. CASE k # o
    BY <1>3, <2>1 DEF Passed, Checked, AllOpen, Opens, Others
  <2>2. CASE k = o
    <3>1. Made(o, 1, Msg(o, 1, o)) /\ Made(o, 2, Msg(o, 2, o))
      BY <1>3, FromHonest, HonestParty DEF Passed
    <3>2. Msg(o, 1, o).c = Com(SidShare(o, 0), o, Opening(o)) /\ Msg(o, 2, o).v = Opening(o)
      BY <3>1 DEF Made
    <3> QED
      BY <2>2, <3>2
  <2> QED
    BY <2>1, <2>2
<1> SUFFICES ASSUME NEW k \in Party PROVE Msg(p, 2, k).v = Msg(j, 2, k).v
  OBVIOUS
<1>4. Msg(p, 1, k).c = Msg(j, 1, k).c
  BY <1>2 DEF Echo
<1>5. PICK s : Msg(p, 1, k).c = Com(s, k, Msg(p, 2, k).v)
  BY <1>3
<1>6. PICK t : Msg(j, 1, k).c = Com(t, k, Msg(j, 2, k).v)
  BY <1>3
<1> QED
  BY <1>4, <1>5, <1>6 DEF Com

(* ECDSA: the hashes of rounds 7 and 8 make the views the same.            *)
LEMMA SameViews ==
  ASSUME IndInv, NEW p \in Honest, NEW j \in Honest, Passed(p, 8), Ecdsa
  PROVE  View7(p) = View7(j) /\ View(p) = View(j)
<1>1. CASE p = j
  BY <1>1
<1>2. CASE p # j
  <2>1. Made(j, 8, Msg(p, 8, j))
    BY FromHonest, HonestParty DEF Passed
  <2>2. Msg(p, 8, j).h2 = View7(p)
    BY <1>2, HonestParty DEF Passed, Checked, Proved8, Others
  <2>3. View7(p) = View7(j)
    BY <2>1, <2>2 DEF Made
  <2> QED
    BY <2>3 DEF View7
<1> QED
  BY <1>1, <1>2

(* K is what the party committed to in eK, be it faulty.                   *)
(* K_j is what the proof of round 8 says: k_j * G.                         *)
LEMMA RightNonce ==
  ASSUME IndInv, NEW o \in Honest, Ecdsa, \A k \in 1 .. 8 : Passed(o, k), NEW k \in Party
  PROVE  Msg(o, 8, k).K = Msg(o, 4, k).v.eK
<1>1. CASE k \in Honest
  <2>1. Made(k, 8, Msg(o, 8, k)) /\ Made(k, 4, Msg(o, 4, k))
    BY <1>1, FromHonest, HonestParty DEF Passed
  <2> QED
    BY <2>1 DEF Made
<1>2. CASE k \in setup.faulty
  <2>1. sent[8][k][o] # None /\ Msg(o, 8, k) = sent[8][k][o] /\ o \in Party /\ k # o
    BY <1>2, HonestParty DEF Passed, Full, Msg, Honest
  <2>2. ProofShows(o, k, 8, Msg(o, 8, k))
    BY <1>2, <2>1 DEF IndInv, FaultyProofs, Release
  <2>3. Msg(o, 8, k).pi = Proof(Public8(o, k), Msg(o, 8, k).K, k)
    BY <2>1 DEF Passed, Checked, Proved8, Others
  <2> QED
    BY <2>2, <2>3 DEF ProofShows, Proof
<1> QED
  BY <1>1, <1>2 DEF Honest

LEMMA SameNonce ==
  ASSUME IndInv, NEW p \in Honest, NEW j \in Honest, Ecdsa,
         \A k \in 1 .. 8 : Passed(p, k) /\ Passed(j, k)
  PROVE  r(p) = r(j)
<1>1. View(p) = View(j) /\ p \in Party /\ j \in Party
  BY SameViews, HonestParty
<1>3. \A k \in Party : Msg(p, 4, k).v = Msg(j, 4, k).v
  BY <1>1 DEF View
<1>4. \A k \in Party : Msg(p, 8, k).K = Msg(j, 8, k).K
  BY <1>3, RightNonce
<1>5. [k \in Party |-> Msg(p, 8, k).K] = [k \in Party |-> Msg(j, 8, k).K]
  BY <1>4
<1> QED
  BY <1>5 DEF r

LEMMA OneSig == IndInv => OneSignature
<1> SUFFICES ASSUME IndInv, NEW p \in Honest, NEW j \in Honest, Released(p), Released(j), p # j
             PROVE  Signature(p) = Signature(j)
  BY DEF OneSignature
<1>1. /\ Passed(p, 1) /\ Passed(p, 2) /\ Passed(j, 1) /\ Passed(j, 2)
      /\ Ecdsa => \A k \in 1 .. 8 : Passed(p, k) /\ Passed(j, k)
  BY ReleasedStage
<1>2. arg[p].msgs = arg[j].msgs /\ Key(p).Q = Key(j).Q /\ Key(p).Qis = Key(j).Qis
  BY <1>1, SameCall
<1>3. CASE Ecdsa
  <2>1. r(p) = r(j) /\ View(p) = View(j)
    BY <1>1, <1>3, SameNonce, SameViews
  <2> QED
    BY <1>2, <1>3, <2>1 DEF Signature
<1>4. CASE ~ Ecdsa
  <2>1. \A k \in Party : Msg(p, 2, k).v = Msg(j, 2, k).v
    BY <1>1, SameOpenings
  <2>2. ASSUME NEW l PROVE R(p, l) = R(j, l)
    <3>1. [k \in Party |-> Msg(p, 2, k).v[l]] = [k \in Party |-> Msg(j, 2, k).v[l]]
      BY <2>1
    <3> QED
      BY <3>1 DEF R
  <2> QED
    BY <1>2, <1>4, <2>2 DEF Signature
<1> QED
  BY <1>3, <1>4

-----------------------------------------------------------------------------
(* The inductive invariant holds of sign_batch and sign, with transport    *)
(* errors and any set of faulty parties.                                   *)
THEOREM Inductive == Spec => []IndInv
BY InitInv, StepInv, PTL DEF Spec

(* sign_batch of schnorr_mp and sign of ecdsa_mp: all honest parties that  *)
(* release shares release them for one signature, whatever each of them    *)
(* was called with and whatever the faulty ones sent to each of them.      *)
THEOREM OneSignatureHolds == Spec => []OneSignature
BY Inductive, OneSig, PTL

-----------------------------------------------------------------------------
(* ECDSA: why a zero sum of the Zs means that the products are right.      *)

LEMMA FiniteParty == IsFiniteSet(Party) /\ Cardinality(Party) = N /\ Party \in SUBSET Party
<1>1. 0 \in Int /\ N - 1 \in Int
  BY Scalars
<1>2. IsFiniteSet(Party) /\ Cardinality(Party) = IF 0 > N - 1 THEN 0 ELSE N - 1 - 0 + 1
  BY <1>1, FS_Interval DEF Party
<1> QED
  BY <1>2, Scalars

(* What has an inverse divides nothing to 0.                               *)
LEMMA NoZeroDivisors ==
  ASSUME NEW a \in 1 .. q - 1, NEW b \in 1 .. q - 1
  PROVE  (a * b) % q # 0
<1>1. PICK c \in 1 .. q - 1 : (a * c) % q = 1
  BY GroupOrder
<1>2. a \in Int /\ b \in Int /\ c \in Int /\ q \in Nat \ {0} /\ b \in 0 .. q - 1 /\ 0 \in 0 .. q - 1
  BY Scalars
<1> DEFINE ab == a * b
           ac == a * c
<1>3. ab \in Int /\ ac \in Int /\ ab * c = ac * b /\ ac % q = 1
  BY <1>1, <1>2
<1>4. ((ab % q) * c) % q = (ab * c) % q
  BY <1>2, <1>3, ModMult
<1>5. ((ac % q) * b) % q = (ac * b) % q
  BY <1>2, <1>3, ModMult
<1> HIDE DEF ab, ac
<1>6. ((ac % q) * b) % q = b
  <2>1. 1 * b = b /\ b % q = b
    BY <1>2, ModSmall
  <2> QED
    BY <1>3, <2>1
<1>7. ASSUME ab % q = 0 PROVE FALSE
  <2>1. 0 * c = 0 /\ 0 % q = 0
    BY <1>2, ModSmall
  <2> QED
    BY <1>3, <1>4, <1>5, <1>6, <1>7, <2>1
<1> QED
  BY <1>7 DEF ab

(* Everybody adds y or nothing and p adds y: the sum is c * y with c from  *)
(* 1 to N, and q is a prime larger than N.                                 *)
LEMMA NothingCancels ==
  ASSUME NEW y \in Zq, NEW z \in [Party -> Int], \A j \in Party : z[j] \in {0, y},
         NEW p \in Party, z[p] = y, SUM(z) = 0
  PROVE  y = 0
<1>1. y \in Int /\ q \in Nat \ {0} /\ N \in Nat /\ N < q
  BY Scalars
<1> DEFINE rest == Party \ {p}
<1>2. IsFiniteSet(rest) /\ Cardinality(rest) = N - 1
  BY FiniteParty, FS_RemoveElement
<1>3. SumFunctionOnSet(z, Party) = y + SumFunctionOnSet(z, rest)
  BY FiniteParty, SumRemove
<1>4. \E c \in 0 .. N - 1 : SumFunctionOnSet(z, rest) = c * y
  <2> DEFINE zr == [j \in rest |-> z[j]]
  <2>1. zr \in [rest -> Int] /\ (\A j \in rest : zr[j] \in {0, y}) /\ \A j \in rest : zr[j] = z[j]
    OBVIOUS
  <2> HIDE DEF zr, rest
  <2>2. SumFunctionOnSet(zr, rest) = SumFunctionOnSet(z, rest)
    BY <1>2, <2>1, SumAgrees
  <2>3. \E c \in 0 .. Cardinality(rest) : SumFunctionOnSet(zr, rest) = c * y
    BY <1>1, <1>2, <2>1, SumMultiple
  <2> QED
    BY <1>2, <2>2, <2>3
<1>5. PICK c \in 0 .. N - 1 : SumFunctionOnSet(z, rest) = c * y
  BY <1>4
<1> DEFINE d == c + 1
<1>6. d \in 1 .. q - 1 /\ d \in Int /\ y + c * y = d * y
  BY <1>1
<1>7. SUM(z) = (d * y) % q
  <2>1. SumFunction(z) = SumFunctionOnSet(z, Party)
    BY FiniteParty, SumInt
  <2> QED
    BY <1>3, <1>5, <1>6, <2>1 DEF SUM
<1> HIDE DEF d
<1>8. y \in 1 .. q - 1 => (d * y) % q # 0
  BY <1>6, NoZeroDivisors
<1> QED
  BY <1>1, <1>7, <1>8 DEF Zq

LEMMA SumsMatch ==
  ASSUME NEW F \in [Party -> Int], NEW s \in [Party -> Int], NEW rhos \in [Party -> Int], NEW e \in Int,
         \A j \in Party : F[j] = (rhos[j] * e) % q,
         (SumFunction(F) - SumFunction(s)) % q = 0
  PROVE  SumFunction(s) % q = (SUM(rhos) * e) % q
<1> DEFINE g == [j \in Party |-> rhos[j] * e]
           sF == SumFunctionOnSet(F, Party)
           sg == SumFunctionOnSet(g, Party)
           sr == SumFunctionOnSet(rhos, Party)
           ss == SumFunctionOnSet(s, Party)
<1>1. g \in [Party -> Int] /\ \A j \in Party : g[j] = rhos[j] * e /\ F[j] = g[j] % q
  BY MulInt
<1> HIDE DEF g
<1>2. sF % q = sg % q
  BY <1>1, FiniteParty, Scalars, SumMod
<1>3. sg = sr * e
  BY <1>1, FiniteParty, SumScale
<1>4. SumFunction(F) = sF /\ SumFunction(s) = ss /\ SumFunction(rhos) = sr
  BY FiniteParty, SumInt
<1>5. sF \in Int /\ ss \in Int /\ sr \in Int
  BY <1>4, FiniteParty, SumInt
<1> HIDE DEF sF, sg, sr, ss
<1>6. sF % q = ss % q
  BY <1>4, <1>5, Scalars, ModDiff
<1>7. ((sr % q) * e) % q = (sr * e) % q
  BY <1>5, Scalars, ModMult
<1> QED
  BY <1>2, <1>3, <1>4, <1>6, <1>7 DEF SUM

(* What p holds of round 6: scalars, and F as it should be.                *)
LEMMA Round6Right ==
  ASSUME IndInv, NEW p \in Honest, Ecdsa, \A k \in 1 .. 8 : Passed(p, k), NEW j \in Party
  PROVE  Msg(p, 6, j).v \in ProductType /\ Multiplied(p, j, Msg(p, 6, j).v)
<1>1. p \in Party /\ Full(p, 4) /\ Full(p, 6)
  BY HonestParty DEF Passed
<1>2. CASE j \in Honest
  <2>1. Made(j, 6, Msg(p, 6, j)) /\ Stage(j, 6) /\ Made(j, 4, Msg(p, 4, j))
    BY <1>1, <1>2, FromHonest
  <2>2. Full(j, 4) /\ Msg(p, 6, j).v = Products(j) /\ Msg(p, 4, j).v.eRHO = draw[j].rho
    BY <2>1 DEF Stage, Passed, Made
  <2>3. eK(p) = eK(j) /\ Key(p).Q = Key(j).Q
    <3>1. View(p) = View(j) /\ Key(p).Q = Key(j).Q
      BY <1>2, SameViews, SameCall
    <3>2. \A k \in Party : Msg(p, 4, k).v = Msg(j, 4, k).v
      BY <3>1 DEF View
    <3> QED
      BY <3>1, <3>2 DEF eK
  <2>4. Products(j) \in ProductType
    BY <1>2, <2>2, ProductTypes
  <2>5. Products(j).F_K = (draw[j].rho * eK(j)) % q /\ Products(j).F_X = (draw[j].rho * Key(j).Q) % q
    BY DEF Products
  <2> QED
    BY <2>2, <2>3, <2>4, <2>5 DEF Multiplied
<1>3. CASE j \in setup.faulty
  <2>1. sent[6][j][p] # None /\ Msg(p, 6, j) = sent[6][j][p] /\ j # p
    BY <1>1, <1>3 DEF Full, Msg, Honest
  <2>2. ProofShows(p, j, 6, Msg(p, 6, j))
    BY <1>3, <2>1 DEF IndInv, FaultyProofs, Release
  <2>3. PICK v \in ProductType : Msg(p, 6, j).pi = Proof(Public6(p, j), v, j) /\ Multiplied(p, j, v)
    BY <2>2 DEF ProofShows
  <2>4. Msg(p, 6, j).pi = Proof(Public6(p, j), Msg(p, 6, j).v, j)
    BY <2>1 DEF Passed, Checked, Proved6, Others
  <2> QED
    BY <2>3, <2>4 DEF Proof
<1> QED
  BY <1>2, <1>3 DEF Honest

(* Y, computed by p from round 6.                                          *)
LEMMA MissScalars ==
  ASSUME IndInv, NEW p \in Honest, Ecdsa, \A k \in 1 .. 8 : Passed(p, k)
  PROVE  /\ \A x \in {"eRHO_K", "eRHO_X", "F_K", "F_X"} :
              [j \in Party |-> Msg(p, 6, j).v[x]] \in [Party -> Int]
         /\ Y_K(p) \in Zq /\ Y_X(p) \in Zq
<1>1. \A j \in Party : Msg(p, 6, j).v \in ProductType
  BY Round6Right
<1>2. \A x \in {"eRHO_K", "eRHO_X", "F_K", "F_X"} : [j \in Party |-> Msg(p, 6, j).v[x]] \in [Party -> Int]
  BY <1>1 DEF ProductType
<1>3. Sum6(p, "eRHO_K") \in Int /\ Sum6(p, "eRHO_X") \in Int /\ Sum6(p, "F_K") \in Int /\ Sum6(p, "F_X") \in Int
  BY <1>2, FiniteParty, SumInt DEF Sum6
<1>4. Sum6(p, "F_K") - Sum6(p, "eRHO_K") \in Int /\ Sum6(p, "F_X") - Sum6(p, "eRHO_X") \in Int
  BY <1>3
<1> QED
  BY <1>2, <1>4, ModInt DEF Y_K, Y_X

(* What p holds of round 7: Y or nothing from everybody, Y from itself.    *)
LEMMA Round7Right ==
  ASSUME IndInv, NEW p \in Honest, Ecdsa, \A k \in 1 .. 8 : Passed(p, k), NEW j \in Party
  PROVE  /\ Msg(p, 7, j).v.Z_K \in {0, Y_K(p)} /\ Msg(p, 7, j).v.Z_X \in {0, Y_X(p)}
         /\ j = p => Msg(p, 7, j).v.Z_K = Y_K(p) /\ Msg(p, 7, j).v.Z_X = Y_X(p)
<1>1. p \in Party /\ Full(p, 7)
  BY HonestParty DEF Passed
<1>2. CASE j \in Honest
  <2>1. Made(j, 7, Msg(p, 7, j)) /\ View(p) = View(j)
    BY <1>1, <1>2, FromHonest, SameViews
  <2>2. Msg(p, 7, j).v = [Z_K |-> Y_K(j), Z_X |-> Y_X(j)]
    BY <2>1 DEF Made
  <2>3. \A k \in Party : Msg(p, 6, k) = Msg(j, 6, k)
    BY <2>1 DEF View
  <2>4. \A x : Sum6(p, x) = Sum6(j, x)
    BY <2>3 DEF Sum6
  <2>5. Y_K(p) = Y_K(j) /\ Y_X(p) = Y_X(j)
    BY <2>4 DEF Y_K, Y_X
  <2> QED
    BY <2>2, <2>5
<1>3. CASE j \in setup.faulty
  <2>1. sent[7][j][p] # None /\ Msg(p, 7, j) = sent[7][j][p] /\ j # p
    BY <1>1, <1>3 DEF Full, Msg, Honest
  <2>2. ProofShows(p, j, 7, Msg(p, 7, j))
    BY <1>3, <2>1 DEF IndInv, FaultyProofs, Release
  <2>3. PICK o \in {0, 1} : Msg(p, 7, j).pi =
          Proof(Public7(p), [Z_K |-> (o * Y_K(p)) % q, Z_X |-> (o * Y_X(p)) % q], j)
    BY <2>2 DEF ProofShows
  <2>4. Msg(p, 7, j).pi = Proof(Public7(p), Msg(p, 7, j).v, j)
    BY <2>1 DEF Passed, Checked, Proved7, Others
  <2>5. Msg(p, 7, j).v = [Z_K |-> (o * Y_K(p)) % q, Z_X |-> (o * Y_X(p)) % q]
    BY <2>3, <2>4 DEF Proof
  <2>6. ASSUME NEW y \in Zq PROVE (o * y) % q \in {0, y}
    <3>1. y \in Int /\ o * y \in {0, y} /\ 0 \in 0 .. q - 1 /\ y \in 0 .. q - 1
      BY Scalars DEF Zq
    <3>2. 0 % q = 0 /\ y % q = y
      BY <3>1, Scalars, ModSmall
    <3> QED
      BY <3>1, <3>2
  <2>7. (o * Y_K(p)) % q \in {0, Y_K(p)} /\ (o * Y_X(p)) % q \in {0, Y_X(p)}
    BY <2>6, MissScalars
  <2> QED
    BY <2>1, <2>5, <2>7
<1> QED
  BY <1>2, <1>3 DEF Honest

LEMMA ReleasedProducts == IndInv => ReleaseMeansProducts
<1> SUFFICES ASSUME IndInv, NEW p \in Honest, Ecdsa, Released(p)
             PROVE  LET rho == SUM([j \in Party |-> Msg(p, 4, j).v.eRHO])
                    IN /\ Sum6(p, "eRHO_K") % q = (rho * eK(p)) % q
                       /\ Sum6(p, "eRHO_X") % q = (rho * Key(p).Q) % q
  BY DEF ReleaseMeansProducts
<1>1. p \in Party /\ \A k \in 1 .. 8 : Passed(p, k)
  BY ReleasedStage
<1>2. Z_K(p) = 0 /\ Z_X(p) = 0
  BY <1>1 DEF Passed, Checked, ProductsRight
<1>3. Y_K(p) \in Zq /\ Y_X(p) \in Zq
  BY <1>1, MissScalars
<1>3a. Zq \subseteq Int
  BY Scalars
<1>3b. Y_K(p) \in Int /\ Y_X(p) \in Int
  BY <1>3, <1>3a, Zenon
<1>4. Y_K(p) = 0
  <2> DEFINE z == [j \in Party |-> Msg(p, 7, j).v.Z_K]
  <2>1. (\A j \in Party : z[j] \in {0, Y_K(p)}) /\ z[p] = Y_K(p)
    BY <1>1, Round7Right
  <2>2. z \in [Party -> Int]
    <3>1. 0 \in Int
      OBVIOUS
    <3>2. \A j \in Party : Msg(p, 7, j).v.Z_K \in Int
      BY <2>1, <3>1, <1>3b
    <3> QED
      BY <3>2
  <2>3. SUM(z) = 0
    BY <1>2 DEF Z_K
  <2> HIDE DEF z
  <2> QED
    BY <1>1, <1>3, <2>1, <2>2, <2>3, NothingCancels
<1>5. Y_X(p) = 0
  <2> DEFINE z == [j \in Party |-> Msg(p, 7, j).v.Z_X]
  <2>1. (\A j \in Party : z[j] \in {0, Y_X(p)}) /\ z[p] = Y_X(p)
    BY <1>1, Round7Right
  <2>2. z \in [Party -> Int]
    <3>1. 0 \in Int
      OBVIOUS
    <3>2. \A j \in Party : Msg(p, 7, j).v.Z_X \in Int
      BY <2>1, <3>1, <1>3b
    <3> QED
      BY <3>2
  <2>3. SUM(z) = 0
    BY <1>2 DEF Z_X
  <2> HIDE DEF z
  <2> QED
    BY <1>1, <1>3, <2>1, <2>2, <2>3, NothingCancels
<1> DEFINE rhos == [j \in Party |-> Msg(p, 4, j).v.eRHO]
           Of(x) == [j \in Party |-> Msg(p, 6, j).v[x]]
<1>6. rhos \in [Party -> Int] /\ eK(p) \in Int /\ Key(p).Q \in Int
  BY <1>1, Scalars4, OwnScalars DEF Passed
<1>7. /\ Of("F_K") \in [Party -> Int] /\ Of("F_X") \in [Party -> Int]
      /\ Of("eRHO_K") \in [Party -> Int] /\ Of("eRHO_X") \in [Party -> Int]
  BY <1>1, MissScalars
<1>8. \A j \in Party : /\ Of("F_K")[j] = (rhos[j] * eK(p)) % q
                       /\ Of("F_X")[j] = (rhos[j] * Key(p).Q) % q
  BY <1>1, Round6Right DEF Multiplied
<1>9. /\ (SumFunction(Of("F_K")) - SumFunction(Of("eRHO_K"))) % q = 0
      /\ (SumFunction(Of("F_X")) - SumFunction(Of("eRHO_X"))) % q = 0
  BY <1>4, <1>5 DEF Y_K, Y_X, Sum6
<1> HIDE DEF rhos, Of
<1>10. /\ SumFunction(Of("eRHO_K")) % q = (SUM(rhos) * eK(p)) % q
       /\ SumFunction(Of("eRHO_X")) % q = (SUM(rhos) * Key(p).Q) % q
  BY <1>6, <1>7, <1>8, <1>9, SumsMatch
<1> QED
  BY <1>10 DEF Of, rhos, Sum6

(* sign of ecdsa_mp: an honest party releases rho_k and beta only when the *)
(* committed shares add up to the products of rho with k and with the key, *)
(* whatever wrong shares faulty parties committed to; it rests on q being  *)
(* a prime larger than the number of parties, and on the hashes of rounds  *)
(* 7 and 8.                                                                *)
THEOREM ProductsHold == Spec => []ReleaseMeansProducts
BY Inductive, ReleasedProducts, PTL

-----------------------------------------------------------------------------
(* Congruence modulo q.                                                    *)
Cong(a, b) == a % q = b % q

LEMMA CongTimes ==
  ASSUME NEW a \in Int, NEW b \in Int, NEW c \in Int, Cong(a, b)
  PROVE  Cong(a * c, b * c) /\ Cong(c * a, c * b) /\ a * c \in Int /\ b * c \in Int
<1>1. ((a % q) * c) % q = (a * c) % q
  BY Scalars, ModMult
<1>2. ((b % q) * c) % q = (b * c) % q
  BY Scalars, ModMult
<1>3. a % q = b % q
  BY DEF Cong
<1>4. (a * c) % q = (b * c) % q
  BY <1>1, <1>2, <1>3
<1>5. c * a = a * c /\ c * b = b * c
  OBVIOUS
<1>6. a * c \in Int /\ b * c \in Int
  OBVIOUS
<1> QED
  BY <1>4, <1>5, <1>6, Zenon DEF Cong

LEMMA CongPlus ==
  ASSUME NEW a \in Int, NEW b \in Int, NEW c \in Int, NEW d \in Int, Cong(a, b), Cong(c, d)
  PROVE  Cong(a + c, b + d)
<1>1. ((a % q) + c) % q = (a + c) % q
  BY Scalars, ModSum
<1>2. ((b % q) + c) % q = (b + c) % q
  BY Scalars, ModSum
<1>3. a % q = b % q /\ c % q = d % q
  BY DEF Cong
<1>4. ((c % q) + b) % q = (c + b) % q
  BY Scalars, ModSum
<1>5. ((d % q) + b) % q = (d + b) % q
  BY Scalars, ModSum
<1>6. b + c = c + b /\ b + d = d + b
  OBVIOUS
<1>7. (a + c) % q = (b + c) % q
  BY <1>1, <1>2, <1>3
<1>8. (c + b) % q = (d + b) % q
  BY <1>3, <1>4, <1>5
<1> QED
  BY <1>6, <1>7, <1>8, Zenon DEF Cong

(* A residue is congruent to the number, and so is what differs from it by *)
(* a multiple of q.                                                        *)
LEMMA CongRes ==
  ASSUME NEW a \in Int
  PROVE  Cong(a % q, a) /\ Cong(a, a % q) /\ a % q \in Zq /\ a % q \in Int
<1>1. a % q \in 0 .. q - 1
  BY Scalars, ModDef
<1>2. (a % q) % q = a % q
  BY <1>1, Scalars, ModSmall
<1> QED
  BY <1>1, <1>2, Scalars DEF Cong, Zq

LEMMA CongMultiple ==
  ASSUME NEW a \in Int, NEW k \in Int
  PROVE  Cong(a + q * k, a)
<1>1. a + q * k \in Int
  BY Scalars
<1> QED
  BY <1>1, Scalars, ModShift DEF Cong

LEMMA CongSmall ==
  ASSUME NEW a \in Zq, NEW b \in Zq, Cong(a, b)
  PROVE  a = b
BY Scalars, ModSmall DEF Cong, Zq

LEMMA Invertible ==
  ASSUME NEW a \in Zq, a # 0
  PROVE  Inv(a) \in Zq /\ Inv(a) \in Int /\ Cong(a * Inv(a), 1)
<1>0. a \in 1 .. q - 1 /\ q \in Nat /\ 1 < q
  BY Scalars DEF Zq
<1>1. PICK b \in 1 .. q - 1 : (a * b) % q = 1
  BY <1>0, GroupOrder
<1>2. b \in Zq /\ 1 \in 0 .. q - 1
  BY <1>0, <1>1 DEF Zq
<1>3. 1 % q = 1
  BY <1>2, Scalars, ModSmall
<1>4. (a * b) % q = 1 % q
  BY <1>1, <1>3, Zenon
<1>5. Inv(a) \in Zq /\ (a * Inv(a)) % q = 1 % q
  BY <1>2, <1>4, Zenon DEF Inv
<1>6. Inv(a) \in Int
  BY <1>5, Scalars, Zenon
<1> QED
  BY <1>5, <1>6, Zenon DEF Cong

LEMMA CongOne ==
  ASSUME NEW a \in Int, NEW c \in Int, Cong(a, 1)
  PROVE  Cong(a * c, c)
<1> DEFINE o == 1
<1>1. o \in Int /\ o * c = c /\ Cong(a, o)
  OBVIOUS
<1> HIDE DEF o
<1>2. Cong(a * c, o * c)
  BY <1>1, CongTimes
<1> QED
  BY <1>1, <1>2

-----------------------------------------------------------------------------
(* Schnorr: the shares a * x + k add up to a * Q + R, where k is v or its  *)
(* negative for all.                                                       *)
Shared(a, t, x, v, k, s) ==
  /\ a \in Int /\ t \in Int
  /\ x \in [Party -> Int] /\ v \in [Party -> Int] /\ k \in [Party -> Int] /\ s \in [Party -> Int]
  /\ \A j \in Party : Cong(k[j], v[j] * t) /\ s[j] = (a * x[j] + k[j]) % q

LEMMA SharesSum ==
  ASSUME NEW a, NEW t, NEW x, NEW v, NEW k, NEW s, Shared(a, t, x, v, k, s)
  PROVE  SUM(s) = (SUM(v) * t + a * SUM(x)) % q
<1> DEFINE g == [j \in Party |-> x[j] * a]
           h == [j \in Party |-> v[j] * t]
           w == [j \in Party |-> g[j] + h[j]]
           X == SumFunctionOnSet(x, Party)
           V == SumFunctionOnSet(v, Party)
           S == SumFunctionOnSet(s, Party)
<1>0. /\ a \in Int /\ t \in Int
      /\ x \in [Party -> Int] /\ v \in [Party -> Int] /\ k \in [Party -> Int] /\ s \in [Party -> Int]
      /\ \A j \in Party : Cong(k[j], v[j] * t) /\ s[j] = (a * x[j] + k[j]) % q
  BY DEF Shared
<1>1. g \in [Party -> Int] /\ h \in [Party -> Int]
  BY <1>0, MulInt
<1>2. w \in [Party -> Int] /\ \A j \in Party : w[j] = g[j] + h[j] /\ g[j] = x[j] * a /\ h[j] = v[j] * t
  BY <1>1
<1> HIDE DEF g, h, w
<1>3. \A j \in Party : s[j] = w[j] % q
  <2> SUFFICES ASSUME NEW j \in Party PROVE s[j] = w[j] % q
    OBVIOUS
  <2>1. x[j] \in Int /\ k[j] \in Int /\ g[j] \in Int /\ h[j] \in Int
    BY <1>0, <1>1
  <2>2. a * x[j] = g[j]
    BY <1>0, <1>2, <2>1
  <2>3. Cong(k[j], h[j]) /\ Cong(g[j], g[j])
    BY <1>0, <1>2 DEF Cong
  <2>4. Cong(g[j] + k[j], g[j] + h[j])
    BY <2>1, <2>3, CongPlus
  <2> QED
    BY <1>0, <1>2, <2>2, <2>4 DEF Cong
<1>4. S % q = SumFunctionOnSet(w, Party) % q
  BY <1>0, <1>2, <1>3, FiniteParty, Scalars, SumMod
<1>5. SumFunctionOnSet(w, Party) = SumFunctionOnSet(g, Party) + SumFunctionOnSet(h, Party)
  <2>1. \A j \in Party : w[j] = g[j] + h[j]
    BY <1>2
  <2> QED
    BY <1>1, <1>2, <2>1, FiniteParty, SumPlusAll
<1>6. SumFunctionOnSet(g, Party) = X * a /\ SumFunctionOnSet(h, Party) = V * t
  <2>1. (\A j \in Party : g[j] = x[j] * a) /\ \A j \in Party : h[j] = v[j] * t
    BY <1>2
  <2>2. SumFunctionOnSet(g, Party) = SumFunctionOnSet(x, Party) * a
    BY <1>0, <1>1, <2>1, FiniteParty, SumScale
  <2>3. SumFunctionOnSet(h, Party) = SumFunctionOnSet(v, Party) * t
    BY <1>0, <1>1, <2>1, FiniteParty, SumScale
  <2> QED
    BY <2>2, <2>3
<1>7. SumFunction(x) = X /\ SumFunction(v) = V /\ SumFunction(s) = S /\ X \in Int /\ V \in Int
  BY <1>0, FiniteParty, SumInt
<1> HIDE DEF X, V, S
<1>8. Cong(X, X % q) /\ Cong(V, V % q) /\ X % q \in Int /\ V % q \in Int
  BY <1>7, CongRes
<1> DEFINE Xq == X % q
           Vq == V % q
<1> HIDE DEF Xq, Vq
<1>9. Cong(X, Xq) /\ Cong(V, Vq) /\ Xq \in Int /\ Vq \in Int
  BY <1>8 DEF Xq, Vq
<1>10. /\ Cong(X * a, Xq * a) /\ Cong(V * t, Vq * t) /\ X * a \in Int /\ V * t \in Int
       /\ Xq * a \in Int /\ Vq * t \in Int
  BY <1>0, <1>7, <1>9, CongTimes
<1>11. Cong(X * a + V * t, Xq * a + Vq * t)
  BY <1>10, CongPlus
<1>12. Xq * a + Vq * t = Vq * t + a * Xq
  BY <1>0, <1>9, <1>10
<1>13. S % q = (Vq * t + a * Xq) % q
  BY <1>4, <1>5, <1>6, <1>11, <1>12, Zenon DEF Cong
<1> QED
  BY <1>7, <1>13 DEF SUM, Xq, Vq

(* A point or its negative, whichever is even, is the point times 1 or -1. *)
Sign(P) == IF is_odd(P) THEN -1 ELSE 1

LEMMA EvenPoint ==
  ASSUME NEW P \in Zq
  PROVE  get_x(P) \in Zq /\ get_x(P) \in Int /\ Sign(P) \in Int /\ Cong(get_x(P), P * Sign(P))
<1>0. q \in Nat /\ P \in Int /\ 0 <= P /\ P < q
  BY Scalars DEF Zq
<1>1. CASE is_odd(P)
  <2>1. 2 * P > q /\ get_x(P) = q - P /\ Sign(P) = -1
    BY <1>1 DEF is_odd, get_x, Sign
  <2>2. P * (-1) = - P /\ - P + q * 1 = q - P /\ - P \in Int /\ q - P \in 0 .. q - 1 /\ q - P \in Int
    BY <1>0, <2>1
  <2>3. Cong(- P + q * 1, - P)
    BY <2>2, CongMultiple
  <2> QED
    BY <2>1, <2>2, <2>3 DEF Zq
<1>2. CASE ~ is_odd(P)
  <2>1. get_x(P) = P /\ Sign(P) = 1
    BY <1>2 DEF get_x, Sign
  <2>2. P * 1 = P
    BY <1>0
  <2> QED
    BY <1>0, <2>1, <2>2 DEF Cong
<1> QED
  BY <1>1, <1>2

(* Negating the challenge comes to negating the key.                       *)
LEMMA NegatedChallenge ==
  ASSUME NEW P \in Zq, NEW e \in Int, NEW a, a = IF is_odd(P) THEN q - e ELSE e
  PROVE  a \in Int /\ Cong(a * P, e * get_x(P)) /\ a * P \in Int /\ e * get_x(P) \in Int
<1>0. q \in Nat /\ P \in Int /\ get_x(P) \in Int
  BY Scalars, EvenPoint DEF Zq
<1>1. CASE is_odd(P)
  <2>1. a = q - e /\ get_x(P) = q - P
    BY <1>1 DEF get_x
  <2> DEFINE d == P - e
  <2>2. d \in Int /\ a \in Int /\ a * P \in Int /\ e * (q - P) \in Int /\ q * d \in Int
    BY <1>0, <2>1
  <2>3. (q - e) * P = e * (q - P) + q * d
    BY <1>0
  <2>4. Cong(e * (q - P) + q * d, e * (q - P))
    BY <2>2, CongMultiple
  <2> QED
    BY <2>1, <2>2, <2>3, <2>4
<1>2. CASE ~ is_odd(P)
  <2>1. a = e /\ get_x(P) = P /\ a * P \in Int
    BY <1>0, <1>2 DEF get_x
  <2> QED
    BY <2>1 DEF Cong
<1> QED
  BY <1>1, <1>2

(* What the receiver gets from an honest party in the last round.          *)
LEMMA LastRound ==
  ASSUME IndInv, NEW p \in Honest, Full(p, Release), NEW j \in Honest
  PROVE  Made(j, Release, Msg(p, Release, j)) /\ Stage(j, Release)
<1>1. j \in Party /\ p \in Party /\ Release \in 1 .. Release
  BY HonestParty
<1>2. Msg(p, Release, j) # None /\ Msg(p, Release, j) = sent[Release][j][p]
  BY <1>1 DEF Full, Msg
<1> QED
  BY <1>1, <1>2 DEF IndInv, SentInOrder

LEMMA FirstRounds ==
  ASSUME IndInv, NEW j, Stage(j, Release)
  PROVE  Passed(j, 1) /\ Passed(j, 2) /\ (Ecdsa => \A k \in 1 .. 8 : Passed(j, k))
BY HonestParty DEF Stage

(* In terms of p's view, j's share of the l-th signature.                  *)
LEMMA HonestShare ==
  ASSUME IndInv, NEW p \in Honest, ~ Ecdsa, Full(p, Release), Stage(p, Release),
         NEW j \in Honest, NEW l \in DOMAIN arg[p].msgs
  PROVE  /\ Msg(p, Release, j).ss[l] = (ChallengeFor(p, l) * Key(p).Qis[j] + NonceFor(j, l)) % q
         /\ R(j, l) = R(p, l) /\ draw[j].k[l] \in Zq /\ Msg(p, 2, j).v[l] = draw[j].k[l]
<1>1. Made(j, Release, Msg(p, Release, j)) /\ Passed(p, 1) /\ Passed(p, 2) /\ Passed(j, 1) /\ Passed(j, 2)
  BY LastRound, FirstRounds
<1>2. arg[p].msgs = arg[j].msgs /\ Key(p).Q = Key(j).Q /\ Key(p).Qis = Key(j).Qis
  BY <1>1, SameCall
<1>3. p \in Party /\ j \in Party
  BY HonestParty
<1>4. Made(j, 1, Msg(p, 1, j)) /\ Made(j, 2, Msg(p, 2, j))
  BY <1>1, <1>3, FromHonest DEF Passed
<1>5. Key(j).x = Key(p).Qis[j]
  BY <1>2, <1>4 DEF Made, KeyOk
<1>6. Msg(p, 2, j).v = SubSeq(draw[j].k, 1, Len(arg[j].msgs))
  BY <1>4 DEF Made, Opening
<1>7. /\ draw[j].k \in Seq(Zq) /\ arg[j].msgs \in Seq(Nat)
      /\ Len(draw[j].k) >= Len(arg[j].msgs)
  <2>1. draw[j] \in Draws[j] /\ setup \in Setups /\ arg \in setup.args
    BY DEF IndInv, Types
  <2> QED
    BY <1>3, <2>1, CallTypes
<1>8. l \in 1 .. Len(arg[j].msgs) /\ l \in 1 .. Len(draw[j].k)
  BY <1>2, <1>7
<1>9. draw[j].k[l] \in Zq /\ SubSeq(draw[j].k, 1, Len(arg[j].msgs))[l] = draw[j].k[l]
  BY <1>7, <1>8
<1>10. R(j, l) = R(p, l)
  <2>1. CASE p = j
    BY <2>1
  <2>2. CASE p # j
    <3>1. \A o \in Party : Msg(p, 2, o).v = Msg(j, 2, o).v
      BY <1>1, <2>2, SameOpenings
    <3> QED
      BY <3>1 DEF R
  <2> QED
    BY <2>1, <2>2
<1>11. ChallengeFor(j, l) = ChallengeFor(p, l)
  BY <1>2, <1>10 DEF ChallengeFor
<1>12. Msg(p, Release, j).ss = SchnorrShare(j)
  BY <1>1 DEF Made, Release
<1>13. Msg(p, Release, j).ss[l] = (ChallengeFor(j, l) * Key(j).x + NonceFor(j, l)) % q
  BY <1>2, <1>12 DEF SchnorrShare
<1> QED
  BY <1>5, <1>6, <1>9, <1>10, <1>11, <1>13

LEMMA CallChallenge ==
  ASSUME IndInv, NEW p \in Honest, NEW P \in Zq, NEW l \in DOMAIN arg[p].msgs
  PROVE  Challenge[P][arg[p].msgs[l]] \in Int
<1>1. p \in Party /\ setup \in Setups /\ arg \in setup.args
  BY HonestParty DEF IndInv, Types
<1>2. Challenge[P][arg[p].msgs[l]] \in Nat
  BY <1>1, CallTypes
<1> QED
  BY <1>2

(* The nonce of a party, and that of all.                                  *)
LEMMA NonceSign ==
  ASSUME IndInv, NEW p \in Honest, NEW j \in Honest, NEW l, R(j, l) = R(p, l), R(p, l) \in Zq, draw[j].k[l] \in Zq,
         NEW t, t = IF setup.scheme = "bip340" THEN Sign(R(p, l)) ELSE 1
  PROVE  NonceFor(j, l) \in Int /\ Cong(NonceFor(j, l), draw[j].k[l] * t)
<1> DEFINE k == draw[j].k[l]
<1>0. q \in Nat /\ k \in Int
  BY Scalars DEF Zq
<1>1. CASE setup.scheme = "bip340" /\ is_odd(R(p, l))
  <2>1. NonceFor(j, l) = q - k /\ t = -1
    BY <1>1 DEF NonceFor, Sign
  <2> HIDE DEF k
  <2>2. k * (-1) = - k /\ - k + q * 1 = q - k /\ - k \in Int /\ q - k \in Int
    BY <1>0
  <2>3. Cong(- k + q * 1, - k)
    BY <2>2, CongMultiple
  <2>4. NonceFor(j, l) \in Int /\ Cong(NonceFor(j, l), k * t)
    BY <2>1, <2>2, <2>3
  <2> QED
    BY <2>4 DEF k
<1>2. CASE ~ (setup.scheme = "bip340" /\ is_odd(R(p, l)))
  <2>1. NonceFor(j, l) = k /\ t = 1
    BY <1>2 DEF NonceFor, Sign
  <2> HIDE DEF k
  <2>2. k * 1 = k
    BY <1>0
  <2>3. NonceFor(j, l) \in Int /\ Cong(NonceFor(j, l), k * t)
    BY <1>0, <2>1, <2>2 DEF Cong
  <2> QED
    BY <2>3 DEF k
<1> QED
  BY <1>1, <1>2

(* Without faulty parties the shares add up to a signature that verifies.  *)
LEMMA SchnorrVerified ==
  ASSUME IndInv, NEW p \in Honest, ~ Ecdsa, setup.faulty = {}, Full(p, Release), Stage(p, Release),
         NEW l \in DOMAIN arg[p].msgs
  PROVE  SchnorrVerifies(p, l, SUM([j \in Party |-> Msg(p, Release, j).ss[l]]))
<1>0. Honest = Party /\ p \in Party /\ setup.scheme \in {"eddsa", "bip340"}
  BY HonestParty, ConstantTypes DEF Honest, Ecdsa, IndInv, Types
<1>1. \A j \in Party :
        /\ Msg(p, Release, j).ss[l] = (ChallengeFor(p, l) * Key(p).Qis[j] + NonceFor(j, l)) % q
        /\ R(j, l) = R(p, l) /\ draw[j].k[l] \in Zq /\ Msg(p, 2, j).v[l] = draw[j].k[l]
  BY <1>0, HonestShare
<1>2. Key(p).Qis \in [Party -> Int] /\ Key(p).Q = SUM(Key(p).Qis)
  <2>1. Key(p).Qis = Share[arg[p].epoch] /\ Key(p).Q = SUM(Share[arg[p].epoch])
    BY DEF Key
  <2> QED
    BY <2>1, OwnScalars
<1> DEFINE x == Key(p).Qis
           v == [j \in Party |-> Msg(p, 2, j).v[l]]
           k == [j \in Party |-> NonceFor(j, l)]
           s == [j \in Party |-> Msg(p, Release, j).ss[l]]
           RR == R(p, l)
           QQ == Key(p).Q
           a == ChallengeFor(p, l)
           t == IF setup.scheme = "bip340" THEN Sign(RR) ELSE 1
           m == arg[p].msgs[l]
           e == IF setup.scheme = "eddsa" THEN Challenge[RR][m] ELSE Challenge[get_x(RR)][m]
<1>3. v \in [Party -> Int]
  BY <1>1, Scalars
<1>4. RR = SUM(v) /\ QQ = SUM(x)
  BY <1>2 DEF R
<1>5. RR \in Zq /\ QQ \in Zq
  BY <1>2, <1>3, <1>4, FiniteParty, SumInt
<1>6. get_x(RR) \in Zq /\ get_x(RR) \in Int /\ Sign(RR) \in Int /\ Cong(get_x(RR), RR * Sign(RR))
  BY <1>5, EvenPoint
<1>7. e \in Int
  BY <1>5, <1>6, CallChallenge
<1>8. t \in Int
  BY <1>6
<1>9. \A j \in Party : k[j] \in Int /\ Cong(k[j], v[j] * t)
  BY <1>0, <1>1, <1>5, NonceSign
<1>10. k \in [Party -> Int]
  BY <1>9
<1>11. a = IF setup.scheme = "bip340" /\ is_odd(QQ) THEN q - e ELSE e
  BY <1>0 DEF ChallengeFor
<1>12. a \in Int
  BY <1>7, <1>11, Scalars
<1>13. \A j \in Party : s[j] = (a * x[j] + k[j]) % q
  BY <1>1
<1>14. s \in [Party -> Int]
  <2>1. \A j \in Party : x[j] \in Int /\ k[j] \in Int
    BY <1>2, <1>9
  <2>2. DOMAIN s = Party /\ s = [j \in Party |-> s[j]]
    OBVIOUS
  <2> HIDE DEF s, x, k, a
  <2>3. ASSUME NEW j \in Party PROVE s[j] \in Int
    <3>1. a * x[j] + k[j] \in Int
      BY <1>12, <2>1
    <3> QED
      BY <1>13, <3>1, ModInt
  <2> QED
    BY <2>2, <2>3
<1>15. \A j \in Party : Cong(k[j], v[j] * t) /\ s[j] = (a * x[j] + k[j]) % q
  BY <1>9, <1>13
<1>16. SUM(s) = (SUM(v) * t + a * SUM(x)) % q
  <2>1. x \in [Party -> Int]
    BY <1>2
  <2> HIDE DEF s, x, k, v, a, t
  <2>2. Shared(a, t, x, v, k, s)
    BY <1>3, <1>8, <1>10, <1>12, <1>14, <1>15, <2>1 DEF Shared
  <2> QED
    BY <2>2, SharesSum
<1>17. SUM(s) = (RR * t + a * QQ) % q
  BY <1>4, <1>16
<1>18. CASE setup.scheme = "eddsa"
  <2>1. t = 1 /\ a = e /\ e = Challenge[RR][m]
    BY <1>11, <1>18
  <2>2. RR * 1 = RR
    <3> HIDE DEF RR
    <3> QED
      BY <1>5, Scalars DEF Zq
  <2>3. SUM(s) = (RR + Challenge[RR][m] * QQ) % q
    BY <1>17, <2>1, <2>2
  <2> QED
    BY <1>18, <2>3 DEF SchnorrVerifies
<1>19. CASE setup.scheme = "bip340"
  <2>1. t = Sign(RR) /\ a = (IF is_odd(QQ) THEN q - e ELSE e) /\ e = Challenge[get_x(RR)][m]
    BY <1>11, <1>19
  <2>2. Cong(a * QQ, e * get_x(QQ)) /\ a * QQ \in Int /\ e * get_x(QQ) \in Int
    <3> HIDE DEF QQ, a, e
    <3> QED
      BY <1>5, <1>7, <2>1, NegatedChallenge
  <2>3. Cong(get_x(RR), RR * t) /\ RR * t \in Int
    <3> HIDE DEF RR, t
    <3> QED
      BY <1>5, <1>6, <1>8, <2>1, Scalars DEF Zq
  <2>4. Cong(RR * t, get_x(RR))
    BY <2>3 DEF Cong
  <2>5. Cong(RR * t + a * QQ, get_x(RR) + e * get_x(QQ))
    <3> HIDE DEF RR, QQ, t, a, e
    <3> QED
      BY <1>6, <2>2, <2>3, <2>4, CongPlus
  <2>6. SUM(s) = (get_x(RR) + Challenge[get_x(RR)][m] * get_x(QQ)) % q
    <3>1. (RR * t + a * QQ) % q = (get_x(RR) + e * get_x(QQ)) % q
      BY <2>5 DEF Cong
    <3> HIDE DEF RR, QQ, t, a, e, s
    <3> QED
      BY <1>17, <2>1, <3>1
  <2>7. setup.scheme # "eddsa"
    BY <1>19
  <2> QED
    BY <2>6, <2>7 DEF SchnorrVerifies, get_x
<1> QED
  BY <1>0, <1>18, <1>19

-----------------------------------------------------------------------------
(* ECDSA: s and its negative verify, as a point and its negative have the  *)
(* same x.                                                                 *)
LEMMA NegatedPoint ==
  ASSUME NEW K \in Zq, K # 0
  PROVE  q - K \in Zq /\ get_x(q - K) = get_x(K)
<1>1. q \in Nat /\ q > 2 /\ K \in 1 .. q - 1 /\ 2 \in 1 .. q - 1
  BY ConstantTypes, Scalars DEF Zq
<1>2. 2 * K # q
  <2>1. (2 * K) % q # 0
    BY <1>1, NoZeroDivisors
  <2>2. q % q = 0
    BY <1>1, ModUnique
  <2> QED
    BY <2>1, <2>2
<1> QED
  BY <1>1, <1>2 DEF get_x, is_odd, Zq

LEMMA Nonzero ==
  ASSUME NEW a \in Zq, NEW b \in Zq, a # 0, b # 0
  PROVE  (a * b) % q # 0 /\ a * b \in Int
<1>1. a \in 1 .. q - 1 /\ b \in 1 .. q - 1
  BY Scalars DEF Zq
<1> QED
  BY <1>1, NoZeroDivisors

LEMMA CongTrans ==
  ASSUME NEW a, NEW b, NEW c, Cong(a, b), Cong(b, c)
  PROVE  Cong(a, c)
BY DEF Cong

LEMMA CongSym ==
  ASSUME NEW a, NEW b, Cong(a, b)
  PROVE  Cong(b, a)
BY DEF Cong

(* s * k is what was divided by rho * k, over rho.                         *)
LEMMA Quotient ==
  ASSUME NEW K \in Zq, NEW rho \in Zq, NEW A \in Int, NEW T \in Zq, NEW B \in Zq, NEW s \in Zq,
         K # 0, rho # 0, Cong(T, rho * K), Cong(B, rho * A), s = (B * Inv(T)) % q
  PROVE  Cong(K * s, A)
<1>0. Zq \subseteq Int
  BY Scalars
<1>1. T # 0
  <2>1. (rho * K) % q # 0
    BY Nonzero
  <2>2. T % q # 0
    BY <2>1 DEF Cong
  <2>3. 0 % q = 0
    BY Scalars, ModSmall
  <2> QED
    BY <2>2, <2>3
<1> DEFINE I == Inv(T)
<1>2. I \in Int /\ Cong(T * I, 1)
  BY <1>1, Invertible
<1>3. s = (B * I) % q
  OBVIOUS
<1> HIDE DEF I
<1>4. K \in Int /\ rho \in Int /\ T \in Int /\ B \in Int /\ s \in Int
  BY <1>0
<1>5. B * I \in Int /\ rho * K \in Int /\ rho * A \in Int
  BY <1>2, <1>4
<1>6. Cong(s, B * I)
  BY <1>3, <1>5, CongRes
<1>7. Cong(B * I, (rho * A) * I) /\ (rho * A) * I \in Int
  BY <1>2, <1>4, <1>5, CongTimes
<1>8. Cong(s, (rho * A) * I)
  BY <1>6, <1>7, CongTrans
<1>9. Cong(K * s, K * ((rho * A) * I))
  BY <1>4, <1>7, <1>8, CongTimes
<1>10. K * ((rho * A) * I) = (rho * K) * (I * A) /\ I * A \in Int /\ T * (I * A) = (T * I) * A /\ T * I \in Int
  BY <1>2, <1>4
<1>11. Cong(T * (I * A), (rho * K) * (I * A))
  BY <1>4, <1>5, <1>10, CongTimes
<1>12. Cong((T * I) * A, A)
  BY <1>2, <1>10, CongOne
<1>13. Cong((rho * K) * (I * A), T * (I * A))
  BY <1>11, CongSym
<1>14. Cong((rho * K) * (I * A), A)
  BY <1>10, <1>12, <1>13, CongTrans
<1> QED
  BY <1>9, <1>10, <1>14, CongTrans

(* The verification of s, or of its negative.                              *)
LEMMA QuotientVerifies ==
  ASSUME NEW K \in Zq, NEW A \in Int, NEW s \in Zq, K # 0, A % q # 0, Cong(K * s, A),
         NEW low, low = IF q - s < s THEN q - s ELSE s
  PROVE  low # 0 /\ get_x((A * Inv(low)) % q) = get_x(K)
<1>0. Zq \subseteq Int /\ q \in Nat \ {0}
  BY Scalars
<1>1. K \in Int /\ s \in Int
  BY <1>0
<1>2. s # 0
  <2>1. (K * s) % q # 0
    BY DEF Cong
  <2>2. K * 0 = 0 /\ 0 % q = 0
    BY <1>0, <1>1, ModSmall
  <2> QED
    BY <2>1, <2>2
<1>3. q - s \in Zq /\ q - s # 0
  BY <1>0, <1>2, NegatedPoint DEF Zq
<1>4. low \in Zq /\ low # 0
  BY <1>2, <1>3
<1> DEFINE J == Inv(low)
<1>5. J \in Int /\ Cong(low * J, 1)
  BY <1>4, Invertible
<1> HIDE DEF J
<1>6. low \in Int /\ low * J \in Int
  BY <1>0, <1>4, <1>5
<1>7. CASE low = s
  <2>0. K * s \in Int
    BY <1>1
  <2>1. Cong((K * s) * J, A * J)
    BY <1>5, <2>0, CongTimes
  <2>2. (K * s) * J = (low * J) * K
    BY <1>1, <1>5, <1>7
  <2>3. Cong((low * J) * K, K)
    BY <1>1, <1>5, <1>6, CongOne
  <2>4. Cong(A * J, K)
    BY <2>1, <2>2, <2>3, CongSym, CongTrans
  <2>5. (A * J) % q = K
    BY <1>0, <2>4, ModSmall DEF Cong, Zq
  <2> QED
    BY <1>4, <2>5 DEF J
<1>8. CASE low = q - s
  <2>1. K * low = - (K * s) + q * K /\ - (K * s) \in Int /\ K * s \in Int /\ K * low \in Int
    BY <1>0, <1>1, <1>8
  <2>2. Cong(K * low, - (K * s))
    BY <1>1, <2>1, CongMultiple
  <2>3. Cong((K * s) * (-1), A * (-1))
    BY <2>1, CongTimes
  <2>4. (K * s) * (-1) = - (K * s) /\ A * (-1) = - A /\ - A \in Int
    BY <2>1
  <2>5. Cong(K * low, - A)
    BY <2>2, <2>3, <2>4, CongTrans
  <2>6. Cong((K * low) * J, (- A) * J)
    BY <1>5, <2>1, <2>4, <2>5, CongTimes
  <2>7. (K * low) * J = (low * J) * K /\ (- A) * J = - (A * J) /\ A * J \in Int /\ - (A * J) \in Int
    BY <1>1, <1>5, <1>6
  <2>8. Cong((low * J) * K, K)
    BY <1>1, <1>5, <1>6, CongOne
  <2>9. Cong(- (A * J), K)
    BY <2>6, <2>7, <2>8, CongSym, CongTrans
  <2>10. Cong((- (A * J)) * (-1), K * (-1))
    BY <1>1, <2>7, <2>9, CongTimes
  <2>11. (- (A * J)) * (-1) = A * J /\ K * (-1) = - K /\ - K \in Int /\ - K + q * 1 = q - K
    BY <1>0, <1>1, <2>7
  <2>12. Cong(- K + q * 1, - K)
    BY <2>11, CongMultiple
  <2>13. Cong(A * J, q - K)
    BY <2>10, <2>11, <2>12, CongSym, CongTrans
  <2>14. q - K \in Zq /\ get_x(q - K) = get_x(K)
    BY NegatedPoint
  <2>15. (A * J) % q = q - K
    BY <1>0, <2>13, <2>14, ModSmall DEF Cong, Zq
  <2> QED
    BY <1>4, <2>14, <2>15 DEF J
<1> QED
  BY <1>7, <1>8

(* What the receiver holds of the last round is what was committed to.     *)
LEMMA Round9Right ==
  ASSUME IndInv, NEW p \in Honest, Ecdsa, Full(p, Release), Stage(p, Release), Proved9(p), NEW j \in Party
  PROVE  Msg(p, Release, j).v = <<Public9(p, j)[3], Public9(p, j)[4]>>
<1>1. p \in Party /\ \A k \in 1 .. 8 : Passed(p, k)
  BY HonestParty, FirstRounds
<1>2. CASE j \in Honest
  <2>1. Made(j, Release, Msg(p, Release, j)) /\ \A k \in 1 .. 8 : Passed(j, k)
    BY <1>2, LastRound, FirstRounds
  <2>2. /\ Msg(p, Release, j).v = <<rho_k(j), Beta(j)>>
        /\ Msg(p, Release, j).pi = Proof(Public9(j, j), Msg(p, Release, j).v, j)
    BY <2>1 DEF Made, Release
  <2>3. Msg(j, 6, j).v = Products(j) /\ Msg(j, 4, j).v.eRHO = draw[j].rho
    <3>1. Full(j, 6) /\ Full(j, 4)
      BY <2>1 DEF Passed
    <3>2. Made(j, 6, Msg(j, 6, j)) /\ Made(j, 4, Msg(j, 4, j))
      BY <1>2, <3>1, FromHonest
    <3> QED
      BY <3>2 DEF Made
  <2>4. <<Public9(j, j)[3], Public9(j, j)[4]>> = <<rho_k(j), Beta(j)>>
    BY <2>3 DEF Public9, Products, Beta
  <2>5. Public9(p, j) = Public9(j, j)
    <3>1. CASE p = j
      BY <3>1
    <3>2. CASE p # j
      <4>1. Msg(p, Release, j).pi = Proof(Public9(p, j), Msg(p, Release, j).v, j)
        BY <3>2 DEF Proved9, Others
      <4> QED
        BY <2>2, <4>1 DEF Proof
    <3> QED
      BY <3>1, <3>2
  <2> QED
    BY <2>2, <2>4, <2>5
<1>3. CASE j \in setup.faulty
  <2>1. sent[9][j][p] # None /\ Msg(p, Release, j) = sent[9][j][p] /\ j # p
    BY <1>1, <1>3 DEF Full, Msg, Honest, Release
  <2>2. ProofShows(p, j, 9, Msg(p, Release, j))
    BY <1>3, <2>1 DEF IndInv, FaultyProofs, Release
  <2>3. Msg(p, Release, j).pi = Proof(Public9(p, j), Msg(p, Release, j).v, j)
    BY <2>1 DEF Proved9, Others
  <2>4. Msg(p, Release, j).pi = Proof(Public9(p, j), <<Public9(p, j)[3], Public9(p, j)[4]>>, j)
    BY <2>2 DEF ProofShows
  <2> QED
    BY <2>3, <2>4 DEF Proof
<1> QED
  BY <1>2, <1>3 DEF Honest

Total(p, i) == SUM([j \in Party |-> Msg(p, Release, j).v[i]])
Rho(p) == SUM([j \in Party |-> Msg(p, 4, j).v.eRHO])

LEMMA MessageInt ==
  ASSUME IndInv, NEW p \in Honest, Ecdsa
  PROVE  arg[p].msgs[1] \in Int
<1>1. p \in Party /\ setup \in Setups /\ arg \in setup.args /\ setup.scheme = "ecdsa"
  BY HonestParty DEF IndInv, Types, Ecdsa
<1>2. arg[p].msgs \in Seq(Nat) /\ arg[p].msgs # <<>>
  BY <1>1, CallTypes
<1> QED
  BY <1>2

(* The receiver divides rho * (m + r * x) by rho * k.                      *)
LEMMA Totals ==
  ASSUME IndInv, NEW p \in Honest, Ecdsa, Full(p, Release), Stage(p, Release), Proved9(p)
  PROVE  /\ Rho(p) \in Zq /\ eK(p) \in Zq /\ r(p) = get_x(eK(p))
         /\ arg[p].msgs[1] + r(p) * Key(p).Q \in Int
         /\ Total(p, 1) \in Zq /\ Cong(Total(p, 1), Rho(p) * eK(p))
         /\ Total(p, 2) \in Zq /\ Cong(Total(p, 2), Rho(p) * (arg[p].msgs[1] + r(p) * Key(p).Q))
<1>1. p \in Party /\ \A k \in 1 .. 8 : Passed(p, k)
  BY HonestParty, FirstRounds
<1>2. Released(p)
  <2>1. sent[Release][p][p] # None
    BY <1>1 DEF Full, Msg
  <2> QED
    BY <1>1, <2>1 DEF Released
<1> DEFINE rhos == [j \in Party |-> Msg(p, 4, j).v.eRHO]
           X == [j \in Party |-> Msg(p, 6, j).v["eRHO_X"]]
           Y == [j \in Party |-> Msg(p, 6, j).v["eRHO_K"]]
           s == [j \in Party |-> Msg(p, Release, j).v[2]]
           y == [j \in Party |-> Msg(p, Release, j).v[1]]
           m == arg[p].msgs[1]
           QQ == Key(p).Q
<1>3. /\ SumFunction(Y) % q = (Rho(p) * eK(p)) % q
      /\ SumFunction(X) % q = (Rho(p) * QQ) % q
  BY <1>2, ReleasedProducts DEF ReleaseMeansProducts, Rho, Sum6
<1>4. /\ \A j \in Party : Msg(p, 4, j).v.eK \in Int /\ Msg(p, 4, j).v.eRHO \in Int
      /\ QQ \in Int /\ m \in Int
  BY <1>1, Scalars4, OwnScalars, MessageInt DEF Passed
<1>5. rhos \in [Party -> Int] /\ X \in [Party -> Int] /\ Y \in [Party -> Int]
  BY <1>1, <1>4, MissScalars
<1>6. eK(p) \in Zq /\ Rho(p) \in Zq /\ eK(p) \in Int /\ Rho(p) \in Int
  <2>1. [j \in Party |-> Msg(p, 4, j).v.eK] \in [Party -> Int]
    BY <1>4
  <2> QED
    BY <1>5, <2>1, FiniteParty, SumInt DEF eK, Rho
<1>7. r(p) = get_x(eK(p))
  <2>1. \A j \in Party : Msg(p, 8, j).K = Msg(p, 4, j).v.eK
    BY <1>1, RightNonce
  <2>2. [j \in Party |-> Msg(p, 8, j).K] = [j \in Party |-> Msg(p, 4, j).v.eK]
    BY <2>1
  <2> QED
    BY <2>2 DEF r, eK
<1>8. r(p) \in Int
  BY <1>6, <1>7, EvenPoint
<1>9. y = Y
  <2>1. \A j \in Party : Msg(p, Release, j).v[1] = Msg(p, 6, j).v["eRHO_K"]
    BY Round9Right DEF Public9
  <2> QED
    BY <2>1
<1>10. \A j \in Party : s[j] = (r(p) * X[j] + m * rhos[j]) % q
  BY Round9Right DEF Public9
<1> DEFINE k == [j \in Party |-> m * rhos[j]]
           rr == r(p)
           rho == Rho(p)
<1>11. Total(p, 1) = SumFunction(Y) % q /\ Total(p, 1) \in Zq
  <2>1. Total(p, 1) = SUM(Y)
    BY <1>9 DEF Total
  <2>2. SUM(Y) = SumFunction(Y) % q
    BY DEF SUM
  <2> HIDE DEF Y
  <2> QED
    BY <1>5, <2>1, <2>2, FiniteParty, SumInt
<1>12. Cong(Total(p, 1), Rho(p) * eK(p))
  <2>1. Rho(p) * eK(p) \in Int
    BY <1>6
  <2>2. Total(p, 1) = (Rho(p) * eK(p)) % q
    BY <1>3, <1>11
  <2> QED
    BY <2>1, <2>2, CongRes
<1>13. Total(p, 2) = SUM(s) /\ rho = SUM(rhos) /\ SUM(X) = SumFunction(X) % q
  BY DEF Total, Rho, SUM
<1>14. s \in [Party -> Int] /\ k \in [Party -> Int] /\ \A j \in Party : k[j] = m * rhos[j]
  <2>1. \A j \in Party : X[j] \in Int /\ rhos[j] \in Int
    BY <1>5
  <2>2. DOMAIN s = Party /\ s = [j \in Party |-> s[j]]
    OBVIOUS
  <2>3. \A j \in Party : s[j] = (rr * X[j] + m * rhos[j]) % q
    BY <1>10
  <2>4. m \in Int /\ rr \in Int
    BY <1>4, <1>8
  <2> HIDE DEF s, X, rhos, m, rr
  <2>5. \A j \in Party : m * rhos[j] \in Int
    BY <2>1, <2>4
  <2>6. ASSUME NEW j \in Party PROVE s[j] \in Int
    <3>1. rr * X[j] + m * rhos[j] \in Int
      BY <2>1, <2>4
    <3> QED
      BY <2>3, <3>1, ModInt
  <2> QED
    BY <2>2, <2>5, <2>6
<1>15. \A j \in Party : Cong(k[j], rhos[j] * m) /\ s[j] = (rr * X[j] + k[j]) % q
  <2>1. \A j \in Party : rhos[j] \in Int
    BY <1>5
  <2>2. m \in Int /\ \A j \in Party : s[j] = (rr * X[j] + m * rhos[j]) % q
    BY <1>4, <1>10
  <2> HIDE DEF s, X, rhos, m, rr, k
  <2>3. \A j \in Party : rhos[j] * m = m * rhos[j]
    BY <2>1, <2>2
  <2> QED
    BY <1>14, <2>2, <2>3 DEF Cong
<1>16. SUM(s) = (SUM(rhos) * m + rr * SUM(X)) % q
  <2>1. rr \in Int /\ m \in Int
    BY <1>4, <1>8
  <2>2. rhos \in [Party -> Int] /\ X \in [Party -> Int]
    BY <1>5
  <2> HIDE DEF s, X, rhos, m, rr, k
  <2>3. s \in [Party -> Int] /\ k \in [Party -> Int]
    BY <1>14
  <2>4. Shared(rr, m, X, rhos, k, s)
    BY <1>15, <2>1, <2>2, <2>3 DEF Shared
  <2> QED
    BY <2>4, SharesSum
<1>17. SUM(X) = (rho * QQ) % q
  BY <1>3, <1>13
<1>18. rho \in Int /\ rr \in Int /\ m \in Int /\ QQ \in Int
  BY <1>4, <1>6, <1>8
<1>19. Total(p, 2) = (rho * m + rr * ((rho * QQ) % q)) % q
  <2> HIDE DEF s, X, rhos, m, rr, k, QQ, rho
  <2> QED
    BY <1>13, <1>16, <1>17
<1>20. Total(p, 2) \in Zq /\ Cong(Total(p, 2), rho * (m + rr * QQ)) /\ m + rr * QQ \in Int
  <2> HIDE DEF s, X, rhos, m, rr, k, QQ, rho
  <2> DEFINE w == rho * QQ
  <2>1. w \in Int /\ rho * m \in Int /\ rho * (m + rr * QQ) = rho * m + rr * w /\ m + rr * QQ \in Int
    BY <1>18
  <2>2. Total(p, 2) = (rho * m + rr * (w % q)) % q
    BY <1>19
  <2> HIDE DEF w
  <2>3. Cong(w % q, w) /\ w % q \in Int
    BY <2>1, CongRes
  <2>4. Cong(rr * (w % q), rr * w) /\ rr * (w % q) \in Int /\ rr * w \in Int
    <3> DEFINE z == w % q
    <3>1. z \in Int /\ Cong(z, w)
      BY <2>3
    <3> HIDE DEF z
    <3>2. Cong(rr * z, rr * w) /\ rr * z \in Int /\ rr * w \in Int
      BY <1>18, <2>1, <3>1, CongTimes
    <3> QED
      BY <3>2 DEF z
  <2>5. Cong(rho * m, rho * m)
    BY DEF Cong
  <2>6. Cong(rho * m + rr * (w % q), rho * m + rr * w)
    BY <2>1, <2>4, <2>5, CongPlus
  <2>7. rho * m + rr * (w % q) \in Int
    BY <2>1, <2>4
  <2>8. Total(p, 2) \in Zq /\ Cong(Total(p, 2), rho * m + rr * (w % q))
    BY <2>2, <2>7, CongRes
  <2>9. Cong(Total(p, 2), rho * m + rr * w)
    BY <2>6, <2>8, CongTrans
  <2> QED
    BY <2>1, <2>8, <2>9
<1> QED
  BY <1>6, <1>7, <1>11, <1>12, <1>20

(* A signature of proved shares verifies, whoever is faulty.               *)
LEMMA EcdsaVerified ==
  ASSUME IndInv, NEW p \in Honest, Ecdsa, Full(p, Release), Stage(p, Release), Proved9(p), ~ Degenerate(p),
         NEW s, s = (Total(p, 2) * Inv(Total(p, 1))) % q,
         NEW low, low = IF q - s < s THEN q - s ELSE s
  PROVE  EcdsaVerifies(p, low)
<1> DEFINE A == arg[p].msgs[1] + r(p) * Key(p).Q
           T == Total(p, 1)
           B == Total(p, 2)
           K == eK(p)
           rho == Rho(p)
<1>1. /\ rho \in Zq /\ K \in Zq /\ r(p) = get_x(K) /\ A \in Int
      /\ T \in Zq /\ Cong(T, rho * K) /\ B \in Zq /\ Cong(B, rho * A)
  BY Totals
<1>2. K # 0 /\ rho # 0 /\ A % q # 0
  BY DEF Degenerate, Rho
<1>3. s = (B * Inv(T)) % q
  OBVIOUS
<1>4. EcdsaVerifies(p, low) <=> low # 0 /\ get_x((A * Inv(low)) % q) = r(p)
  BY DEF EcdsaVerifies
<1> HIDE DEF A, T, B, K, rho
<1>5. T # 0
  <2>1. (rho * K) % q # 0
    BY <1>1, <1>2, Nonzero
  <2>2. T % q # 0
    BY <1>1, <2>1 DEF Cong
  <2>3. 0 % q = 0
    BY Scalars, ModSmall
  <2> QED
    BY <2>2, <2>3
<1>6. s \in Zq
  <2>1. Inv(T) \in Int /\ B \in Int
    BY <1>1, <1>5, Invertible, Scalars
  <2>2. B * Inv(T) \in Int
    BY <2>1
  <2> QED
    BY <1>3, <2>2, ModInt
<1>7. Cong(K * s, A)
  BY <1>1, <1>2, <1>3, <1>6, Quotient
<1>8. low # 0 /\ get_x((A * Inv(low)) % q) = get_x(K)
  BY <1>1, <1>2, <1>6, <1>7, QuotientVerifies
<1> QED
  BY <1>1, <1>4, <1>8

-----------------------------------------------------------------------------
(* Having failed the last verification, a party had read and checked all   *)
(* there is: what it computed stays.                                       *)
Finished ==
  \A p \in Honest : pc[p] = BadSig =>
    Stage(p, Release) /\ IF Ecdsa THEN Degenerate(p) ELSE setup.faulty # {}

LEMMA DegenerateStays ==
  ASSUME Kept, NEW p \in Party, Ecdsa, Stage(p, Release)
  PROVE  Degenerate(p)' = Degenerate(p)
<1>1. \A k \in 1 .. 8 : Same(p, k)
  BY StageSame, HonestParty
<1>2. eK(p)' = eK(p) /\ r(p)' = r(p) /\ Key(p)' = Key(p) /\ arg' = arg
  <2>1. Same(p, 1) /\ Same(p, 2) /\ Same(p, 4) /\ Same(p, 6) /\ Same(p, 7) /\ Same(p, 8)
    BY <1>1
  <2> QED
    BY <2>1, FixedValues, Round4Values, Round8Values DEF Kept
<1>3. \A j \in Party : Msg(p, 4, j)' = Msg(p, 4, j)
  BY <1>1 DEF Same
<1>4. [j \in Party |-> Msg(p, 4, j).v.eRHO]' = [j \in Party |-> Msg(p, 4, j).v.eRHO]
  BY <1>3
<1> QED
  BY <1>2, <1>4 DEF Degenerate

LEMMA FinishedKept ==
  ASSUME Finished, Kept, \A p \in Honest : (pc'[p] = BadSig /\ pc[p] # BadSig) =>
           Stage(p, Release) /\ IF Ecdsa THEN Degenerate(p) ELSE setup.faulty # {}
  PROVE  Finished'
<1>1. Honest' = Honest /\ Honest \subseteq Party /\ Ecdsa' = Ecdsa /\ setup' = setup /\ Release \in 1 .. Release
  BY FixedValues, HonestParty DEF Kept
<1> SUFFICES ASSUME NEW p \in Honest, pc'[p] = BadSig
             PROVE  (Stage(p, Release) /\ IF Ecdsa THEN Degenerate(p) ELSE setup.faulty # {})'
  BY <1>1 DEF Finished
<1>2. Stage(p, Release) /\ IF Ecdsa THEN Degenerate(p) ELSE setup.faulty # {}
  BY DEF Finished
<1>3. Stage(p, Release)'
  BY <1>1, <1>2, StageKept
<1>4. CASE Ecdsa
  BY <1>1, <1>2, <1>3, <1>4, DegenerateStays
<1>5. CASE ~ Ecdsa
  BY <1>1, <1>2, <1>3, <1>5
<1> QED
  BY <1>4, <1>5

(* Where a party stops with a signature that does not verify.              *)
SchnorrBad(p) ==
  /\ ~ Ecdsa /\ Has(p, Release)
  /\ \E l \in DOMAIN arg[p].msgs : ~ SchnorrVerifies(p, l, SUM([j \in Party |-> Msg(p, Release, j).ss[l]]))

EcdsaBad(p) ==
  /\ Ecdsa /\ Has(p, Release) /\ Proved9(p)
  /\ LET s == (Total(p, 2) * Inv(Total(p, 1))) % q
     IN  ~ EcdsaVerifies(p, IF q - s < s THEN q - s ELSE s)

LEMMA StepTo ==
  ASSUME NEW p \in Honest, PartyStep(p)
  PROVE  \E x : pc' = [pc EXCEPT ![p] = x] /\ (x = BadSig => SchnorrBad(p) \/ EcdsaBad(p))
<1>1. ASSUME NEW x, x \in {Done, Failed}, Stop(p, x)
      PROVE  pc' = [pc EXCEPT ![p] = x] /\ x # BadSig
  BY <1>1 DEF Stop, Done, Failed, BadSig
<1>2. ASSUME NEW rd \in 1 .. 8, NEW m, Broadcast(p, rd, m)
      PROVE  pc' = [pc EXCEPT ![p] = rd] /\ rd # BadSig
  BY <1>2 DEF Broadcast, BadSig
<1>3. ASSUME NEW m, SendToReceiver(p, m)
      PROVE  \E x : pc' = [pc EXCEPT ![p] = x] /\ x # BadSig
  <2> DEFINE x == IF arg[p].receiver = p THEN Release ELSE Done
  <2>1. pc' = [pc EXCEPT ![p] = x] /\ x # BadSig
    BY <1>3 DEF SendToReceiver, Release, Done, BadSig
  <2> QED
    BY <2>1
<1>4. CASE Commit(p)
  BY <1>1, <1>2, <1>4 DEF Commit
<1>5. CASE Open(p)
  BY <1>1, <1>2, <1>5 DEF Open
<1>6. CASE SchnorrRelease(p)
  BY <1>1, <1>3, <1>6 DEF SchnorrRelease
<1>7. CASE EcdsaRound2(p)
  BY <1>1, <1>2, <1>7 DEF EcdsaRound2
<1>8. CASE EcdsaRound3(p)
  BY <1>1, <1>2, <1>8 DEF EcdsaRound3
<1>9. CASE EcdsaRound4(p)
  BY <1>1, <1>2, <1>9 DEF EcdsaRound4
<1>10. CASE EcdsaRound5(p)
  <2>1. Stop(p, Failed) \/ \E m : Broadcast(p, 6, m)
    BY <1>10, Zenon DEF EcdsaRound5
  <2> QED
    BY <1>1, <1>2, <2>1
<1>11. CASE EcdsaRound6(p)
  BY <1>1, <1>2, <1>11 DEF EcdsaRound6
<1>12. CASE EcdsaRound7(p)
  BY <1>1, <1>2, <1>12 DEF EcdsaRound7
<1>13. CASE EcdsaRelease(p)
  BY <1>1, <1>3, <1>13 DEF EcdsaRelease
<1>14. CASE PeerGone(p)
  BY <1>1, <1>14 DEF PeerGone
<1>15. CASE SchnorrOutput(p)
  <2>1. CASE Stop(p, BadSig) /\ SchnorrBad(p)
    BY <2>1 DEF Stop
  <2>2. Stop(p, Failed) \/ Stop(p, Done) \/ (Stop(p, BadSig) /\ SchnorrBad(p))
    BY <1>15 DEF SchnorrOutput, SchnorrBad
  <2> QED
    BY <1>1, <2>1, <2>2
<1>16. CASE EcdsaOutput(p)
  <2>1. CASE Stop(p, BadSig) /\ EcdsaBad(p)
    BY <2>1 DEF Stop
  <2>2. Stop(p, Failed) \/ Stop(p, Done) \/ (Stop(p, BadSig) /\ EcdsaBad(p))
    BY <1>16 DEF EcdsaOutput, EcdsaBad, Total
  <2> QED
    BY <1>1, <2>1, <2>2
<1> QED
  BY <1>4, <1>5, <1>6, <1>7, <1>8, <1>9, <1>10, <1>11, <1>12, <1>13, <1>14, <1>15, <1>16 DEF PartyStep

LEMMA BadNeedsFault ==
  ASSUME IndInv, NEW p \in Honest, SchnorrBad(p) \/ EcdsaBad(p)
  PROVE  Stage(p, Release) /\ IF Ecdsa THEN Degenerate(p) ELSE setup.faulty # {}
<1>1. Full(p, Release) /\ pc[p] = Release
  BY DEF SchnorrBad, EcdsaBad, Has, Full
<1>2. Stage(p, Release)
  BY <1>1 DEF IndInv, Where, Release
<1>3. CASE EcdsaBad(p)
  <2> DEFINE s == (Total(p, 2) * Inv(Total(p, 1))) % q
             low == IF q - s < s THEN q - s ELSE s
  <2>1. Ecdsa /\ Proved9(p) /\ ~ EcdsaVerifies(p, low)
    BY <1>3 DEF EcdsaBad
  <2>2. ASSUME ~ Degenerate(p) PROVE EcdsaVerifies(p, low)
    BY <1>1, <1>2, <2>1, <2>2, EcdsaVerified
  <2> QED
    BY <1>2, <2>1, <2>2
<1>4. CASE SchnorrBad(p)
  BY <1>1, <1>2, <1>4, SchnorrVerified DEF SchnorrBad
<1> QED
  BY <1>3, <1>4

LEMMA FinishedStep == IndInv /\ Finished /\ [Next]_vars => Finished'
<1> SUFFICES ASSUME IndInv, Finished, [Next]_vars PROVE Finished'
  OBVIOUS
<1>0. DOMAIN pc = Honest
  BY DEF IndInv, Types
<1>1. ASSUME NEW p \in Honest, PartyStep(p), UNCHANGED <<setup, arg, draw, errs>> PROVE Finished'
  <2>1. Kept
    BY <1>1, PartyStepKeeps
  <2>2. PICK x : pc' = [pc EXCEPT ![p] = x] /\ (x = BadSig => SchnorrBad(p) \/ EcdsaBad(p))
    BY <1>1, StepTo
  <2>3. ASSUME NEW j \in Honest, pc'[j] = BadSig, pc[j] # BadSig
        PROVE  Stage(j, Release) /\ IF Ecdsa THEN Degenerate(j) ELSE setup.faulty # {}
    <3>1. j = p /\ (SchnorrBad(p) \/ EcdsaBad(p))
      BY <1>0, <2>2, <2>3
    <3> QED
      BY <3>1, BadNeedsFault
  <2> QED
    BY <2>1, <2>3, FinishedKept
<1>2. ASSUME NEW p \in Honest, TransportError(p), UNCHANGED <<setup, arg, draw>> PROVE Finished'
  <2>1. Kept
    BY <1>2, StopKeeps DEF TransportError
  <2>2. \A j \in Honest : pc'[j] = BadSig => pc[j] = BadSig
    BY <1>0, <1>2 DEF TransportError, Stop, Failed, BadSig
  <2> QED
    BY <2>1, <2>2, FinishedKept
<1>3. ASSUME NEW f \in setup.faulty, FaultyStep(f), UNCHANGED <<setup, arg, draw, errs>> PROVE Finished'
  <2>1. Kept
    BY <1>3, FaultyKeeps DEF FaultyStep
  <2>2. pc' = pc
    BY <1>3 DEF FaultyStep, FaultySends
  <2> QED
    BY <2>1, <2>2, FinishedKept
<1>4. CASE UNCHANGED vars
  <2>1. Kept /\ pc' = pc
    BY <1>4 DEF vars, Kept
  <2> QED
    BY <2>1, FinishedKept
<1> QED
  BY <1>1, <1>2, <1>3, <1>4 DEF Next

(* sign_batch of schnorr_mp and sign of ecdsa_mp: the receiver's final     *)
(* verification fails only in the Schnorr variants and only when a faulty  *)
(* party took part, or for degenerate draws of ECDSA; never because the    *)
(* callers asked for different things.                                     *)
THEOREM BadSigHolds == Spec => []BadSigNeedsFault
<1>1. Init => Finished
  BY DEF Init, Finished, BadSig
<1>2. Finished => BadSigNeedsFault
  BY DEF Finished, BadSigNeedsFault
<1> QED
  BY <1>1, <1>2, FinishedStep, Inductive, PTL DEF Spec
=============================================================================
