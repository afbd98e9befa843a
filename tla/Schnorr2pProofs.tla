-------------------------- MODULE Schnorr2pProofs --------------------------
(***************************************************************************)
(* The two-party key and two-party Schnorr signing: what holds for every   *)
(* order q, every length W of a coin toss, and any number of sessions and  *)
(* transport errors, with either party faulty; and, of two honest parties, *)
(* which calls of sign_batch end with signatures.                          *)
(***************************************************************************)
EXTENDS Schnorr2p, ArithTheorems

Share == [x : Zq, Q : Zq]

(* What the parties hold and have sent in a key session; the rest of the   *)
(* time no session is under way.                                           *)
InSession == kind \in {"dkg", "refresh"}

ShiftOf(p, k, bits) ==
  [k EXCEPT !.x = (IF p = 1 THEN @ + from_bin(bits) ELSE @ - from_bin(bits)) % q]

Contribution(p) == IF kind = "dkg" THEN draw[p] \in Draw ELSE draw[p] \in Bits

(* A party that completed the session has it in its lineage, and only it.  *)
Counted(p) ==
  /\ pc[p] = "done" => /\ session \in lineage[p]
                       /\ kind = "dkg" => lineage[p] = {session}
  /\ pc[p] # "done" => /\ key[p] = entry[p]
                       /\ InSession => session \notin lineage[p]

First ==
  1 \in Honest =>
    /\ pc[1] = "start" => msg[1] = None /\ msg[3] = None
    /\ pc[1] = "sent" => msg[3] = None
    /\ pc[1] \in {"sent", "done"} => Contribution(1)
    /\ msg[3] # None => IF kind = "dkg" THEN msg[3].Q1 = draw[1] ELSE msg[3] = draw[1]
    /\ (pc[1] = "done" /\ kind = "dkg") =>
         /\ msg[2] # None /\ OnCurve(msg[2].Q2)
         /\ key[1] = [x |-> draw[1], Q |-> (draw[1] + msg[2].Q2) % q]
    /\ (pc[1] = "done" /\ kind = "refresh") =>
         /\ msg[2] # None /\ msg[2] \in Bits
         /\ key[1] = ShiftOf(1, entry[1], Xor(draw[1], msg[2]))

Second ==
  2 \in Honest =>
    /\ pc[2] = "start" => msg[2] = None
    /\ pc[2] \in {"sent", "done"} => msg[1] # None /\ Contribution(2)
    /\ msg[2] # None => IF kind = "dkg" THEN msg[2].Q2 = draw[2] ELSE msg[2] = draw[2]
    /\ (pc[2] = "done" /\ kind = "dkg") =>
         /\ msg[3] # None /\ P2Accepts
         /\ key[2] = [x |-> draw[2], Q |-> (msg[3].Q1 + draw[2]) % q]
    /\ (pc[2] = "done" /\ kind = "refresh") =>
         /\ msg[3] # None /\ Opens
         /\ key[2] = ShiftOf(2, entry[2], Xor(msg[3], draw[2]))

(* What a session starts from, and what is left after the last one.        *)
Entries ==
  faulty = {} =>
    /\ kind = "none" => \A p \in Party : key[p] = None
    /\ kind = "dkg" => \E p \in Party : entry[p] = None
    /\ kind = "refresh" =>
         /\ \A p \in Party : entry[p] # None
         /\ lineage[1] \ {session} = lineage[2] \ {session} =>
              entry[1].Q = entry[2].Q /\ Gap(entry) = 0
    /\ kind = "sign" => SameLineageSharesKey

KeyTypes ==
  /\ faulty \in FaultySets /\ session \in Nat
  /\ kind \in {"none", "dkg", "refresh", "sign"}
  /\ key \in [Honest -> Share \union {None}] /\ entry \in [Honest -> Share \union {None}]
  /\ lineage \in [Honest -> SUBSET (1 .. session)]
  /\ pc \in [Honest -> {"idle", "start", "sent", "done", "failed"}]
  /\ DOMAIN draw = Honest /\ DOMAIN msg = 1 .. 3
  /\ InSession => session > 0 /\ \A p \in Honest : pc[p] # "idle"
  /\ ~ InSession => \A p \in Honest : pc[p] \in {"idle", "failed"}
  /\ (kind = "dkg" /\ msg[1] # None) => msg[1].sid1 = Nonce(1)
  /\ kind = "refresh" => \A p \in Honest : entry[p] # None

KeyInv == KeyTypes /\ Entries /\ First /\ Second /\ \A p \in Honest : Counted(p)

-----------------------------------------------------------------------------
LEMMA Numbers == q \in Nat \ {0} /\ Zq \subseteq Int /\ Draw \subseteq Zq /\ 0 \in Zq /\ W \in Nat
BY ConstantTypes DEF Zq

LEMMA ModZq ==
  ASSUME NEW a \in Int
  PROVE  a % q \in Zq
BY Numbers, ModDef DEF Zq

(* a + b less its residue is a multiple of q.                              *)
LEMMA GapOfSum ==
  ASSUME NEW a \in Int, NEW b \in Int
  PROVE  (a + b - ((a + b) % q)) % q = 0
<1> DEFINE y == a + b
           r == y % q
<1>1. y \in Int
  OBVIOUS
<1> HIDE DEF y
<1>2. PICK k \in Int : r \in 0 .. q - 1 /\ y = r + q * k
  BY <1>1, Numbers, ModPick
<1> HIDE DEF r
<1> DEFINE z == a + b - r
<1>3. z \in Int /\ z = q * k + 0
  BY <1>1, <1>2, Numbers DEF y
<1> HIDE DEF z
<1>4. 0 \in 0 .. q - 1
  BY Numbers
<1>5. z % q = 0
  BY <1>3, <1>4, Numbers, ModUnique
<1> QED
  BY <1>5 DEF z, r, y

(* What one party adds and the other takes off leaves the sum alone.       *)
LEMMA GapShifted ==
  ASSUME NEW a \in Int, NEW b \in Int, NEW r \in Int, NEW Q \in Int
  PROVE  (((a + r) % q) + ((b - r) % q) - Q) % q = (a + b - Q) % q
<1> DEFINE y == a + r
           z == b - r
           ry == y % q
           rz == z % q
<1>1. y \in Int /\ z \in Int /\ a + b - Q = y + z - Q
  OBVIOUS
<1> HIDE DEF y, z
<1>2. PICK k \in Int : ry \in 0 .. q - 1 /\ y = ry + q * k
  BY <1>1, Numbers, ModPick
<1>3. PICK l \in Int : rz \in 0 .. q - 1 /\ z = rz + q * l
  BY <1>1, Numbers, ModPick
<1> HIDE DEF ry, rz
<1>4. q * k + q * l = q * (k + l)
  BY Numbers, Distribute
<1> DEFINE u == ry + rz - Q
           v == y + z - Q
           m == k + l
<1>5. u \in Int /\ v \in Int /\ m \in Int /\ v = u + q * m
  BY <1>1, <1>2, <1>3, <1>4, Numbers
<1> HIDE DEF u, v, m
<1>6. v % q = u % q
  BY <1>5, Numbers, ModShift
<1> QED
  BY <1>1, <1>6 DEF u, v, ry, rz, y, z

(* The other summand is what is left of a sum.                             *)
LEMMA SumLess ==
  ASSUME NEW a \in Zq, NEW b \in Int
  PROVE  (((a + b) % q) - b) % q = a
<1> DEFINE y == a + b
           r == y % q
           c == - b
<1>1. y \in Int /\ a \in Int /\ c \in Int
  BY Numbers
<1>2. y + c = a
  BY <1>1
<1> HIDE DEF y, c
<1>3. ((y % q) + c) % q = (y + c) % q
  BY <1>1, Numbers, ModSum
<1>4. r \in Int
  BY <1>1, Numbers, ModDef
<1> HIDE DEF r
<1>5. (r + c) % q = (y + c) % q
  BY <1>3 DEF r
<1>6. r + c = r - b
  BY <1>4 DEF c
<1>7. a % q = a
  BY Numbers, ModSmall DEF Zq
<1>8. (r - b) % q = a
  BY <1>2, <1>5, <1>6, <1>7
<1> QED
  BY <1>8 DEF r, y

LEMMA BinIsInt ==
  ASSUME NEW bits \in Bits
  PROVE  from_bin(bits) \in Int
<1> DEFINE f == [i \in 1 .. W |-> bits[i] * 2 ^ (W - i)]
<1>1. f \in [1 .. W -> Int]
  <2> SUFFICES ASSUME NEW i \in 1 .. W PROVE bits[i] * 2 ^ (W - i) \in Int
    OBVIOUS
  <2>1. W - i \in Nat /\ bits[i] \in Int
    BY Numbers DEF Bits
  <2> DEFINE n == W - i
  <2> HIDE DEF n
  <2>2. 2 ^ n \in Int
    BY <2>1 DEF n
  <2> DEFINE e == 2 ^ n
  <2> HIDE DEF e
  <2>3. bits[i] * e \in Int
    BY <2>1, <2>2 DEF e
  <2> QED
    BY <2>3 DEF e, n
<1>2. IsFiniteSet(1 .. W) /\ DOMAIN f = 1 .. W
  BY Numbers, FS_Interval
<1> HIDE DEF f
<1>3. SumFunctionOnSet(f, 1 .. W) \in Int
  BY <1>1, <1>2, SumType
<1> QED
  BY <1>2, <1>3 DEF from_bin, SumFunction, f

LEMMA XorBits ==
  ASSUME NEW a \in Bits, NEW b \in Bits
  PROVE  Xor(a, b) \in Bits /\ Xor(a, b) = Xor(b, a)
<1>1. \A i \in 1 .. W : a[i] \in 0 .. 1 /\ b[i] \in 0 .. 1
  BY DEF Bits
<1>2. \A i \in 1 .. W : (a[i] + b[i]) % 2 \in 0 .. 1 /\ a[i] + b[i] = b[i] + a[i]
  BY <1>1
<1> QED
  BY <1>2 DEF Xor, Bits

LEMMA ShiftType ==
  ASSUME NEW k \in Share, NEW p \in Party, NEW bits \in Bits
  PROVE  /\ ShiftOf(p, k, bits) \in Share /\ ShiftOf(p, k, bits).Q = k.Q
         /\ ShiftOf(1, k, bits).x = (k.x + from_bin(bits)) % q
         /\ ShiftOf(2, k, bits).x = (k.x - from_bin(bits)) % q
<1> DEFINE b == from_bin(bits)
           y == k.x + b
           z == k.x - b
<1>1. b \in Int /\ k.x \in Int
  BY BinIsInt, Numbers DEF Share
<1> HIDE DEF b
<1>2. y \in Int /\ z \in Int
  BY <1>1
<1> HIDE DEF y, z
<1>3. y % q \in Zq /\ z % q \in Zq
  BY <1>2, ModZq
<1>4. ShiftOf(p, k, bits) = [k EXCEPT !.x = IF p = 1 THEN y % q ELSE z % q]
  BY DEF ShiftOf, y, z, b
<1>5. /\ ShiftOf(1, k, bits) = [k EXCEPT !.x = y % q]
      /\ ShiftOf(2, k, bits) = [k EXCEPT !.x = z % q]
  BY DEF ShiftOf, y, z, b
<1>6. y % q = (k.x + from_bin(bits)) % q /\ z % q = (k.x - from_bin(bits)) % q
  BY DEF y, z, b
<1> QED
  BY <1>3, <1>4, <1>5, <1>6 DEF Share

-----------------------------------------------------------------------------
(* What the invariant says about the keys.                                 *)
LEMMA DkgFits ==
  ASSUME KeyInv, faulty = {}, kind = "dkg", pc[1] = "done", pc[2] = "done"
  PROVE  key[1].Q = key[2].Q /\ Gap(key) = 0
<1>0. 1 \in Honest /\ 2 \in Honest
  BY DEF Honest, Party
<1>1. /\ draw[1] \in Draw /\ draw[2] \in Draw
      /\ msg[2].Q2 = draw[2] /\ msg[3].Q1 = draw[1]
      /\ key[1] = [x |-> draw[1], Q |-> (draw[1] + msg[2].Q2) % q]
      /\ key[2] = [x |-> draw[2], Q |-> (msg[3].Q1 + draw[2]) % q]
  BY <1>0 DEF KeyInv, First, Second, Contribution
<1>2. draw[1] \in Int /\ draw[2] \in Int
  BY <1>1, Numbers
<1>3. (draw[1] + draw[2] - ((draw[1] + draw[2]) % q)) % q = 0
  BY <1>2, GapOfSum
<1>4. /\ key[1].x = draw[1] /\ key[1].Q = (draw[1] + draw[2]) % q
      /\ key[2].x = draw[2] /\ key[2].Q = (draw[1] + draw[2]) % q
  BY <1>1
<1>5. Gap(key) = (draw[1] + draw[2] - ((draw[1] + draw[2]) % q)) % q
  BY <1>4 DEF Gap
<1> QED
  BY <1>3, <1>4, <1>5

LEMMA RefreshFits ==
  ASSUME KeyInv, faulty = {}, kind = "refresh", pc[1] = "done", pc[2] = "done",
         entry[1].Q = entry[2].Q, Gap(entry) = 0
  PROVE  key[1].Q = key[2].Q /\ Gap(key) = 0
<1>0. 1 \in Honest /\ 2 \in Honest /\ 1 \in Party /\ 2 \in Party
  BY DEF Honest, Party
<1> DEFINE bits == Xor(draw[1], draw[2])
<1>1. /\ draw[1] \in Bits /\ draw[2] \in Bits
      /\ key[1] = ShiftOf(1, entry[1], bits) /\ key[2] = ShiftOf(2, entry[2], bits)
  BY <1>0 DEF KeyInv, First, Second, Contribution, Opens
<1>2. bits \in Bits /\ entry[1] \in Share /\ entry[2] \in Share
  BY <1>0, <1>1, XorBits DEF KeyInv, KeyTypes
<1> HIDE DEF bits
<1>3. /\ key[1].Q = entry[1].Q /\ key[1].x = (entry[1].x + from_bin(bits)) % q
      /\ key[2].Q = entry[2].Q /\ key[2].x = (entry[2].x - from_bin(bits)) % q
  <2>1. /\ ShiftOf(1, entry[1], bits).Q = entry[1].Q
        /\ ShiftOf(1, entry[1], bits).x = (entry[1].x + from_bin(bits)) % q
    BY <1>0, <1>2, ShiftType, Zenon
  <2>2. /\ ShiftOf(2, entry[2], bits).Q = entry[2].Q
        /\ ShiftOf(2, entry[2], bits).x = (entry[2].x - from_bin(bits)) % q
    BY <1>0, <1>2, ShiftType, Zenon
  <2> QED
    BY <1>1, <2>1, <2>2, Zenon
<1>4. /\ entry[1].x \in Int /\ entry[2].x \in Int /\ entry[1].Q \in Int /\ from_bin(bits) \in Int
  BY <1>2, BinIsInt, Numbers DEF Share
<1>5. (((entry[1].x + from_bin(bits)) % q) + ((entry[2].x - from_bin(bits)) % q) - entry[1].Q) % q
        = (entry[1].x + entry[2].x - entry[1].Q) % q
  BY <1>4, GapShifted
<1>6. Gap(key) = (((entry[1].x + from_bin(bits)) % q) + ((entry[2].x - from_bin(bits)) % q) - entry[1].Q) % q
  BY <1>3, Zenon DEF Gap
<1>7. Gap(entry) = (entry[1].x + entry[2].x - entry[1].Q) % q
  BY DEF Gap
<1> QED
  BY <1>3, <1>5, <1>6, <1>7

LEMMA LineageKey == KeyInv => SameLineageSharesKey
<1> SUFFICES ASSUME KeyInv, faulty = {}, \A p \in Party : key[p] # None, lineage[1] = lineage[2]
             PROVE  key[1].Q = key[2].Q /\ Gap(key) = 0
  BY DEF SameLineageSharesKey, BothHold
<1>0. 1 \in Honest /\ 2 \in Honest /\ Party = {1, 2} /\ 1 \in Party /\ 2 \in Party
  BY DEF Honest, Party
<1>1. /\ kind \in {"none", "dkg", "refresh", "sign"} /\ Entries
      /\ Counted(1) /\ Counted(2)
  BY <1>0 DEF KeyInv, KeyTypes
<1>2. CASE kind \in {"none", "sign"}
  BY <1>0, <1>1, <1>2 DEF Entries, SameLineageSharesKey, BothHold
<1>3. InSession => (pc[1] = "done" <=> pc[2] = "done")
  BY <1>1 DEF Counted
<1>4. CASE kind = "dkg"
  <2>1. pc[1] = "done"
    BY <1>0, <1>1, <1>3, <1>4 DEF Entries, Counted, InSession
  <2> QED
    BY <1>3, <1>4, <2>1, DkgFits DEF InSession
<1>5. CASE kind = "refresh"
  <2>1. entry[1].Q = entry[2].Q /\ Gap(entry) = 0
    BY <1>1, <1>5 DEF Entries
  <2>2. CASE pc[1] = "done"
    BY <1>3, <1>5, <2>1, <2>2, RefreshFits DEF InSession
  <2>3. CASE pc[1] # "done"
    <3>1. key[1] = entry[1] /\ key[2] = entry[2]
      BY <1>1, <1>3, <1>5, <2>3 DEF Counted, InSession
    <3> QED
      BY <2>1, <3>1 DEF Gap
  <2> QED
    BY <2>2, <2>3
<1> QED
  BY <1>1, <1>2, <1>4, <1>5

LEMMA AnswerFixed == KeyInv => FixedBeforeAnswer
<1> SUFFICES ASSUME KeyInv, 2 \in Honest, pc[2] = "done"
             PROVE  \/ kind = "dkg" /\ msg[1].com = Com(Nonce(1), 1, (key[2].Q - key[2].x) % q)
                    \/ kind = "refresh" /\ \E r \in Bits :
                         /\ msg[1] = Com(None, 1, r)
                         /\ key[2].x = (entry[2].x - from_bin(Xor(r, draw[2]))) % q
  BY DEF FixedBeforeAnswer
<1>1. kind = "dkg" \/ kind = "refresh"
  BY DEF KeyInv, KeyTypes, InSession
<1>2. CASE kind = "dkg"
  <2>1. /\ msg[3].Q1 \in Zq /\ draw[2] \in Draw /\ msg[1].sid1 = Nonce(1)
        /\ msg[1].com = Com(msg[1].sid1, 1, msg[3].Q1)
        /\ key[2] = [x |-> draw[2], Q |-> (msg[3].Q1 + draw[2]) % q]
    BY <1>2 DEF KeyInv, KeyTypes, Second, Contribution, P2Accepts, OnCurve
  <2>2. (((msg[3].Q1 + draw[2]) % q) - draw[2]) % q = msg[3].Q1
    BY <2>1, Numbers, SumLess
  <2>3. key[2].Q = (msg[3].Q1 + draw[2]) % q /\ key[2].x = draw[2]
    BY <2>1
  <2>4. (key[2].Q - key[2].x) % q = msg[3].Q1
    BY <2>2, <2>3, Zenon
  <2> QED
    BY <1>2, <2>1, <2>4
<1>3. CASE kind = "refresh"
  <2>1. /\ msg[3] \in Bits /\ draw[2] \in Bits /\ msg[1] = Com(None, 1, msg[3])
        /\ key[2] = ShiftOf(2, entry[2], Xor(msg[3], draw[2])) /\ entry[2] \in Share /\ 2 \in Party
    BY <1>3 DEF KeyInv, KeyTypes, Second, Contribution, Opens, Party
  <2>2. key[2].x = (entry[2].x - from_bin(Xor(msg[3], draw[2]))) % q
    BY <2>1, XorBits, ShiftType
  <2> QED
    BY <1>3, <2>1, <2>2
<1> QED
  BY <1>1, <1>2, <1>3

-----------------------------------------------------------------------------
(* Steps of a key session: what they leave alone.                          *)
Frame == faulty' = faulty /\ entry' = entry /\ kind' = kind /\ session' = session

KeptMsgs == \A k \in 1 .. 3 : msg[k] # None => msg'[k] = msg[k]

Quiet(p) ==
  /\ draw'[p] = draw[p] /\ key'[p] = key[p] /\ lineage'[p] = lineage[p]
  /\ pc'[p] = pc[p] \/ (pc'[p] = "failed" /\ pc[p] # "done")

QuietFirst == 1 \in Honest => Quiet(1) /\ msg'[1] = msg[1] /\ msg'[3] = msg[3]
QuietSecond == 2 \in Honest => Quiet(2) /\ msg'[2] = msg[2]

LEMMA FirstStays ==
  ASSUME KeyInv, Frame, KeptMsgs, QuietFirst
  PROVE  First' /\ (1 \in Honest => Counted(1)')
<1>0. Honest' = Honest /\ InSession' = InSession
  BY DEF Honest, InSession, Frame
<1> SUFFICES ASSUME 1 \in Honest PROVE First' /\ Counted(1)'
  BY <1>0 DEF First
<1>1. /\ Quiet(1) /\ msg'[1] = msg[1] /\ msg'[3] = msg[3] /\ First /\ Counted(1)
      /\ msg[2] # None => msg'[2] = msg[2]
  BY DEF QuietFirst, KeyInv, KeptMsgs
<1>2. Counted(1)'
  BY <1>0, <1>1 DEF Quiet, Counted, Frame
<1>3. Contribution(1)' = Contribution(1)
  BY <1>1 DEF Contribution, Quiet, Frame
<1>4. First'
  BY <1>0, <1>1, <1>3 DEF First, Quiet, Frame
<1> QED
  BY <1>2, <1>4

LEMMA SecondStays ==
  ASSUME KeyInv, Frame, KeptMsgs, QuietSecond
  PROVE  Second' /\ (2 \in Honest => Counted(2)')
<1>0. Honest' = Honest /\ InSession' = InSession
  BY DEF Honest, InSession, Frame
<1> SUFFICES ASSUME 2 \in Honest PROVE Second' /\ Counted(2)'
  BY <1>0 DEF Second
<1>1. /\ Quiet(2) /\ msg'[2] = msg[2] /\ Second /\ Counted(2)
      /\ msg[1] # None => msg'[1] = msg[1]
      /\ msg[3] # None => msg'[3] = msg[3]
  BY DEF QuietSecond, KeyInv, KeptMsgs
<1>2. Counted(2)'
  BY <1>0, <1>1 DEF Quiet, Counted, Frame
<1>3. Contribution(2)' = Contribution(2)
  BY <1>1 DEF Contribution, Quiet, Frame
<1>4. (msg[1] # None /\ msg[3] # None) => /\ P2Accepts' = P2Accepts
                                         /\ Opens' = Opens
  BY <1>1 DEF P2Accepts, Opens, Nonce, Frame
<1>5. Second'
  BY <1>0, <1>1, <1>3, <1>4 DEF Second, Quiet, Frame
<1> QED
  BY <1>2, <1>5

LEMMA EntriesStay ==
  ASSUME KeyInv, Frame, InSession,
         kind = "refresh" => \A p \in Honest : lineage'[p] \ {session} = lineage[p] \ {session}
  PROVE  Entries'
<1>1. faulty = {} => 1 \in Honest /\ 2 \in Honest
  BY DEF Honest, Party
<1> QED
  BY <1>1 DEF KeyInv, Entries, Frame, InSession, Gap

(* The invariant after a step of one party that changes no key.            *)
LEMMA SessionStep ==
  ASSUME KeyInv, InSession, Frame, KeptMsgs, First', Second', \A p \in Honest : Counted(p)',
         pc' \in [Honest -> {"start", "sent", "done", "failed"}],
         key' \in [Honest -> Share \union {None}],
         \A p \in Honest : lineage'[p] \ {session} = lineage[p] \ {session} \/ kind = "dkg",
         lineage' \in [Honest -> SUBSET (1 .. session)],
         DOMAIN draw' = Honest, DOMAIN msg' = 1 .. 3,
         (kind = "dkg" /\ msg'[1] # None) => msg'[1].sid1 = Nonce(1)
  PROVE  KeyInv'
<1>0. Honest' = Honest /\ InSession' = InSession /\ Nonce(1)' = Nonce(1)
  BY DEF Honest, InSession, Frame, Nonce
<1>1. Entries'
  BY EntriesStay
<1>2. KeyTypes'
  BY <1>0 DEF KeyInv, KeyTypes, Frame
<1> QED
  BY <1>0, <1>1, <1>2 DEF KeyInv

(* A call that returns an error, or a faulty party's message.              *)
LEMMA QuietStep ==
  ASSUME KeyInv, InSession, Frame, KeptMsgs, QuietFirst, QuietSecond,
         UNCHANGED <<key, lineage, draw>>,
         pc' \in [Honest -> {"start", "sent", "done", "failed"}], DOMAIN msg' = 1 .. 3,
         (kind = "dkg" /\ msg'[1] # None) => msg'[1].sid1 = Nonce(1)
  PROVE  KeyInv'
<1>1. \A p \in Honest : Counted(p)'
  BY FirstStays, SecondStays DEF Honest, Party
<1>2. /\ key' \in [Honest -> Share \union {None}] /\ lineage' \in [Honest -> SUBSET (1 .. session)]
      /\ DOMAIN draw' = Honest
      /\ \A p \in Honest : lineage'[p] \ {session} = lineage[p] \ {session}
  BY DEF KeyInv, KeyTypes
<1> QED
  BY <1>1, <1>2, FirstStays, SecondStays, SessionStep

LEMMA PcType ==
  ASSUME KeyInv, InSession, NEW p \in Honest, NEW s \in {"start", "sent", "done", "failed"}, Enter(p, s)
  PROVE  /\ pc' \in [Honest -> {"start", "sent", "done", "failed"}]
         /\ pc'[p] = s /\ \A j \in Honest \ {p} : pc'[j] = pc[j]
BY DEF KeyInv, KeyTypes, Enter

LEMMA RejectKeeps ==
  ASSUME KeyInv, InSession, Frame, NEW p \in Honest, pc[p] # "done", Reject(p)
  PROVE  KeyInv'
<1>1. Enter(p, "failed") /\ UNCHANGED <<key, lineage, draw, msg>>
  BY DEF Reject
<1>2. /\ pc' \in [Honest -> {"start", "sent", "done", "failed"}]
      /\ pc'[p] = "failed" /\ \A j \in Honest \ {p} : pc'[j] = pc[j]
  BY <1>1, PcType
<1>3. KeptMsgs /\ QuietFirst /\ QuietSecond
  BY <1>1, <1>2 DEF KeptMsgs, QuietFirst, QuietSecond, Quiet
<1>4. DOMAIN msg' = 1 .. 3 /\ ((kind = "dkg" /\ msg'[1] # None) => msg'[1].sid1 = Nonce(1))
  BY <1>1 DEF KeyInv, KeyTypes
<1> QED
  BY <1>1, <1>2, <1>3, <1>4, QuietStep

LEMMA SendFacts ==
  ASSUME KeyInv, NEW k \in 1 .. 3, NEW m, Send(k, m)
  PROVE  DOMAIN msg' = 1 .. 3 /\ msg'[k] = m /\ \A l \in 1 .. 3 : l # k => msg'[l] = msg[l]
BY DEF KeyInv, KeyTypes, Send

LEMMA ReturnFacts ==
  ASSUME KeyInv, InSession, NEW p \in Honest, NEW k \in Share, Return(p, k)
  PROVE  /\ key' \in [Honest -> Share \union {None}] /\ lineage' \in [Honest -> SUBSET (1 .. session)]
         /\ key'[p] = k /\ session \in lineage'[p] /\ (kind = "dkg" => lineage'[p] = {session})
         /\ kind = "refresh" => lineage'[p] \ {session} = lineage[p] \ {session}
         /\ \A j \in Honest \ {p} : key'[j] = key[j] /\ lineage'[j] = lineage[j]
         /\ Enter(p, "done")
<1>1. session \in 1 .. session
  <2>1. session \in Nat /\ session > 0
    BY DEF KeyInv, KeyTypes, InSession
  <2> QED
    BY <2>1
<1> QED
  BY <1>1 DEF KeyInv, KeyTypes, Return, InSession

(* P1's steps.                                                             *)
LEMMA FirstMoves ==
  ASSUME KeyInv, InSession, Frame, 1 \in Honest, KeptMsgs, QuietSecond, First', Counted(1)',
         pc' \in [Honest -> {"start", "sent", "done", "failed"}],
         key' \in [Honest -> Share \union {None}],
         lineage' \in [Honest -> SUBSET (1 .. session)],
         kind = "refresh" => lineage'[1] \ {session} = lineage[1] \ {session},
         DOMAIN draw' = Honest, DOMAIN msg' = 1 .. 3,
         (kind = "dkg" /\ msg'[1] # None) => msg'[1].sid1 = Nonce(1)
  PROVE  KeyInv'
<1>1. Second' /\ \A p \in Honest : Counted(p)'
  BY SecondStays DEF Honest, Party
<1>2. \A p \in Honest : lineage'[p] \ {session} = lineage[p] \ {session} \/ kind = "dkg"
  BY DEF QuietSecond, Quiet, Honest, Party, InSession
<1> QED
  BY <1>1, <1>2, SessionStep

LEMMA DkgStep1Keeps == ASSUME KeyInv, Frame, DkgStep1 PROVE KeyInv'
<1>1. /\ 1 \in Honest /\ kind = "dkg" /\ pc[1] = "start" /\ InSession
      /\ Enter(1, "sent") /\ UNCHANGED <<key, lineage>>
  BY DEF DkgStep1, At, InSession
<1>2. PICK x \in Draw : /\ draw' = [draw EXCEPT ![1] = x]
                        /\ Send(1, [sid1 |-> Nonce(1), com |-> Com(Nonce(1), 1, x)])
  BY DEF DkgStep1
<1>3. /\ pc' \in [Honest -> {"start", "sent", "done", "failed"}]
      /\ pc'[1] = "sent" /\ \A j \in Honest \ {1} : pc'[j] = pc[j]
  BY <1>1, PcType
<1>4. /\ DOMAIN msg' = 1 .. 3 /\ msg'[1].sid1 = Nonce(1) /\ msg'[2] = msg[2] /\ msg'[3] = msg[3]
  BY <1>2, SendFacts
<1>5. /\ DOMAIN draw' = Honest /\ draw'[1] = x /\ \A j \in Honest \ {1} : draw'[j] = draw[j]
  BY <1>1, <1>2 DEF KeyInv, KeyTypes
<1>6. msg[1] = None /\ msg[3] = None /\ Counted(1)
  BY <1>1 DEF KeyInv, First
<1>7. KeptMsgs /\ QuietSecond
  BY <1>1, <1>3, <1>4, <1>5, <1>6 DEF KeptMsgs, QuietSecond, Quiet
<1>8. First'
  BY <1>1, <1>3, <1>4, <1>5, <1>6 DEF First, Contribution, Frame
<1>9. Counted(1)'
  BY <1>1, <1>3, <1>6 DEF Counted, Frame, InSession
<1>10. key' \in [Honest -> Share \union {None}] /\ lineage' \in [Honest -> SUBSET (1 .. session)]
  BY <1>1 DEF KeyInv, KeyTypes
<1> QED
  BY <1>1, <1>3, <1>4, <1>5, <1>7, <1>8, <1>9, <1>10, FirstMoves

LEMMA AgreeCommitKeeps == ASSUME KeyInv, Frame, AgreeCommit PROVE KeyInv'
<1>1. /\ 1 \in Honest /\ kind = "refresh" /\ pc[1] = "start" /\ InSession
      /\ Enter(1, "sent") /\ UNCHANGED <<key, lineage>>
  BY DEF AgreeCommit, At, InSession
<1>2. PICK r \in Bits : draw' = [draw EXCEPT ![1] = r] /\ Send(1, Com(None, 1, r))
  BY DEF AgreeCommit
<1>3. /\ pc' \in [Honest -> {"start", "sent", "done", "failed"}]
      /\ pc'[1] = "sent" /\ \A j \in Honest \ {1} : pc'[j] = pc[j]
  BY <1>1, PcType
<1>4. DOMAIN msg' = 1 .. 3 /\ msg'[2] = msg[2] /\ msg'[3] = msg[3]
  BY <1>2, SendFacts
<1>5. /\ DOMAIN draw' = Honest /\ draw'[1] = r /\ \A j \in Honest \ {1} : draw'[j] = draw[j]
  BY <1>1, <1>2 DEF KeyInv, KeyTypes
<1>6. msg[1] = None /\ msg[3] = None /\ Counted(1)
  BY <1>1 DEF KeyInv, First
<1>7. KeptMsgs /\ QuietSecond
  BY <1>1, <1>3, <1>4, <1>5, <1>6 DEF KeptMsgs, QuietSecond, Quiet
<1>8. First'
  BY <1>1, <1>3, <1>4, <1>5, <1>6 DEF First, Contribution, Frame
<1>9. Counted(1)'
  BY <1>1, <1>3, <1>6 DEF Counted, Frame, InSession
<1>10. key' \in [Honest -> Share \union {None}] /\ lineage' \in [Honest -> SUBSET (1 .. session)]
  BY <1>1 DEF KeyInv, KeyTypes
<1> QED
  BY <1>1, <1>3, <1>4, <1>5, <1>7, <1>8, <1>9, <1>10, FirstMoves

LEMMA DkgStep3Keeps == ASSUME KeyInv, Frame, DkgStep3 PROVE KeyInv'
<1>1. /\ 1 \in Honest /\ kind = "dkg" /\ pc[1] = "sent" /\ InSession /\ msg[2] # None
      /\ msg[3] = None /\ draw[1] \in Draw
  BY DEF DkgStep3, At, InSession, KeyInv, First, Contribution
<1>2. CASE Reject(1)
  BY <1>1, <1>2, RejectKeeps
<1> DEFINE k == [x |-> draw[1], Q |-> (draw[1] + msg[2].Q2) % q]
<1>3. CASE /\ P1Accepts
           /\ Send(3, [Q1 |-> draw[1], pi |-> Proof(draw[1], <<Nonce(1), msg[2].sid2>>, 1)])
           /\ Return(1, k) /\ UNCHANGED draw
  <2>1. k \in Share
    <3>1. draw[1] \in Zq /\ msg[2].Q2 \in Int /\ draw[1] \in Int
      BY <1>1, <1>3, Numbers DEF P1Accepts, OnCurve
    <3>2. draw[1] + msg[2].Q2 \in Int
      BY <3>1
    <3>3. (draw[1] + msg[2].Q2) % q \in Zq
      BY <3>2, ModZq
    <3> QED
      BY <3>1, <3>3 DEF Share
  <2> HIDE DEF k
  <2>2. /\ key' \in [Honest -> Share \union {None}] /\ lineage' \in [Honest -> SUBSET (1 .. session)]
        /\ key'[1] = k /\ session \in lineage'[1] /\ lineage'[1] = {session}
        /\ \A j \in Honest \ {1} : key'[j] = key[j] /\ lineage'[j] = lineage[j]
        /\ Enter(1, "done")
    BY <1>1, <1>3, <2>1, ReturnFacts
  <2>3. /\ pc' \in [Honest -> {"start", "sent", "done", "failed"}]
        /\ pc'[1] = "done" /\ \A j \in Honest \ {1} : pc'[j] = pc[j]
    BY <1>1, <2>2, PcType
  <2> DEFINE opening == [Q1 |-> draw[1], pi |-> Proof(draw[1], <<Nonce(1), msg[2].sid2>>, 1)]
  <2>4. opening.Q1 = draw[1]
    OBVIOUS
  <2> HIDE DEF opening
  <2>5. /\ DOMAIN msg' = 1 .. 3 /\ msg'[3] = opening /\ msg'[1] = msg[1] /\ msg'[2] = msg[2]
    BY <1>3, SendFacts DEF opening
  <2>6. KeptMsgs /\ QuietSecond
    BY <1>1, <1>3, <2>2, <2>3, <2>5 DEF KeptMsgs, QuietSecond, Quiet
  <2>7. First'
    BY <1>1, <1>3, <2>2, <2>3, <2>4, <2>5 DEF First, Contribution, Frame, k, P1Accepts
  <2>8. Counted(1)'
    BY <1>1, <2>2, <2>3 DEF Counted, Frame
  <2>9. DOMAIN draw' = Honest /\ ((kind = "dkg" /\ msg'[1] # None) => msg'[1].sid1 = Nonce(1))
    BY <1>3, <2>5 DEF KeyInv, KeyTypes
  <2> QED
    BY <1>1, <2>2, <2>3, <2>5, <2>6, <2>7, <2>8, <2>9, FirstMoves
<1> QED
  BY <1>2, <1>3 DEF DkgStep3

LEMMA AgreeOpenKeeps == ASSUME KeyInv, Frame, AgreeOpen PROVE KeyInv'
<1>1. /\ 1 \in Honest /\ kind = "refresh" /\ pc[1] = "sent" /\ InSession /\ msg[2] # None
      /\ msg[3] = None /\ draw[1] \in Bits /\ Send(3, draw[1]) /\ UNCHANGED draw
      /\ key[1] = entry[1] /\ session \notin lineage[1] /\ key[1] \in Share
  BY DEF AgreeOpen, At, InSession, KeyInv, KeyTypes, First, Contribution, Counted
<1>2. /\ DOMAIN msg' = 1 .. 3 /\ msg'[3] = draw[1] /\ msg'[1] = msg[1] /\ msg'[2] = msg[2]
  BY <1>1, SendFacts
<1>3. /\ DOMAIN draw' = Honest
      /\ key \in [Honest -> Share \union {None}] /\ lineage \in [Honest -> SUBSET (1 .. session)]
  BY <1>1 DEF KeyInv, KeyTypes
<1>4. CASE Enter(1, "failed") /\ UNCHANGED <<key, lineage, draw>>
  <2>1. /\ pc' \in [Honest -> {"start", "sent", "done", "failed"}]
        /\ pc'[1] = "failed" /\ \A j \in Honest \ {1} : pc'[j] = pc[j]
    BY <1>1, <1>4, PcType
  <2>2. KeptMsgs /\ QuietSecond
    BY <1>1, <1>2, <1>4, <2>1 DEF KeptMsgs, QuietSecond, Quiet
  <2>3. First'
    BY <1>1, <1>2, <2>1 DEF First, Frame
  <2>4. Counted(1)'
    BY <1>1, <1>4, <2>1 DEF Counted, Frame
  <2> QED
    BY <1>1, <1>2, <1>3, <1>4, <2>1, <2>2, <2>3, <2>4, FirstMoves
<1> DEFINE k == Shift(1, Xor(draw[1], msg[2]))
<1>5. CASE msg[2] \in Bits /\ Return(1, k) /\ UNCHANGED draw
  <2>1. k = ShiftOf(1, entry[1], Xor(draw[1], msg[2]))
    BY <1>1 DEF Shift, ShiftOf
  <2>2. k \in Share
    BY <1>1, <1>5, <2>1, XorBits, ShiftType DEF Honest
  <2> HIDE DEF k
  <2>3. /\ key' \in [Honest -> Share \union {None}] /\ lineage' \in [Honest -> SUBSET (1 .. session)]
        /\ key'[1] = k /\ session \in lineage'[1]
        /\ lineage'[1] \ {session} = lineage[1] \ {session}
        /\ \A j \in Honest \ {1} : key'[j] = key[j] /\ lineage'[j] = lineage[j]
        /\ Enter(1, "done")
    BY <1>1, <1>5, <2>2, ReturnFacts
  <2>4. /\ pc' \in [Honest -> {"start", "sent", "done", "failed"}]
        /\ pc'[1] = "done" /\ \A j \in Honest \ {1} : pc'[j] = pc[j]
    BY <1>1, <2>3, PcType
  <2>5. KeptMsgs /\ QuietSecond
    BY <1>1, <1>2, <1>5, <2>3, <2>4 DEF KeptMsgs, QuietSecond, Quiet
  <2>6. First'
    BY <1>1, <1>2, <1>5, <2>1, <2>3, <2>4 DEF First, Contribution, Frame
  <2>7. Counted(1)'
    BY <1>1, <2>3, <2>4 DEF Counted, Frame
  <2> QED
    BY <1>1, <1>2, <1>3, <2>3, <2>4, <2>5, <2>6, <2>7, FirstMoves
<1> QED
  BY <1>4, <1>5 DEF AgreeOpen

(* P2's steps.                                                             *)
LEMMA SecondMoves ==
  ASSUME KeyInv, InSession, Frame, 2 \in Honest, KeptMsgs, QuietFirst, Second', Counted(2)',
         pc' \in [Honest -> {"start", "sent", "done", "failed"}],
         key' \in [Honest -> Share \union {None}],
         lineage' \in [Honest -> SUBSET (1 .. session)],
         kind = "refresh" => lineage'[2] \ {session} = lineage[2] \ {session},
         DOMAIN draw' = Honest, DOMAIN msg' = 1 .. 3, msg'[1] = msg[1]
  PROVE  KeyInv'
<1>1. First' /\ \A p \in Honest : Counted(p)'
  BY FirstStays DEF Honest, Party
<1>2. \A p \in Honest : lineage'[p] \ {session} = lineage[p] \ {session} \/ kind = "dkg"
  BY DEF QuietFirst, Quiet, Honest, Party, InSession
<1>3. (kind = "dkg" /\ msg'[1] # None) => msg'[1].sid1 = Nonce(1)
  BY DEF KeyInv, KeyTypes
<1> QED
  BY <1>1, <1>2, <1>3, SessionStep

LEMMA AnswerKeeps == ASSUME KeyInv, Frame, DkgStep2 \/ AgreeAnswer PROVE KeyInv'
<1>1. /\ 2 \in Honest /\ pc[2] = "start" /\ InSession /\ msg[1] # None
      /\ Enter(2, "sent") /\ UNCHANGED <<key, lineage>>
  BY DEF DkgStep2, AgreeAnswer, At, InSession
<1>2. PICK x, m : /\ draw' = [draw EXCEPT ![2] = x] /\ Send(2, m)
                  /\ \/ kind = "dkg" /\ x \in Draw /\ m.Q2 = x
                     \/ kind = "refresh" /\ x \in Bits /\ m = x
  <2>1. CASE DkgStep2
    <3>1. PICK x \in Draw :
            /\ draw' = [draw EXCEPT ![2] = x]
            /\ Send(2, [sid2 |-> Nonce(2), Q2 |-> x, pi |-> Proof(x, <<msg[1].sid1, Nonce(2)>>, 2)])
      BY <2>1 DEF DkgStep2
    <3> DEFINE m == [sid2 |-> Nonce(2), Q2 |-> x, pi |-> Proof(x, <<msg[1].sid1, Nonce(2)>>, 2)]
    <3>2. m.Q2 = x /\ Send(2, m) /\ kind = "dkg"
      BY <2>1, <3>1 DEF DkgStep2, At
    <3> HIDE DEF m
    <3> QED
      BY <3>1, <3>2
  <2>2. CASE AgreeAnswer
    BY <2>2 DEF AgreeAnswer, At
  <2> QED
    BY <2>1, <2>2
<1>3. /\ pc' \in [Honest -> {"start", "sent", "done", "failed"}]
      /\ pc'[2] = "sent" /\ \A j \in Honest \ {2} : pc'[j] = pc[j]
  BY <1>1, PcType
<1>4. DOMAIN msg' = 1 .. 3 /\ msg'[2] = m /\ msg'[1] = msg[1] /\ msg'[3] = msg[3]
  BY <1>2, SendFacts
<1>5. /\ DOMAIN draw' = Honest /\ draw'[2] = x /\ \A j \in Honest \ {2} : draw'[j] = draw[j]
  BY <1>1, <1>2 DEF KeyInv, KeyTypes
<1>6. msg[2] = None /\ Counted(2)
  BY <1>1 DEF KeyInv, Second
<1>7. KeptMsgs /\ QuietFirst
  BY <1>1, <1>3, <1>4, <1>5, <1>6 DEF KeptMsgs, QuietFirst, Quiet
<1>8. Second'
  BY <1>1, <1>2, <1>3, <1>4, <1>5 DEF Second, Contribution, Frame
<1>9. Counted(2)'
  BY <1>1, <1>3, <1>6 DEF Counted, Frame, InSession
<1>10. key' \in [Honest -> Share \union {None}] /\ lineage' \in [Honest -> SUBSET (1 .. session)]
  BY <1>1 DEF KeyInv, KeyTypes
<1> QED
  BY <1>1, <1>3, <1>4, <1>5, <1>7, <1>8, <1>9, <1>10, SecondMoves

LEMMA FinishKeeps == ASSUME KeyInv, Frame, DkgStep4 \/ AgreeFinish PROVE KeyInv'
<1>1. /\ 2 \in Honest /\ pc[2] = "sent" /\ InSession /\ msg[3] # None /\ msg[1] # None
      /\ kind = "dkg" => draw[2] \in Draw
      /\ kind = "refresh" => draw[2] \in Bits
      /\ key[2] = entry[2] /\ (kind = "refresh" => key[2] \in Share)
  BY DEF DkgStep4, AgreeFinish, At, InSession, KeyInv, KeyTypes, Second, Contribution, Counted
<1>2. CASE Reject(2)
  BY <1>1, <1>2, RejectKeeps
<1>3. ASSUME NEW k \in Share, Return(2, k), UNCHANGED <<draw, msg>>,
             kind = "dkg" => P2Accepts /\ k = [x |-> draw[2], Q |-> (msg[3].Q1 + draw[2]) % q],
             kind = "refresh" => Opens /\ k = ShiftOf(2, entry[2], Xor(msg[3], draw[2]))
      PROVE  KeyInv'
  <2>1. /\ key' \in [Honest -> Share \union {None}] /\ lineage' \in [Honest -> SUBSET (1 .. session)]
        /\ key'[2] = k /\ session \in lineage'[2] /\ (kind = "dkg" => lineage'[2] = {session})
        /\ kind = "refresh" => lineage'[2] \ {session} = lineage[2] \ {session}
        /\ \A j \in Honest \ {2} : key'[j] = key[j] /\ lineage'[j] = lineage[j]
        /\ Enter(2, "done")
    BY <1>1, <1>3, ReturnFacts
  <2>2. /\ pc' \in [Honest -> {"start", "sent", "done", "failed"}]
        /\ pc'[2] = "done" /\ \A j \in Honest \ {2} : pc'[j] = pc[j]
    BY <1>1, <2>1, PcType
  <2>3. KeptMsgs /\ QuietFirst
    BY <1>1, <1>3, <2>1, <2>2 DEF KeptMsgs, QuietFirst, Quiet
  <2>4. P2Accepts' = P2Accepts /\ Opens' = Opens
    BY <1>3 DEF P2Accepts, Opens, Nonce, Frame
  <2>5. Contribution(2)' /\ (msg[2] # None => IF kind = "dkg" THEN msg[2].Q2 = draw[2] ELSE msg[2] = draw[2])
    BY <1>1, <1>3 DEF KeyInv, Second, Contribution, Frame, InSession
  <2>6. Second'
    BY <1>1, <1>3, <2>1, <2>2, <2>4, <2>5 DEF Second, Frame
  <2>7. Counted(2)'
    BY <1>1, <2>1, <2>2 DEF Counted, Frame
  <2>8. DOMAIN draw' = Honest /\ DOMAIN msg' = 1 .. 3
    BY <1>3 DEF KeyInv, KeyTypes
  <2> QED
    BY <1>1, <1>3, <2>1, <2>2, <2>3, <2>6, <2>7, <2>8, SecondMoves
<1>4. CASE DkgStep4 /\ ~ Reject(2)
  <2> DEFINE k == [x |-> draw[2], Q |-> (msg[3].Q1 + draw[2]) % q]
  <2>1. kind = "dkg" /\ P2Accepts /\ Return(2, k) /\ UNCHANGED <<draw, msg>>
    BY <1>4 DEF DkgStep4, At
  <2>2. draw[2] \in Zq /\ msg[3].Q1 \in Int /\ draw[2] \in Int
    BY <1>1, <2>1, Numbers DEF P2Accepts, OnCurve
  <2>3. msg[3].Q1 + draw[2] \in Int
    BY <2>2
  <2>4. (msg[3].Q1 + draw[2]) % q \in Zq
    BY <2>3, ModZq
  <2>5. k \in Share
    BY <2>2, <2>4 DEF Share
  <2> QED
    BY <1>3, <2>1, <2>5
<1>5. CASE AgreeFinish /\ ~ Reject(2)
  <2> DEFINE k == Shift(2, Xor(msg[3], draw[2]))
  <2>1. kind = "refresh" /\ Opens /\ Return(2, k) /\ UNCHANGED <<draw, msg>>
    BY <1>5 DEF AgreeFinish, At
  <2>2. k = ShiftOf(2, entry[2], Xor(msg[3], draw[2]))
    BY <1>1 DEF Shift, ShiftOf
  <2>3. k \in Share
    BY <1>1, <2>1, <2>2, XorBits, ShiftType DEF Honest, Opens
  <2> HIDE DEF k
  <2> QED
    BY <1>3, <2>1, <2>2, <2>3
<1> QED
  BY <1>2, <1>4, <1>5

LEMMA FaultyStepKeeps == ASSUME KeyInv, Frame, FaultySteps PROVE KeyInv'
<1>1. UNCHANGED <<key, lineage, pc, draw>> /\ InSession
  BY DEF FaultySteps, FaultyFirst, FaultySecond, FaultyThird, InSession
<1>1a. PICK k \in 1 .. 3 : \E m :
        /\ Send(k, m) /\ msg[k] = None
        /\ k \in {1, 3} => 1 \in faulty
        /\ k = 2 => 2 \in faulty
        /\ (k = 1 /\ kind = "dkg") => m.sid1 = Nonce(1)
  <2>1. CASE FaultyFirst
    <3>1. PICK m : Send(1, m) /\ (kind = "dkg" => m.sid1 = Nonce(1))
      <4>1. CASE kind = "refresh"
        BY <2>1, <4>1 DEF FaultyFirst
      <4>2. CASE kind = "dkg"
        <5>1. PICK x : Send(1, [sid1 |-> Nonce(1), com |-> Com(Nonce(1), 1, x)])
          BY <2>1, <4>2 DEF FaultyFirst
        <5> QED
          BY <5>1
      <4> QED
        BY <2>1, <4>1, <4>2 DEF FaultyFirst
    <3> QED
      BY <2>1, <3>1 DEF FaultyFirst
  <2>2. CASE FaultySecond
    <3>1. \E m : Send(2, m)
      BY <2>2 DEF FaultySecond
    <3> QED
      BY <2>2, <3>1 DEF FaultySecond
  <2>3. CASE FaultyThird
    <3>1. \E m : Send(3, m)
      BY <2>3 DEF FaultyThird
    <3> QED
      BY <2>3, <3>1 DEF FaultyThird
  <2> QED
    BY <2>1, <2>2, <2>3 DEF FaultySteps
<1>2. PICK m :
        /\ Send(k, m) /\ msg[k] = None
        /\ k \in {1, 3} => 1 \in faulty
        /\ k = 2 => 2 \in faulty
        /\ (k = 1 /\ kind = "dkg") => m.sid1 = Nonce(1)
  BY <1>1a
<1>3. DOMAIN msg' = 1 .. 3 /\ msg'[k] = m /\ \A l \in 1 .. 3 : l # k => msg'[l] = msg[l]
  BY <1>2, SendFacts
<1>4. KeptMsgs
  BY <1>2, <1>3 DEF KeptMsgs
<1>5. QuietFirst /\ QuietSecond
  BY <1>1, <1>2, <1>3 DEF QuietFirst, QuietSecond, Quiet, Honest
<1>6. pc' \in [Honest -> {"start", "sent", "done", "failed"}]
  BY <1>1 DEF KeyInv, KeyTypes
<1>7. (kind = "dkg" /\ msg'[1] # None) => msg'[1].sid1 = Nonce(1)
  BY <1>2, <1>3 DEF KeyInv, KeyTypes
<1> QED
  BY <1>1, <1>3, <1>4, <1>5, <1>6, <1>7, QuietStep

LEMMA RunningInSession ==
  ASSUME KeyInv, NEW p \in Honest, Running(p)
  PROVE  InSession /\ pc[p] # "done"
BY DEF KeyInv, KeyTypes, Running

(* The next session starts from the keys the last one left.                *)
LEMMA NewSessionKeeps == ASSUME KeyInv, NewSession PROVE KeyInv'
<1>1. /\ kind' = IF \A p \in Honest : key[p] # None THEN "refresh" ELSE "dkg"
      /\ session' = session + 1 /\ entry' = key
      /\ pc' = [p \in Honest |-> "start"] /\ draw' = [p \in Honest |-> None]
      /\ msg' = [k \in 1 .. 3 |-> None]
      /\ UNCHANGED <<faulty, key, lineage>>
  BY DEF NewSession
<1>2. Honest' = Honest /\ InSession' /\ session \in Nat /\ session' \in Nat /\ session' > 0
  BY <1>1 DEF Honest, InSession, KeyInv, KeyTypes
<1>3. \A p \in Honest : lineage[p] \in SUBSET (1 .. session)
  BY DEF KeyInv, KeyTypes
<1>4. \A p \in Honest : session' \notin lineage[p]
  BY <1>1, <1>2, <1>3
<1>5. \A p \in Honest : lineage[p] \in SUBSET (1 .. session')
  BY <1>1, <1>2, <1>3
<1>6. KeyTypes'
  <2>1. lineage' \in [Honest -> SUBSET (1 .. session')]
    BY <1>1, <1>5 DEF KeyInv, KeyTypes
  <2> QED
    BY <1>1, <1>2, <2>1 DEF KeyInv, KeyTypes, InSession
<1>7. \A p \in Honest : Counted(p)'
  BY <1>1, <1>4 DEF Counted
<1>8. First' /\ Second'
  BY <1>1, <1>2 DEF First, Second
<1>9. Entries'
  <2> SUFFICES ASSUME faulty = {}
               PROVE  /\ kind' = "dkg" => \E p \in Party : key[p] = None
                      /\ kind' = "refresh" =>
                           /\ \A p \in Party : key[p] # None
                           /\ lineage[1] \ {session'} = lineage[2] \ {session'} =>
                                key[1].Q = key[2].Q /\ Gap(key) = 0
    BY <1>1 DEF Entries, Gap
  <2>1. Honest = Party /\ 1 \in Honest /\ 2 \in Honest
    BY DEF Honest, Party
  <2>2. lineage[1] \ {session'} = lineage[1] /\ lineage[2] \ {session'} = lineage[2]
    BY <1>4, <2>1
  <2> QED
    BY <1>1, <2>1, <2>2, LineageKey DEF SameLineageSharesKey, BothHold
<1> QED
  BY <1>2, <1>6, <1>7, <1>8, <1>9 DEF KeyInv

LEMMA KeyStepKeeps == ASSUME KeyInv, Next PROVE KeyInv'
<1>1. CASE NewSession
  BY <1>1, NewSessionKeeps
<1>2. CASE Steps /\ UNCHANGED <<faulty, entry, kind, session, errs>>
  <2>1. Frame
    BY <1>2 DEF Frame
  <2>2. ASSUME NEW p \in Honest, PeerGone(p) PROVE KeyInv'
    BY <2>1, <2>2, RunningInSession, RejectKeeps DEF PeerGone
  <2> QED
    BY <1>2, <2>1, <2>2, DkgStep1Keeps, AnswerKeeps, DkgStep3Keeps, FinishKeeps, AgreeCommitKeeps,
       AgreeOpenKeeps DEF Steps
<1>3. CASE FaultySteps /\ UNCHANGED <<faulty, entry, kind, session, errs>>
  BY <1>3, FaultyStepKeeps DEF Frame
<1>4. ASSUME NEW p \in Honest, TransportError(p), UNCHANGED <<faulty, entry, kind, session>>
      PROVE  KeyInv'
  BY <1>4, RunningInSession, RejectKeeps DEF TransportError, Frame
<1> QED
  BY <1>1, <1>2, <1>3, <1>4 DEF Next

LEMMA StartSigningKeeps == ASSUME KeyInv, StartSigning PROVE KeyInv'
<1>1. /\ kind' = "sign" /\ entry' = key /\ pc' = [p \in Honest |-> "idle"]
      /\ draw' = [p \in Honest |-> None] /\ msg' = [k \in 1 .. 3 |-> None]
      /\ UNCHANGED <<faulty, key, lineage, session>>
  BY DEF StartSigning
<1>2. Honest' = Honest /\ ~ InSession'
  BY <1>1 DEF Honest, InSession
<1>3. KeyTypes'
  BY <1>1, <1>2 DEF KeyInv, KeyTypes
<1>4. Entries'
  BY <1>1, LineageKey DEF Entries, SameLineageSharesKey, BothHold, Gap
<1>5. \A p \in Honest : Counted(p)'
  BY <1>1, <1>2 DEF Counted
<1>6. First' /\ Second'
  BY <1>1, <1>2 DEF First, Second
<1> QED
  BY <1>2, <1>3, <1>4, <1>5, <1>6 DEF KeyInv

LEMMA KeyStutter == ASSUME KeyInv, UNCHANGED vars PROVE KeyInv'
<1>1. /\ faulty' = faulty /\ key' = key /\ entry' = entry /\ lineage' = lineage /\ kind' = kind
      /\ session' = session /\ pc' = pc /\ draw' = draw /\ msg' = msg
  BY DEF vars
<1>2. Frame /\ KeptMsgs /\ QuietFirst /\ QuietSecond
  BY <1>1 DEF Frame, KeptMsgs, QuietFirst, QuietSecond, Quiet
<1>3. First' /\ Second' /\ \A p \in Honest : Counted(p)'
  BY <1>2, FirstStays, SecondStays DEF Honest, Party
<1>4. Honest' = Honest
  BY <1>1 DEF Honest
<1>5. KeyTypes'
  BY <1>1, <1>4 DEF KeyInv, KeyTypes, InSession, Nonce
<1>6. Entries'
  BY <1>1 DEF KeyInv, Entries, SameLineageSharesKey, BothHold, Gap
<1> QED
  BY <1>3, <1>4, <1>5, <1>6 DEF KeyInv

-----------------------------------------------------------------------------
(* Signing: who has sent what, and that P2 completes only with an opening  *)
(* of the commitment it had when it drew its nonces.                       *)
SignInv ==
  /\ DOMAIN wire = 1 .. 4 /\ DOMAIN at = Honest /\ DOMAIN nonce = Honest
  /\ arg # None => arg \in Calls
  /\ arg = None => /\ \A k \in 1 .. 4 : wire[k] = None
                   /\ \A p \in Honest : at[p] \in {"idle", "start", "failed"}
  /\ wire[1] # None => wire[1].sid1 = Sid(1)
  /\ wire[3] # None => wire[3].R1 \in Seq(Int)
  /\ 1 \in Honest =>
       /\ at[1] \in {"idle", "start"} => wire[1] = None /\ wire[3] = None
       /\ at[1] = "committed" => wire[3] = None /\ nonce[1] \in Seq(Int)
  /\ 2 \in Honest =>
       /\ at[2] \in {"answered", "done"} =>
            wire[1] # None /\ nonce[2] \in [1 .. n_sigs(2) -> Int] /\ wire[2].R2 = nonce[2]
       /\ at[2] = "done" =>
            /\ wire[3] # None /\ DOMAIN wire[4] = 1 .. n_sigs(2)
            /\ wire[1].com = Com(wire[1].sid1, 1, wire[3].R1)
            /\ AllOnCurve(wire[3].R1) /\ Len(wire[3].R1) = n_sigs(2)

LEMMA NonceFixed == SignInv => NoncesFixedBeforeAnswer
<1> SUFFICES ASSUME SignInv, 2 \in Honest, at[2] = "done"
             PROVE  wire[1].com = Com(Sid(1), 1, [i \in DOMAIN wire[4] |-> (R(i) - nonce[2][i]) % q])
  BY DEF NoncesFixedBeforeAnswer
<1>1. /\ DOMAIN wire[4] = 1 .. n_sigs(2) /\ wire[1].com = Com(Sid(1), 1, wire[3].R1)
      /\ wire[3].R1 \in Seq(Int) /\ Len(wire[3].R1) = n_sigs(2) /\ AllOnCurve(wire[3].R1)
      /\ nonce[2] \in [1 .. n_sigs(2) -> Int] /\ wire[2].R2 = nonce[2]
  BY DEF SignInv
<1>2. DOMAIN wire[3].R1 = 1 .. n_sigs(2) /\ wire[3].R1 = [i \in 1 .. n_sigs(2) |-> wire[3].R1[i]]
  BY <1>1
<1>3. ASSUME NEW i \in 1 .. n_sigs(2)
      PROVE  (R(i) - nonce[2][i]) % q = wire[3].R1[i]
  <2>1. wire[3].R1[i] \in Zq /\ nonce[2][i] \in Int
    BY <1>1, <1>2, <1>3 DEF AllOnCurve, OnCurve
  <2>2. (((wire[3].R1[i] + nonce[2][i]) % q) - nonce[2][i]) % q = wire[3].R1[i]
    BY <2>1, SumLess
  <2>3. R(i) = (wire[3].R1[i] + nonce[2][i]) % q
    BY <1>1 DEF R
  <2> QED
    BY <2>2, <2>3
<1>4. [i \in DOMAIN wire[4] |-> (R(i) - nonce[2][i]) % q] = [i \in 1 .. n_sigs(2) |-> wire[3].R1[i]]
  BY <1>1, <1>3
<1> QED
  BY <1>1, <1>2, <1>4

LEMMA DrawnType ==
  ASSUME NEW p \in Party, arg \in Calls, NEW k \in Drawn(p)
  PROVE  k \in [1 .. n_sigs(p) -> Int] /\ k \in Seq(Int)
<1>1. PICK d \in Nonces[p] : k = [i \in 1 .. n_sigs(p) |-> d[i]]
  BY DEF Drawn
<1>2. d \in Seq(Zq) /\ Len(d) >= Len(arg[p].msgs) /\ arg[p].msgs \in Seq(Nat)
  BY SigningTypes
<1>3. n_sigs(p) \in Nat /\ n_sigs(p) <= Len(d)
  BY <1>2 DEF n_sigs
<1>4. ASSUME NEW i \in 1 .. n_sigs(p) PROVE d[i] \in Int
  <2> DEFINE n == n_sigs(p)
             l == Len(d)
  <2>1. n \in Nat /\ n <= l /\ l \in Nat /\ i \in 1 .. n
    BY <1>2, <1>3
  <2> HIDE DEF n, l
  <2>2. i \in 1 .. l
    BY <2>1
  <2>3. d[i] \in Zq
    BY <1>2, <2>2 DEF l
  <2> QED
    BY <2>3, Numbers
<1>5. k \in [1 .. n_sigs(p) -> Int]
  BY <1>1, <1>4
<1> QED
  BY <1>3, <1>5

LEMMA PutFacts ==
  ASSUME SignInv, NEW k \in 1 .. 4, NEW m, Put(k, m)
  PROVE  DOMAIN wire' = 1 .. 4 /\ wire'[k] = m /\ \A l \in 1 .. 4 : l # k => wire'[l] = wire[l]
BY DEF SignInv, Put

LEMMA GoFacts ==
  ASSUME SignInv, NEW p \in Honest, NEW s, Go(p, s)
  PROVE  DOMAIN at' = Honest /\ at'[p] = s /\ \A j \in Honest \ {p} : at'[j] = at[j]
BY DEF SignInv, Go

LEMMA GiveUpKeeps ==
  ASSUME SignInv, NEW p \in Honest, GiveUp(p), faulty' = faulty
  PROVE  SignInv'
<1>1. Go(p, "failed") /\ UNCHANGED <<arg, nonce, wire>> /\ Honest' = Honest
  BY DEF GiveUp, Honest
<1>2. DOMAIN at' = Honest /\ at'[p] = "failed" /\ \A j \in Honest \ {p} : at'[j] = at[j]
  BY <1>1, GoFacts
<1>3. n_sigs(2)' = n_sigs(2) /\ Sid(1)' = Sid(1)
  BY <1>1 DEF n_sigs, Sid
<1> QED
  BY <1>1, <1>2, <1>3 DEF SignInv

LEMMA StartKeeps ==
  ASSUME SignInv, StartSigning
  PROVE  SignInv'
<1>1. /\ arg = None /\ arg' \in Calls /\ at' = [p \in Honest |-> "start"]
      /\ nonce' = nonce /\ wire' = wire /\ faulty' = faulty
  BY DEF StartSigning
<1>2. Honest' = Honest
  BY <1>1 DEF Honest
<1>3. wire[1] = None /\ wire[2] = None /\ wire[3] = None /\ wire[4] = None
  BY <1>1 DEF SignInv
<1> QED
  BY <1>1, <1>2, <1>3 DEF SignInv

LEMMA Step1Keeps ==
  ASSUME SignInv, SignStep1, faulty' = faulty
  PROVE  SignInv'
<1>1. 1 \in Honest /\ at[1] = "start" /\ arg # None /\ arg \in Calls /\ arg' = arg /\ Go(1, "committed")
  BY DEF SignStep1, In, SignInv
<1>2. PICK k1 \in Drawn(1) : /\ nonce' = [nonce EXCEPT ![1] = k1]
                             /\ Put(1, [sid1 |-> Sid(1), com |-> Com(Sid(1), 1, k1)])
  BY DEF SignStep1
<1>3. k1 \in Seq(Int)
  BY <1>1, DrawnType DEF Party
<1>4. /\ DOMAIN wire' = 1 .. 4 /\ wire'[1].sid1 = Sid(1)
      /\ wire'[2] = wire[2] /\ wire'[3] = wire[3] /\ wire'[4] = wire[4]
  BY <1>2, PutFacts
<1>5. DOMAIN at' = Honest /\ at'[1] = "committed" /\ (2 \in Honest => at'[2] = at[2])
  BY <1>1, GoFacts
<1>6. DOMAIN nonce' = Honest /\ nonce'[1] = k1 /\ (2 \in Honest => nonce'[2] = nonce[2])
  BY <1>1, <1>2 DEF SignInv
<1>7. Honest' = Honest /\ Sid(1)' = Sid(1) /\ Honest \subseteq Party
  BY DEF Honest, Sid
<1>8. wire[1] = None /\ wire[3] = None /\ (2 \in Honest => at[2] \notin {"answered", "done"})
  BY <1>1 DEF SignInv
<1> QED
  BY <1>1, <1>3, <1>4, <1>5, <1>6, <1>7, <1>8 DEF SignInv

LEMMA Step2Keeps ==
  ASSUME SignInv, SignStep2, faulty' = faulty
  PROVE  SignInv'
<1>1. /\ 2 \in Honest /\ at[2] = "start" /\ arg # None /\ arg \in Calls /\ arg' = arg
      /\ Go(2, "answered") /\ wire[1] # None
  BY DEF SignStep2, In, SignInv
<1>2. PICK k2 \in Drawn(2) :
        /\ nonce' = [nonce EXCEPT ![2] = k2]
        /\ Put(2, [R2 |-> k2, pi |-> Proof(k2, <<wire[1].sid1, Sid(2)>>, 2), sid2 |-> Sid(2)])
  BY DEF SignStep2
<1>3. k2 \in [1 .. n_sigs(2) -> Int]
  BY <1>1, DrawnType DEF Party
<1>4. /\ DOMAIN wire' = 1 .. 4 /\ wire'[2].R2 = k2
      /\ wire'[1] = wire[1] /\ wire'[3] = wire[3] /\ wire'[4] = wire[4]
  BY <1>2, PutFacts
<1>5. DOMAIN at' = Honest /\ at'[2] = "answered" /\ (1 \in Honest => at'[1] = at[1])
  BY <1>1, GoFacts
<1>6. DOMAIN nonce' = Honest /\ nonce'[2] = k2 /\ (1 \in Honest => nonce'[1] = nonce[1])
  BY <1>1, <1>2 DEF SignInv
<1>7. Honest' = Honest /\ Sid(1)' = Sid(1) /\ n_sigs(2)' = n_sigs(2)
  BY <1>1 DEF Honest, Sid, n_sigs
<1> QED
  BY <1>1, <1>3, <1>4, <1>5, <1>6, <1>7 DEF SignInv

LEMMA Step3Keeps ==
  ASSUME SignInv, SignStep3, faulty' = faulty
  PROVE  SignInv'
<1>1. 1 \in Honest /\ at[1] = "committed" /\ arg # None
  BY DEF SignStep3, In
<1>2. CASE GiveUp(1)
  BY <1>1, <1>2, GiveUpKeeps
<1>3. CASE /\ Put(3, [R1 |-> nonce[1], pi |-> Proof(nonce[1], <<Sid(1), wire[2].sid2>>, 1)])
           /\ Go(1, "opened")
           /\ UNCHANGED <<arg, nonce>>
  <2>1. /\ DOMAIN wire' = 1 .. 4 /\ wire'[3].R1 = nonce[1]
        /\ wire'[1] = wire[1] /\ wire'[2] = wire[2] /\ wire'[4] = wire[4]
    BY <1>3, PutFacts
  <2>2. DOMAIN at' = Honest /\ at'[1] = "opened" /\ (2 \in Honest => at'[2] = at[2])
    BY <1>1, <1>3, GoFacts
  <2>3. Honest' = Honest /\ Sid(1)' = Sid(1) /\ n_sigs(2)' = n_sigs(2)
    BY <1>3 DEF Honest, Sid, n_sigs
  <2>4. nonce[1] \in Seq(Int) /\ (2 \in Honest => at[2] # "done")
    BY <1>1 DEF SignInv
  <2> QED
    BY <1>1, <1>3, <2>1, <2>2, <2>3, <2>4 DEF SignInv
<1> QED
  BY <1>2, <1>3 DEF SignStep3

LEMMA Step4Keeps ==
  ASSUME SignInv, SignStep4, faulty' = faulty
  PROVE  SignInv'
<1>1. 2 \in Honest /\ at[2] = "answered" /\ arg # None /\ wire[3] # None
  BY DEF SignStep4, In
<1>2. CASE GiveUp(2)
  BY <1>1, <1>2, GiveUpKeeps
<1>3. CASE /\ R1Accepted
           /\ Put(4, ShareOfS(2))
           /\ Go(2, "done")
           /\ UNCHANGED <<arg, nonce>>
  <2>1. /\ DOMAIN wire' = 1 .. 4 /\ wire'[4] = ShareOfS(2)
        /\ wire'[1] = wire[1] /\ wire'[2] = wire[2] /\ wire'[3] = wire[3]
    BY <1>3, PutFacts
  <2>2. DOMAIN at' = Honest /\ at'[2] = "done" /\ (1 \in Honest => at'[1] = at[1])
    BY <1>1, <1>3, GoFacts
  <2>3. Honest' = Honest /\ Sid(1)' = Sid(1) /\ n_sigs(2)' = n_sigs(2)
    BY <1>3 DEF Honest, Sid, n_sigs
  <2>4. DOMAIN ShareOfS(2) = 1 .. n_sigs(2)
    BY DEF ShareOfS
  <2>5. /\ wire[1].com = Com(wire[1].sid1, 1, wire[3].R1) /\ AllOnCurve(wire[3].R1)
        /\ Len(wire[3].R1) = n_sigs(2)
    BY <1>3 DEF R1Accepted
  <2>6. AllOnCurve(wire[3].R1)'
    BY <2>1, <2>5 DEF AllOnCurve
  <2> QED
    BY <1>1, <1>3, <2>1, <2>2, <2>3, <2>4, <2>5, <2>6 DEF SignInv, Com
<1> QED
  BY <1>2, <1>3 DEF SignStep4

LEMMA Step5Keeps ==
  ASSUME SignInv, SignStep5, faulty' = faulty
  PROVE  SignInv'
<1>1. 1 \in Honest /\ at[1] = "opened" /\ arg # None
  BY DEF SignStep5, In
<1>2. CASE GiveUp(1)
  BY <1>1, <1>2, GiveUpKeeps
<1>3. CASE Go(1, "done") /\ UNCHANGED <<arg, nonce, wire>>
  <2>1. DOMAIN at' = Honest /\ at'[1] = "done" /\ (2 \in Honest => at'[2] = at[2])
    BY <1>1, <1>3, GoFacts
  <2>2. Honest' = Honest /\ Sid(1)' = Sid(1) /\ n_sigs(2)' = n_sigs(2)
    BY <1>3 DEF Honest, Sid, n_sigs
  <2> QED
    BY <1>1, <1>3, <2>1, <2>2 DEF SignInv, AllOnCurve
<1> QED
  BY <1>2, <1>3 DEF SignStep5

LEMMA PointsType == ASSUME NEW k \in Points PROVE k \in Seq(Int)
<1>1. PICK n \in 1 .. 2 : k \in [1 .. n -> Draw \union {0, q}]
  BY DEF Points
<1>2. Draw \union {0, q} \subseteq Int
  BY Numbers
<1>3. n \in Nat /\ k \in [1 .. n -> Int]
  BY <1>1, <1>2
<1> QED
  BY <1>3

LEMMA FaultyKeeps ==
  ASSUME SignInv, FaultyMessages, faulty' = faulty
  PROVE  SignInv'
<1>1. arg # None /\ arg' = arg /\ at' = at /\ nonce' = nonce
  BY DEF FaultyMessages
<1>2. Honest' = Honest /\ Sid(1)' = Sid(1) /\ n_sigs(2)' = n_sigs(2)
  BY <1>1 DEF Honest, Sid, n_sigs
<1>3. CASE 1 \in faulty /\ wire[1] = None
           /\ \E k \in Points : Put(1, [sid1 |-> Sid(1), com |-> Com(Sid(1), 1, k)])
  <2>1. /\ DOMAIN wire' = 1 .. 4 /\ wire'[1].sid1 = Sid(1)
        /\ wire'[2] = wire[2] /\ wire'[3] = wire[3] /\ wire'[4] = wire[4]
    BY <1>3, PutFacts
  <2>2. 1 \notin Honest /\ (2 \in Honest => at[2] \notin {"answered", "done"})
    BY <1>3 DEF SignInv, Honest
  <2> QED
    BY <1>1, <1>2, <2>1, <2>2 DEF SignInv
<1>4. CASE 2 \in faulty /\ \E m : Put(2, m)
  <2>1. DOMAIN wire' = 1 .. 4 /\ wire'[1] = wire[1] /\ wire'[3] = wire[3] /\ wire'[4] = wire[4]
    BY <1>4, PutFacts
  <2> QED
    BY <1>1, <1>2, <1>4, <2>1 DEF SignInv, Honest
<1>5. CASE 1 \in faulty /\ wire[3] = None /\ \E k \in Points : \E m : Put(3, [R1 |-> k, pi |-> m])
  <2>1. PICK k \in Points : \E m : Put(3, [R1 |-> k, pi |-> m])
    BY <1>5
  <2>2. /\ DOMAIN wire' = 1 .. 4 /\ wire'[3].R1 = k
        /\ wire'[1] = wire[1] /\ wire'[2] = wire[2] /\ wire'[4] = wire[4]
    BY <2>1, PutFacts
  <2>3. 1 \notin Honest /\ (2 \in Honest => at[2] # "done") /\ k \in Seq(Int)
    BY <1>5, PointsType DEF SignInv, Honest
  <2> QED
    BY <1>1, <1>2, <2>2, <2>3 DEF SignInv
<1>6. CASE 2 \in faulty /\ \E s : Put(4, s)
  <2>1. DOMAIN wire' = 1 .. 4 /\ wire'[1] = wire[1] /\ wire'[2] = wire[2] /\ wire'[3] = wire[3]
    BY <1>6, PutFacts
  <2> QED
    BY <1>1, <1>2, <1>6, <2>1 DEF SignInv, Honest
<1> QED
  BY <1>3, <1>4, <1>5, <1>6 DEF FaultyMessages

LEMMA SignStepsKeep ==
  ASSUME SignInv, SignSteps, faulty' = faulty
  PROVE  SignInv'
<1>1. ASSUME NEW p \in Honest, EmptyBatch(p) \/ SignPeerGone(p) PROVE SignInv'
  BY <1>1, GiveUpKeeps DEF EmptyBatch, SignPeerGone
<1> QED
  BY <1>1, Step1Keeps, Step2Keeps, Step3Keeps, Step4Keeps, Step5Keeps DEF SignSteps

(* Key sessions, and steps that change nothing, do not touch a signature.  *)
LEMMA SignQuiet ==
  ASSUME SignInv, UNCHANGED signing, faulty' = faulty
  PROVE  SignInv'
<1>1. arg' = arg /\ at' = at /\ nonce' = nonce /\ wire' = wire /\ Honest' = Honest
  BY DEF signing, Honest
<1>2. n_sigs(2)' = n_sigs(2) /\ Sid(1)' = Sid(1)
  BY <1>1 DEF n_sigs, Sid
<1> QED
  BY <1>1, <1>2 DEF SignInv, AllOnCurve

LEMMA FaultyFixed == ASSUME Next PROVE faulty' = faulty
BY DEF Next, NewSession

BothInv == KeyInv /\ SignInv

LEMMA BothInit == InitAll => BothInv
<1> SUFFICES ASSUME InitAll PROVE BothInv
  OBVIOUS
<1>1. /\ faulty \in FaultySets /\ key = [p \in Honest |-> None] /\ entry = key
      /\ lineage = [p \in Honest |-> {}] /\ kind = "none" /\ session = 0
      /\ pc = [p \in Honest |-> "failed"] /\ draw = [p \in Honest |-> None]
      /\ msg = [k \in 1 .. 3 |-> None]
  BY DEF InitAll, Init
<1>2. ~ InSession
  BY <1>1 DEF InSession
<1>3. KeyTypes
  BY <1>1, <1>2 DEF KeyTypes
<1>4. Entries
  BY <1>1 DEF Entries, Honest
<1>5. First /\ Second /\ \A p \in Honest : Counted(p)
  BY <1>1, <1>2 DEF First, Second, Counted
<1>6. SignInv
  <2>1. /\ at = [p \in Honest |-> "idle"] /\ nonce = [p \in Honest |-> <<>>]
        /\ wire = [k \in 1 .. 4 |-> None] /\ arg = None
    BY DEF InitAll
  <2>2. wire[1] = None /\ wire[2] = None /\ wire[3] = None /\ wire[4] = None
    BY <2>1
  <2> QED
    BY <2>1, <2>2 DEF SignInv
<1> QED
  BY <1>3, <1>4, <1>5, <1>6 DEF BothInv, KeyInv

LEMMA BothStep == BothInv /\ [NextAll]_all => BothInv'
<1> SUFFICES ASSUME BothInv, [NextAll]_all PROVE BothInv'
  OBVIOUS
<1> USE DEF BothInv
<1>1. CASE Next /\ UNCHANGED signing
  BY <1>1, KeyStepKeeps, FaultyFixed, SignQuiet
<1>2. CASE StartSigning
  BY <1>2, StartSigningKeeps, StartKeeps
<1>3. CASE (SignSteps \/ FaultyMessages) /\ UNCHANGED <<vars, hit>>
  <2>1. UNCHANGED vars /\ faulty' = faulty
    BY <1>3 DEF vars
  <2> QED
    BY <1>3, <2>1, KeyStutter, SignStepsKeep, FaultyKeeps
<1>4. CASE (\E p \in Honest : SignError(p)) /\ UNCHANGED vars
  <2>1. faulty' = faulty /\ \E p \in Honest : GiveUp(p)
    BY <1>4 DEF vars, SignError
  <2> QED
    BY <1>4, <2>1, KeyStutter, GiveUpKeeps
<1>5. CASE UNCHANGED all
  <2>1. UNCHANGED vars /\ UNCHANGED signing /\ faulty' = faulty
    BY <1>5 DEF all, vars
  <2> QED
    BY <2>1, KeyStutter, SignQuiet
<1> QED
  BY <1>1, <1>2, <1>3, <1>4, <1>5 DEF NextAll

-----------------------------------------------------------------------------
(* The inductive invariant holds of dkg, refresh and sign_batch, called    *)
(* one after the other, with transport errors and a faulty party anywhere. *)
THEOREM BothInvHolds == FairSpecAll => []BothInv
BY BothInit, BothStep, PTL DEF FairSpecAll

(* key_share_2p_t: two stored keys behind which are the same dkg and the   *)
(* same refreshes share one public key, although P1 returns from both      *)
(* before P2 has read the last message and each party stores its result    *)
(* on its own.                                                             *)
THEOREM SameLineageHolds == FairSpecAll => []SameLineageSharesKey
<1>1. BothInv => SameLineageSharesKey
  BY LineageKey DEF BothInv
<1> QED
  BY <1>1, BothInvHolds, PTL

(* step4_output_p2 and agree_random: what P2 completes with is what P1, be *)
(* it faulty, had committed to before P2 drew anything.                    *)
THEOREM FixedBeforeAnswerHolds == FairSpecAll => []FixedBeforeAnswer
<1>1. BothInv => FixedBeforeAnswer
  BY AnswerFixed DEF BothInv
<1> QED
  BY <1>1, BothInvHolds, PTL

(* sign_batch: the shares of s that P2 sends belong to nonces to which P1, *)
(* be it faulty, had committed before P2 drew its own, for every signature *)
(* of the batch.                                                           *)
THEOREM NoncesFixedHolds == FairSpecAll => []NoncesFixedBeforeAnswer
<1>1. BothInv => NoncesFixedBeforeAnswer
  BY NonceFixed DEF BothInv
<1> QED
  BY <1>1, BothInvHolds, PTL

-----------------------------------------------------------------------------
(* When two honest parties sign.  What they sent in a key session no error *)
(* has struck yet.                                                         *)
Sent1 == IF kind = "dkg" THEN [sid1 |-> Nonce(1), com |-> Com(Nonce(1), 1, draw[1])]
         ELSE Com(None, 1, draw[1])
Sent2 == IF kind = "dkg" THEN [sid2 |-> Nonce(2), Q2 |-> draw[2],
                               pi |-> Proof(draw[2], <<Nonce(1), Nonce(2)>>, 2)]
         ELSE draw[2]
Sent3 == IF kind = "dkg" THEN [Q1 |-> draw[1], pi |-> Proof(draw[1], <<Nonce(1), Nonce(2)>>, 1)]
         ELSE draw[1]

(* Without errors nobody fails, and both have the same history.            *)
CleanKeys ==
  /\ errs \in Nat
  /\ (faulty = {} /\ errs = 0) =>
       /\ kind = "none" => \A p \in Party : lineage[p] = {}
       /\ kind = "sign" => lineage[1] = lineage[2] /\ pc[1] = "idle"
       /\ InSession =>
            /\ \A p \in Party : pc[p] # "failed"
            /\ kind = "dkg" => \A p \in Party : lineage[p] \subseteq {session}
            /\ lineage[1] \ {session} = lineage[2] \ {session}
            /\ pc[1] \in {"sent", "done"} => msg[1] = Sent1
            /\ pc[2] \in {"sent", "done"} => msg[2] = Sent2
            /\ pc[1] = "done" => msg[3] = Sent3

(* P2 never holds a key of a dkg that P1 did not complete; whatever keys   *)
(* the two hold are of one dkg.                                            *)
OneDkg ==
  faulty = {} =>
    /\ key[2] # None => key[1] # None /\ key[1].Q = key[2].Q
    /\ kind = "dkg" => entry[2] = None /\ (msg[3] # None => pc[1] = "done")
    /\ (InSession /\ pc[2] = "done") => key[2] # None

(* What two honest parties have sent of a signature, and had checked.      *)
Wire1 == /\ n_sigs(1) > 0 /\ nonce[1] \in Drawn(1)
         /\ wire[1] = [sid1 |-> Sid(1), com |-> Com(Sid(1), 1, nonce[1])]
Wire2 == /\ n_sigs(2) > 0 /\ nonce[2] \in Drawn(2) /\ wire[1] # None
         /\ wire[2] = [R2 |-> nonce[2], pi |-> Proof(nonce[2], <<Sid(1), Sid(2)>>, 2), sid2 |-> Sid(2)]
Wire3 == /\ n_sigs(1) = n_sigs(2) /\ wire[2] # None
         /\ wire[3] = [R1 |-> nonce[1], pi |-> Proof(nonce[1], <<Sid(1), Sid(2)>>, 1)]
Wire4 == VariantOk(2) /\ wire[3] # None /\ wire[4] = ShareOfS(2)
Valid == VariantOk(1) /\ wire[4] # None
         /\ \A i \in 1 .. n_sigs(1) : Verifies(i, (ShareOfS(1)[i] + wire[4][i]) % q)

Exchange ==
  (faulty = {} /\ arg # None) =>
    /\ kind = "sign" /\ \A p \in Party : key[p] # None
    /\ at[2] = "start" => wire[2] = None
    /\ at[2] \in {"start", "answered"} => wire[4] = None
    /\ wire[1] # None => Wire1
    /\ wire[2] # None => Wire2
    /\ wire[3] # None => Wire3
    /\ wire[4] # None => Wire4
    /\ at[1] = "done" => Valid

Undisturbed ==
  (faulty = {} /\ arg # None /\ ~ hit /\ CalledAlike /\ Fit) => \A p \in Party : at[p] # "failed"

RunInv == BothInv /\ CleanKeys /\ OneDkg /\ Exchange /\ Undisturbed

-----------------------------------------------------------------------------
(* The arithmetic of the final verification.                               *)
LEMMA ModEqual ==
  ASSUME NEW a \in Int, NEW b \in Int
  PROVE  a % q = b % q <=> (a - b) % q = 0
<1> DEFINE d == a - b
<1>0. d \in Int /\ a = b + d /\ 0 \in 0 .. q - 1 /\ q \in Nat \ {0}
  BY Numbers
<1>1. ASSUME a % q = b % q PROVE d % q = 0
  <2> DEFINE r == a % q
  <2>1. PICK k \in Int : r \in 0 .. q - 1 /\ a = r + q * k
    BY Numbers, ModPick
  <2>2. PICK l \in Int : b = r + q * l
    BY <1>1, Numbers, ModPick
  <2> HIDE DEF r
  <2>3. q * k - q * l = q * (k - l) /\ k - l \in Int
    BY Numbers, Distribute
  <2>4. d = q * (k - l) + 0
    BY <2>1, <2>2, <2>3, Numbers
  <2> HIDE DEF d
  <2>5. d % q = 0
    BY <1>0, <2>3, <2>4, ModUnique
  <2> QED
    BY <2>5
<1>2. ASSUME d % q = 0 PROVE a % q = b % q
  BY <1>0, <1>2, ModDiff
<1> QED
  BY <1>1, <1>2

(* Shares of s add up to what is verified when the parts that depend on    *)
(* the key do: A and B of the two shares, C of the verification.           *)
Adds(A, B, C, V, a, b, T) ==
  /\ A \in Int /\ B \in Int /\ C \in Int /\ V \in Int /\ a \in Int /\ b \in Int /\ T \in Int
  /\ (a + b) % q = T % q /\ V % q = C % q

LEMMA SharesAdd ==
  ASSUME NEW A, NEW B, NEW C, NEW V, NEW a, NEW b, NEW T, Adds(A, B, C, V, a, b, T)
  PROVE  (((A + a) % q) + ((B + b) % q)) % q = (T + V) % q <=> (A + B - C) % q = 0
<1> USE DEF Adds
<1> DEFINE y == A + a
           z == B + b
           ry == y % q
           rz == z % q
<1>0. q \in Nat \ {0}
  BY Numbers
<1>1. y \in Int /\ z \in Int /\ y + z = (A + B) + (a + b)
  OBVIOUS
<1> HIDE DEF y, z
<1>2. ry \in Int /\ rz \in Int
  BY <1>0, <1>1, ModDef
<1>3. (ry + rz) % q = (y + rz) % q
  BY <1>0, <1>1, <1>2, ModSum
<1>4. (rz + y) % q = (z + y) % q
  BY <1>0, <1>1, <1>2, ModSum
<1> HIDE DEF ry, rz
<1>5. (ry + rz) % q = (y + z) % q
  <2>1. rz + y = y + rz /\ z + y = y + z
    BY <1>1, <1>2
  <2> QED
    BY <1>3, <1>4, <2>1
<1>6. (a + b - T) % q = 0 /\ (V - C) % q = 0
  <2>1. a + b \in Int
    OBVIOUS
  <2> QED
    BY <2>1, ModEqual
<1> DEFINE m == a + b - T
           n == V - C
           u == y + z
           v == T + V
           w == A + B - C
<1>7. m \in Int /\ n \in Int /\ u \in Int /\ v \in Int /\ w \in Int /\ u - v = w + (m - n)
  BY <1>1
<1>8. m % q = 0 /\ n % q = 0
  BY <1>6
<1> HIDE DEF m, n, u, v, w
<1>9. m % q = n % q
  BY <1>8
<1>10. (m - n) % q = 0
  BY <1>7, <1>9, ModEqual
<1> DEFINE e == m - n
<1>11. e \in Int /\ e % q = 0 /\ u - v = w + e
  BY <1>7, <1>10
<1> HIDE DEF e
<1>12. ((e % q) + w) % q = (e + w) % q
  BY <1>0, <1>7, <1>11, ModSum
<1>13. (w + e) % q = w % q
  <2>1. (e % q) + w = w /\ e + w = w + e
    BY <1>7, <1>11
  <2> QED
    BY <1>12, <2>1
<1>14. u % q = v % q <=> (u - v) % q = 0
  BY <1>7, ModEqual
<1>15. u % q = v % q <=> w % q = 0
  BY <1>11, <1>13, <1>14
<1> QED
  BY <1>5, <1>15 DEF u, v, w, ry, rz, y, z

(* No product of two numbers that are not 0 is 0: q is a prime.            *)
LEMMA NoZeroDivisors ==
  ASSUME NEW a \in Int, NEW b \in Int, a % q # 0, (a * b) % q = 0
  PROVE  b % q = 0
<1> DEFINE s == a % q
           t == b % q
<1>0. q \in Nat \ {0}
  BY Numbers
<1>1. s \in 0 .. q - 1 /\ t \in 0 .. q - 1 /\ s # 0
  BY <1>0, ModDef
<1>2. (s * b) % q = (a * b) % q
  BY <1>0, ModMult
<1>3. (t * s) % q = (b * s) % q
  <2>1. s \in Int
    BY <1>0, <1>1
  <2> HIDE DEF s
  <2> QED
    BY <1>0, <2>1, ModMult
<1> HIDE DEF s, t
<1>4. (s * t) % q = 0
  <2>1. s \in Int /\ t \in Int
    BY <1>1, Numbers
  <2>2. b * s = s * b /\ t * s = s * t
    BY <2>1
  <2> QED
    BY <1>2, <1>3, <2>2
<1>5. t = 0
  <2> SUFFICES ASSUME t # 0 PROVE FALSE
    OBVIOUS
  <2>1. s \in 1 .. q - 1 /\ t \in 1 .. q - 1
    BY <1>0, <1>1
  <2> QED
    BY <1>4, <2>1, GroupOrder
<1> QED
  BY <1>5 DEF t

(* Both negate their nonces when R is odd, which negates R.                *)
LEMMA NonceSum ==
  ASSUME NEW k1 \in Int, NEW k2 \in Int
  PROVE  /\ (k1 + k2) % q = ((k1 + k2) % q) % q
         /\ ((q - k1) + (q - k2)) % q = (q - ((k1 + k2) % q)) % q
<1> DEFINE y == k1 + k2
           r == y % q
           a == (q - k1) + (q - k2)
           b == q - r
<1>0. q \in Nat \ {0} /\ y \in Int
  BY Numbers
<1> HIDE DEF y
<1>1. PICK k \in Int : r \in 0 .. q - 1 /\ y = r + q * k
  BY <1>0, ModPick
<1>2. r % q = r
  BY <1>0, <1>1, ModSmall
<1> HIDE DEF r
<1>3. a \in Int /\ b \in Int /\ a - b = q - q * k
  BY <1>0, <1>1 DEF y
<1>4. q * 1 - q * k = q * (1 - k) /\ 1 - k \in Int /\ q * 1 = q
  BY <1>0, Distribute
<1> HIDE DEF a, b
<1>5. a - b = q * (1 - k) + 0 /\ a - b \in Int
  BY <1>0, <1>3, <1>4
<1>6. (a - b) % q = 0
  <2> DEFINE d == a - b
  <2>1. d \in Int /\ d = q * (1 - k) + 0 /\ 1 - k \in Int /\ 0 \in 0 .. q - 1
    BY <1>0, <1>5
  <2> HIDE DEF d
  <2>2. d % q = 0
    BY <1>0, <2>1, ModUnique
  <2> QED
    BY <2>2 DEF d
<1>7. a % q = b % q
  BY <1>3, <1>6, ModEqual
<1> QED
  BY <1>2, <1>7 DEF a, b, r, y

(* P1 and P2 negate e when Q is odd; the verifier negates Q.               *)
LEMMA ChallengeTimes ==
  ASSUME NEW e \in Int, NEW Q \in Int
  PROVE  (e * (q - Q)) % q = ((q - e) * Q) % q
<1> DEFINE a == e * (q - Q)
           b == (q - e) * Q
<1>0. q \in Nat \ {0}
  BY Numbers
<1>1. a = q * e - e * Q /\ b = q * Q - e * Q /\ e * Q \in Int /\ q * e \in Int /\ q * Q \in Int
  BY <1>0
<1>2. q * e - q * Q = q * (e - Q) /\ e - Q \in Int
  BY <1>0, Distribute
<1> DEFINE d == a - b
           m == e - Q
<1>3. a \in Int /\ b \in Int /\ d \in Int /\ d = q * m + 0 /\ m \in Int /\ 0 \in 0 .. q - 1
  BY <1>0, <1>1, <1>2
<1> HIDE DEF a, b, m
<1>4. d % q = 0
  <2> HIDE DEF d
  <2> QED
    BY <1>0, <1>3, ModUnique
<1>5. a % q = b % q
  BY <1>3, <1>4, ModEqual
<1> QED
  BY <1>5 DEF a, b

-----------------------------------------------------------------------------
(* Two honest parties that hold keys of one dkg and have exchanged nonces. *)
Exchanged ==
  /\ arg \in Calls /\ key[1] \in Share /\ key[2] \in Share /\ key[1].Q = key[2].Q
  /\ nonce[1] \in Drawn(1) /\ nonce[2] \in Drawn(2) /\ n_sigs(1) = n_sigs(2)
  /\ wire[2].R2 = nonce[2] /\ wire[3].R1 = nonce[1] /\ VariantOk(1) /\ VariantOk(2)

LEMMA ArgTypes ==
  ASSUME arg \in Calls
  PROVE  /\ arg[1].curve = arg[2].curve /\ arg[1].curve \in {"secp256k1", "ed25519"}
         /\ \A p \in Party : /\ arg[p].msgs \in Seq(Nat) /\ n_sigs(p) = Len(arg[p].msgs) /\ n_sigs(p) \in Nat
                             /\ arg[p].variant \in {"BIP340", "EdDSA"}
                             /\ \A i \in 1 .. n_sigs(p) : arg[p].msgs[i] \in Messages
<1>1. /\ arg[1].curve = arg[2].curve /\ arg[1].curve \in {"secp256k1", "ed25519"}
      /\ \A p \in Party : arg[p].msgs \in Seq(Nat) /\ arg[p].variant \in {"BIP340", "EdDSA"}
  BY SigningTypes
<1>2. ASSUME NEW p \in Party
      PROVE  /\ n_sigs(p) = Len(arg[p].msgs) /\ n_sigs(p) \in Nat
             /\ \A i \in 1 .. n_sigs(p) : arg[p].msgs[i] \in Messages
  <2>1. n_sigs(p) = Len(arg[p].msgs) /\ n_sigs(p) \in Nat /\ DOMAIN arg[p].msgs = 1 .. n_sigs(p)
    BY <1>1 DEF n_sigs
  <2> DEFINE S(c, j) == {c[j].msgs[i] : i \in DOMAIN c[j].msgs}
  <2>2. S(arg, p) \in {S(c, j) : c \in Calls, j \in Party}
    OBVIOUS
  <2>3. \A i \in 1 .. n_sigs(p) : arg[p].msgs[i] \in S(arg, p)
    BY <2>1
  <2>4. Messages = UNION {S(c, j) : c \in Calls, j \in Party}
    BY DEF Messages
  <2> HIDE DEF S
  <2> QED
    BY <2>1, <2>2, <2>3, <2>4
<1> QED
  BY <1>1, <1>2

LEMMA DrawnPoints ==
  ASSUME NEW p \in Party, arg \in Calls, NEW k \in Drawn(p)
  PROVE  k \in Seq(Int) /\ Len(k) = n_sigs(p) /\ AllOnCurve(k)
<1>1. PICK d \in Nonces[p] : k = [i \in 1 .. n_sigs(p) |-> d[i]]
  BY DEF Drawn
<1>2. d \in Seq(Zq \ {0}) /\ Len(d) >= Len(arg[p].msgs)
  BY SigningTypes
<1>3. n_sigs(p) \in Nat /\ n_sigs(p) <= Len(d) /\ Len(d) \in Nat /\ DOMAIN d = 1 .. Len(d)
  BY <1>2, ArgTypes
<1>4. DOMAIN k = 1 .. n_sigs(p) /\ 1 .. n_sigs(p) \subseteq DOMAIN d
  BY <1>1, <1>3
<1>5. \A i \in DOMAIN d : d[i] \in Zq \ {0}
  BY <1>2
<1>6. AllOnCurve(k)
  BY <1>1, <1>4, <1>5 DEF AllOnCurve, OnCurve
<1>7. k \in Seq(Int)
  BY DrawnType
<1> QED
  BY <1>3, <1>4, <1>6, <1>7

(* The nonces both use add up to the R that is verified.                   *)
LEMMA NoncesAdd ==
  ASSUME Exchanged, NEW i \in 1 .. n_sigs(1)
  PROVE  /\ nonce[1][i] \in Int /\ nonce[2][i] \in Int /\ R(i) \in Zq
         /\ R(i) = (nonce[1][i] + nonce[2][i]) % q
<1>1. /\ nonce[1] \in [1 .. n_sigs(1) -> Int] /\ nonce[2] \in [1 .. n_sigs(2) -> Int]
      /\ n_sigs(1) = n_sigs(2)
  BY DrawnType DEF Exchanged, Party
<1>2. nonce[1][i] \in Int /\ nonce[2][i] \in Int
  BY <1>1
<1>3. R(i) = (nonce[1][i] + nonce[2][i]) % q
  BY DEF R, Exchanged
<1> DEFINE y == nonce[1][i] + nonce[2][i]
<1>4. y \in Int
  BY <1>2
<1> HIDE DEF y
<1>5. y % q \in Zq
  BY <1>4, ModZq
<1> QED
  BY <1>2, <1>3, <1>5 DEF y

LEMMA EvenType ==
  ASSUME NEW P \in Zq
  PROVE  EvenY(P) \in Zq
<1>1. P \in Int /\ 0 <= P /\ P < q /\ q \in Nat
  BY Numbers DEF Zq
<1> QED
  BY <1>1 DEF EvenY, is_odd, Zq

(* Parties whom VariantOk lets pass sign the same way.                     *)
LEMMA SameVariant ==
  ASSUME Exchanged
  PROVE  arg[1].variant = arg[2].variant /\ arg[1].variant \in {"BIP340", "EdDSA"}
BY ArgTypes DEF Exchanged, VariantOk, Party

LEMMA ChallengesDiffer ==
  ASSUME Exchanged, NEW i \in 1 .. n_sigs(1)
  PROVE  /\ ChallengeFor(1, i) \in 1 .. q - 1 /\ ChallengeFor(2, i) \in 1 .. q - 1
         /\ ChallengeFor(1, i) = ChallengeFor(2, i) <=> arg[1].msgs[i] = arg[2].msgs[i]
<1> DEFINE m == arg[1].msgs[i]
           n == arg[2].msgs[i]
<1>1. m \in Messages /\ n \in Messages
  BY ArgTypes DEF Exchanged, Party
<1>2. R(i) \in Zq /\ EvenY(R(i)) \in Zq
  BY NoncesAdd, EvenType
<1>3. arg[1].variant = arg[2].variant /\ arg[1].variant \in {"BIP340", "EdDSA"}
  BY SameVariant
<1>4. key[1].Q = key[2].Q /\ q \in Nat
  BY Numbers DEF Exchanged
<1>5. CASE arg[1].variant = "EdDSA"
  <2>1. ChallengeFor(1, i) = Challenge[R(i)][m] /\ ChallengeFor(2, i) = Challenge[R(i)][n]
    BY <1>3, <1>5 DEF ChallengeFor
  <2>2. /\ Challenge[R(i)][m] \in 1 .. q - 1 /\ Challenge[R(i)][n] \in 1 .. q - 1
        /\ Challenge[R(i)][m] = Challenge[R(i)][n] => m = n
    BY <1>1, <1>2, ChallengeTypes
  <2> HIDE DEF m, n
  <2>3. Challenge[R(i)][m] = Challenge[R(i)][n] <=> m = n
    BY <2>2
  <2> QED
    BY <2>1, <2>2, <2>3 DEF m, n
<1>6. CASE arg[1].variant = "BIP340"
  <2> DEFINE P == EvenY(R(i))
             e == Challenge[P][m]
             f == Challenge[P][n]
  <2>1. /\ ChallengeFor(1, i) = IF is_odd(key[1].Q) THEN q - e ELSE e
        /\ ChallengeFor(2, i) = IF is_odd(key[1].Q) THEN q - f ELSE f
    BY <1>3, <1>4, <1>6 DEF ChallengeFor
  <2>2. e \in 1 .. q - 1 /\ f \in 1 .. q - 1 /\ (e = f => m = n) /\ (m = n => e = f)
    BY <1>1, <1>2, ChallengeTypes
  <2> HIDE DEF e, f
  <2>3. q - e \in 1 .. q - 1 /\ q - f \in 1 .. q - 1 /\ (q - e = q - f => e = f)
    BY <1>4, <2>2
  <2> QED
    BY <2>1, <2>2, <2>3 DEF m, n
<1> QED
  BY <1>3, <1>5, <1>6

(* What the final verification comes to: the key shares, each under the    *)
(* challenge its holder used, add up to the public key under P1's.         *)
LEMMA VerifiesMeans ==
  ASSUME Exchanged, wire[4] = ShareOfS(2), NEW i \in 1 .. n_sigs(1)
  PROVE  Verifies(i, (ShareOfS(1)[i] + wire[4][i]) % q)
           <=> (ChallengeFor(1, i) * key[1].x + ChallengeFor(2, i) * key[2].x
                  - ChallengeFor(1, i) * key[1].Q) % q = 0
<1> DEFINE c == ChallengeFor(1, i)
           d == ChallengeFor(2, i)
           A == c * key[1].x
           B == d * key[2].x
           C == c * key[1].Q
           a == NonceFor(1, i)
           b == NonceFor(2, i)
           k == nonce[1][i]
           l == nonce[2][i]
           s == (ShareOfS(1)[i] + wire[4][i]) % q
<1>0. i \in 1 .. n_sigs(2) /\ q \in Nat \ {0} /\ n_sigs(1) = n_sigs(2)
  BY Numbers DEF Exchanged
<1>1. key[1].x \in Int /\ key[2].x \in Int /\ key[1].Q \in Int /\ key[1].Q \in Zq
  BY Numbers DEF Exchanged, Share
<1>2. c \in Int /\ d \in Int
  BY <1>0, ChallengesDiffer
<1>3. k \in Int /\ l \in Int /\ R(i) \in Zq /\ R(i) = (k + l) % q /\ R(i) \in Int
  BY NoncesAdd, Numbers
<1>4. ShareOfS(1)[i] = (A + a) % q /\ wire[4][i] = (B + b) % q
  BY <1>0 DEF ShareOfS
<1>5. s = (((A + a) % q) + ((B + b) % q)) % q
  BY <1>4, Zenon
<1>6. A \in Int /\ B \in Int /\ C \in Int
  <2> HIDE DEF c, d
  <2> QED
    BY <1>1, <1>2
<1>7. a \in Int /\ b \in Int
  BY <1>0, <1>3 DEF NonceFor
<1>8. arg[1].variant = arg[2].variant /\ arg[1].variant \in {"BIP340", "EdDSA"}
  BY SameVariant
<1> DEFINE e == Challenge[EvenY(R(i))][arg[1].msgs[i]]
<1>9. PICK T \in Int, V \in Int :
        (Verifies(i, s) <=> s = (T + V) % q) /\ (a + b) % q = T % q /\ V % q = C % q
  <2>1. CASE arg[1].variant = "EdDSA"
    <3>1. c = Challenge[R(i)][arg[1].msgs[i]] /\ a = k /\ b = l
      BY <1>8, <2>1 DEF ChallengeFor, NonceFor
    <3>2. Verifies(i, s) <=> s = (R(i) + C) % q
      BY <2>1, <3>1 DEF Verifies
    <3>3. (k + l) % q = R(i) % q
      BY <1>3, NonceSum
    <3> HIDE DEF s, C
    <3>4. /\ Verifies(i, s) <=> s = (R(i) + C) % q
          /\ (a + b) % q = R(i) % q /\ C % q = C % q
      BY <3>1, <3>2, <3>3
    <3> QED
      BY <1>3, <1>6, <3>4
  <2>2. CASE arg[1].variant = "BIP340"
    <3> DEFINE T == EvenY(R(i))
               W1 == EvenY(key[1].Q)
               V == e * W1
    <3>1. c = IF is_odd(key[1].Q) THEN q - e ELSE e
      BY <2>2 DEF ChallengeFor
    <3>2. /\ a = IF is_odd(R(i)) THEN q - k ELSE k
          /\ b = IF is_odd(R(i)) THEN q - l ELSE l
      BY <1>8, <2>2 DEF NonceFor
    <3>3. Verifies(i, s) <=> s = (T + V) % q
      BY <2>2 DEF Verifies
    <3>4. T \in Int /\ W1 \in Int
      BY <1>1, <1>3, EvenType, Numbers
    <3>5. e \in Int
      <4>1. arg[1].msgs[i] \in Messages /\ EvenY(R(i)) \in Zq
        BY <1>3, EvenType, ArgTypes DEF Exchanged, Party
      <4>2. e \in 1 .. q - 1
        BY <4>1, ChallengeTypes
      <4> QED
        BY <4>2, <1>0
    <3>6. V \in Int
      <4> HIDE DEF e, W1
      <4> QED
        BY <3>4, <3>5
    <3>7. (a + b) % q = T % q
      <4>1. (k + l) % q = R(i) % q /\ ((q - k) + (q - l)) % q = (q - R(i)) % q
        BY <1>3, NonceSum
      <4> QED
        BY <3>2, <4>1 DEF EvenY
    <3>8. V % q = C % q
      <4> HIDE DEF e
      <4>1. (e * (q - key[1].Q)) % q = ((q - e) * key[1].Q) % q
        BY <1>1, <3>5, ChallengeTimes
      <4>2. CASE is_odd(key[1].Q)
        <5>1. c = q - e /\ W1 = q - key[1].Q
          BY <3>1, <4>2 DEF EvenY
        <5> HIDE DEF c, W1
        <5> QED
          BY <4>1, <5>1
      <4>3. CASE ~ is_odd(key[1].Q)
        <5>1. c = e /\ W1 = key[1].Q
          BY <3>1, <4>3 DEF EvenY
        <5> HIDE DEF c, W1
        <5> QED
          BY <5>1
      <4> QED
        BY <4>2, <4>3
    <3> HIDE DEF T, V
    <3> QED
      BY <3>3, <3>4, <3>6, <3>7, <3>8
  <2> QED
    BY <1>8, <2>1, <2>2
<1> HIDE DEF A, B, C, a, b
<1>10. (((A + a) % q) + ((B + b) % q)) % q = (T + V) % q <=> (A + B - C) % q = 0
  <2>1. Adds(A, B, C, V, a, b, T)
    BY <1>6, <1>7, <1>9 DEF Adds
  <2> QED
    BY <2>1, SharesAdd
<1>11. Verifies(i, s) <=> (A + B - C) % q = 0
  BY <1>5, <1>9, <1>10, Zenon
<1> QED
  BY <1>11 DEF A, B, C

LEMMA SeqsDiffer ==
  ASSUME NEW n \in Nat, NEW s \in Seq(Nat), NEW t \in Seq(Nat), Len(s) = n, Len(t) = n, s # t
  PROVE  \E i \in 1 .. n : s[i] # t[i]
OBVIOUS

(* Parties whose shares fit together sign what both were asked to sign.    *)
LEMMA FitVerifies ==
  ASSUME Exchanged, wire[4] = ShareOfS(2), Fit, arg[1].msgs = arg[2].msgs, NEW i \in 1 .. n_sigs(1)
  PROVE  Verifies(i, (ShareOfS(1)[i] + wire[4][i]) % q)
<1> DEFINE c == ChallengeFor(1, i)
           x == key[1].x
           y == key[2].x
           Q == key[1].Q
           g == x + y - Q
<1>0. q \in Nat \ {0} /\ 0 \in 0 .. q - 1
  BY Numbers
<1>1. ChallengeFor(2, i) = c /\ c \in Int
  BY <1>0, ChallengesDiffer
<1>2. x \in Int /\ y \in Int /\ Q \in Int /\ g % q = 0
  BY Numbers DEF Exchanged, Share, Fit, Gap
<1>3. Verifies(i, (ShareOfS(1)[i] + wire[4][i]) % q) <=> (c * x + c * y - c * Q) % q = 0
  BY <1>1, VerifiesMeans
<1> HIDE DEF c, x, y, Q
<1>4. g \in Int /\ c * x + c * y - c * Q = g * c
  BY <1>1, <1>2
<1> HIDE DEF g
<1>5. ((g % q) * c) % q = (g * c) % q
  BY <1>0, <1>1, <1>4, ModMult
<1>6. 0 * c = 0 /\ 0 % q = 0
  BY <1>0, <1>1, ModSmall
<1>7. (g * c) % q = 0
  BY <1>2, <1>5, <1>6
<1> QED
  BY <1>3, <1>4, <1>7

(* Signatures mean that the shares fit and both signed the same.           *)
LEMMA SignedMeansFit ==
  ASSUME Exchanged, wire[4] = ShareOfS(2), ~ Accident, n_sigs(1) > 0,
         \A i \in 1 .. n_sigs(1) : Verifies(i, (ShareOfS(1)[i] + wire[4][i]) % q)
  PROVE  Fit /\ arg[1].msgs = arg[2].msgs
<1> DEFINE c(i) == ChallengeFor(1, i)
           d(i) == ChallengeFor(2, i)
           x == key[1].x
           y == key[2].x
           Q == key[1].Q
           g == x + y - Q
<1>0. q \in Nat \ {0} /\ 0 \in 0 .. q - 1 /\ n_sigs(1) \in Nat /\ n_sigs(1) = n_sigs(2)
  BY Numbers, ArgTypes DEF Exchanged, Party
<1>1. /\ x \in Int /\ y \in 1 .. q - 1 /\ Q \in Int /\ g \in Int
      /\ Fit <=> g % q = 0
  BY Numbers DEF Exchanged, Share, Fit, Gap, Accident, Zq
<1>2. ASSUME NEW i \in 1 .. n_sigs(1)
      PROVE  /\ c(i) \in 1 .. q - 1 /\ d(i) \in 1 .. q - 1
             /\ c(i) = d(i) <=> arg[1].msgs[i] = arg[2].msgs[i]
             /\ (c(i) * x + d(i) * y - c(i) * Q) % q = 0
  BY ChallengesDiffer, VerifiesMeans
<1>3. CASE arg[1].msgs = arg[2].msgs
  <2> DEFINE e == c(1)
  <2>1. 1 \in 1 .. n_sigs(1)
    BY <1>0
  <2>2. e \in 1 .. q - 1 /\ (e * x + e * y - e * Q) % q = 0
    BY <1>2, <1>3, <2>1
  <2> HIDE DEF e, x, y, Q, c, d
  <2>3. e \in Int /\ y \in Int /\ e * x + e * y - e * Q = e * g /\ e \in 0 .. q - 1 /\ e # 0
    BY <1>0, <1>1, <2>2
  <2>4. e % q # 0
    BY <1>0, <2>3, ModSmall
  <2> HIDE DEF g
  <2>5. g % q = 0
    BY <1>1, <2>2, <2>3, <2>4, NoZeroDivisors
  <2> QED
    BY <1>1, <1>3, <2>5
<1>4. CASE arg[1].msgs # arg[2].msgs
  <2>1. g % q = 0
    BY <1>1, <1>4 DEF Accident
  <2>2. PICK i \in 1 .. n_sigs(1) : arg[1].msgs[i] # arg[2].msgs[i]
    <3>1. /\ arg[1].msgs \in Seq(Nat) /\ arg[2].msgs \in Seq(Nat)
          /\ Len(arg[1].msgs) = n_sigs(1) /\ Len(arg[2].msgs) = n_sigs(1)
      BY <1>0, ArgTypes DEF Exchanged, Party
    <3> QED
      BY <1>0, <1>4, <3>1, SeqsDiffer, Zenon
  <2> DEFINE e == c(i)
             f == d(i)
  <2>3. e \in 1 .. q - 1 /\ f \in 1 .. q - 1 /\ e # f /\ (e * x + f * y - e * Q) % q = 0
    BY <1>2, <2>2
  <2> HIDE DEF e, f, x, y, Q, c, d
  <2> DEFINE u == e * x + f * y - e * Q
             v == (f - e) * y
             w == g * e
  <2>4. e \in Int /\ f \in Int /\ y \in Int
    BY <1>0, <1>1, <2>3
  <2>5. u \in Int /\ v \in Int /\ w \in Int /\ u - v = w
    BY <1>1, <2>4
  <2>6. u % q = 0
    BY <2>3
  <2>7. w % q = 0
    <3> HIDE DEF g
    <3>1. ((g % q) * e) % q = (g * e) % q
      BY <1>0, <1>1, <2>4, ModMult
    <3>2. 0 * e = 0 /\ 0 % q = 0
      BY <1>0, <2>4, ModSmall
    <3> QED
      BY <2>1, <3>1, <3>2
  <2> HIDE DEF u, w
  <2>8. v % q = 0
    <3> HIDE DEF v
    <3>1. (u - v) % q = 0
      BY <2>5, <2>7
    <3>2. u % q = v % q
      BY <2>5, <3>1, ModEqual
    <3> QED
      BY <2>6, <3>2
  <2> DEFINE h == f - e
  <2>9. h \in Int /\ (y * h) % q = 0 /\ y % q # 0
    <3>1. h \in Int /\ y * h = v
      BY <2>4
    <3>2. y \in 0 .. q - 1 /\ y # 0
      BY <1>0, <1>1
    <3>3. y % q = y
      BY <1>0, <3>2, ModSmall
    <3> HIDE DEF h, v
    <3> QED
      BY <2>8, <3>1, <3>2, <3>3
  <2>10. h % q = 0
    <3> HIDE DEF h
    <3> QED
      BY <2>4, <2>9, NoZeroDivisors
  <2>11. f % q = e % q
    BY <2>4, <2>10, ModEqual
  <2>12. f % q = f /\ e % q = e
    <3>1. f \in 0 .. q - 1 /\ e \in 0 .. q - 1
      BY <1>0, <2>3
    <3> QED
      BY <1>0, <3>1, ModSmall
  <2> QED
    BY <2>3, <2>11, <2>12
<1> QED
  BY <1>3, <1>4

-----------------------------------------------------------------------------
(* Once P2 has sent its shares, all that came before is known.             *)
LEMMA WireChain ==
  ASSUME RunInv, faulty = {}, arg # None, wire[4] # None, VariantOk(1)
  PROVE  Exchanged /\ wire[4] = ShareOfS(2) /\ n_sigs(1) > 0
<1>0. Honest = {1, 2} /\ Party = {1, 2}
  BY DEF Honest, Party
<1>1. Wire4 /\ Wire3 /\ Wire2 /\ Wire1
  BY DEF RunInv, Exchange, Wire4, Wire3, Wire2
<1>2. key[1] # None /\ key[2] # None /\ key \in [Honest -> Share \union {None}] /\ arg \in Calls
  BY <1>0 DEF RunInv, Exchange, BothInv, KeyInv, KeyTypes, SignInv
<1>3. key[1] \in Share /\ key[2] \in Share
  BY <1>0, <1>2
<1>4. key[1].Q = key[2].Q
  BY <1>2 DEF RunInv, OneDkg
<1>5. /\ nonce[1] \in Drawn(1) /\ nonce[2] \in Drawn(2) /\ n_sigs(1) = n_sigs(2) /\ n_sigs(1) > 0
      /\ VariantOk(2) /\ wire[4] = ShareOfS(2)
  BY <1>1 DEF Wire1, Wire2, Wire3, Wire4
<1>6. wire[2].R2 = nonce[2] /\ wire[3].R1 = nonce[1]
  BY <1>1 DEF Wire2, Wire3
<1> QED
  BY <1>2, <1>3, <1>4, <1>5, <1>6 DEF Exchanged

LEMMA SignsFit == RunInv => SignsWhenSharesFit
<1> SUFFICES ASSUME RunInv, faulty = {}, arg # None, ~ Accident
             PROVE  /\ at[1] = "done" => Fit /\ arg[1].msgs = arg[2].msgs
                    /\ (at[1] = "failed" /\ ~ hit /\ CalledAlike) => errs > 0 /\ lineage[1] # lineage[2]
  BY DEF SignsWhenSharesFit
<1>1. ASSUME at[1] = "done" PROVE Fit /\ arg[1].msgs = arg[2].msgs
  <2>1. Valid
    BY <1>1 DEF RunInv, Exchange
  <2>2. Exchanged /\ wire[4] = ShareOfS(2) /\ n_sigs(1) > 0
    BY <2>1, WireChain DEF Valid
  <2> QED
    BY <2>1, <2>2, SignedMeansFit DEF Valid
<1>2. ASSUME at[1] = "failed", ~ hit, CalledAlike PROVE errs > 0 /\ lineage[1] # lineage[2]
  <2>1. ~ Fit
    BY <1>2 DEF RunInv, Undisturbed, Party
  <2>2. SameLineageSharesKey /\ BothHold /\ kind = "sign"
    BY LineageKey DEF RunInv, BothInv, BothHold, Exchange
  <2>3. lineage[1] # lineage[2]
    BY <2>1, <2>2 DEF SameLineageSharesKey, Fit
  <2>4. errs \in Nat /\ errs # 0
    BY <2>2, <2>3 DEF RunInv, CleanKeys
  <2> QED
    BY <2>3, <2>4
<1> QED
  BY <1>1, <1>2

-----------------------------------------------------------------------------
(* The steps of a signature between two honest parties.                    *)
SignFrame ==
  /\ RunInv /\ faulty = {} /\ arg # None /\ arg \in Calls
  /\ arg' = arg /\ key' = key /\ faulty' = faulty /\ kind' = kind

LEMMA FrameFacts ==
  ASSUME SignFrame
  PROVE  /\ Honest = {1, 2} /\ Party = {1, 2} /\ Honest' = Honest
         /\ SignInv /\ Exchange /\ Undisturbed /\ kind = "sign"
         /\ \A p \in Party : /\ n_sigs(p)' = n_sigs(p) /\ Sid(p)' = Sid(p) /\ Drawn(p)' = Drawn(p)
                             /\ VariantOk(p)' = VariantOk(p) /\ key[p] # None
         /\ CalledAlike' = CalledAlike /\ Fit' = Fit
<1>1. Honest = {1, 2} /\ Party = {1, 2} /\ Honest' = Honest
  BY DEF SignFrame, Honest, Party
<1>2. SignInv /\ Exchange /\ Undisturbed
  BY DEF SignFrame, RunInv, BothInv
<1>3. \A p \in Party : n_sigs(p)' = n_sigs(p) /\ Sid(p)' = Sid(p)
  BY DEF SignFrame, n_sigs, Sid
<1>4. \A p \in Party : Drawn(p)' = Drawn(p)
  BY <1>3 DEF Drawn
<1>5. \A p \in Party : VariantOk(p)' = VariantOk(p)
  BY DEF SignFrame, VariantOk
<1>6. CalledAlike' = CalledAlike /\ Fit' = Fit
  BY <1>1, <1>5 DEF CalledAlike, Fit, Gap, SignFrame
<1> QED
  BY <1>1, <1>2, <1>3, <1>4, <1>5, <1>6 DEF Exchange, SignFrame

(* Shares of s depend on the nonces, the messages exchanged and the key.   *)
LEMMA SharesStay ==
  ASSUME SignFrame, NEW p \in Party, nonce'[p] = nonce[p], wire'[2] = wire[2], wire'[3] = wire[3]
  PROVE  ShareOfS(p)' = ShareOfS(p)
<1>1. \A i : R(i)' = R(i)
  BY DEF R
<1>2. \A i : ChallengeFor(p, i)' = ChallengeFor(p, i)
  BY <1>1 DEF ChallengeFor, EvenY, is_odd, SignFrame
<1>3. \A i : NonceFor(p, i)' = NonceFor(p, i)
  BY <1>1 DEF NonceFor, is_odd, SignFrame
<1>4. n_sigs(p)' = n_sigs(p)
  BY FrameFacts
<1> QED
  BY <1>2, <1>3, <1>4 DEF ShareOfS, SignFrame

LEMMA ValidStays ==
  ASSUME SignFrame, nonce'[1] = nonce[1], \A k \in 2 .. 4 : wire'[k] = wire[k]
  PROVE  Valid' = Valid
<1>1. wire'[2] = wire[2] /\ wire'[3] = wire[3] /\ wire'[4] = wire[4]
  OBVIOUS
<1>2. ShareOfS(1)' = ShareOfS(1)
  BY <1>1, SharesStay DEF Party
<1>3. \A i : R(i)' = R(i)
  BY <1>1 DEF R
<1>4. \A i, s : Verifies(i, s)' = Verifies(i, s)
  BY <1>3 DEF Verifies, EvenY, is_odd, SignFrame
<1>5. n_sigs(1)' = n_sigs(1) /\ VariantOk(1)' = VariantOk(1)
  BY FrameFacts
<1> QED
  BY <1>1, <1>2, <1>4, <1>5 DEF Valid

(* A party that gives up changes nothing but where it is.                  *)
LEMMA GiveUpExchange ==
  ASSUME SignFrame, NEW p \in Honest, GiveUp(p)
  PROVE  Exchange'
<1>1. /\ Exchange /\ SignInv /\ kind' = "sign" /\ \A j \in Party : key'[j] # None
      /\ Honest = {1, 2} /\ Party = {1, 2}
  BY FrameFacts DEF SignFrame
<1>2. wire' = wire /\ nonce' = nonce /\ at'[p] = "failed" /\ \A j \in Honest \ {p} : at'[j] = at[j]
  BY <1>1, GoFacts DEF GiveUp
<1>3. Wire1' = Wire1 /\ Wire2' = Wire2 /\ Wire3' = Wire3
  BY <1>1, <1>2, FrameFacts DEF Wire1, Wire2, Wire3
<1>4. Wire4' = Wire4
  BY <1>1, <1>2, FrameFacts, SharesStay DEF Wire4
<1>5. Valid' = Valid
  BY <1>2, ValidStays
<1>6. at'[1] \in {at[1], "failed"} /\ at'[2] \in {at[2], "failed"}
  BY <1>1, <1>2
<1> QED
  BY <1>1, <1>2, <1>3, <1>4, <1>5, <1>6 DEF Exchange, SignFrame

LEMMA GiveUpRun ==
  ASSUME SignFrame, NEW p \in Honest, GiveUp(p), hit' \/ ~ CalledAlike \/ ~ Fit
  PROVE  Exchange' /\ Undisturbed'
BY GiveUpExchange, FrameFacts DEF Undisturbed

(* A step forward disturbs nobody.                                         *)
LEMMA GoUndisturbed ==
  ASSUME SignFrame, NEW p \in Honest, NEW s, Go(p, s), s # "failed", hit' = hit
  PROVE  Undisturbed'
<1>1. /\ Undisturbed /\ SignInv /\ Honest = {1, 2} /\ Party = {1, 2}
      /\ CalledAlike' = CalledAlike /\ Fit' = Fit
  BY FrameFacts
<1>2. at'[p] = s /\ \A j \in Honest \ {p} : at'[j] = at[j]
  BY <1>1, GoFacts
<1> QED
  BY <1>1, <1>2 DEF Undisturbed, SignFrame

LEMMA Step1Run ==
  ASSUME SignFrame, SignStep1, hit' = hit
  PROVE  Exchange' /\ Undisturbed'
<1>0. /\ Exchange /\ SignInv /\ kind' = "sign" /\ \A j \in Party : key'[j] # None
      /\ Honest = {1, 2} /\ Party = {1, 2}
  BY FrameFacts DEF SignFrame
<1>1. at[1] = "start" /\ n_sigs(1) > 0 /\ Go(1, "committed")
  BY DEF SignStep1, In
<1>2. PICK k1 \in Drawn(1) : /\ nonce' = [nonce EXCEPT ![1] = k1]
                             /\ Put(1, [sid1 |-> Sid(1), com |-> Com(Sid(1), 1, k1)])
  BY DEF SignStep1
<1>3. /\ wire'[1] = [sid1 |-> Sid(1), com |-> Com(Sid(1), 1, k1)]
      /\ wire'[2] = wire[2] /\ wire'[3] = wire[3] /\ wire'[4] = wire[4]
  BY <1>0, <1>2, PutFacts
<1>4. at'[1] = "committed" /\ at'[2] = at[2]
  BY <1>0, <1>1, GoFacts
<1>5. nonce'[1] = k1
  BY <1>0, <1>2 DEF SignInv
<1>6. wire[1] = None /\ wire[2] = None /\ wire[3] = None /\ wire[4] = None
  BY <1>0, <1>1 DEF SignInv, Exchange, SignFrame, Wire2, Wire3, Wire4
<1>7. Wire1'
  BY <1>0, <1>1, <1>3, <1>5, FrameFacts DEF Wire1, Com
<1>8. Exchange'
  BY <1>0, <1>3, <1>4, <1>6, <1>7 DEF Exchange
<1> QED
  BY <1>0, <1>1, <1>8, GoUndisturbed

LEMMA Step2Run ==
  ASSUME SignFrame, SignStep2, hit' = hit
  PROVE  Exchange' /\ Undisturbed'
<1>0. /\ Exchange /\ SignInv /\ kind' = "sign" /\ \A j \in Party : key'[j] # None
      /\ Honest = {1, 2} /\ Party = {1, 2}
  BY FrameFacts DEF SignFrame
<1>1. at[2] = "start" /\ n_sigs(2) > 0 /\ Go(2, "answered") /\ wire[1] # None
  BY DEF SignStep2, In
<1>2. PICK k2 \in Drawn(2) :
        /\ nonce' = [nonce EXCEPT ![2] = k2]
        /\ Put(2, [R2 |-> k2, pi |-> Proof(k2, <<wire[1].sid1, Sid(2)>>, 2), sid2 |-> Sid(2)])
  BY DEF SignStep2
<1>3. /\ wire'[2] = [R2 |-> k2, pi |-> Proof(k2, <<wire[1].sid1, Sid(2)>>, 2), sid2 |-> Sid(2)]
      /\ wire'[1] = wire[1] /\ wire'[3] = wire[3] /\ wire'[4] = wire[4]
  BY <1>0, <1>2, PutFacts
<1>4. at'[2] = "answered" /\ at'[1] = at[1]
  BY <1>0, <1>1, GoFacts
<1>5. nonce'[2] = k2 /\ nonce'[1] = nonce[1]
  BY <1>0, <1>2 DEF SignInv
<1>6. Wire1 /\ wire[2] = None /\ wire[3] = None /\ wire[4] = None /\ wire[1].sid1 = Sid(1)
  BY <1>0, <1>1 DEF SignInv, Exchange, SignFrame, Wire3, Wire4
<1>7. Wire1'
  BY <1>0, <1>3, <1>5, <1>6, FrameFacts DEF Wire1, Com
<1>8. Wire2'
  BY <1>0, <1>1, <1>3, <1>5, <1>6, FrameFacts DEF Wire2, Proof
<1>9. at[1] # "done"
  BY <1>0, <1>6 DEF Exchange, Valid, SignFrame
<1>10. Exchange'
  BY <1>0, <1>3, <1>4, <1>6, <1>7, <1>8, <1>9 DEF Exchange
<1> QED
  BY <1>0, <1>1, <1>10, GoUndisturbed

LEMMA Step3Run ==
  ASSUME SignFrame, SignStep3, hit' = hit
  PROVE  Exchange' /\ Undisturbed'
<1>0. /\ Exchange /\ SignInv /\ kind' = "sign" /\ \A j \in Party : key'[j] # None
      /\ Honest = {1, 2} /\ Party = {1, 2}
  BY FrameFacts DEF SignFrame
<1>1. at[1] = "committed" /\ wire[2] # None /\ wire[3] = None /\ wire[4] = None
  BY <1>0 DEF SignStep3, In, SignInv, Exchange, SignFrame, Wire4
<1>2. Wire2 /\ Wire1
  BY <1>0, <1>1 DEF Exchange, Wire2, SignFrame
<1>3. CASE ~ R2Accepted /\ GiveUp(1)
  <2>1. Len(nonce[2]) = n_sigs(2) /\ AllOnCurve(nonce[2])
    BY <1>0, <1>2, DrawnPoints DEF Wire2, SignFrame
  <2>2. /\ wire[2].R2 = nonce[2] /\ wire[2].sid2 = Sid(2)
        /\ wire[2].pi = Proof(nonce[2], <<Sid(1), Sid(2)>>, 2)
    BY <1>2 DEF Wire2
  <2>3. n_sigs(1) # n_sigs(2)
    BY <1>3, <2>1, <2>2 DEF R2Accepted
  <2>4. ~ CalledAlike
    BY <2>3 DEF CalledAlike, n_sigs
  <2> QED
    BY <1>0, <1>3, <2>4, GiveUpRun
<1>4. CASE /\ R2Accepted
           /\ Put(3, [R1 |-> nonce[1], pi |-> Proof(nonce[1], <<Sid(1), wire[2].sid2>>, 1)])
           /\ Go(1, "opened")
           /\ UNCHANGED <<arg, nonce>>
  <2>1. /\ wire'[3] = [R1 |-> nonce[1], pi |-> Proof(nonce[1], <<Sid(1), wire[2].sid2>>, 1)]
        /\ wire'[1] = wire[1] /\ wire'[2] = wire[2] /\ wire'[4] = wire[4]
    BY <1>0, <1>4, PutFacts
  <2>2. at'[1] = "opened" /\ at'[2] = at[2]
    BY <1>0, <1>4, GoFacts
  <2>3. Wire1' /\ Wire2'
    BY <1>0, <1>2, <1>4, <2>1, FrameFacts DEF Wire1, Wire2, Com, Proof
  <2>4. n_sigs(1) = n_sigs(2)
    <3>1. Len(nonce[2]) = n_sigs(2)
      BY <1>0, <1>2, DrawnPoints DEF Wire2, SignFrame
    <3>2. wire[2].R2 = nonce[2]
      BY <1>2 DEF Wire2
    <3> QED
      BY <1>4, <3>1, <3>2 DEF R2Accepted
  <2>5. Wire3'
    <3>1. wire[2].sid2 = Sid(2)
      BY <1>2 DEF Wire2
    <3> QED
      BY <1>0, <1>1, <1>4, <2>1, <2>4, <3>1, FrameFacts DEF Wire3, Proof
  <2>6. Exchange'
    BY <1>0, <1>1, <2>1, <2>2, <2>3, <2>5 DEF Exchange, SignFrame
  <2> QED
    BY <1>0, <1>4, <2>6, GoUndisturbed
<1> QED
  BY <1>3, <1>4 DEF SignStep3

LEMMA Step4Run ==
  ASSUME SignFrame, SignStep4, hit' = hit
  PROVE  Exchange' /\ Undisturbed'
<1>0. /\ Exchange /\ SignInv /\ kind' = "sign" /\ \A j \in Party : key'[j] # None
      /\ Honest = {1, 2} /\ Party = {1, 2}
  BY FrameFacts DEF SignFrame
<1>1. at[2] = "answered" /\ wire[3] # None /\ wire[4] = None
  BY <1>0 DEF SignStep4, In, Exchange, SignFrame
<1>2. Wire3 /\ Wire2 /\ Wire1
  BY <1>0, <1>1 DEF Exchange, Wire3, Wire2, SignFrame
<1>3. CASE ~ (R1Accepted /\ VariantOk(2)) /\ GiveUp(2)
  <2>1. Len(nonce[1]) = n_sigs(1) /\ AllOnCurve(nonce[1]) /\ n_sigs(1) = n_sigs(2)
    BY <1>0, <1>2, DrawnPoints DEF Wire1, Wire3, SignFrame
  <2>2. /\ wire[3].R1 = nonce[1] /\ wire[3].pi = Proof(nonce[1], <<Sid(1), Sid(2)>>, 1)
        /\ wire[1].sid1 = Sid(1) /\ wire[1].com = Com(Sid(1), 1, nonce[1])
    BY <1>2 DEF Wire1, Wire3
  <2>3. R1Accepted
    BY <2>1, <2>2 DEF R1Accepted
  <2>4. ~ CalledAlike
    BY <1>3, <2>3 DEF CalledAlike, VariantOk
  <2> QED
    BY <1>0, <1>3, <2>4, GiveUpRun
<1>4. CASE /\ R1Accepted /\ VariantOk(2)
           /\ Put(4, ShareOfS(2))
           /\ Go(2, "done")
           /\ UNCHANGED <<arg, nonce>>
  <2>1. /\ wire'[4] = ShareOfS(2)
        /\ wire'[1] = wire[1] /\ wire'[2] = wire[2] /\ wire'[3] = wire[3]
    BY <1>0, <1>4, PutFacts
  <2>2. at'[2] = "done" /\ at'[1] = at[1]
    BY <1>0, <1>4, GoFacts
  <2>3. Wire1' /\ Wire2' /\ Wire3'
    BY <1>0, <1>2, <1>4, <2>1, FrameFacts DEF Wire1, Wire2, Wire3, Com, Proof
  <2>4. Wire4'
    <3>1. ShareOfS(2)' = ShareOfS(2)
      BY <1>0, <1>4, <2>1, SharesStay
    <3> QED
      BY <1>0, <1>1, <1>4, <2>1, <3>1, FrameFacts DEF Wire4
  <2>5. at[1] # "done"
    BY <1>0, <1>1 DEF Exchange, Valid, SignFrame
  <2>6. Exchange'
    BY <1>0, <2>2, <2>3, <2>4, <2>5 DEF Exchange
  <2> QED
    BY <1>0, <1>4, <2>6, GoUndisturbed
<1> QED
  BY <1>3, <1>4 DEF SignStep4

LEMMA Step5Run ==
  ASSUME SignFrame, SignStep5, hit' = hit
  PROVE  Exchange' /\ Undisturbed'
<1> DEFINE valid == /\ Len(wire[4]) = n_sigs(1)
                    /\ \A i \in 1 .. n_sigs(1) : Verifies(i, (ShareOfS(1)[i] + wire[4][i]) % q)
<1>0. /\ Exchange /\ SignInv /\ kind' = "sign" /\ \A j \in Party : key'[j] # None
      /\ Honest = {1, 2} /\ Party = {1, 2} /\ RunInv /\ faulty = {} /\ arg # None
  BY FrameFacts DEF SignFrame
<1>1. CASE ~ VariantOk(1) /\ GiveUp(1)
  <2>1. ~ CalledAlike
    BY <1>1 DEF CalledAlike
  <2> QED
    BY <1>0, <1>1, <2>1, GiveUpRun
<1>2. CASE VariantOk(1) /\ wire[4] # None /\ ~ valid /\ GiveUp(1)
  <2>1. Exchanged /\ wire[4] = ShareOfS(2)
    BY <1>0, <1>2, WireChain
  <2>2. Len(wire[4]) = n_sigs(1)
    <3>1. n_sigs(2) \in Nat /\ n_sigs(1) = n_sigs(2)
      BY <1>0, <2>1, ArgTypes DEF Exchanged
    <3>2. DOMAIN wire[4] = 1 .. n_sigs(2)
      BY <2>1 DEF ShareOfS
    <3> QED
      BY <2>1, <3>1, <3>2 DEF ShareOfS
  <2>3. ASSUME CalledAlike, Fit PROVE FALSE
    <3>1. arg[1].msgs = arg[2].msgs
      BY <2>3 DEF CalledAlike
    <3>2. \A i \in 1 .. n_sigs(1) : Verifies(i, (ShareOfS(1)[i] + wire[4][i]) % q)
      BY <2>1, <2>3, <3>1, FitVerifies
    <3> QED
      BY <1>2, <2>2, <3>2
  <2> QED
    BY <1>0, <1>2, <2>3, GiveUpRun
<1>3. CASE VariantOk(1) /\ wire[4] # None /\ valid /\ Go(1, "done") /\ UNCHANGED <<arg, nonce, wire>>
  <2>1. Valid
    BY <1>3 DEF Valid
  <2>2. Valid'
    BY <1>3, <2>1, ValidStays
  <2>3. Wire1' = Wire1 /\ Wire2' = Wire2 /\ Wire3' = Wire3
    BY <1>0, <1>3, FrameFacts DEF Wire1, Wire2, Wire3
  <2>4. Wire4' = Wire4
    BY <1>0, <1>3, FrameFacts, SharesStay DEF Wire4
  <2>5. at'[1] = "done" /\ at'[2] = at[2]
    BY <1>0, <1>3, GoFacts
  <2>6. Exchange'
    BY <1>0, <1>3, <2>2, <2>3, <2>4, <2>5 DEF Exchange
  <2> QED
    BY <1>0, <1>3, <2>6, GoUndisturbed
<1> QED
  BY <1>1, <1>2, <1>3 DEF SignStep5

LEMMA OthersRun ==
  ASSUME SignFrame, NEW p \in Honest, EmptyBatch(p) \/ SignPeerGone(p), hit' = hit
  PROVE  Exchange' /\ Undisturbed'
<1>0. Honest = {1, 2} /\ Party = {1, 2} /\ Undisturbed /\ arg \in Calls /\ faulty = {} /\ arg # None
  BY FrameFacts DEF SignFrame
<1>1. GiveUp(p)
  BY DEF EmptyBatch, SignPeerGone
<1>2. CASE EmptyBatch(p)
  <2>1. n_sigs(p) = 0 /\ arg[p].msgs \in Seq(Nat) /\ n_sigs(p) = Len(arg[p].msgs)
    BY <1>0, <1>2, ArgTypes DEF EmptyBatch
  <2>2. arg[p].msgs = <<>>
    BY <2>1
  <2>3. ~ CalledAlike
    BY <1>0, <2>2 DEF CalledAlike
  <2> QED
    BY <1>1, <2>3, GiveUpRun
<1>3. CASE SignPeerGone(p)
  <2>1. \E j \in Party : at[j] = "failed"
    BY <1>0, <1>3 DEF SignPeerGone
  <2>2. hit \/ ~ CalledAlike \/ ~ Fit
    BY <1>0, <2>1 DEF Undisturbed
  <2> QED
    BY <1>1, <2>2, GiveUpRun
<1> QED
  BY <1>2, <1>3

(* All steps of a signature.                                               *)
LEMMA SignRun ==
  ASSUME RunInv, SignInv', SignSteps \/ FaultyMessages, UNCHANGED <<vars, hit>>
  PROVE  Exchange' /\ Undisturbed'
<1>1. faulty' = faulty /\ key' = key /\ kind' = kind /\ hit' = hit
  BY DEF vars
<1>2. CASE faulty # {} \/ arg' = None
  BY <1>1, <1>2 DEF Exchange, Undisturbed
<1>3. CASE faulty = {} /\ arg' # None
  <2>1. SignSteps
    BY <1>3 DEF FaultyMessages
  <2>2. arg' = arg
    BY <2>1 DEF SignSteps, SignStep1, SignStep2, SignStep3, SignStep4, SignStep5, EmptyBatch,
                SignPeerGone, GiveUp
  <2>3. SignFrame
    BY <1>1, <1>3, <2>2 DEF SignFrame, RunInv, BothInv, SignInv
  <2> QED
    BY <1>1, <2>1, <2>3, Step1Run, Step2Run, Step3Run, Step4Run, Step5Run, OthersRun DEF SignSteps
<1> QED
  BY <1>2, <1>3

LEMMA ErrorRun ==
  ASSUME RunInv, NEW p \in Honest, SignError(p), UNCHANGED vars
  PROVE  Exchange' /\ Undisturbed'
<1>1. faulty' = faulty /\ key' = key /\ kind' = kind /\ hit' = TRUE /\ GiveUp(p) /\ arg' = arg
  BY DEF vars, SignError, GiveUp
<1>2. CASE faulty # {} \/ arg = None
  BY <1>1, <1>2 DEF Exchange, Undisturbed
<1>3. CASE faulty = {} /\ arg # None
  <2>1. SignFrame
    BY <1>1, <1>3 DEF SignFrame, RunInv, BothInv, SignInv
  <2> QED
    BY <1>1, <2>1, GiveUpRun
<1> QED
  BY <1>2, <1>3

-----------------------------------------------------------------------------
(* The steps of a key session between two honest parties.                  *)
KeyFrame == KeyInv /\ CleanKeys /\ OneDkg /\ Frame /\ faulty = {} /\ InSession

LEMMA KeyFrameFacts ==
  ASSUME KeyFrame
  PROVE  /\ Honest = {1, 2} /\ Party = {1, 2} /\ KeyInv /\ KeyTypes /\ First /\ Second
         /\ Counted(1) /\ Counted(2) /\ InSession /\ InSession' /\ Frame /\ faulty' = {} /\ errs \in Nat
         /\ Nonce(1)' = Nonce(1) /\ Nonce(2)' = Nonce(2)
BY DEF KeyFrame, KeyInv, Frame, InSession, Honest, Party, CleanKeys, Nonce

LEMMA RejectRun ==
  ASSUME KeyFrame, NEW p \in Honest, Running(p), Reject(p), errs' \in Nat \ {0}
  PROVE  CleanKeys' /\ OneDkg'
<1>1. Enter(p, "failed") /\ key' = key /\ msg' = msg
  BY DEF Reject
<1>2. pc'[p] = "failed" /\ \A j \in Honest \ {p} : pc'[j] = pc[j]
  BY <1>1, KeyFrameFacts, PcType
<1>3. p = 1 => msg[3] = None
  BY KeyFrameFacts DEF Running, First
<1>4. OneDkg'
  BY <1>1, <1>2, <1>3, KeyFrameFacts DEF KeyFrame, OneDkg, Frame
<1> QED
  BY <1>4 DEF CleanKeys

(* P1 commits.                                                             *)
LEMMA CommitRun ==
  ASSUME KeyFrame, DkgStep1 \/ AgreeCommit, errs' = errs
  PROVE  CleanKeys' /\ OneDkg'
<1>0. /\ Honest = {1, 2} /\ Party = {1, 2} /\ KeyInv /\ KeyTypes /\ First /\ Frame /\ InSession'
      /\ Nonce(1)' = Nonce(1) /\ Nonce(2)' = Nonce(2) /\ InSession
  BY KeyFrameFacts
<1>1. pc[1] = "start" /\ Enter(1, "sent") /\ key' = key /\ lineage' = lineage
  BY DEF DkgStep1, AgreeCommit, At
<1>2. PICK x : /\ draw' = [draw EXCEPT ![1] = x]
               /\ Send(1, IF kind = "dkg" THEN [sid1 |-> Nonce(1), com |-> Com(Nonce(1), 1, x)]
                          ELSE Com(None, 1, x))
  BY DEF DkgStep1, AgreeCommit, At
<1>3. pc'[1] = "sent" /\ pc'[2] = pc[2]
  BY <1>0, <1>1, PcType
<1>4. /\ msg'[1] = IF kind = "dkg" THEN [sid1 |-> Nonce(1), com |-> Com(Nonce(1), 1, x)] ELSE Com(None, 1, x)
      /\ msg'[2] = msg[2] /\ msg'[3] = msg[3]
  BY <1>0, <1>2, SendFacts
<1>5. draw'[1] = x /\ draw'[2] = draw[2]
  BY <1>0, <1>2 DEF KeyTypes
<1>6. Sent1' = msg'[1] /\ Sent2' = Sent2
  BY <1>0, <1>4, <1>5 DEF Sent1, Sent2, Frame, Com, Proof
<1>7. msg[3] = None
  BY <1>0, <1>1 DEF First
<1>8. OneDkg'
  BY <1>0, <1>1, <1>3, <1>4, <1>7 DEF KeyFrame, OneDkg, Frame
<1>9. CleanKeys'
  BY <1>0, <1>1, <1>3, <1>4, <1>6 DEF KeyFrame, CleanKeys, Frame
<1> QED
  BY <1>8, <1>9

(* P2 answers.                                                             *)
LEMMA AnswerRun ==
  ASSUME KeyFrame, DkgStep2 \/ AgreeAnswer, errs' = errs
  PROVE  CleanKeys' /\ OneDkg'
<1>0. /\ Honest = {1, 2} /\ Party = {1, 2} /\ KeyInv /\ KeyTypes /\ First /\ Frame /\ InSession'
      /\ Nonce(1)' = Nonce(1) /\ Nonce(2)' = Nonce(2) /\ InSession
  BY KeyFrameFacts
<1>1. pc[2] = "start" /\ Enter(2, "sent") /\ key' = key /\ lineage' = lineage /\ msg[1] # None
  BY DEF DkgStep2, AgreeAnswer, At
<1>2. PICK x : /\ draw' = [draw EXCEPT ![2] = x]
               /\ Send(2, IF kind = "dkg" THEN [sid2 |-> Nonce(2), Q2 |-> x,
                                                pi |-> Proof(x, <<msg[1].sid1, Nonce(2)>>, 2)]
                          ELSE x)
  BY DEF DkgStep2, AgreeAnswer, At
<1>3. pc'[2] = "sent" /\ pc'[1] = pc[1]
  BY <1>0, <1>1, PcType
<1>4. /\ msg'[2] = IF kind = "dkg" THEN [sid2 |-> Nonce(2), Q2 |-> x,
                                         pi |-> Proof(x, <<msg[1].sid1, Nonce(2)>>, 2)]
                   ELSE x
      /\ msg'[1] = msg[1] /\ msg'[3] = msg[3]
  BY <1>0, <1>2, SendFacts
<1>5. draw'[2] = x /\ draw'[1] = draw[1]
  BY <1>0, <1>2 DEF KeyTypes
<1>6. Sent2' = msg'[2] /\ Sent1' = Sent1 /\ Sent3' = Sent3
  <2>1. kind = "dkg" => msg[1].sid1 = Nonce(1)
    BY <1>0, <1>1 DEF KeyTypes
  <2> QED
    BY <1>0, <1>4, <1>5, <2>1 DEF Sent1, Sent2, Sent3, Frame, Com, Proof
<1>7. OneDkg'
  BY <1>0, <1>1, <1>3, <1>4 DEF KeyFrame, OneDkg, Frame
<1>8. CleanKeys'
  BY <1>0, <1>1, <1>3, <1>4, <1>6 DEF KeyFrame, CleanKeys, Frame
<1> QED
  BY <1>7, <1>8

LEMMA DrawOnCurve == \A x \in Draw : OnCurve(x)
<1>1. q \in Nat /\ Draw \subseteq 1 .. q - 1
  BY ConstantTypes
<1>2. \A x \in Draw : x \in 0 .. q - 1 /\ x # 0
  BY <1>1
<1> QED
  BY <1>2 DEF OnCurve, Zq

(* Without errors P1 accepts what P2 answered, and P2 what P1 opens.       *)
LEMMA CleanAnswer ==
  ASSUME KeyFrame, errs = 0, msg[2] # None
  PROVE  /\ kind = "dkg" => P1Accepts /\ msg[2].sid2 = Nonce(2)
         /\ kind = "refresh" => msg[2] \in Bits
<1>0. /\ Honest = {1, 2} /\ Party = {1, 2} /\ KeyInv /\ KeyTypes /\ Second /\ InSession
  BY KeyFrameFacts
<1>1. pc[2] \in {"sent", "done"}
  BY <1>0 DEF KeyFrame, CleanKeys, Second, KeyTypes
<1>2. msg[2] = Sent2 /\ Contribution(2)
  BY <1>0, <1>1 DEF KeyFrame, CleanKeys, Second
<1>3. ASSUME kind = "dkg" PROVE P1Accepts /\ msg[2].sid2 = Nonce(2)
  <2>1. /\ msg[2].Q2 = draw[2] /\ msg[2].sid2 = Nonce(2) /\ draw[2] \in Draw
        /\ msg[2].pi = Proof(draw[2], <<Nonce(1), Nonce(2)>>, 2)
    BY <1>2, <1>3 DEF Sent2, Contribution
  <2>2. OnCurve(draw[2])
    BY <2>1, DrawOnCurve
  <2> QED
    BY <2>1, <2>2 DEF P1Accepts
<1>4. ASSUME kind = "refresh" PROVE msg[2] \in Bits
  BY <1>2, <1>4 DEF Sent2, Contribution
<1> QED
  BY <1>3, <1>4

LEMMA CleanOpening ==
  ASSUME KeyFrame, errs = 0, msg[3] # None
  PROVE  /\ kind = "dkg" => P2Accepts
         /\ kind = "refresh" => Opens
<1>0. /\ Honest = {1, 2} /\ Party = {1, 2} /\ KeyInv /\ KeyTypes /\ First /\ InSession
  BY KeyFrameFacts
<1>1. pc[1] = "done"
  BY <1>0 DEF KeyFrame, CleanKeys, First, KeyTypes
<1>2. msg[1] = Sent1 /\ msg[3] = Sent3 /\ Contribution(1)
  BY <1>0, <1>1 DEF KeyFrame, CleanKeys, First
<1>3. ASSUME kind = "dkg" PROVE P2Accepts
  <2>1. /\ msg[3].Q1 = draw[1] /\ msg[1].sid1 = Nonce(1) /\ draw[1] \in Draw
        /\ msg[3].pi = Proof(draw[1], <<Nonce(1), Nonce(2)>>, 1)
        /\ msg[1].com = Com(Nonce(1), 1, draw[1])
    BY <1>2, <1>3 DEF Sent1, Sent3, Contribution
  <2>2. OnCurve(draw[1])
    BY <2>1, DrawOnCurve
  <2> QED
    BY <2>1, <2>2 DEF P2Accepts
<1>4. ASSUME kind = "refresh" PROVE Opens
  BY <1>2, <1>4 DEF Sent1, Sent3, Contribution, Opens
<1> QED
  BY <1>3, <1>4

(* What a completed session leaves in both invariants.                     *)
LEMMA ReturnRun ==
  ASSUME KeyFrame, NEW p \in Honest, NEW k \in Share, Return(p, k), draw' = draw, errs' = errs,
         \A l \in 1 .. 2 : msg'[l] = msg[l],
         p = 2 => msg'[3] = msg[3] /\ pc[2] = "sent" /\ (kind = "refresh" => key[2] # None /\ k.Q = key[2].Q)
                  /\ (kind = "dkg" => pc[1] = "done" /\ key[1] # None /\ key[1].Q = k.Q),
         p = 1 => /\ pc[1] = "sent" /\ (errs = 0 => msg'[3] = Sent3)
                  /\ kind = "refresh" => key[1] # None /\ k.Q = key[1].Q
  PROVE  CleanKeys' /\ OneDkg'
<1>0. /\ Honest = {1, 2} /\ Party = {1, 2} /\ KeyInv /\ KeyTypes /\ First /\ Second /\ Frame
      /\ InSession' /\ InSession /\ Counted(1) /\ Counted(2)
      /\ Nonce(1)' = Nonce(1) /\ Nonce(2)' = Nonce(2)
  BY KeyFrameFacts
<1>1. /\ key'[p] = k /\ session \in lineage'[p] /\ (kind = "dkg" => lineage'[p] = {session})
      /\ kind = "refresh" => lineage'[p] \ {session} = lineage[p] \ {session}
      /\ \A j \in Honest \ {p} : key'[j] = key[j] /\ lineage'[j] = lineage[j]
      /\ Enter(p, "done")
  BY <1>0, ReturnFacts
<1>2. pc'[p] = "done" /\ \A j \in Honest \ {p} : pc'[j] = pc[j]
  BY <1>0, <1>1, PcType
<1>3. Sent1' = Sent1 /\ Sent2' = Sent2 /\ Sent3' = Sent3
  BY <1>0 DEF Sent1, Sent2, Sent3, Frame, Com, Proof
<1>4. k # None
  BY ConstantTypes DEF Share, Zq
<1>5. kind = "dkg" \/ kind = "refresh"
  BY <1>0 DEF InSession
<1>6. OneDkg'
  <2>1. CASE p = 1
    <3>1. key'[1] = k /\ key'[2] = key[2] /\ pc'[1] = "done" /\ pc'[2] = pc[2]
      BY <1>0, <1>1, <1>2, <2>1
    <3>2. kind = "dkg" => key[2] = None
      <4>1. pc[2] # "done"
        BY <1>0, <2>1 DEF First, Second, InSession
      <4> QED
        BY <1>0, <4>1 DEF Counted, KeyFrame, OneDkg
    <3> QED
      BY <1>0, <1>4, <1>5, <2>1, <3>1, <3>2 DEF KeyFrame, OneDkg, Frame
  <2>2. CASE p = 2
    <3>1. key'[2] = k /\ key'[1] = key[1] /\ pc'[1] = pc[1]
      BY <1>0, <1>1, <1>2, <2>2
    <3> QED
      BY <1>0, <1>4, <1>5, <2>2, <3>1 DEF KeyFrame, OneDkg, Frame
  <2> QED
    BY <1>0, <2>1, <2>2
<1>7. CleanKeys'
  <2> SUFFICES ASSUME errs = 0
               PROVE  /\ \A j \in Party : pc'[j] # "failed"
                      /\ kind = "dkg" => \A j \in Party : lineage'[j] \subseteq {session}
                      /\ lineage'[1] \ {session} = lineage'[2] \ {session}
                      /\ pc'[1] \in {"sent", "done"} => msg'[1] = Sent1
                      /\ pc'[2] \in {"sent", "done"} => msg'[2] = Sent2
                      /\ pc'[1] = "done" => msg'[3] = Sent3
    BY <1>0, <1>3 DEF CleanKeys, KeyFrame, Frame, InSession
  <2>1. /\ \A j \in Party : pc[j] # "failed"
        /\ kind = "dkg" => \A j \in Party : lineage[j] \subseteq {session}
        /\ lineage[1] \ {session} = lineage[2] \ {session}
        /\ pc[1] \in {"sent", "done"} => msg[1] = Sent1
        /\ pc[2] \in {"sent", "done"} => msg[2] = Sent2
        /\ pc[1] = "done" => msg[3] = Sent3
    BY <1>0 DEF CleanKeys, KeyFrame
  <2>2. \A j \in Party : lineage'[j] \ {session} = lineage[j] \ {session}
    BY <1>0, <1>1, <1>5, <2>1
  <2>3. kind = "dkg" => \A j \in Party : lineage'[j] \subseteq {session}
    BY <1>0, <1>1, <2>1
  <2>4. msg'[1] = msg[1] /\ msg'[2] = msg[2]
    OBVIOUS
  <2>5. CASE p = 1
    BY <1>0, <1>2, <2>1, <2>2, <2>3, <2>4, <2>5
  <2>6. CASE p = 2
    BY <1>0, <1>2, <2>1, <2>2, <2>3, <2>4, <2>6
  <2> QED
    BY <1>0, <2>5, <2>6
<1> QED
  BY <1>6, <1>7

(* P1 opens and is done, or refuses.                                       *)
LEMMA OpenRun ==
  ASSUME KeyFrame, DkgStep3 \/ AgreeOpen, errs' = errs
  PROVE  CleanKeys' /\ OneDkg'
<1>0. /\ Honest = {1, 2} /\ Party = {1, 2} /\ KeyInv /\ KeyTypes /\ First /\ Second /\ Frame
      /\ InSession /\ InSession' /\ errs \in Nat /\ Counted(1)
  BY KeyFrameFacts
<1>1. pc[1] = "sent" /\ msg[2] # None /\ Running(1) /\ Contribution(1)
  BY <1>0 DEF DkgStep3, AgreeOpen, At, Running, First
<1>2. CASE DkgStep3
  <2>0. kind = "dkg" /\ draw[1] \in Draw
    BY <1>1, <1>2 DEF DkgStep3, At, Contribution
  <2>1. CASE ~ P1Accepts /\ Reject(1)
    BY <1>0, <1>1, <2>0, <2>1, CleanAnswer, RejectRun
  <2> DEFINE k == [x |-> draw[1], Q |-> (draw[1] + msg[2].Q2) % q]
             m == [Q1 |-> draw[1], pi |-> Proof(draw[1], <<Nonce(1), msg[2].sid2>>, 1)]
  <2>2. CASE P1Accepts /\ Send(3, m) /\ Return(1, k) /\ draw' = draw
    <3>1. k \in Share
      <4>1. draw[1] \in Zq /\ msg[2].Q2 \in Int /\ draw[1] \in Int
        BY <2>0, <2>2, Numbers DEF P1Accepts, OnCurve
      <4>2. draw[1] + msg[2].Q2 \in Int
        BY <4>1
      <4>3. (draw[1] + msg[2].Q2) % q \in Zq
        BY <4>2, ModZq
      <4> QED
        BY <4>1, <4>3 DEF Share
    <3>2. errs = 0 => m = Sent3
      BY <1>1, <2>0, CleanAnswer DEF Sent3
    <3> HIDE DEF k, m
    <3>3. msg'[3] = m /\ msg'[1] = msg[1] /\ msg'[2] = msg[2]
      BY <1>0, <2>2, SendFacts
    <3> QED
      BY <1>0, <1>1, <2>0, <2>2, <3>1, <3>2, <3>3, ReturnRun
  <2> QED
    BY <1>2, <2>1, <2>2 DEF DkgStep3
<1>3. CASE AgreeOpen
  <2>0. kind = "refresh" /\ draw[1] \in Bits /\ Send(3, draw[1])
    BY <1>1, <1>3 DEF AgreeOpen, At, Contribution
  <2>1. msg'[3] = draw[1] /\ msg'[1] = msg[1] /\ msg'[2] = msg[2]
    BY <1>0, <2>0, SendFacts
  <2>2. CASE msg[2] \notin Bits /\ Enter(1, "failed") /\ UNCHANGED <<key, lineage, draw>>
    <3>1. errs # 0
      BY <1>1, <2>0, <2>2, CleanAnswer
    <3>2. OneDkg'
      <4>1. pc'[2] = pc[2]
        BY <1>0, <2>2, PcType
      <4> QED
        BY <1>0, <2>0, <2>2, <4>1 DEF OneDkg, KeyFrame, Frame
    <3> QED
      BY <1>0, <3>1, <3>2 DEF CleanKeys
  <2> DEFINE bits == Xor(draw[1], msg[2])
             k == Shift(1, bits)
  <2>3. CASE msg[2] \in Bits /\ Return(1, k) /\ draw' = draw
    <3>1. bits \in Bits /\ key[1] \in Share /\ key[1] # None
      BY <1>0, <1>1, <2>0, <2>3, XorBits DEF KeyTypes, Counted
    <3>2. k = ShiftOf(1, key[1], bits)
      BY DEF Shift, ShiftOf
    <3>3. k \in Share /\ k.Q = key[1].Q
      BY <1>0, <3>1, <3>2, ShiftType
    <3>4. errs = 0 => msg'[3] = Sent3
      BY <2>0, <2>1 DEF Sent3
    <3> HIDE DEF k
    <3> QED
      BY <1>0, <1>1, <2>0, <2>1, <2>3, <3>1, <3>3, <3>4, ReturnRun
  <2> QED
    BY <1>3, <2>2, <2>3 DEF AgreeOpen
<1> QED
  BY <1>2, <1>3

(* P2 is done, or refuses.                                                 *)
LEMMA FinishRun ==
  ASSUME KeyFrame, DkgStep4 \/ AgreeFinish, errs' = errs
  PROVE  CleanKeys' /\ OneDkg'
<1>0. /\ Honest = {1, 2} /\ Party = {1, 2} /\ KeyInv /\ KeyTypes /\ First /\ Second /\ Frame
      /\ InSession /\ InSession' /\ errs \in Nat /\ Counted(2)
  BY KeyFrameFacts
<1>1. pc[2] = "sent" /\ msg[3] # None /\ Running(2) /\ Contribution(2)
  BY <1>0 DEF DkgStep4, AgreeFinish, At, Running, Second
<1>2. CASE DkgStep4
  <2>0. kind = "dkg" /\ draw[2] \in Draw
    BY <1>1, <1>2 DEF DkgStep4, At, Contribution
  <2>1. CASE ~ P2Accepts /\ Reject(2)
    BY <1>0, <1>1, <2>0, <2>1, CleanOpening, RejectRun
  <2> DEFINE k == [x |-> draw[2], Q |-> (msg[3].Q1 + draw[2]) % q]
  <2>2. CASE P2Accepts /\ Return(2, k) /\ draw' = draw /\ msg' = msg
    <3>1. k \in Share
      <4>1. draw[2] \in Zq /\ msg[3].Q1 \in Int /\ draw[2] \in Int
        BY <2>0, <2>2, Numbers DEF P2Accepts, OnCurve
      <4>2. msg[3].Q1 + draw[2] \in Int
        BY <4>1
      <4>3. (msg[3].Q1 + draw[2]) % q \in Zq
        BY <4>2, ModZq
      <4> QED
        BY <4>1, <4>3 DEF Share
    <3>2. pc[1] = "done"
      BY <1>1, <2>0 DEF KeyFrame, OneDkg
    <3>3. /\ key[1] = [x |-> draw[1], Q |-> (draw[1] + msg[2].Q2) % q]
          /\ msg[2].Q2 = draw[2] /\ msg[3].Q1 = draw[1]
      BY <1>0, <1>1, <2>0, <3>2 DEF First, Second
    <3>4. key[1].Q = k.Q
      BY <3>3
    <3>5. key[1] # None
      <4>1. k = [x |-> draw[2], Q |-> key[1].Q] /\ key[1] = [x |-> draw[1], Q |-> k.Q]
        BY <3>3
      <4>2. draw[1] \in Zq
        BY <1>0, <2>0, <3>2, Numbers DEF First, Contribution
      <4>3. key[1] \in Share
        BY <3>1, <4>1, <4>2 DEF Share
      <4> QED
        BY <4>3, ConstantTypes DEF Share, Zq
    <3> HIDE DEF k
    <3> QED
      BY <1>0, <1>1, <2>0, <2>2, <3>1, <3>2, <3>4, <3>5, ReturnRun
  <2> QED
    BY <1>2, <2>1, <2>2 DEF DkgStep4
<1>3. CASE AgreeFinish
  <2>0. kind = "refresh" /\ draw[2] \in Bits
    BY <1>1, <1>3 DEF AgreeFinish, At, Contribution
  <2>1. CASE ~ Opens /\ Reject(2)
    BY <1>0, <1>1, <2>0, <2>1, CleanOpening, RejectRun
  <2> DEFINE bits == Xor(msg[3], draw[2])
             k == Shift(2, bits)
  <2>2. CASE Opens /\ Return(2, k) /\ draw' = draw /\ msg' = msg
    <3>1. bits \in Bits /\ key[2] \in Share /\ key[2] # None
      BY <1>0, <1>1, <2>0, <2>2, XorBits DEF KeyTypes, Counted, Opens
    <3>2. k = ShiftOf(2, key[2], bits)
      BY DEF Shift, ShiftOf
    <3>3. k \in Share /\ k.Q = key[2].Q
      BY <1>0, <3>1, <3>2, ShiftType
    <3> HIDE DEF k
    <3> QED
      BY <1>0, <1>1, <2>0, <2>2, <3>1, <3>3, ReturnRun
  <2> QED
    BY <1>3, <2>1, <2>2 DEF AgreeFinish
<1> QED
  BY <1>2, <1>3

(* The next session.                                                       *)
LEMMA AllDone ==
  ASSUME KeyInv, CleanKeys, faulty = {}, errs = 0, \A p \in Honest : pc[p] \in {"done", "failed", "idle"}
  PROVE  lineage[1] = lineage[2] /\ (kind = "none" => lineage[1] = {})
<1>0. Honest = {1, 2} /\ Party = {1, 2} /\ KeyTypes /\ Counted(1) /\ Counted(2)
  BY DEF Honest, Party, KeyInv
<1>1. CASE InSession
  <2>1. pc[1] = "done" /\ pc[2] = "done"
    BY <1>0, <1>1 DEF CleanKeys, KeyTypes
  <2> QED
    BY <1>0, <1>1, <2>1 DEF CleanKeys, Counted, InSession
<1>2. CASE ~ InSession
  BY <1>0, <1>2 DEF CleanKeys, KeyTypes, InSession
<1> QED
  BY <1>1, <1>2

LEMMA NewSessionRun ==
  ASSUME KeyInv, CleanKeys, OneDkg, NewSession, faulty = {}
  PROVE  CleanKeys' /\ OneDkg'
<1>0. /\ kind' = IF \A p \in Honest : key[p] # None THEN "refresh" ELSE "dkg"
      /\ session' = session + 1 /\ entry' = key
      /\ pc' = [p \in Honest |-> "start"] /\ msg' = [k \in 1 .. 3 |-> None]
      /\ faulty' = faulty /\ key' = key /\ lineage' = lineage /\ errs' = errs
      /\ \A p \in Honest : pc[p] \in {"done", "failed"}
  BY DEF NewSession
<1>1. /\ Honest = {1, 2} /\ Party = {1, 2} /\ InSession' /\ KeyTypes /\ Entries /\ First /\ Second
      /\ Counted(1) /\ Counted(2)
  BY <1>0 DEF Honest, Party, InSession, KeyInv
<1>2. pc'[1] = "start" /\ pc'[2] = "start" /\ msg'[3] = None
  BY <1>0, <1>1
<1>3. OneDkg'
  BY <1>0, <1>1, <1>2 DEF OneDkg
<1>4. CleanKeys'
  <2> SUFFICES ASSUME errs = 0
               PROVE  /\ kind' = "dkg" => \A p \in Party : lineage[p] \subseteq {session'}
                      /\ lineage[1] = lineage[2]
    BY <1>0, <1>1, <1>2 DEF CleanKeys, InSession
  <2>1. lineage[1] = lineage[2] /\ (kind = "none" => lineage[1] = {})
    BY <1>0, AllDone
  <2>2. ASSUME kind' = "dkg" PROVE kind = "none"
    <3>1. \E p \in Party : key[p] = None
      BY <1>0, <1>1, <2>2
    <3>2. CASE InSession
      <4>1. pc[1] = "done" /\ pc[2] = "done"
        BY <1>0, <1>1, <3>2 DEF CleanKeys
      <4>2. key[1] # None /\ key[2] # None
        BY <3>2, <4>1 DEF OneDkg
      <4> QED
        BY <1>1, <3>1, <4>2
    <3>3. kind # "sign"
      BY <1>0, <1>1 DEF CleanKeys
    <3> QED
      BY <1>1, <3>2, <3>3 DEF KeyTypes, InSession
  <2> QED
    BY <1>1, <2>1, <2>2
<1> QED
  BY <1>3, <1>4

LEMMA KeyRun ==
  ASSUME KeyInv, CleanKeys, OneDkg, Next
  PROVE  CleanKeys' /\ OneDkg'
<1>0. errs \in Nat
  BY DEF CleanKeys
<1>1. CASE faulty # {}
  <2>1. faulty' = faulty /\ errs' \in Nat
    BY <1>0, FaultyFixed DEF Next, NewSession, TransportError
  <2> QED
    BY <1>1, <2>1 DEF CleanKeys, OneDkg
<1>2. CASE faulty = {}
  <2>1. CASE NewSession
    BY <1>2, <2>1, NewSessionRun
  <2>2. CASE Steps /\ UNCHANGED <<faulty, entry, kind, session, errs>>
    <3>1. Frame /\ errs' = errs
      BY <2>2 DEF Frame
    <3>2. ASSUME NEW p \in Honest, PeerGone(p) PROVE CleanKeys' /\ OneDkg'
      <4>1. Running(p) /\ Reject(p) /\ InSession
        BY <3>2, RunningInSession DEF PeerGone
      <4>2. KeyFrame
        BY <1>2, <3>1, <4>1 DEF KeyFrame
      <4>3. errs # 0
        BY <1>2, <3>2, <4>1 DEF PeerGone, CleanKeys, Honest
      <4> QED
        BY <1>0, <3>1, <4>1, <4>2, <4>3, RejectRun
    <3>3. CASE ~ \E p \in Honest : PeerGone(p)
      <4>1. KeyFrame
        BY <1>2, <2>2, <3>1, <3>3 DEF KeyFrame, InSession, Steps, DkgStep1, DkgStep2, DkgStep3, DkgStep4,
                                      AgreeCommit, AgreeAnswer, AgreeOpen, AgreeFinish, At
      <4> QED
        BY <2>2, <3>1, <3>3, <4>1, CommitRun, AnswerRun, OpenRun, FinishRun DEF Steps
    <3> QED
      BY <3>2, <3>3
  <2>3. CASE FaultySteps
    BY <1>2, <2>3 DEF FaultySteps, FaultyFirst, FaultySecond, FaultyThird
  <2>4. ASSUME NEW p \in Honest, TransportError(p), UNCHANGED <<faulty, entry, kind, session>>
        PROVE  CleanKeys' /\ OneDkg'
    <3>1. Running(p) /\ Reject(p) /\ InSession /\ errs' = errs + 1
      BY <2>4, RunningInSession DEF TransportError
    <3>2. KeyFrame /\ errs' \in Nat \ {0}
      BY <1>0, <1>2, <2>4, <3>1 DEF KeyFrame, Frame
    <3> QED
      BY <3>1, <3>2, RejectRun
  <2> QED
    BY <2>1, <2>2, <2>3, <2>4 DEF Next
<1> QED
  BY <1>1, <1>2

LEMMA StartRun ==
  ASSUME RunInv, StartSigning
  PROVE  CleanKeys' /\ OneDkg' /\ Exchange' /\ Undisturbed'
<1>1. /\ arg = None /\ arg' \in Calls /\ at' = [p \in Honest |-> "start"] /\ wire' = wire
      /\ kind' = "sign" /\ pc' = [p \in Honest |-> "idle"] /\ key' = key /\ errs' = errs
      /\ faulty' = faulty /\ lineage' = lineage
      /\ \A p \in Honest : key[p] # None /\ ~ Running(p)
  BY DEF StartSigning
<1>2. errs \in Nat
  BY DEF RunInv, CleanKeys
<1>3. CASE faulty # {}
  BY <1>1, <1>2, <1>3 DEF CleanKeys, OneDkg, Exchange, Undisturbed
<1>4. CASE faulty = {}
  <2>0. /\ Honest = {1, 2} /\ Party = {1, 2} /\ KeyInv /\ KeyTypes /\ SignInv /\ ~ InSession' /\ CleanKeys
        /\ OneDkg
    BY <1>1, <1>4 DEF Honest, Party, RunInv, BothInv, KeyInv, InSession
  <2>1. \A p \in Honest : pc[p] \in {"done", "failed", "idle"}
    BY <1>1, <2>0 DEF KeyTypes, Running
  <2>2. errs = 0 => lineage[1] = lineage[2]
    BY <1>4, <2>0, <2>1, AllDone
  <2>3. CleanKeys'
    BY <1>1, <1>2, <2>0, <2>2 DEF CleanKeys
  <2>4. OneDkg'
    BY <1>1, <1>4, <2>0 DEF OneDkg
  <2>5. /\ wire'[1] = None /\ wire'[2] = None /\ wire'[3] = None /\ wire'[4] = None
        /\ at'[1] = "start" /\ at'[2] = "start"
    BY <1>1, <2>0 DEF SignInv
  <2>6. Exchange' /\ Undisturbed'
    BY <1>1, <2>0, <2>5 DEF Exchange, Undisturbed
  <2> QED
    BY <2>3, <2>4, <2>6
<1> QED
  BY <1>3, <1>4

LEMMA KeysStay == ASSUME CleanKeys, OneDkg, UNCHANGED vars PROVE CleanKeys' /\ OneDkg'
<1>1. /\ faulty' = faulty /\ key' = key /\ entry' = entry /\ lineage' = lineage /\ kind' = kind
      /\ session' = session /\ pc' = pc /\ draw' = draw /\ msg' = msg /\ errs' = errs
  BY DEF vars
<1>2. Sent1' = Sent1 /\ Sent2' = Sent2 /\ Sent3' = Sent3 /\ InSession' = InSession
  BY <1>1 DEF Sent1, Sent2, Sent3, Nonce, InSession
<1> QED
  BY <1>1, <1>2 DEF CleanKeys, OneDkg

LEMMA RunStutter == ASSUME RunInv, UNCHANGED all PROVE Exchange' /\ Undisturbed'
<1>1. /\ faulty' = faulty /\ key' = key /\ kind' = kind /\ hit' = hit
      /\ arg' = arg /\ at' = at /\ nonce' = nonce /\ wire' = wire
  BY DEF all, vars, signing
<1>2. CASE faulty # {} \/ arg = None
  BY <1>1, <1>2 DEF Exchange, Undisturbed
<1>3. CASE faulty = {} /\ arg # None
  <2>1. SignFrame
    BY <1>1, <1>3 DEF SignFrame, RunInv, BothInv, SignInv
  <2>2. Wire1' = Wire1 /\ Wire2' = Wire2 /\ Wire3' = Wire3 /\ Party = {1, 2}
    BY <1>1, <2>1, FrameFacts DEF Wire1, Wire2, Wire3
  <2>3. Wire4' = Wire4 /\ Valid' = Valid
    BY <1>1, <2>1, <2>2, FrameFacts, SharesStay, ValidStays DEF Wire4
  <2>4. Exchange'
    BY <1>1, <2>2, <2>3 DEF Exchange, RunInv
  <2>5. Undisturbed'
    BY <1>1, <2>1, FrameFacts DEF Undisturbed
  <2> QED
    BY <2>4, <2>5
<1> QED
  BY <1>2, <1>3

LEMMA RunInit == InitAll => RunInv
<1> SUFFICES ASSUME InitAll PROVE RunInv
  OBVIOUS
<1>1. BothInv /\ arg = None /\ kind = "none" /\ errs = 0 /\ Init
  BY BothInit DEF InitAll, Init
<1>2. CleanKeys /\ OneDkg
  BY <1>1 DEF Init, CleanKeys, OneDkg, InSession, Honest, Party
<1>3. Exchange /\ Undisturbed
  BY <1>1 DEF Exchange, Undisturbed
<1> QED
  BY <1>1, <1>2, <1>3 DEF RunInv

LEMMA RunStep == RunInv /\ [NextAll]_all => RunInv'
<1> SUFFICES ASSUME RunInv, [NextAll]_all PROVE RunInv'
  OBVIOUS
<1>0. BothInv /\ KeyInv /\ SignInv /\ CleanKeys /\ OneDkg /\ BothInv' /\ SignInv'
  BY BothStep DEF RunInv, BothInv
<1>1. CASE arg = None /\ Next /\ UNCHANGED signing
  <2>1. CleanKeys' /\ OneDkg' /\ arg' = None
    BY <1>0, <1>1, KeyRun DEF signing
  <2>2. Exchange' /\ Undisturbed'
    BY <2>1 DEF Exchange, Undisturbed
  <2> QED
    BY <1>0, <2>1, <2>2 DEF RunInv
<1>2. CASE StartSigning
  BY <1>0, <1>2, StartRun DEF RunInv
<1>3. CASE (SignSteps \/ FaultyMessages) /\ UNCHANGED <<vars, hit>>
  <2>1. UNCHANGED vars
    BY <1>3
  <2> QED
    BY <1>0, <1>3, <2>1, KeysStay, SignRun DEF RunInv
<1>4. CASE (\E p \in Honest : SignError(p)) /\ UNCHANGED vars
  BY <1>0, <1>4, KeysStay, ErrorRun DEF RunInv
<1>5. CASE UNCHANGED all
  <2>1. UNCHANGED vars
    BY <1>5 DEF all
  <2> QED
    BY <1>0, <1>5, <2>1, KeysStay, RunStutter DEF RunInv
<1> QED
  BY <1>1, <1>2, <1>3, <1>4, <1>5 DEF NextAll

(* The same of two honest parties: what they exchanged, and that without   *)
(* errors every key session went through at both.                          *)
THEOREM RunInvHolds == FairSpecAll => []RunInv
BY RunInit, RunStep, PTL DEF FairSpecAll

(* sign_batch: two honest parties whose calls are alike get their          *)
(* signatures from shares that fit, and P1 gets signatures only from such  *)
(* shares and a P2 that signed the same messages.                          *)
THEOREM SignsWhenSharesFitHolds == FairSpecAll => []SignsWhenSharesFit
BY SignsFit, RunInvHolds, PTL
=============================================================================
