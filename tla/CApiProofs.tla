----------------------------- MODULE CApiProofs -----------------------------
(***************************************************************************)
(* Proofs for CApi: who owns which buffer, and which bytes become which    *)
(* message, for every INT_MAX, every job and every number of receives.     *)
(***************************************************************************)
EXTENDS CApi, ArithTheorems

Running == {"called", "protocol", "single", "batch", "sum", "copy", "alloc"}
Reading == {"single", "batch", "sum", "copy"}

(* What the callback handed over, as the adapter goes through it.          *)
Handed ==
  /\ Lent \cap allocated = {out.data, out.sizes} \ {None}
  /\ pc = "called" => allocated = {}
  /\ pc = "single" => out \in SingleReplies /\ senders = 1
  /\ pc \in {"batch", "sum", "copy"} =>
       senders \in Nat /\ out \in BatchReplies(senders) /\ SizesFit(senders, out)
  /\ pc \in {"sum", "copy"} =>
       out.rv = 0 /\ out.count = senders /\ (senders > 0 => out.sizes # None)
  /\ pc \in Reading => \A b \in Lent : freed[b] = <<>>

(* The outputs allocated so far are those the pointers name, and those     *)
(* still to be allocated are not among them.                               *)
OutputsSoFar ==
  /\ pc \in Running =>
       /\ \A b \in OutBlock : freed[b] = <<>>
       /\ ptr = [b \in OutBlock |-> IF b \in allocated THEN b ELSE None]
       /\ ~ unwound
  /\ pc \in Running \ {"alloc"} => next = 1 /\ OutBlock \cap allocated = {}
  /\ pc = "alloc" =>
       /\ next \in Nat \ {0}
       /\ \A k \in next .. Len(Outputs(job.fn)) : Range(Outputs(job.fn)[k]) \cap allocated = {}

Places ==
  /\ job \in Jobs /\ pc \in Running \union {"returned"}
  /\ DOMAIN freed = Block

BufInv == Places /\ Handed /\ OutputsSoFar /\ BuffersFreedOnce

-----------------------------------------------------------------------------
(* Frees.                                                                  *)
LEMMA Counted ==
  ASSUME NEW ptrs, NEW b, \A j, k \in DOMAIN ptrs : ptrs[j] = b /\ ptrs[k] = b => j = k
  PROVE  Cardinality({j \in DOMAIN ptrs : ptrs[j] = b}) = IF b \in Range(ptrs) THEN 1 ELSE 0
<1> DEFINE S == {j \in DOMAIN ptrs : ptrs[j] = b}
<1>1. CASE b \in Range(ptrs)
  <2>1. PICK j \in DOMAIN ptrs : ptrs[j] = b
    BY <1>1 DEF Range
  <2>2. S = {j}
    BY <2>1
  <2>3. Cardinality(S) = 1
    BY <2>2, FS_Singleton
  <2> QED
    BY <1>1, <2>3
<1>2. CASE b \notin Range(ptrs)
  <2>1. S = {}
    BY <1>2 DEF Range
  <2>2. Cardinality(S) = 0
    BY <2>1, FS_EmptySet
  <2> QED
    BY <1>2, <2>2
<1> QED
  BY <1>1, <1>2

LEMMA FreeOnce ==
  ASSUME NEW ptrs, NEW by, NEW b \in Block, freed[b] = <<>>,
         \A j, k \in DOMAIN ptrs : ptrs[j] = b /\ ptrs[k] = b => j = k
  PROVE  Freed(ptrs, by)[b] = IF b \in Range(ptrs) THEN <<by>> ELSE <<>>
<1> DEFINE n == Cardinality({j \in DOMAIN ptrs : ptrs[j] = b})
<1>1. Freed(ptrs, by)[b] = <<>> \o [k \in 1 .. n |-> by]
  BY DEF Freed
<1>2. n = IF b \in Range(ptrs) THEN 1 ELSE 0
  BY Counted
<1> HIDE DEF n
<1>3. CASE b \in Range(ptrs)
  <2>1. n = 1
    BY <1>2, <1>3
  <2>2. Freed(ptrs, by)[b] = <<by>>
    BY <1>1, <2>1
  <2> QED
    BY <1>3, <2>2
<1>4. CASE b \notin Range(ptrs)
  <2>1. n = 0
    BY <1>2, <1>4
  <2>2. Freed(ptrs, by)[b] = <<>>
    BY <1>1, <2>1
  <2> QED
    BY <1>4, <2>2
<1> QED
  BY <1>3, <1>4

LEMMA NotFreed ==
  ASSUME NEW ptrs, NEW by, NEW b \in Block, NEW x, freed[b] \in {<<>>, <<x>>}, b \notin Range(ptrs)
  PROVE  Freed(ptrs, by)[b] = freed[b]
<1> DEFINE n == Cardinality({j \in DOMAIN ptrs : ptrs[j] = b})
<1>1. Freed(ptrs, by)[b] = freed[b] \o [k \in 1 .. n |-> by]
  BY DEF Freed
<1>2. n = 0
  <2>1. \A j, k \in DOMAIN ptrs : ptrs[j] = b /\ ptrs[k] = b => j = k
    BY DEF Range
  <2> QED
    BY <2>1, Counted
<1> HIDE DEF n
<1>3. [k \in 1 .. n |-> by] = <<>>
  BY <1>2
<1>4. <<>> \o <<>> = <<>> /\ <<x>> \o <<>> = <<x>>
  OBVIOUS
<1> QED
  BY <1>1, <1>3, <1>4

(* The lists that the adapter frees from.                                  *)
LEMMA RangeOfTwo ==
  ASSUME NEW x, NEW y
  PROVE  /\ Range(<<x>>) = {x} /\ Range(<<x, y>>) = {x, y}
         /\ DOMAIN <<x>> = {1} /\ DOMAIN <<x, y>> = {1, 2}
BY DEF Range

(* The strings in play.                                                    *)
LEMMA Blocks ==
  /\ Block = Lent \union OutBlock /\ Lent \cap OutBlock = {}
  /\ Lent = {"data", "sizes"} /\ None \notin Block
BY JobTypes DEF Block, Lent, OutBlock

(* A list of pointers that names all that was handed over, each once.      *)
Owned(ptrs) ==
  /\ Range(ptrs) \ {None} = Lent \cap allocated
  /\ \A j, k \in DOMAIN ptrs : ptrs[j] = ptrs[k] /\ ptrs[j] # None => j = k

(* What freeing everything that was handed over leaves.                    *)
LEMMA FreeLent ==
  ASSUME BufInv, pc \in Reading, NEW ptrs, Owned(ptrs)
  PROVE  /\ DOMAIN Freed(ptrs, Freer) = Block
         /\ \A b \in Lent :
              Freed(ptrs, Freer)[b] = IF b \in allocated THEN <<Freer>> ELSE <<>>
         /\ \A b \in OutBlock : Freed(ptrs, Freer)[b] = <<>> /\ b \notin allocated
<1>1. \A b \in Block : b # None
  BY Blocks
<1>2. DOMAIN Freed(ptrs, Freer) = Block
  BY DEF Freed
<1>3. ASSUME NEW b \in Lent
      PROVE  Freed(ptrs, Freer)[b] = IF b \in allocated THEN <<Freer>> ELSE <<>>
  <2>1. b \in Block /\ freed[b] = <<>>
    BY Blocks DEF BufInv, Handed
  <2>2. \A j, k \in DOMAIN ptrs : ptrs[j] = b /\ ptrs[k] = b => j = k
    BY <1>1, <2>1 DEF Owned
  <2>3. b \in Range(ptrs) <=> b \in allocated
    BY <1>1, <2>1 DEF Owned
  <2> QED
    BY <2>1, <2>2, <2>3, FreeOnce
<1>4. ASSUME NEW b \in OutBlock PROVE Freed(ptrs, Freer)[b] = <<>> /\ b \notin allocated
  <2>1. b \in Block /\ freed[b] = <<>> /\ b \notin allocated
    BY Blocks DEF BufInv, OutputsSoFar, Running, Reading
  <2>2. b \notin Range(ptrs)
    BY <1>1, <2>1 DEF Owned
  <2> QED
    BY <2>1, <2>2, NotFreed
<1> QED
  BY <1>2, <1>3, <1>4

(* The adapter is left, having freed what was handed over: for the         *)
(* protocol, or with an error out of the call.                             *)
LEMMA LeaveKeeps ==
  ASSUME BufInv, pc \in Reading, NEW ptrs, freed' = Freed(ptrs, Freer),
         Owned(ptrs),
         UNCHANGED <<job, out, allocated, next, unwound>>,
         \/ pc' = "protocol" /\ UNCHANGED ptr
         \/ pc' = "returned" /\ ptr' = [b \in OutBlock |-> None] /\ rv' # "SUCCESS"
  PROVE  BufInv'
<1>1. Freer' = Freer
  BY DEF Freer
<1>2. /\ DOMAIN freed' = Block
      /\ \A b \in Lent : freed'[b] = IF b \in allocated THEN <<Freer>> ELSE <<>>
      /\ \A b \in OutBlock : freed'[b] = <<>> /\ b \notin allocated
  BY FreeLent
<1>3. Places'
  BY <1>2 DEF BufInv, Places, Running
<1>4. Handed'
  BY DEF BufInv, Handed, Reading
<1>5. OutputsSoFar'
  BY <1>2 DEF BufInv, Running, Reading, OutputsSoFar
<1>6. BuffersFreedOnce'
  <2>1. /\ \A b \in Lent : freed'[b] \in {<<>>, <<Freer'>>} /\ (freed'[b] # <<>> => b \in allocated')
        /\ \A b \in Lent \cap allocated' : freed'[b] # <<>>
    BY <1>1, <1>2
  <2>2. OutBlock \cap allocated' = {} /\ \A b \in OutBlock : freed'[b] = <<>> /\ b \notin Lent
    BY <1>2, Blocks
  <2>3. \A b \in Block : b \in Lent \/ b \in OutBlock
    BY Blocks
  <2> QED
    BY <2>1, <2>2, <2>3 DEF BuffersFreedOnce
<1> QED
  BY <1>3, <1>4, <1>5, <1>6 DEF BufInv

LEMMA RefuseKeeps ==
  ASSUME BufInv, pc \in Reading, NEW ptrs, NEW err, err # "SUCCESS", Refuse(ptrs, err), Owned(ptrs)
  PROVE  BufInv'
BY LeaveKeeps DEF Refuse, transport_free, Fail, rest, loop

(* The callbacks' replies.                                                 *)
LEMMA ErrorFacts ==
  ASSUME NEW x \in ErrorReplies
  PROVE  /\ x.rv = 1 /\ x.data \in {None, "data"} /\ x.sizes \in {None, "data", "sizes"}
         /\ x.sizes = "data" => x.data = "data"
         /\ x.vals = <<>>
<1>1. \/ \E d \in {None, "data"}, s \in {None, "sizes"} :
           x = [NothingReceived EXCEPT !.rv = 1, !.data = d, !.sizes = s]
      \/ x = [NothingReceived EXCEPT !.rv = 1, !.data = "data", !.sizes = "data"]
  BY DEF ErrorReplies
<1>2. None # "data"
  BY Blocks
<1> QED
  BY <1>1, <1>2 DEF NothingReceived

LEMMA ReplyFacts ==
  ASSUME NEW c, NEW vals, NEW d, NEW s
  PROVE  LET x == Reply(c, vals, d, s)
         IN  /\ x.rv = 0 /\ x.count = c /\ x.data = d /\ x.sizes = s /\ x.vals = vals
             /\ x.len = IF d = None THEN 0 ELSE IF Announced(vals) THEN Total(vals) ELSE IntMax
BY DEF Reply

LEMMA BatchFacts ==
  ASSUME NEW n \in Nat, NEW x \in BatchReplies(n)
  PROVE  \/ x \in ErrorReplies
         \/ /\ x.rv = 0 /\ x.data \in {None, "data"} /\ x.sizes \in {None, "sizes"}
            /\ x.count \in Int /\ x.vals \in Seq(Sizes) /\ (x.sizes = None => x.vals = <<>>)
            /\ x.len = IF x.data = None THEN 0
                       ELSE IF Announced(x.vals) THEN Total(x.vals) ELSE IntMax
<1>1. CASE \E vals \in [1 .. n -> Sizes], d \in {None, "data"} : x = Reply(n, vals, d, "sizes")
  <2>1. PICK vals \in [1 .. n -> Sizes], d \in {None, "data"} : x = Reply(n, vals, d, "sizes")
    BY <1>1
  <2>2. vals \in Seq(Sizes) /\ n \in Int /\ "sizes" # None
    BY Blocks
  <2> QED
    BY <2>1, <2>2, ReplyFacts
<1>2. CASE \E c \in -1 .. n + 1, d \in {None, "data"}, s \in {None, "sizes"} : x = Reply(c, <<>>, d, s)
  <2>1. PICK c \in -1 .. n + 1, d \in {None, "data"}, s \in {None, "sizes"} : x = Reply(c, <<>>, d, s)
    BY <1>2
  <2>2. c \in Int /\ <<>> \in Seq(Sizes)
    OBVIOUS
  <2>3. /\ x.rv = 0 /\ x.count = c /\ x.data = d /\ x.sizes = s /\ x.vals = <<>>
        /\ x.len = IF d = None THEN 0 ELSE IF Announced(<<>>) THEN Total(<<>>) ELSE IntMax
    BY <2>1, ReplyFacts
  <2>4. x.len = IF x.data = None THEN 0 ELSE IF Announced(x.vals) THEN Total(x.vals) ELSE IntMax
    BY <2>3
  <2>5. x.data \in {None, "data"} /\ x.sizes \in {None, "sizes"} /\ x.count \in Int
    BY <2>1, <2>2, <2>3
  <2>6. x.vals \in Seq(Sizes)
    BY <2>2, <2>3
  <2> QED
    BY <2>3, <2>4, <2>5, <2>6
<1> QED
  BY <1>1, <1>2 DEF BatchReplies

LEMMA SingleFacts ==
  ASSUME NEW x \in SingleReplies
  PROVE  /\ x.sizes = None
         /\ \/ x \in ErrorReplies
            \/ /\ x.rv = 0 /\ x.data \in {None, "data"} /\ x.count = 1
               /\ x.vals[1] \in Sizes /\ x.vals = << x.vals[1] >>
               /\ x.len = IF x.data = None THEN 0
                          ELSE IF Announced(x.vals) THEN Total(x.vals) ELSE IntMax
<1>1. CASE x \in ErrorReplies /\ x.sizes = None
  BY <1>1
<1>2. CASE \E sz \in Sizes, d \in {None, "data"} : x = Reply(1, <<sz>>, d, None)
  <2>1. PICK sz \in Sizes, d \in {None, "data"} : x = Reply(1, <<sz>>, d, None)
    BY <1>2
  <2>2. <<sz>>[1] = sz
    OBVIOUS
  <2> QED
    BY <2>1, <2>2, ReplyFacts
<1> QED
  BY <1>1, <1>2 DEF SingleReplies

-----------------------------------------------------------------------------
(* Steps.                                                                  *)
LEMMA BufInit == Init => BufInv
<1> SUFFICES ASSUME Init PROVE BufInv
  OBVIOUS
<1>1. /\ job \in Jobs /\ pc = "called" /\ allocated = {} /\ freed = [b \in Block |-> <<>>]
      /\ ptr = [b \in OutBlock |-> None] /\ next = 1 /\ unwound = FALSE
      /\ out.data = None /\ out.sizes = None
  BY DEF Init, NothingReceived
<1>2. \A b \in Block : freed[b] = <<>>
  BY <1>1
<1> QED
  BY <1>1, <1>2, Blocks
  DEF BufInv, Places, Handed, OutputsSoFar, BuffersFreedOnce, Running, Reading

(* The outputs of the functions: lists of blocks, none named twice.        *)
LEMMA OutputLists ==
  ASSUME job \in Jobs
  PROVE  \/ Outputs(job.fn) = << <<"public_key">>, <<"share_sizes", "public_shares">>,
                                <<"private_share">>, <<"sid">> >>
         \/ Outputs(job.fn) = << <<"key_blob">>, <<"sid">> >>
         \/ Outputs(job.fn) = << <<"key_blob">> >>
         \/ Outputs(job.fn) = << <<"sig">>, <<"sid">> >>
         \/ Outputs(job.fn) = << <<"sig">> >>
BY JobTypes DEF Outputs

Row(t, S) ==
  /\ t \in Seq(OutBlock) /\ Range(t) = S
  /\ \A a, b \in DOMAIN t : t[a] = t[b] => a = b

Disjoint(O) ==
  /\ Len(O) \in Nat
  /\ \A k \in 1 .. Len(O) : \E S : Row(O[k], S)
  /\ \A k, l \in 1 .. Len(O) : k # l => Range(O[k]) \cap Range(O[l]) = {}

LEMMA Rows ==
  ASSUME NEW x \in OutBlock
  PROVE  Row(<<x>>, {x}) /\ \A y \in OutBlock : x # y => Row(<<x, y>>, {x, y})
<1>1. Row(<<x>>, {x})
  <2>1. <<x>> \in Seq(OutBlock) /\ \A a, b \in DOMAIN <<x>> : <<x>>[a] = <<x>>[b] => a = b
    OBVIOUS
  <2>2. Range(<<x>>) = {x}
    BY RangeOfTwo
  <2> QED
    BY <2>1, <2>2, Zenon DEF Row
<1>2. ASSUME NEW y \in OutBlock, x # y PROVE Row(<<x, y>>, {x, y})
  <2>1. <<x, y>> \in Seq(OutBlock)
    OBVIOUS
  <2>2. \A a, b \in DOMAIN <<x, y>> : <<x, y>>[a] = <<x, y>>[b] => a = b
    BY <1>2
  <2>3. Range(<<x, y>>) = {x, y}
    BY RangeOfTwo
  <2> QED
    BY <2>1, <2>2, <2>3, Zenon DEF Row
<1> QED
  BY <1>1, <1>2

LEMMA DisjointRows ==
  ASSUME NEW O, Len(O) \in Nat, NEW S, \A k \in 1 .. Len(O) : Row(O[k], S[k]),
         \A k, l \in 1 .. Len(O) : k # l => S[k] \cap S[l] = {}
  PROVE  Disjoint(O)
<1>1. \A k \in 1 .. Len(O) : Range(O[k]) = S[k]
  BY DEF Row
<1> QED
  BY <1>1 DEF Disjoint

LEMMA OutputFacts ==
  ASSUME job \in Jobs
  PROVE  Disjoint(Outputs(job.fn))
<1>1. ASSUME NEW x \in OutBlock PROVE Disjoint(<< <<x>> >>)
  <2> DEFINE O == << <<x>> >>
             S == << {x} >>
  <2>1. Len(O) = 1 /\ O[1] = <<x>> /\ S[1] = {x}
    OBVIOUS
  <2>2. Row(<<x>>, {x})
    BY Rows
  <2> HIDE DEF O, S
  <2>3. Row(O[1], S[1])
    BY <2>1, <2>2, Zenon
  <2>4. Len(O) \in Nat /\ \A k \in 1 .. Len(O) : k = 1
    BY <2>1
  <2>5. Disjoint(O)
    BY <2>1, <2>3, <2>4, DisjointRows
  <2> QED
    BY <2>5 DEF O
<1>2. ASSUME NEW x \in OutBlock, NEW y \in OutBlock, x # y PROVE Disjoint(<< <<x>>, <<y>> >>)
  <2> DEFINE O == << <<x>>, <<y>> >>
             S == << {x}, {y} >>
  <2>1. /\ Len(O) = 2 /\ O[1] = <<x>> /\ O[2] = <<y>>
        /\ S[1] = {x} /\ S[2] = {y}
    OBVIOUS
  <2>2. Row(<<x>>, {x}) /\ Row(<<y>>, {y})
    BY Rows
  <2> HIDE DEF O, S
  <2>3. Row(O[1], S[1]) /\ Row(O[2], S[2])
    BY <2>1, <2>2, Zenon
  <2>4. \A k \in 1 .. Len(O) : k = 1 \/ k = 2
    BY <2>1
  <2>5. \A k \in 1 .. Len(O) : Row(O[k], S[k])
    BY <2>3, <2>4
  <2>6. \A k, l \in 1 .. Len(O) : k # l => S[k] \cap S[l] = {}
    BY <1>2, <2>1, <2>4
  <2>7. Len(O) \in Nat
    BY <2>1
  <2>8. Disjoint(O)
    BY <2>5, <2>6, <2>7, DisjointRows
  <2> QED
    BY <2>8 DEF O
<1>3. Disjoint(<< <<"public_key">>, <<"share_sizes", "public_shares">>, <<"private_share">>, <<"sid">> >>)
  <2> DEFINE O == << <<"public_key">>, <<"share_sizes", "public_shares">>, <<"private_share">>, <<"sid">> >>
             S == << {"public_key"}, {"share_sizes", "public_shares"}, {"private_share"}, {"sid"} >>
  <2>1. /\ Len(O) = 4 /\ O[1] = <<"public_key">> /\ O[2] = <<"share_sizes", "public_shares">>
        /\ O[3] = <<"private_share">> /\ O[4] = <<"sid">>
    OBVIOUS
  <2>2. /\ S[1] = {"public_key"} /\ S[2] = {"share_sizes", "public_shares"}
        /\ S[3] = {"private_share"} /\ S[4] = {"sid"}
    OBVIOUS
  <2>3. /\ Row(<<"public_key">>, {"public_key"}) /\ Row(<<"private_share">>, {"private_share"})
        /\ Row(<<"share_sizes", "public_shares">>, {"share_sizes", "public_shares"})
        /\ Row(<<"sid">>, {"sid"})
    BY Rows DEF OutBlock
  <2> HIDE DEF O, S
  <2>4. Row(O[1], S[1]) /\ Row(O[2], S[2]) /\ Row(O[3], S[3]) /\ Row(O[4], S[4])
    BY <2>1, <2>2, <2>3, Zenon
  <2>5. \A k \in 1 .. Len(O) : k = 1 \/ k = 2 \/ k = 3 \/ k = 4
    BY <2>1
  <2>6. \A k \in 1 .. Len(O) : Row(O[k], S[k])
    BY <2>4, <2>5
  <2>7. \A k, l \in 1 .. Len(O) : k # l => S[k] \cap S[l] = {}
    BY <2>2, <2>5
  <2>8. Len(O) \in Nat
    BY <2>1
  <2>9. Disjoint(O)
    BY <2>6, <2>7, <2>8, DisjointRows
  <2> QED
    BY <2>9 DEF O
<1>4. /\ "key_blob" \in OutBlock /\ "sid" \in OutBlock /\ "sig" \in OutBlock
      /\ "key_blob" # "sid" /\ "sig" # "sid"
  BY DEF OutBlock
<1> QED
  BY <1>1, <1>2, <1>3, <1>4, OutputLists, Zenon

(* A call that returns an error while it holds nothing, or goes on to the  *)
(* protocol or the outputs.                                                *)
LEMMA PassKeeps ==
  ASSUME BufInv, pc \in {"called", "protocol"},
         UNCHANGED <<job, out, allocated, freed, next, unwound>>,
         \/ pc' \in {"protocol", "alloc"} /\ UNCHANGED ptr
         \/ pc' = "returned" /\ ptr' = [b \in OutBlock |-> None] /\ rv' # "SUCCESS"
  PROVE  BufInv'
<1>1. Freer' = Freer /\ Outputs(job.fn)' = Outputs(job.fn)
  BY DEF Freer, Outputs
<1>2. Places' /\ Handed'
  BY DEF BufInv, Places, Handed, Running, Reading
<1>3. \A b \in OutBlock : freed[b] = <<>> /\ b \notin allocated
  BY DEF BufInv, OutputsSoFar, Running
<1>4. \A b \in Lent \cap allocated : freed[b] # <<>>
  BY DEF BufInv, OutputsSoFar, Running, Handed, BuffersFreedOnce
<1>5. OutputsSoFar'
  <2>1. ASSUME NEW k \in 1 .. Len(Outputs(job.fn)) PROVE Range(Outputs(job.fn)[k]) \cap allocated = {}
    <3>1. Outputs(job.fn)[k] \in Seq(OutBlock)
      BY OutputFacts DEF BufInv, Places, Disjoint, Row
    <3>2. Range(Outputs(job.fn)[k]) \subseteq OutBlock
      BY <3>1 DEF Range
    <3> QED
      BY <1>3, <3>2
  <2>2. next = 1 /\ ~ unwound /\ ptr = [b \in OutBlock |-> IF b \in allocated THEN b ELSE None]
    BY DEF BufInv, OutputsSoFar, Running
  <2> QED
    BY <1>1, <1>3, <2>1, <2>2 DEF OutputsSoFar, Running
<1>6. BuffersFreedOnce'
  <2>1. \A b \in Block :
          freed[b] \in {<<>>, <<IF b \in Lent THEN Freer ELSE "cbmpc_free">>}
          /\ (freed[b] # <<>> => b \in allocated)
    BY DEF BufInv, BuffersFreedOnce
  <2> QED
    BY <1>1, <1>3, <1>4, <2>1 DEF BuffersFreedOnce
<1> QED
  BY <1>2, <1>5, <1>6 DEF BufInv

LEMMA HandOverKeeps ==
  ASSUME BufInv, pc = "protocol", NEW x, HandOver(x),
         x.data \in {None, "data"}, x.sizes \in {None, "data", "sizes"},
         \/ pc' = "single" /\ x \in SingleReplies /\ senders' = 1
         \/ /\ pc' = "batch" /\ senders' \in Nat
            /\ x \in BatchReplies(senders') /\ SizesFit(senders', x)
  PROVE  BufInv'
<1>1. /\ out' = x /\ allocated' = (allocated \ Lent) \union ({x.data, x.sizes} \ {None})
      /\ freed' = [b \in Block |-> IF b \in Lent THEN <<>> ELSE freed[b]]
      /\ UNCHANGED <<job, ptr, next, unwound, rv>>
  BY DEF HandOver
<1>2. Freer' = Freer
  BY <1>1 DEF Freer
<1>3. \A b \in OutBlock : freed[b] = <<>> /\ b \notin allocated
  BY DEF BufInv, OutputsSoFar, Running
<1>4. {x.data, x.sizes} \ {None} \subseteq Lent
  BY Blocks
<1>5. \A b \in Block : freed'[b] = <<>>
  BY <1>1, <1>3, Blocks
<1>6. \A b \in OutBlock : b \notin allocated'
  BY <1>1, <1>3, <1>4, Blocks
<1>7. Lent \cap allocated' = {x.data, x.sizes} \ {None}
  BY <1>1, <1>4
<1>8. Places'
  BY <1>1 DEF BufInv, Places, Running
<1>9. Handed'
  <2>1. \A b \in Lent : freed'[b] = <<>>
    BY <1>5, Blocks
  <2> QED
    BY <1>1, <1>7, <2>1 DEF Handed, SizesFit
<1>10. OutputsSoFar'
  <2>1. next = 1 /\ ~ unwound /\ ptr = [b \in OutBlock |-> IF b \in allocated THEN b ELSE None]
    BY DEF BufInv, OutputsSoFar, Running
  <2>2. ptr' = [b \in OutBlock |-> IF b \in allocated' THEN b ELSE None]
    BY <1>1, <1>3, <1>6, <2>1
  <2>3. \A b \in OutBlock : freed'[b] = <<>>
    BY <1>5, Blocks
  <2> QED
    BY <1>1, <1>6, <2>1, <2>2, <2>3 DEF OutputsSoFar, Running
<1>11. BuffersFreedOnce'
  BY <1>5 DEF BuffersFreedOnce
<1> QED
  BY <1>8, <1>9, <1>10, <1>11 DEF BufInv

LEMMA ReceiveCallsKeep == BufInv /\ (CallReceiveAll \/ CallReceive) => BufInv'
<1>1. ASSUME BufInv, CallReceive PROVE BufInv'
  <2>1. PICK x \in SingleReplies : HandOver(x) /\ senders' = 1 /\ pc' = "single"
    BY <1>1 DEF CallReceive
  <2>2. x.data \in {None, "data"} /\ x.sizes = None
    BY SingleFacts, ErrorFacts
  <2>3. pc = "protocol"
    BY <1>1 DEF CallReceive
  <2> QED
    BY <1>1, <2>1, <2>2, <2>3, HandOverKeeps
<1>2. ASSUME BufInv, CallReceiveAll PROVE BufInv'
  <2>1. PICK n \in 0 .. Len(job.names) - 1 :
          \E x \in {y \in BatchReplies(n) : SizesFit(n, y)} :
            HandOver(x) /\ senders' = n /\ pc' = "batch"
    BY <1>2 DEF CallReceiveAll
  <2>2. PICK x \in BatchReplies(n) :
          SizesFit(n, x) /\ HandOver(x) /\ senders' = n /\ pc' = "batch"
    BY <2>1
  <2>3. n \in Nat
    <3>1. job.names \in Seq(Range(job.names))
      BY <1>2, JobTypes DEF BufInv, Places
    <3>2. Len(job.names) \in Nat
      BY <3>1
    <3> QED
      BY <3>2
  <2>4. x.data \in {None, "data"} /\ x.sizes \in {None, "data", "sizes"}
    BY <2>3, BatchFacts, ErrorFacts
  <2>5. pc = "protocol"
    BY <1>2 DEF CallReceiveAll
  <2> QED
    BY <1>2, <2>2, <2>3, <2>4, <2>5, HandOverKeeps
<1> QED
  BY <1>1, <1>2

LEMMA PassesKeep == BufInv /\ (Validate \/ ProtocolFails \/ ProtocolReturns) => BufInv'
<1>1. ASSUME BufInv, Validate PROVE BufInv'
  <2>1. pc = "called" /\ UNCHANGED <<job, allocated, freed, out, next, unwound>>
    BY <1>1 DEF Validate, locals
  <2>2. \/ \E v : v # "SUCCESS" /\ Fail(v)
        \/ pc' = "protocol" /\ UNCHANGED ptr
    BY <1>1 DEF Validate
  <2> QED
    BY <1>1, <2>1, <2>2, PassKeeps DEF Fail
<1>2. ASSUME BufInv, ProtocolFails PROVE BufInv'
  <2>1. pc = "protocol" /\ UNCHANGED <<job, allocated, freed, out, next, unwound>>
    BY <1>2 DEF ProtocolFails, locals
  <2>2. \E v : v # "SUCCESS" /\ Fail(v)
    BY <1>2 DEF ProtocolFails
  <2> QED
    BY <1>2, <2>1, <2>2, PassKeeps DEF Fail
<1>3. ASSUME BufInv, ProtocolReturns PROVE BufInv'
  <2>1. /\ pc = "protocol" /\ pc' = "alloc"
        /\ UNCHANGED <<job, allocated, freed, out, next, unwound, ptr>>
    BY <1>3 DEF ProtocolReturns, locals
  <2> QED
    BY <1>3, <2>1, PassKeeps
<1> QED
  BY <1>1, <1>2, <1>3

(* The lists that the adapter frees from.                                  *)
LEMMA OwnedLists ==
  ASSUME BufInv
  PROVE  /\ (out.data # out.sizes \/ out.data = None) => Owned(<<out.data, out.sizes>>)
         /\ out.sizes \in {None, out.data} => Owned(<<out.data>>)
         /\ out.data = None => Owned(<<out.sizes>>)
<1> DEFINE d == out.data
           s == out.sizes
<1>1. Lent \cap allocated = {d, s} \ {None}
  BY DEF BufInv, Handed
<1> HIDE DEF d, s
<1>2. /\ Range(<<d>>) = {d} /\ Range(<<s>>) = {s} /\ Range(<<d, s>>) = {d, s}
      /\ DOMAIN <<d>> = {1} /\ DOMAIN <<s>> = {1} /\ DOMAIN <<d, s>> = {1, 2}
  BY RangeOfTwo
<1>3. <<d, s>>[1] = d /\ <<d, s>>[2] = s
  OBVIOUS
<1>4. ASSUME d # s \/ d = None PROVE Owned(<<d, s>>)
  <2>1. \A j, k \in {1, 2} : <<d, s>>[j] = <<d, s>>[k] /\ <<d, s>>[j] # None => j = k
    BY <1>3, <1>4
  <2>2. \A j, k \in DOMAIN <<d, s>> : <<d, s>>[j] = <<d, s>>[k] /\ <<d, s>>[j] # None => j = k
    BY <2>1
  <2>3. Range(<<d, s>>) \ {None} = Lent \cap allocated
    BY <1>1, <1>2, Zenon
  <2> QED
    BY <2>2, <2>3, Zenon DEF Owned
<1>5. ASSUME s \in {None, d} PROVE Owned(<<d>>)
  <2>1. \A j, k \in DOMAIN <<d>> : j = k
    OBVIOUS
  <2>2. {d} \ {None} = {d, s} \ {None}
    BY <1>5
  <2>3. Range(<<d>>) \ {None} = Lent \cap allocated
    BY <1>1, <1>2, <2>2, Zenon
  <2> QED
    BY <2>1, <2>3, Zenon DEF Owned
<1>6. ASSUME d = None PROVE Owned(<<s>>)
  <2>1. \A j, k \in DOMAIN <<s>> : j = k
    OBVIOUS
  <2>2. {s} \ {None} = {d, s} \ {None}
    BY <1>6
  <2>3. Range(<<s>>) \ {None} = Lent \cap allocated
    BY <1>1, <1>2, <2>2, Zenon
  <2> QED
    BY <2>1, <2>3, Zenon DEF Owned
<1> QED
  BY <1>4, <1>5, <1>6 DEF d, s

(* What a reply without error looks like while it is read.                 *)
LEMMA ReplyRead ==
  ASSUME BufInv, pc \in Reading
  PROVE  /\ pc = "single" => out.sizes = None
         /\ out.rv = 0 => out.data \in {None, "data"} /\ out.sizes \in {None, "sizes"}
         /\ out.rv = 0 => (out.data # out.sizes \/ out.data = None)
<1>1. CASE pc = "single"
  <2>1. out \in SingleReplies
    BY <1>1 DEF BufInv, Handed
  <2>2. out.sizes = None /\ out.data \in {None, "data"}
    BY <2>1, SingleFacts, ErrorFacts
  <2> QED
    BY <2>2
<1>2. CASE pc # "single"
  <2>1. senders \in Nat /\ out \in BatchReplies(senders)
    BY <1>2 DEF BufInv, Handed, Reading
  <2>2. out.data \in {None, "data"} /\ (out.rv = 0 => out.sizes \in {None, "sizes"})
    BY <2>1, BatchFacts, ErrorFacts
  <2> QED
    BY <1>2, <2>2, Blocks
<1> QED
  BY <1>1, <1>2

(* A step of the adapter that frees nothing.                               *)
LEMMA StayKeeps ==
  ASSUME BufInv, pc \in Reading,
         UNCHANGED <<job, senders, out, allocated, freed, ptr, next, unwound>>,
         \/ UNCHANGED pc
         \/ /\ pc \in {"batch", "sum"} /\ pc' \in {"sum", "copy"}
            /\ out.rv = 0 /\ out.count = senders /\ (senders > 0 => out.sizes # None)
  PROVE  BufInv'
<1>1. Freer' = Freer
  BY DEF Freer
<1>2. Places'
  BY DEF BufInv, Places, Running, Reading
<1>3. Handed'
  <2>1. \A b \in Lent : freed[b] = <<>>
    BY DEF BufInv, Handed
  <2> QED
    BY <2>1 DEF BufInv, Handed, Reading, SizesFit
<1>4. OutputsSoFar'
  BY DEF BufInv, OutputsSoFar, Running, Reading
<1>5. BuffersFreedOnce'
  <2>1. \A b \in Lent : freed[b] = <<>>
    BY DEF BufInv, Handed
  <2>2. \A b \in Block :
          freed[b] \in {<<>>, <<IF b \in Lent THEN Freer ELSE "cbmpc_free">>}
          /\ (freed[b] # <<>> => b \in allocated)
    BY DEF BufInv, BuffersFreedOnce
  <2> QED
    BY <1>1, <2>1, <2>2 DEF BuffersFreedOnce, Reading
<1> QED
  BY <1>2, <1>3, <1>4, <1>5 DEF BufInv

LEMMA receiveKeeps == BufInv /\ receive => BufInv'
<1> SUFFICES ASSUME BufInv, receive PROVE BufInv'
  OBVIOUS
<1>1. pc = "single" /\ pc \in Reading
  BY DEF receive, Reading
<1>2. Owned(<<out.data>>)
  BY <1>1, ReplyRead, OwnedLists
<1>3. \/ Refuse(<<out.data>>, "E_NET") \/ Refuse(<<out.data>>, "E_FORMAT")
      \/ /\ transport_free(<<out.data>>) /\ pc' = "protocol"
         /\ UNCHANGED <<job, out, allocated, next, unwound, ptr>>
  BY DEF receive, rest
<1>4. CASE Refuse(<<out.data>>, "E_NET")
  BY <1>1, <1>2, <1>4, RefuseKeeps
<1>5. CASE Refuse(<<out.data>>, "E_FORMAT")
  BY <1>1, <1>2, <1>5, RefuseKeeps
<1>6. CASE /\ transport_free(<<out.data>>) /\ pc' = "protocol"
           /\ UNCHANGED <<job, out, allocated, next, unwound, ptr>>
  BY <1>1, <1>2, <1>6, LeaveKeeps DEF transport_free
<1> QED
  BY <1>3, <1>4, <1>5, <1>6

LEMMA BatchReplyKeeps == BufInv /\ BatchReply => BufInv'
<1> SUFFICES ASSUME BufInv, BatchReply PROVE BufInv'
  OBVIOUS
<1>1. pc = "batch" /\ pc \in Reading
  BY DEF BatchReply, Reading
<1>2. CASE out.rv # 0 /\ Refuse(CleanupAfterError, "E_NET")
  <2>1. Owned(CleanupAfterError)
    BY OwnedLists DEF CleanupAfterError
  <2> HIDE DEF CleanupAfterError
  <2> QED
    BY <1>1, <1>2, <2>1, RefuseKeeps
<1>3. CASE out.rv = 0 /\ Refuse(<<out.data, out.sizes>>, "E_FORMAT")
  <2>1. Owned(<<out.data, out.sizes>>)
    BY <1>1, <1>3, ReplyRead, OwnedLists
  <2> QED
    BY <1>1, <1>3, <2>1, RefuseKeeps
<1>4. CASE out.sizes = None /\ Refuse(<<out.data>>, "E_FORMAT")
  <2>1. Owned(<<out.data>>)
    BY <1>4, OwnedLists
  <2> QED
    BY <1>1, <1>4, <2>1, RefuseKeeps
<1>5. CASE /\ out.rv = 0 /\ out.count = senders /\ (out.count > 0 => out.sizes # None)
           /\ pc' = "sum" /\ UNCHANGED <<rest, loop, freed, ptr, unwound, rv>>
  BY <1>1, <1>5, StayKeeps DEF rest
<1> QED
  BY <1>2, <1>3, <1>4, <1>5 DEF BatchReply

LEMMA SumKeeps == BufInv /\ Sum => BufInv'
<1> SUFFICES ASSUME BufInv, Sum PROVE BufInv'
  OBVIOUS
<1>1. pc = "sum" /\ pc \in Reading /\ out.rv = 0
  BY DEF Sum, Reading, BufInv, Handed
<1>2. Owned(<<out.data, out.sizes>>)
  BY <1>1, ReplyRead, OwnedLists
<1>3. \/ Refuse(<<out.data, out.sizes>>, "E_FORMAT") \/ Refuse(<<out.data, out.sizes>>, "E_RANGE")
      \/ UNCHANGED <<job, senders, out, allocated, next, pc, freed, ptr, unwound>>
  BY DEF Sum, rest
<1>4. CASE Refuse(<<out.data, out.sizes>>, "E_FORMAT")
  BY <1>1, <1>2, <1>4, RefuseKeeps
<1>5. CASE Refuse(<<out.data, out.sizes>>, "E_RANGE")
  BY <1>1, <1>2, <1>5, RefuseKeeps
<1>6. CASE UNCHANGED <<job, senders, out, allocated, next, pc, freed, ptr, unwound>>
  BY <1>1, <1>6, StayKeeps
<1> QED
  BY <1>3, <1>4, <1>5, <1>6

LEMMA SumDoneKeeps == BufInv /\ SumDone => BufInv'
<1> SUFFICES ASSUME BufInv, SumDone PROVE BufInv'
  OBVIOUS
<1>1. pc = "sum" /\ pc \in Reading
  BY DEF SumDone, Reading
<1>2. out.rv = 0 /\ out.count = senders /\ (senders > 0 => out.sizes # None)
  BY <1>1 DEF BufInv, Handed
<1>3. CASE out.data = None /\ Refuse(<<out.sizes>>, "E_FORMAT")
  <2>1. Owned(<<out.sizes>>)
    BY <1>3, OwnedLists
  <2> QED
    BY <1>1, <1>3, <2>1, RefuseKeeps
<1>4. CASE pc' = "copy" /\ UNCHANGED <<job, senders, out, allocated, next, freed, ptr, unwound>>
  BY <1>1, <1>2, <1>4, StayKeeps
<1> QED
  BY <1>3, <1>4 DEF SumDone, rest

LEMMA CopyKeeps == BufInv /\ Copy => BufInv'
<1> SUFFICES ASSUME BufInv, Copy PROVE BufInv'
  OBVIOUS
<1>1. /\ pc \in Reading
      /\ UNCHANGED <<job, senders, out, allocated, next, pc, freed, ptr, unwound>>
  BY DEF Copy, Reading, rest
<1> QED
  BY <1>1, StayKeeps

LEMMA CopyDoneKeeps == BufInv /\ CopyDone => BufInv'
<1> SUFFICES ASSUME BufInv, CopyDone PROVE BufInv'
  OBVIOUS
<1>1. pc = "copy" /\ pc \in Reading /\ out.rv = 0
  BY DEF CopyDone, Reading, BufInv, Handed
<1>2. Owned(<<out.data, out.sizes>>)
  BY <1>1, ReplyRead, OwnedLists
<1>3. /\ transport_free(<<out.data, out.sizes>>) /\ pc' = "protocol"
      /\ UNCHANGED <<job, out, allocated, next, unwound, ptr>>
  BY DEF CopyDone, rest
<1> QED
  BY <1>1, <1>2, <1>3, LeaveKeeps DEF transport_free

(* The exception leaves what was handed over behind, unfreed.              *)
LEMMA CopyThrowsKeeps == BufInv /\ CopyThrows => BufInv'
<1> SUFFICES ASSUME BufInv, CopyThrows PROVE BufInv'
  OBVIOUS
<1>1. /\ pc \in Reading /\ pc' = "returned" /\ rv' = "E_INSUFFICIENT" /\ unwound'
      /\ ptr' = [b \in OutBlock |-> None]
      /\ UNCHANGED <<job, senders, out, allocated, next, freed>>
  BY DEF CopyThrows, Fail, rest, Reading
<1>2. Freer' = Freer
  BY <1>1 DEF Freer
<1>3. \A b \in OutBlock : b \notin allocated
  BY <1>1 DEF BufInv, OutputsSoFar, Running, Reading
<1>4. Places' /\ Handed' /\ OutputsSoFar'
  BY <1>1 DEF BufInv, Places, Handed, OutputsSoFar, Running, Reading
<1>5. BuffersFreedOnce'
  <2>1. \A b \in Block :
          freed[b] \in {<<>>, <<IF b \in Lent THEN Freer ELSE "cbmpc_free">>}
          /\ (freed[b] # <<>> => b \in allocated)
    BY DEF BufInv, BuffersFreedOnce
  <2> QED
    BY <1>1, <1>2, <1>3, <2>1 DEF BuffersFreedOnce
<1> QED
  BY <1>4, <1>5 DEF BufInv

-----------------------------------------------------------------------------
(* Lists of output pointers.                                               *)
LEMMA SetToSeqFacts ==
  ASSUME NEW S, IsFiniteSet(S)
  PROVE  SetToSeq(S) \in Seq(S) /\ IsInjective(SetToSeq(S)) /\ Range(SetToSeq(S)) = S
<1> DEFINE n == Cardinality(S)
           t == SetToSeq(S)
<1>1. n \in Nat /\ \E f \in [1 .. n -> S] : IsInjective(f)
  BY FS_CardinalityType DEF ExistsBijection, Bijection, Injection
<1>2. t \in [1 .. n -> S] /\ IsInjective(t)
  BY <1>1 DEF SetToSeq
<1>3. IsFiniteSet(1 .. n) /\ Cardinality(1 .. n) = n
  BY <1>1, FS_Interval
<1> HIDE DEF t
<1>4. t \in Injection(1 .. n, S)
  BY <1>2 DEF Injection
<1>5. t \in Surjection(1 .. n, S)
  BY <1>3, <1>4, FS_Injection
<1>6. Range(t) = S
  BY <1>5 DEF Surjection, Range
<1>7. t \in Seq(S)
  <2> HIDE DEF n
  <2> QED
    BY <1>1, <1>2
<1> QED
  BY <1>2, <1>6, <1>7 DEF t

LEMMA ConcatFacts ==
  ASSUME NEW S, NEW s \in Seq(S), NEW t \in Seq(S), IsInjective(s), IsInjective(t),
         Range(s) \cap Range(t) = {}
  PROVE  IsInjective(s \o t) /\ Range(s \o t) = Range(s) \union Range(t)
<1> DEFINE m == Len(s)
           n == Len(t)
           u == s \o t
<1>1. m \in Nat /\ n \in Nat /\ DOMAIN s = 1 .. m /\ DOMAIN t = 1 .. n
  OBVIOUS
<1>2. DOMAIN u = 1 .. m + n
  BY <1>1
<1>3. /\ \A j \in 1 .. m : u[j] = s[j]
      /\ \A j \in m + 1 .. m + n : u[j] = t[j - m] /\ j - m \in 1 .. n
  BY <1>1
<1>4. \A j \in 1 .. n : u[m + j] = t[j]
  BY <1>1
<1> HIDE DEF m, n, u
<1>5. \A j \in 1 .. m + n : j \in 1 .. m \/ j \in m + 1 .. m + n
  BY <1>1
<1>6. \A j \in 1 .. m : s[j] \in Range(s)
  BY <1>1 DEF Range
<1>7. \A j \in 1 .. n : t[j] \in Range(t)
  BY <1>1 DEF Range
<1>8. IsInjective(u)
  <2> SUFFICES ASSUME NEW j \in 1 .. m + n, NEW k \in 1 .. m + n, u[j] = u[k] PROVE j = k
    BY <1>2 DEF IsInjective
  <2>1. CASE j \in 1 .. m /\ k \in 1 .. m
    BY <1>1, <1>3, <2>1 DEF IsInjective
  <2>2. CASE j \in m + 1 .. m + n /\ k \in m + 1 .. m + n
    <3>1. t[j - m] = t[k - m] /\ j - m \in 1 .. n /\ k - m \in 1 .. n
      BY <1>3, <2>2
    <3>2. j - m = k - m
      BY <1>1, <3>1 DEF IsInjective
    <3> QED
      BY <1>1, <3>2
  <2>3. CASE j \in 1 .. m /\ k \in m + 1 .. m + n
    BY <1>3, <1>6, <1>7, <2>3
  <2>4. CASE k \in 1 .. m /\ j \in m + 1 .. m + n
    BY <1>3, <1>6, <1>7, <2>4
  <2> QED
    BY <1>5, <2>1, <2>2, <2>3, <2>4
<1>9. Range(u) \subseteq Range(s) \union Range(t)
  <2> SUFFICES ASSUME NEW j \in 1 .. m + n PROVE u[j] \in Range(s) \union Range(t)
    BY <1>2 DEF Range
  <2> QED
    BY <1>3, <1>5, <1>6, <1>7
<1>10. Range(s) \subseteq Range(u)
  <2> SUFFICES ASSUME NEW j \in 1 .. m PROVE \E k \in 1 .. m + n : u[k] = s[j]
    BY <1>1, <1>2 DEF Range
  <2>1. j \in 1 .. m + n /\ u[j] = s[j]
    BY <1>1, <1>3
  <2> QED
    BY <2>1
<1>11. Range(t) \subseteq Range(u)
  <2> SUFFICES ASSUME NEW j \in 1 .. n PROVE \E k \in 1 .. m + n : u[k] = t[j]
    BY <1>1, <1>2 DEF Range
  <2>1. m + j \in 1 .. m + n /\ u[m + j] = t[j]
    BY <1>1, <1>4
  <2> QED
    BY <2>1
<1> QED
  BY <1>8, <1>9, <1>10, <1>11 DEF u

LEMMA PointersFacts ==
  ASSUME BufInv, pc = "alloc"
  PROVE  /\ Pointers \in Seq(OutBlock) /\ IsInjective(Pointers)
         /\ Range(Pointers) = OutBlock \cap allocated
<1> DEFINE P == {ptr[b] : b \in OutBlock} \ {None}
<1>1. ptr = [b \in OutBlock |-> IF b \in allocated THEN b ELSE None]
  BY DEF BufInv, OutputsSoFar, Running
<1>2. None \notin OutBlock
  BY Blocks
<1>3. P = OutBlock \cap allocated
  BY <1>1, <1>2
<1>4. IsFiniteSet(OutBlock)
  <2>1. OutBlock = (((((({} \union {"public_key"}) \union {"share_sizes"}) \union {"public_shares"})
                      \union {"private_share"}) \union {"sid"}) \union {"key_blob"}) \union {"sig"}
    BY DEF OutBlock
  <2> QED
    BY <2>1, FS_EmptySet, FS_AddElement
<1>5. IsFiniteSet(P)
  BY <1>3, <1>4, FS_Subset
<1> HIDE DEF P
<1>6. Pointers = SetToSeq(P)
  BY DEF Pointers, P
<1>7. SetToSeq(P) \in Seq(P) /\ IsInjective(SetToSeq(P)) /\ Range(SetToSeq(P)) = P
  BY <1>5, SetToSeqFacts
<1>8. \A t \in Seq(P) : t \in Seq(OutBlock)
  BY <1>3
<1>9. Pointers \in Seq(OutBlock)
  BY <1>6, <1>7, <1>8
<1> QED
  BY <1>3, <1>6, <1>7, <1>9

LEMMA AbandonKeeps ==
  ASSUME BufInv, pc = "alloc", next <= Len(Outputs(job.fn)),
         NEW k \in 0 .. Len(Outputs(job.fn)[next]) - 1, Abandon(SubSeq(Outputs(job.fn)[next], 1, k)),
         UNCHANGED <<job, out, unwound>>
  PROVE  BufInv'
<1> DEFINE o == Outputs(job.fn)[next]
           taken == SubSeq(o, 1, k)
           ptrs == taken \o Pointers
<1>1. next \in 1 .. Len(Outputs(job.fn)) /\ o \in Seq(OutBlock) /\ IsInjective(o)
  BY OutputFacts DEF BufInv, Places, OutputsSoFar, Disjoint, Row, IsInjective
<1>2. Range(o) \cap allocated = {}
  BY <1>1 DEF BufInv, OutputsSoFar
<1> HIDE DEF o
<1>3. taken \in Seq(OutBlock) /\ DOMAIN taken = 1 .. k /\ (\A j \in 1 .. k : taken[j] = o[j] /\ j \in DOMAIN o)
  BY <1>1 DEF o
<1> HIDE DEF taken
<1>4. IsInjective(taken) /\ Range(taken) \subseteq Range(o) /\ Range(taken) \subseteq OutBlock
  <2>1. IsInjective(taken)
    BY <1>1, <1>3 DEF IsInjective
  <2>2. Range(taken) \subseteq Range(o)
    BY <1>3 DEF Range
  <2>3. Range(taken) \subseteq OutBlock
    BY <1>3 DEF Range
  <2> QED
    BY <2>1, <2>2, <2>3
<1>5. /\ Pointers \in Seq(OutBlock) /\ IsInjective(Pointers)
      /\ Range(Pointers) = OutBlock \cap allocated
  BY PointersFacts
<1>6. IsInjective(ptrs) /\ Range(ptrs) = Range(taken) \union (OutBlock \cap allocated)
  BY <1>2, <1>3, <1>4, <1>5, ConcatFacts
<1>7. /\ allocated' = allocated \union Range(taken) /\ freed' = Freed(ptrs, "cbmpc_free")
      /\ rv' = "E_INSUFFICIENT" /\ pc' = "returned" /\ ptr' = [b \in OutBlock |-> None]
  BY DEF Abandon, Fail, o, taken
<1> HIDE DEF ptrs
<1>8. OutBlock \cap allocated' = Range(ptrs) /\ Lent \cap allocated' = Lent \cap allocated
  BY <1>4, <1>6, <1>7, Blocks
<1>9. Freer' = Freer
  BY DEF Freer
<1>10. \A b \in OutBlock : freed'[b] = IF b \in allocated' THEN <<"cbmpc_free">> ELSE <<>>
  <2> TAKE b \in OutBlock
  <2>1. b \in Block /\ freed[b] = <<>>
    BY Blocks DEF BufInv, OutputsSoFar, Running
  <2>2. \A i1, i2 \in DOMAIN ptrs : ptrs[i1] = b /\ ptrs[i2] = b => i1 = i2
    BY <1>6 DEF IsInjective
  <2> QED
    BY <1>7, <1>8, <2>1, <2>2, FreeOnce
<1>11. /\ \A b \in Lent : freed[b] \in {<<>>, <<Freer>>} /\ (freed[b] # <<>> => b \in allocated)
       /\ \A b \in Lent \cap allocated : freed[b] # <<>>
  BY Blocks DEF BufInv, BuffersFreedOnce, OutputsSoFar, Running
<1>12. \A b \in Lent : freed'[b] = freed[b]
  <2> TAKE b \in Lent
  <2>1. b \in Block /\ b \notin Range(ptrs)
    BY <1>4, <1>6, Blocks
  <2> QED
    BY <1>7, <1>11, <2>1, NotFreed
<1>13. Places'
  <2>1. DOMAIN Freed(ptrs, "cbmpc_free") = Block
    BY DEF Freed
  <2> QED
    BY <1>7, <2>1 DEF BufInv, Places
<1>14. Handed' /\ OutputsSoFar'
  BY <1>7, <1>8 DEF BufInv, Handed, OutputsSoFar, Running, Reading
<1>15. BuffersFreedOnce'
  <2>1. \A b \in Lent : freed'[b] \in {<<>>, <<Freer'>>} /\ (freed'[b] # <<>> => b \in allocated')
    BY <1>7, <1>9, <1>11, <1>12
  <2>2. \A b \in Lent \cap allocated' : freed'[b] # <<>>
    BY <1>8, <1>11, <1>12
  <2>3. \A b \in OutBlock : b \notin Lent
    BY Blocks
  <2>4. \A b \in OutBlock :
          freed'[b] \in {<<>>, <<"cbmpc_free">>} /\ (freed'[b] # <<>> => b \in allocated')
    BY <1>10
  <2>5. \A b \in OutBlock \cap allocated' : freed'[b] # <<>>
    <3>1. Len(<<"cbmpc_free">>) # Len(<<>>)
      OBVIOUS
    <3>2. \A b \in OutBlock \cap allocated' : freed'[b] = <<"cbmpc_free">>
      BY <1>10
    <3> QED
      BY <3>1, <3>2
  <2>6. \A b \in Block : b \in Lent \/ b \in OutBlock
    BY Blocks
  <2> QED
    BY <1>7, <2>1, <2>2, <2>3, <2>4, <2>5, <2>6 DEF BuffersFreedOnce
<1> QED
  BY <1>13, <1>14, <1>15 DEF BufInv

LEMMA AllocOutputKeeps == BufInv /\ AllocOutput => BufInv'
<1> SUFFICES ASSUME BufInv, AllocOutput PROVE BufInv'
  OBVIOUS
<1> DEFINE O == Outputs(job.fn)
           o == O[next]
<1>1. /\ pc = "alloc" /\ next <= Len(O) /\ UNCHANGED <<job, out, senders, unwound>>
      /\ \/ /\ allocated' = allocated \union Range(o)
            /\ ptr' = [b \in OutBlock |-> IF b \in Range(o) THEN b ELSE ptr[b]]
            /\ next' = next + 1
            /\ UNCHANGED <<pc, freed, rv>>
         \/ next' = next + 1 /\ UNCHANGED <<pc, allocated, freed, ptr, rv>>
         \/ \E k \in 0 .. Len(o) - 1 : Abandon(SubSeq(o, 1, k))
  BY DEF AllocOutput
<1>2. CASE \E k \in 0 .. Len(o) - 1 : Abandon(SubSeq(o, 1, k))
  BY <1>1, <1>2, AbandonKeeps
<1>3. CASE /\ next' = next + 1 /\ UNCHANGED <<pc, freed>>
           /\ \E S \in {{}, Range(o)} :
                /\ allocated' = allocated \union S
                /\ ptr' = [b \in OutBlock |-> IF b \in S THEN b ELSE ptr[b]]
  <2>0. PICK S \in {{}, Range(o)} :
          /\ allocated' = allocated \union S
          /\ ptr' = [b \in OutBlock |-> IF b \in S THEN b ELSE ptr[b]]
    BY <1>3
  <2>1. Freer' = Freer /\ Outputs(job.fn)' = O
    BY <1>1 DEF Freer, Outputs
  <2>2. Disjoint(O)
    BY OutputFacts DEF BufInv, Places
  <2>3. Len(O) \in Nat /\ next \in 1 .. Len(O) /\ next \in Nat \ {0}
    BY <1>1, <2>2 DEF BufInv, OutputsSoFar, Disjoint
  <2>4. \A k \in next .. Len(O) : Range(O[k]) \cap allocated = {}
    BY <1>1 DEF BufInv, OutputsSoFar
  <2>5. S \subseteq Range(o) /\ Range(o) \subseteq OutBlock
    <3>1. o \in Seq(OutBlock)
      BY <2>2, <2>3 DEF Disjoint, Row
    <3>2. Range(o) \subseteq OutBlock
      BY <3>1 DEF Range
    <3> QED
      BY <2>0, <3>2
  <2>6. \A k \in next + 1 .. Len(O) : Range(O[k]) \cap S = {}
    BY <2>2, <2>3, <2>5 DEF Disjoint
  <2>7. \A k \in next' .. Len(O) : Range(O[k]) \cap allocated' = {}
    BY <1>3, <2>0, <2>3, <2>4, <2>6
  <2> HIDE DEF O
  <2>8. /\ \A b \in OutBlock : freed[b] = <<>>
        /\ ptr = [b \in OutBlock |-> IF b \in allocated THEN b ELSE None]
        /\ ~ unwound
    BY <1>1 DEF BufInv, OutputsSoFar, Running
  <2>9. ptr' = [b \in OutBlock |-> IF b \in allocated' THEN b ELSE None]
    BY <2>0, <2>8
  <2>10. Lent \cap allocated' = Lent \cap allocated
    BY <2>0, <2>5, Blocks
  <2>11. Places' /\ Handed'
    BY <1>1, <1>3, <2>10 DEF BufInv, Places, Handed, Reading
  <2>12. OutputsSoFar'
    BY <1>1, <1>3, <2>1, <2>3, <2>7, <2>8, <2>9 DEF OutputsSoFar, Running
  <2>13. BuffersFreedOnce'
    <3>1. /\ \A b \in Block :
               freed[b] \in {<<>>, <<IF b \in Lent THEN Freer ELSE "cbmpc_free">>}
               /\ (freed[b] # <<>> => b \in allocated)
          /\ \A b \in Lent \cap allocated : freed[b] # <<>>
      BY <1>1, <2>8 DEF BufInv, BuffersFreedOnce
    <3> QED
      BY <1>1, <1>3, <2>0, <2>1, <2>10, <3>1 DEF BuffersFreedOnce
  <2> QED
    BY <2>11, <2>12, <2>13 DEF BufInv
<1>4. CASE next' = next + 1 /\ UNCHANGED <<pc, allocated, freed, ptr>>
  <2>1. ptr' = [b \in OutBlock |-> IF b \in {} THEN b ELSE ptr[b]]
    BY <1>1, <1>4 DEF BufInv, OutputsSoFar, Running
  <2>2. allocated' = allocated \union {}
    BY <1>4
  <2> QED
    BY <1>3, <1>4, <2>1, <2>2
<1> QED
  BY <1>1, <1>2, <1>3, <1>4

LEMMA SucceedKeeps == BufInv /\ Succeed => BufInv'
<1> SUFFICES ASSUME BufInv, Succeed PROVE BufInv'
  OBVIOUS
<1>1. /\ pc = "alloc" /\ pc' = "returned" /\ rv' = "SUCCESS"
      /\ UNCHANGED <<job, allocated, freed, ptr, out, senders, unwound>>
  BY DEF Succeed, locals
<1>2. Freer' = Freer
  BY <1>1 DEF Freer
<1>3. /\ \A b \in OutBlock : freed[b] = <<>>
      /\ ptr = [b \in OutBlock |-> IF b \in allocated THEN b ELSE None]
      /\ ~ unwound
  BY <1>1 DEF BufInv, OutputsSoFar, Running
<1>4. /\ \A b \in Block :
           freed[b] \in {<<>>, <<IF b \in Lent THEN Freer ELSE "cbmpc_free">>}
           /\ (freed[b] # <<>> => b \in allocated)
      /\ \A b \in Lent \cap allocated : freed[b] # <<>>
  BY <1>1, <1>3 DEF BufInv, BuffersFreedOnce
<1>5. Places' /\ Handed' /\ OutputsSoFar'
  BY <1>1 DEF BufInv, Places, Handed, OutputsSoFar, Reading, Running
<1>6. BuffersFreedOnce'
  BY <1>1, <1>2, <1>3, <1>4 DEF BuffersFreedOnce
<1> QED
  BY <1>5, <1>6 DEF BufInv

LEMMA BufNext == BufInv /\ [Next]_vars => BufInv'
<1> SUFFICES ASSUME BufInv, [Next]_vars PROVE BufInv'
  OBVIOUS
<1>1. CASE Validate \/ ProtocolFails \/ ProtocolReturns
  BY <1>1, PassesKeep
<1>2. CASE CallReceiveAll \/ CallReceive
  BY <1>2, ReceiveCallsKeep
<1>3. CASE receive
  BY <1>3, receiveKeeps
<1>4. CASE BatchReply
  BY <1>4, BatchReplyKeeps
<1>5. CASE Sum
  BY <1>5, SumKeeps
<1>6. CASE SumDone
  BY <1>6, SumDoneKeeps
<1>7. CASE Copy
  BY <1>7, CopyKeeps
<1>8. CASE CopyDone
  BY <1>8, CopyDoneKeeps
<1>9. CASE CopyThrows
  BY <1>9, CopyThrowsKeeps
<1>10. CASE AllocOutput
  BY <1>10, AllocOutputKeeps
<1>11. CASE Succeed
  BY <1>11, SucceedKeeps
<1>12. CASE UNCHANGED vars
  <2>1. UNCHANGED <<job, pc, senders, out, allocated, freed, ptr, next, unwound, rv>>
    BY <1>12 DEF vars
  <2>2. Freer' = Freer /\ Outputs(job.fn)' = Outputs(job.fn)
    BY <2>1 DEF Freer, Outputs
  <2>3. Places' /\ Handed' /\ OutputsSoFar'
    BY <2>1, <2>2 DEF BufInv, Places, Handed, OutputsSoFar
  <2>4. BuffersFreedOnce'
    BY <2>1, <2>2 DEF BufInv, BuffersFreedOnce
  <2> QED
    BY <2>3, <2>4 DEF BufInv
<1> QED
  BY <1>1, <1>2, <1>3, <1>4, <1>5, <1>6, <1>7, <1>8, <1>9, <1>10, <1>11, <1>12 DEF Next

(* The C functions and c_transport_adapter_t: no buffer is freed twice or  *)
(* by the wrong function, none that a callback handed over is left unless  *)
(* an exception unwound, and outputs belong to the caller whole or not at  *)
(* all, for every job, reply and failing allocation.                       *)
THEOREM BuffersHold == Spec => []BuffersFreedOnce
<1>1. BufInv => BuffersFreedOnce
  BY DEF BufInv
<1> QED
  BY <1>1, BufInit, BufNext, PTL DEF Spec

-----------------------------------------------------------------------------
(***************************************************************************)
(* Which bytes become which message.                                       *)
(***************************************************************************)
Prefix(n) == SumFunctionOnSet(out.vals, 1 .. n)
Numbered(n) == [k \in 1 .. n |-> k]

(* The first n messages are the first bytes of the data buffer.            *)
Copied(n) ==
  /\ msgs \in Seq(Seq(Nat)) /\ Len(msgs) = n /\ offset = Prefix(n)
  /\ \A j \in 1 .. n : Len(msgs[j]) = out.vals[j]
  /\ FlattenSeq(msgs) = Numbered(offset)

MsgInv ==
  /\ pc = "called" => receives = 0 /\ msgs = None
  /\ pc = "batch" => i = 0 /\ total = 0 /\ offset = 0
  /\ pc = "sum" =>
       /\ i \in 0 .. senders /\ total = Prefix(i) /\ total \in 0 .. IntMax /\ offset = 0
       /\ \A j \in 1 .. i : out.vals[j] >= 0
  /\ pc = "copy" =>
       /\ i \in 0 .. senders /\ Copied(i)
       /\ Announced(out.vals) /\ (Total(out.vals) > 0 => out.data # None)
  /\ MessagesAsSent

(* FlattenSeq, unfolded: it is defined by recursion over the positions.    *)
Flatten(g, s, k) == IF k = 1 THEN s[k] ELSE g[k - 1] \o s[k]
Flat(s) == CHOOSE g : g = [k \in 1 .. Len(s) |-> Flatten(g, s, k)]

LEMMA FlattenIsFlat ==
  ASSUME NEW s, Len(s) # 0
  PROVE  FlattenSeq(s) = Flat(s)[Len(s)]
BY DEF FlattenSeq, Flat, Flatten

LEMMA FlatExists ==
  ASSUME NEW s, Len(s) \in Nat
  PROVE  \E g : g = [k \in 1 .. Len(s) |-> Flatten(g, s, k)]
<1> DEFINE U == {n \in Nat : \E g : \A k \in 1 .. n : g[k] = Flatten(g, s, k)}
<1>1. 0 \in U
  OBVIOUS
<1>2. ASSUME NEW n \in U PROVE n + 1 \in U
  <2>1. n \in Nat
    OBVIOUS
  <2>2. PICK g : \A k \in 1 .. n : g[k] = Flatten(g, s, k)
    OBVIOUS
  <2> DEFINE h == [k \in 1 .. n + 1 |-> IF k <= n THEN g[k] ELSE Flatten(g, s, k)]
  <2>3. \A k \in 1 .. n : h[k] = g[k]
    BY <2>1
  <2>4. h[n + 1] = Flatten(g, s, n + 1)
    BY <2>1
  <2> HIDE DEF h
  <2>5. ASSUME NEW k \in 1 .. n + 1 PROVE h[k] = Flatten(h, s, k)
    <3>1. h[k] = Flatten(g, s, k)
      BY <2>1, <2>2, <2>3, <2>4
    <3>2. k # 1 => k - 1 \in 1 .. n
      BY <2>1
    <3>3. k # 1 => h[k - 1] = g[k - 1]
      BY <2>3, <3>2
    <3> QED
      BY <3>1, <3>3 DEF Flatten
  <2> QED
    BY <2>1, <2>5
<1>3. U = Nat
  <2>1. U \in SUBSET Nat
    OBVIOUS
  <2> HIDE DEF U
  <2> QED
    BY <1>1, <1>2, <2>1, NatInd
<1>4. PICK g : \A k \in 1 .. Len(s) : g[k] = Flatten(g, s, k)
  BY <1>3
<1> DEFINE h == [k \in 1 .. Len(s) |-> g[k]]
<1>5. ASSUME NEW k \in 1 .. Len(s) PROVE h[k] = Flatten(h, s, k)
  <2>1. k # 1 => k - 1 \in 1 .. Len(s)
    OBVIOUS
  <2>2. h[k] = g[k] /\ (k # 1 => h[k - 1] = g[k - 1])
    BY <2>1
  <2> HIDE DEF h
  <2> QED
    BY <1>4, <2>2 DEF Flatten
<1>6. h = [k \in 1 .. Len(s) |-> Flatten(h, s, k)]
  <2>1. h = [k \in 1 .. Len(s) |-> h[k]]
    OBVIOUS
  <2> HIDE DEF h
  <2> QED
    BY <1>5, <2>1
<1> QED
  BY <1>6

LEMMA FlatRec ==
  ASSUME NEW s, Len(s) \in Nat
  PROVE  \A k \in 1 .. Len(s) : Flat(s)[k] = Flatten(Flat(s), s, k)
<1>1. Flat(s) = [k \in 1 .. Len(s) |-> Flatten(Flat(s), s, k)]
  BY FlatExists DEF Flat
<1> QED
  BY <1>1

LEMMA FlattenAppend ==
  ASSUME NEW S, NEW s \in Seq(Seq(S)), NEW x \in Seq(S)
  PROVE  FlattenSeq(Append(s, x)) = IF s = <<>> THEN x ELSE FlattenSeq(s) \o x
<1> DEFINE t == Append(s, x)
           n == Len(s)
           T == {m \in Nat : m + 1 \in 1 .. n => Flat(t)[m + 1] = Flat(s)[m + 1]}
<1>1. /\ n \in Nat /\ Len(t) = n + 1 /\ t[n + 1] = x
      /\ \A k \in 1 .. n : t[k] = s[k]
  OBVIOUS
<1>2. s = <<>> <=> n = 0
  OBVIOUS
<1> HIDE DEF t, n
<1>3. /\ \A k \in 1 .. n + 1 : Flat(t)[k] = Flatten(Flat(t), t, k)
      /\ \A k \in 1 .. n : Flat(s)[k] = Flatten(Flat(s), s, k)
  BY <1>1, FlatRec DEF n
<1>4. 0 \in T
  BY <1>1, <1>3 DEF Flatten
<1>5. ASSUME NEW m \in T PROVE m + 1 \in T
  <2> SUFFICES ASSUME (m + 1) + 1 \in 1 .. n
               PROVE  Flat(t)[(m + 1) + 1] = Flat(s)[(m + 1) + 1]
    OBVIOUS
  <2> DEFINE k == (m + 1) + 1
  <2>1. m \in Nat /\ k \in 1 .. n /\ k \in 1 .. n + 1 /\ k # 1 /\ k - 1 = m + 1 /\ m + 1 \in 1 .. n
    BY <1>1
  <2>2. Flat(t)[k - 1] = Flat(s)[k - 1]
    BY <2>1
  <2> HIDE DEF k
  <2>3. Flat(t)[k] = Flat(t)[k - 1] \o t[k] /\ Flat(s)[k] = Flat(s)[k - 1] \o s[k]
    BY <1>3, <2>1 DEF Flatten
  <2>4. Flat(t)[k] = Flat(s)[k]
    BY <1>1, <2>1, <2>2, <2>3
  <2> QED
    BY <2>4 DEF k
<1>6. T = Nat
  <2>1. T \in SUBSET Nat
    OBVIOUS
  <2> HIDE DEF T
  <2> QED
    BY <1>4, <1>5, <2>1, NatInd
<1>7. FlattenSeq(t) = Flat(t)[n + 1]
  BY <1>1, FlattenIsFlat
<1>8. CASE n = 0
  <2>1. Flat(t)[1] = t[1]
    BY <1>1, <1>3, <1>8 DEF Flatten
  <2> QED
    BY <1>1, <1>2, <1>7, <1>8, <2>1 DEF t
<1>9. CASE n # 0
  <2>1. n - 1 \in Nat /\ (n - 1) + 1 = n /\ n \in 1 .. n
    BY <1>1, <1>9
  <2>2. Flat(t)[n] = Flat(s)[n]
    BY <1>6, <2>1
  <2>3. FlattenSeq(s) = Flat(s)[n]
    BY <1>9, FlattenIsFlat DEF n
  <2>4. Flat(t)[n + 1] = Flat(t)[n] \o t[n + 1]
    <3>1. n + 1 \in 1 .. n + 1 /\ n + 1 # 1 /\ (n + 1) - 1 = n
      BY <1>1, <1>9
    <3> QED
      BY <1>3, <3>1 DEF Flatten
  <2> QED
    BY <1>1, <1>2, <1>7, <1>9, <2>2, <2>3, <2>4 DEF t
<1> QED
  BY <1>8, <1>9

(* Sums of the first sizes.                                                *)
LEMMA PrefixStep ==
  ASSUME NEW vals \in Seq(Int)
  PROVE  /\ SumFunctionOnSet(vals, 1 .. 0) = 0
         /\ SumFunction(vals) = SumFunctionOnSet(vals, 1 .. Len(vals))
         /\ \A n \in 0 .. Len(vals) : SumFunctionOnSet(vals, 1 .. n) \in Int
         /\ \A n \in Nat : n + 1 <= Len(vals) =>
              SumFunctionOnSet(vals, 1 .. n + 1) = SumFunctionOnSet(vals, 1 .. n) + vals[n + 1]
<1> DEFINE S == 1 .. Len(vals)
<1>1. Len(vals) \in Nat /\ DOMAIN vals = S /\ vals \in [S -> Int] /\ IsFiniteSet(S)
  BY FS_Interval
<1>2. SumFunctionOnSet(vals, 1 .. 0) = 0
  <2>1. 1 .. 0 = {}
    OBVIOUS
  <2> QED
    BY <2>1, SumEmpty
<1>3. SumFunction(vals) = SumFunctionOnSet(vals, S)
  BY <1>1 DEF SumFunction
<1>4. ASSUME NEW n \in 0 .. Len(vals) PROVE SumFunctionOnSet(vals, 1 .. n) \in Int
  <2>1. 1 .. n \in SUBSET S
    BY <1>1
  <2> HIDE DEF S
  <2> QED
    BY <1>1, <2>1, SumType
<1>5. ASSUME NEW n \in Nat, n + 1 <= Len(vals)
      PROVE  SumFunctionOnSet(vals, 1 .. n + 1) = SumFunctionOnSet(vals, 1 .. n) + vals[n + 1]
  <2> DEFINE A == 1 .. n + 1
             x == n + 1
  <2>1. A \in SUBSET S /\ x \in A /\ A \ {x} = 1 .. n
    BY <1>1, <1>5
  <2>2. vals[x] \in Int /\ SumFunctionOnSet(vals, 1 .. n) \in Int
    BY <1>1, <1>4, <1>5
  <2> HIDE DEF S, A, x
  <2>3. SumFunctionOnSet(vals, A) = vals[x] + SumFunctionOnSet(vals, A \ {x})
    BY <1>1, <2>1, SumRemove
  <2>4. SumFunctionOnSet(vals, A) = SumFunctionOnSet(vals, 1 .. n) + vals[x]
    <3> DEFINE a == SumFunctionOnSet(vals, 1 .. n)
               b == SumFunctionOnSet(vals, A \ {x})
    <3>1. b = a
      BY <2>1, Zenon
    <3>2. SumFunctionOnSet(vals, A) = vals[x] + b /\ a \in Int
      BY <2>2, <2>3
    <3> HIDE DEF a, b
    <3>3. SumFunctionOnSet(vals, A) = a + vals[x]
      BY <2>2, <3>1, <3>2
    <3> QED
      BY <3>3 DEF a
  <2> QED
    BY <2>4 DEF A, x
<1> QED
  BY <1>2, <1>3, <1>4, <1>5

(* With no negative size, a sum of more of them is not smaller.            *)
LEMMA PrefixGrows ==
  ASSUME NEW vals \in Seq(Int), \A j \in DOMAIN vals : vals[j] >= 0, NEW n \in 0 .. Len(vals)
  PROVE  /\ 0 <= SumFunctionOnSet(vals, 1 .. n)
         /\ SumFunctionOnSet(vals, 1 .. n) <= SumFunction(vals)
<1> DEFINE s(m) == SumFunctionOnSet(vals, 1 .. m)
           U == {m \in Nat : m <= Len(vals) => 0 <= s(m)}
           T == {d \in Nat : n + d <= Len(vals) => s(n) <= s(n + d)}
<1>0. Len(vals) \in Nat /\ DOMAIN vals = 1 .. Len(vals)
  OBVIOUS
<1>1. /\ s(0) = 0 /\ SumFunction(vals) = s(Len(vals))
      /\ \A m \in 0 .. Len(vals) : s(m) \in Int
      /\ \A m \in Nat : m + 1 <= Len(vals) => s(m + 1) = s(m) + vals[m + 1]
  BY PrefixStep
<1> HIDE DEF s
<1>2. \A m \in Nat : m + 1 <= Len(vals) => s(m + 1) \in Int /\ s(m) \in Int /\ s(m) <= s(m + 1)
  <2> SUFFICES ASSUME NEW m \in Nat, m + 1 <= Len(vals)
               PROVE  s(m + 1) \in Int /\ s(m) \in Int /\ s(m) <= s(m + 1)
    OBVIOUS
  <2>1. m \in 0 .. Len(vals) /\ m + 1 \in 0 .. Len(vals) /\ m + 1 \in DOMAIN vals
    BY <1>0
  <2>2. s(m) \in Int /\ s(m + 1) \in Int /\ vals[m + 1] \in Int /\ vals[m + 1] >= 0
    BY <1>1, <2>1
  <2>3. s(m + 1) = s(m) + vals[m + 1]
    BY <1>1
  <2> QED
    BY <2>2, <2>3
<1>3. U = Nat
  <2>1. 0 \in U
    BY <1>1
  <2>2. ASSUME NEW m \in U PROVE m + 1 \in U
    <3> SUFFICES ASSUME m + 1 <= Len(vals) PROVE 0 <= s(m + 1)
      OBVIOUS
    <3>1. m \in Nat /\ m <= Len(vals) /\ 0 <= s(m)
      BY <1>0
    <3>2. s(m + 1) \in Int /\ s(m) \in Int /\ s(m) <= s(m + 1)
      BY <1>2, <3>1
    <3> QED
      BY <3>1, <3>2
  <2>3. U \in SUBSET Nat
    OBVIOUS
  <2> HIDE DEF U
  <2> QED
    BY <2>1, <2>2, <2>3, NatInd
<1>4. T = Nat
  <2>1. 0 \in T
    <3>1. s(n) \in Int /\ n + 0 = n
      BY <1>1
    <3> QED
      BY <3>1
  <2>2. ASSUME NEW d \in T PROVE d + 1 \in T
    <3> SUFFICES ASSUME n + (d + 1) <= Len(vals) PROVE s(n) <= s(n + (d + 1))
      OBVIOUS
    <3>1. d \in Nat /\ n + d \in Nat /\ n + d <= Len(vals) /\ s(n) <= s(n + d)
      BY <1>0
    <3>2. n + (d + 1) = (n + d) + 1
      BY <3>1
    <3>3. s((n + d) + 1) \in Int /\ s(n + d) \in Int /\ s(n + d) <= s((n + d) + 1)
      BY <1>2, <3>1, <3>2
    <3>4. s(n) \in Int
      BY <1>1
    <3>5. s(n) <= s((n + d) + 1)
      BY <3>1, <3>3, <3>4
    <3> QED
      BY <3>2, <3>5
  <2>3. T \in SUBSET Nat
    OBVIOUS
  <2> HIDE DEF T
  <2> QED
    BY <2>1, <2>2, <2>3, NatInd
<1>5. s(n) <= s(Len(vals))
  <2>1. Len(vals) - n \in Nat /\ n + (Len(vals) - n) = Len(vals)
    BY <1>0
  <2>2. Len(vals) - n \in T
    BY <1>4, <2>1
  <2>3. s(n) <= s(n + (Len(vals) - n))
    BY <1>0, <2>1, <2>2
  <2> QED
    BY <2>1, <2>3
<1>6. 0 <= s(n)
  <2>1. n \in U /\ n <= Len(vals)
    BY <1>0, <1>3
  <2> QED
    BY <2>1
<1> QED
  BY <1>1, <1>5, <1>6 DEF s

(* int addition does not wrap around for a size that fits.                 *)
LEMMA FitsExact ==
  ASSUME total \in 0 .. IntMax, NEW sz \in Sizes, sz >= 0, Fits(sz)
  PROVE  Wrap(total + sz) = total + sz /\ total + sz \in 0 .. IntMax
<1> DEFINE x == total + sz
           M == 2 * (IntMax + 1)
<1>1. IntMax \in Nat /\ x \in 0 .. IntMax
  BY BoundsAssumption DEF Fits, Sizes
<1>2. M \in Nat \ {0} /\ x + IntMax + 1 \in 0 .. M - 1
  BY <1>1
<1> HIDE DEF M
<1>3. (x + IntMax + 1) % M = x + IntMax + 1
  BY <1>2, ModSmall
<1>4. Wrap(x) = ((x + IntMax + 1) % M) - (IntMax + 1)
  BY DEF Wrap, M
<1> HIDE DEF x
<1>5. Wrap(x) = x
  BY <1>1, <1>3, <1>4
<1> QED
  BY <1>1, <1>5 DEF x

LEMMA SeqWiden ==
  ASSUME NEW S, NEW T, S \subseteq T, NEW t \in Seq(S)
  PROVE  t \in Seq(T)
<1>1. Len(t) \in Nat /\ t \in [1 .. Len(t) -> S]
  OBVIOUS
<1>2. t \in [1 .. Len(t) -> T]
  BY <1>1
<1> QED
  BY <1>1, <1>2

(* What the loops may count on.                                            *)
LEMMA LoopReply ==
  ASSUME BufInv, pc \in {"sum", "copy"}
  PROVE  /\ senders \in Nat /\ Len(out.vals) = senders /\ out.vals \in Seq(Int)
         /\ out.rv = 0 /\ out.count = senders
         /\ \A j \in 1 .. senders : out.vals[j] \in Sizes
         /\ out.len = IF out.data = None THEN 0
                      ELSE IF Announced(out.vals) THEN Total(out.vals) ELSE IntMax
<1>1. /\ senders \in Nat /\ out \in BatchReplies(senders) /\ SizesFit(senders, out)
      /\ out.rv = 0 /\ out.count = senders /\ (senders > 0 => out.sizes # None)
  BY DEF BufInv, Handed
<1>2. /\ out.vals \in Seq(Sizes) /\ (out.sizes = None => out.vals = <<>>)
      /\ out.len = IF out.data = None THEN 0
                   ELSE IF Announced(out.vals) THEN Total(out.vals) ELSE IntMax
  BY <1>1, BatchFacts, ErrorFacts
<1>3. Len(out.vals) = senders
  <2>1. CASE out.sizes # None
    BY <1>1, <2>1 DEF SizesFit
  <2>2. CASE out.sizes = None
    BY <1>1, <1>2, <2>2
  <2> QED
    BY <2>1, <2>2
<1>4. out.vals \in Seq(Int)
  <2>1. Sizes \subseteq Int
    BY BoundsAssumption DEF Sizes
  <2> QED
    BY <1>2, <2>1, SeqWiden
<1>5. \A j \in 1 .. senders : out.vals[j] \in Sizes
  BY <1>2, <1>3
<1> QED
  BY <1>1, <1>2, <1>3, <1>4, <1>5

(* A reply in which sizes and pointers fit together.                       *)
Fit ==
  /\ out.rv = 0 /\ out.count = senders /\ Announced(out.vals)
  /\ (Total(out.vals) > 0 => out.data # None) /\ Len(out.vals) = senders

LEMMA MsgInit == Init => MsgInv
<1> SUFFICES ASSUME Init PROVE MsgInv
  OBVIOUS
<1>1. pc = "called" /\ receives = 0 /\ msgs = None
  BY DEF Init
<1> QED
  BY <1>1 DEF MsgInv, MessagesAsSent

(* A call that returns, with a complaint about a reply only if it is due.  *)
LEMMA ReturnMsg ==
  ASSUME pc' = "returned",
         rv' \in {"E_FORMAT", "E_RANGE"} =>
           receives' = 0 \/ (~ Fit /\ UNCHANGED <<out, senders>>)
  PROVE  MsgInv'
BY DEF MsgInv, MessagesAsSent, Fit

LEMMA RefuseMsg ==
  ASSUME NEW ptrs, NEW err, Refuse(ptrs, err), err \in {"E_FORMAT", "E_RANGE"} => ~ Fit
  PROVE  MsgInv'
<1>1. pc' = "returned" /\ rv' = err /\ UNCHANGED <<out, senders>>
  BY DEF Refuse, Fail, rest
<1> QED
  BY <1>1, ReturnMsg

LEMMA OutsideMsg ==
  ASSUME BufInv, MsgInv, Validate \/ ProtocolFails \/ ProtocolReturns \/ AllocOutput \/ Succeed
  PROVE  MsgInv'
<1>1. CASE Validate
  <2>1. pc = "called" /\ receives = 0 /\ msgs = None /\ UNCHANGED <<receives, msgs>>
    BY <1>1 DEF Validate, MsgInv, locals
  <2>2. pc' = "returned" \/ pc' = "protocol"
    BY <1>1 DEF Validate, Fail
  <2> QED
    BY <2>1, <2>2, ReturnMsg DEF MsgInv, MessagesAsSent
<1>2. CASE ProtocolFails
  <2>1. pc' = "returned" /\ rv' \in {"E_CRYPTO", "E_INSUFFICIENT", "E_GENERAL"}
    BY <1>2 DEF ProtocolFails, Fail
  <2> QED
    BY <2>1, ReturnMsg
<1>3. CASE ProtocolReturns
  BY <1>3 DEF ProtocolReturns, MsgInv, MessagesAsSent
<1>4. CASE AllocOutput
  <2>1. pc = "alloc" /\ (pc' = "alloc" \/ (pc' = "returned" /\ rv' = "E_INSUFFICIENT"))
    BY <1>4 DEF AllocOutput, Abandon, Fail
  <2>2. CASE pc' = "alloc"
    BY <2>2 DEF MsgInv, MessagesAsSent
  <2>3. CASE pc' = "returned" /\ rv' = "E_INSUFFICIENT"
    BY <2>3, ReturnMsg
  <2> QED
    BY <2>1, <2>2, <2>3
<1>5. CASE Succeed
  <2>1. pc' = "returned" /\ rv' = "SUCCESS"
    BY <1>5 DEF Succeed
  <2> QED
    BY <2>1, ReturnMsg
<1> QED
  BY <1>1, <1>2, <1>3, <1>4, <1>5

LEMMA ReceiveCallsMsg ==
  ASSUME BufInv, MsgInv, CallReceiveAll \/ CallReceive
  PROVE  MsgInv'
<1>1. i' = 0 /\ total' = 0 /\ offset' = 0 /\ (pc' = "single" \/ pc' = "batch")
  BY DEF CallReceiveAll, CallReceive, HandOver
<1> QED
  BY <1>1 DEF MsgInv, MessagesAsSent

(* One message.                                                            *)
LEMMA OneMessage ==
  ASSUME NEW sz \in Nat
  PROVE  LET x == [k \in 1 .. sz |-> k]
         IN  /\ <<x>> \in Seq(Seq(Nat)) /\ Len(<<x>>) = 1 /\ <<x>>[1] = x /\ Len(x) = sz
             /\ FlattenSeq(<<x>>) = x
<1> DEFINE x == [k \in 1 .. sz |-> k]
<1>1. x \in Seq(Nat) /\ Len(x) = sz
  OBVIOUS
<1> HIDE DEF x
<1>2. <<>> \in Seq(Seq(Nat)) /\ Append(<<>>, x) = <<x>>
  BY <1>1
<1>3. FlattenSeq(Append(<<>>, x)) = x
  BY <1>1, <1>2, FlattenAppend
<1>4. <<x>> \in Seq(Seq(Nat)) /\ Len(<<x>>) = 1 /\ <<x>>[1] = x
  BY <1>1
<1>5. FlattenSeq(<<x>>) = x
  BY <1>2, <1>3
<1> QED
  BY <1>1, <1>4, <1>5 DEF x

LEMMA OneSize ==
  ASSUME NEW sz \in Sizes
  PROVE  /\ Total(<<sz>>) = sz /\ Len(<<sz>>) = 1 /\ <<sz>>[1] = sz
         /\ Announced(<<sz>>) <=> sz >= 0
<1>0. sz \in Int /\ sz <= IntMax
  BY BoundsAssumption DEF Sizes
<1> DEFINE v == <<sz>>
<1>1. v \in Seq(Int) /\ Len(v) = 1 /\ v[1] = sz /\ DOMAIN v = {1}
  BY <1>0
<1> HIDE DEF v
<1>2. 0 \in Nat /\ 0 + 1 = 1 /\ 0 + 1 <= Len(v)
  BY <1>1
<1>3. SumFunctionOnSet(v, 1 .. 0 + 1) = SumFunctionOnSet(v, 1 .. 0) + v[0 + 1]
  BY <1>1, <1>2, PrefixStep
<1>4. SumFunctionOnSet(v, 1 .. 0) = 0 /\ SumFunction(v) = SumFunctionOnSet(v, 1 .. Len(v))
  BY <1>1, PrefixStep
<1>5. SumFunction(v) = sz
  <2> DEFINE a == SumFunctionOnSet(v, 1 .. 0)
             b == SumFunctionOnSet(v, 1 .. 1)
  <2>1. b = a + v[1] /\ a = 0 /\ SumFunction(v) = b
    BY <1>1, <1>2, <1>3, <1>4
  <2> HIDE DEF a, b
  <2> QED
    BY <1>0, <1>1, <2>1
<1>6. Total(v) = sz
  BY <1>5 DEF Total
<1>7. Announced(v) <=> sz >= 0
  BY <1>0, <1>1, <1>6 DEF Announced
<1> QED
  BY <1>1, <1>6, <1>7 DEF v

LEMMA receiveMsg ==
  ASSUME BufInv, MsgInv, receive
  PROVE  MsgInv'
<1> DEFINE sz == out.vals[1]
<1>1. pc = "single" /\ out \in SingleReplies /\ senders = 1
  BY DEF receive, BufInv, Handed
<1>2. CASE Refuse(<<out.data>>, "E_NET")
  BY <1>2, RefuseMsg
<1>3. CASE out.rv = 0 /\ (sz < 0 \/ (sz > 0 /\ out.data = None)) /\ Refuse(<<out.data>>, "E_FORMAT")
  <2>1. sz \in Sizes /\ out.vals = <<sz>>
    BY <1>1, <1>3, SingleFacts, ErrorFacts
  <2>2. ~ Fit
    <3>1. Total(out.vals) = sz /\ (Announced(out.vals) <=> sz >= 0) /\ sz \in Int
      BY <2>1, OneSize, BoundsAssumption DEF Sizes
    <3> HIDE DEF sz
    <3> QED
      BY <1>3, <3>1 DEF Fit
  <2> QED
    BY <1>3, <2>2, RefuseMsg
<1>4. CASE /\ out.rv = 0 /\ sz >= 0 /\ (sz > 0 => out.data # None)
           /\ msgs' = << [k \in 1 .. sz |-> k] >> /\ pc' = "protocol"
           /\ UNCHANGED <<senders, out>>
  <2>1. /\ sz \in Sizes /\ out.vals = <<sz>>
        /\ out.len = IF out.data = None THEN 0
                     ELSE IF Announced(out.vals) THEN Total(out.vals) ELSE IntMax
    BY <1>1, <1>4, SingleFacts, ErrorFacts
  <2>2. sz \in Nat
    BY <1>4, <2>1, BoundsAssumption DEF Sizes
  <2>3. Total(out.vals) = sz /\ Announced(out.vals)
    BY <1>4, <2>1, OneSize
  <2> HIDE DEF sz
  <2>4. out.len = sz
    BY <1>4, <2>1, <2>2, <2>3
  <2> DEFINE x == [k \in 1 .. sz |-> k]
  <2>5. Len(<<x>>) = 1 /\ <<x>>[1] = x /\ Len(x) = sz /\ FlattenSeq(<<x>>) = x
    BY <2>2, OneMessage
  <2>6. msgs' = <<x>>
    BY <1>4 DEF sz
  <2>7. Len(msgs') = 1 /\ msgs'[1] = x /\ FlattenSeq(msgs') = x
    BY <2>5, <2>6
  <2>8. /\ Len(msgs') = senders'
        /\ \A j \in 1 .. senders' : Len(msgs'[j]) = out'.vals[j]
        /\ FlattenSeq(msgs') = [k \in 1 .. Total(out'.vals) |-> k]
        /\ Total(out'.vals) <= out'.len
    <3>1. out' = out /\ senders' = 1
      BY <1>1, <1>4
    <3>2. \A j \in 1 .. 1 : j = 1
      OBVIOUS
    <3> HIDE DEF x
    <3>3. \A j \in 1 .. senders' : Len(msgs'[j]) = out'.vals[j]
      BY <2>5, <2>7, <3>1, <3>2 DEF sz
    <3>4. Total(out'.vals) <= out'.len
      BY <2>2, <2>3, <2>4, <3>1
    <3> QED
      BY <2>3, <2>7, <3>1, <3>3, <3>4 DEF x
  <2> QED
    BY <1>4, <2>8 DEF MsgInv, MessagesAsSent
<1> QED
  BY <1>2, <1>3, <1>4 DEF receive, rest

LEMMA BatchReplyMsg ==
  ASSUME BufInv, MsgInv, BatchReply
  PROVE  MsgInv'
<1>1. pc = "batch" /\ senders \in Nat /\ out \in BatchReplies(senders)
  BY DEF BatchReply, BufInv, Handed
<1>2. CASE Refuse(CleanupAfterError, "E_NET")
  BY <1>2, RefuseMsg
<1>3. CASE out.rv = 0 /\ out.count # senders /\ Refuse(<<out.data, out.sizes>>, "E_FORMAT")
  BY <1>3, RefuseMsg DEF Fit
<1>4. CASE /\ out.rv = 0 /\ out.count = senders /\ out.count > 0 /\ out.sizes = None
           /\ Refuse(<<out.data>>, "E_FORMAT")
  <2>1. out.vals = <<>>
    BY <1>1, <1>4, BatchFacts, ErrorFacts
  <2>2. Len(out.vals) # senders
    BY <1>1, <1>4, <2>1
  <2> QED
    BY <1>4, <2>2, RefuseMsg DEF Fit
<1>5. CASE pc' = "sum" /\ UNCHANGED <<senders, out, i, total, offset>>
  <2>1. i = 0 /\ total = 0 /\ offset = 0
    BY <1>1 DEF MsgInv
  <2>2. Prefix(0)' = 0
    <3>1. 1 .. 0 = {}
      OBVIOUS
    <3> QED
      BY <3>1, SumEmpty DEF Prefix
  <2>3. i' = 0 /\ total' = 0 /\ offset' = 0 /\ senders' \in Nat
    BY <1>1, <1>5, <2>1
  <2>4. Prefix(i)' = 0
    BY <2>2, <2>3 DEF Prefix
  <2>5. i' \in 0 .. senders' /\ total' \in 0 .. IntMax /\ \A j \in 1 .. i' : out'.vals[j] >= 0
    BY <2>3, BoundsAssumption
  <2> QED
    BY <1>5, <2>3, <2>4, <2>5 DEF MsgInv, MessagesAsSent
<1> QED
  BY <1>2, <1>3, <1>4, <1>5 DEF BatchReply, rest, loop

LEMMA SumMsg ==
  ASSUME BufInv, MsgInv, Sum
  PROVE  MsgInv'
<1> DEFINE sz == out.vals[i + 1]
           v == out.vals
<1>1. pc = "sum" /\ i < senders /\ out.count = senders
  BY DEF Sum, BufInv, Handed
<1>2. /\ senders \in Nat /\ Len(v) = senders /\ v \in Seq(Int)
      /\ \A j \in 1 .. senders : v[j] \in Sizes
  BY <1>1, LoopReply
<1>3. /\ i \in 0 .. senders /\ total = Prefix(i) /\ total \in 0 .. IntMax /\ offset = 0
      /\ \A j \in 1 .. i : v[j] >= 0
  BY <1>1 DEF MsgInv
<1>4. i \in Nat /\ i + 1 \in 1 .. senders /\ i + 1 <= Len(v) /\ sz \in Sizes /\ sz \in Int /\ DOMAIN v = 1 .. senders
  BY <1>1, <1>2, <1>3, BoundsAssumption DEF Sizes
<1>5. Prefix(i + 1) = total + sz
  BY <1>2, <1>3, <1>4, PrefixStep DEF Prefix
<1> HIDE DEF sz, v
<1>6. CASE sz < 0 /\ Refuse(<<out.data, out.sizes>>, "E_FORMAT")
  <2>1. ~ Announced(v)
    BY <1>4, <1>6 DEF Announced, sz, v
  <2> QED
    BY <1>6, <2>1, RefuseMsg DEF Fit, v
<1>7. CASE sz >= 0 /\ ~ Fits(sz) /\ Refuse(<<out.data, out.sizes>>, "E_RANGE")
  <2>1. ~ Announced(v)
    <3> SUFFICES ASSUME \A j \in DOMAIN v : v[j] >= 0, Total(v) <= IntMax PROVE FALSE
      BY DEF Announced
    <3>1. i + 1 \in 0 .. Len(v)
      BY <1>2, <1>4
    <3>2. SumFunctionOnSet(v, 1 .. i + 1) <= SumFunction(v)
      BY <1>2, <3>1, PrefixGrows
    <3>3. SumFunctionOnSet(v, 1 .. i + 1) \in Int /\ SumFunction(v) \in Int
      BY <1>2, <3>1, PrefixStep
    <3>4. total + sz <= Total(v) /\ Total(v) \in Int
      BY <1>5, <3>2, <3>3 DEF Prefix, Total, v
    <3> QED
      BY <1>3, <1>4, <1>7, <3>4, BoundsAssumption DEF Fits
  <2> QED
    BY <1>7, <2>1, RefuseMsg DEF Fit, v
<1>8. CASE /\ sz >= 0 /\ Fits(sz) /\ total' = Wrap(total + sz) /\ i' = i + 1
           /\ UNCHANGED <<senders, out, pc, offset, msgs>>
  <2>1. total' = total + sz /\ total' \in 0 .. IntMax
    BY <1>3, <1>4, <1>8, FitsExact
  <2>2. Prefix(i)' = total'
    <3>1. Prefix(i)' = Prefix(i + 1)
      BY <1>8 DEF Prefix
    <3> QED
      BY <1>5, <2>1, <3>1
  <2>3. \A j \in 1 .. i' : out'.vals[j] >= 0
    <3>1. \A j \in 1 .. i + 1 : j \in 1 .. i \/ j = i + 1
      BY <1>4
    <3> QED
      BY <1>3, <1>8, <3>1 DEF sz, v
  <2>4. i' \in 0 .. senders' /\ offset' = 0 /\ pc' = "sum"
    BY <1>1, <1>2, <1>3, <1>4, <1>8
  <2> QED
    BY <2>1, <2>2, <2>3, <2>4 DEF MsgInv, MessagesAsSent
<1> QED
  BY <1>6, <1>7, <1>8 DEF Sum, rest, sz

LEMMA SumDoneMsg ==
  ASSUME BufInv, MsgInv, SumDone
  PROVE  MsgInv'
<1> DEFINE v == out.vals
<1>1. pc = "sum" /\ i = senders /\ out.count = senders
  BY DEF SumDone, BufInv, Handed
<1>2. /\ senders \in Nat /\ Len(v) = senders /\ v \in Seq(Int) /\ out.rv = 0
      /\ out.len = IF out.data = None THEN 0 ELSE IF Announced(v) THEN Total(v) ELSE IntMax
  BY <1>1, LoopReply
<1>3. total = Prefix(senders) /\ total \in 0 .. IntMax /\ offset = 0 /\ \A j \in 1 .. senders : v[j] >= 0
  BY <1>1 DEF MsgInv
<1>4. DOMAIN v = 1 .. senders /\ Total(v) = total
  BY <1>2, <1>3, PrefixStep DEF Total, Prefix
<1>5. Announced(v)
  BY <1>3, <1>4, BoundsAssumption DEF Announced
<1> HIDE DEF v
<1>6. CASE total > 0 /\ out.data = None /\ Refuse(<<out.sizes>>, "E_FORMAT")
  BY <1>4, <1>6, RefuseMsg DEF Fit, v
<1>7. CASE /\ (total > 0 => out.data # None) /\ msgs' = <<>> /\ i' = 0 /\ pc' = "copy"
           /\ UNCHANGED <<senders, out, offset>>
  <2>1. FlattenSeq(<<>>) = <<>> /\ Len(<<>>) = 0
    BY DEF FlattenSeq
  <2>2. Prefix(0)' = 0
    <3>1. 1 .. 0 = {}
      OBVIOUS
    <3> QED
      BY <3>1, SumEmpty DEF Prefix
  <2>3. Numbered(0) = <<>>
    BY DEF Numbered
  <2>4. Copied(0)'
    BY <1>3, <1>7, <2>1, <2>2, <2>3 DEF Copied
  <2>5. Copied(i)'
    BY <1>7, <2>4 DEF Copied, Prefix
  <2>6. i' \in 0 .. senders'
    BY <1>2, <1>7
  <2>7. Announced(out'.vals) /\ (Total(out'.vals) > 0 => out'.data # None)
    BY <1>4, <1>5, <1>7 DEF v
  <2>8. out'.len \in Int /\ 0 <= out'.len
    BY <1>2, <1>3, <1>4, <1>5, <1>7
  <2>9. Len(FlattenSeq(msgs')) <= out'.len
    BY <1>7, <2>1, <2>8
  <2> QED
    BY <1>7, <2>5, <2>6, <2>7, <2>9 DEF MsgInv, MessagesAsSent
<1> QED
  BY <1>6, <1>7 DEF SumDone, rest

(* While messages are copied.                                              *)
LEMMA CopyState ==
  ASSUME BufInv, MsgInv, pc = "copy"
  PROVE  /\ senders \in Nat /\ i \in 0 .. senders /\ out.count = senders
         /\ Len(out.vals) = senders /\ out.vals \in Seq(Int) /\ DOMAIN out.vals = 1 .. senders
         /\ Total(out.vals) \in Nat /\ out.len = Total(out.vals) /\ Total(out.vals) = Prefix(senders)
         /\ Copied(i) /\ offset \in Nat
         /\ \A n \in 0 .. senders : Prefix(n) \in Nat /\ Prefix(n) <= Total(out.vals)
         /\ \A j \in 1 .. senders : out.vals[j] \in Nat
<1> DEFINE v == out.vals
<1>1. /\ senders \in Nat /\ Len(v) = senders /\ v \in Seq(Int) /\ out.count = senders
      /\ out.len = IF out.data = None THEN 0 ELSE IF Announced(v) THEN Total(v) ELSE IntMax
  BY LoopReply
<1>2. i \in 0 .. senders /\ Copied(i) /\ Announced(v) /\ (Total(v) > 0 => out.data # None)
  BY DEF MsgInv
<1>3. DOMAIN v = 1 .. senders
  BY <1>1
<1>4. \A j \in DOMAIN v : v[j] >= 0
  BY <1>2 DEF Announced
<1>5. \A j \in 1 .. senders : v[j] \in Nat
  BY <1>1, <1>3, <1>4
<1> HIDE DEF v
<1>6. Total(v) = SumFunction(v) /\ \A n \in 0 .. senders : Prefix(n) = SumFunctionOnSet(v, 1 .. n)
  BY DEF Total, Prefix, v
<1>7. /\ \A n \in 0 .. senders : SumFunctionOnSet(v, 1 .. n) \in Int
      /\ SumFunction(v) = SumFunctionOnSet(v, 1 .. senders)
  BY <1>1, PrefixStep
<1>8. \A n \in 0 .. senders :
        0 <= SumFunctionOnSet(v, 1 .. n) /\ SumFunctionOnSet(v, 1 .. n) <= SumFunction(v)
  BY <1>1, <1>4, PrefixGrows
<1>9. \A n \in 0 .. senders : Prefix(n) \in Nat /\ Prefix(n) <= Total(v)
  BY <1>6, <1>7, <1>8
<1>10. Total(v) \in Nat /\ Total(v) = Prefix(senders)
  <2>1. senders \in 0 .. senders
    BY <1>1
  <2> QED
    BY <1>6, <1>7, <1>9, <2>1
<1>11. out.len = Total(v)
  BY <1>1, <1>2, <1>10
<1>12. offset \in Nat
  BY <1>2, <1>9 DEF Copied
<1> QED
  BY <1>1, <1>2, <1>3, <1>5, <1>9, <1>10, <1>11, <1>12 DEF v

LEMMA NextBytes ==
  ASSUME NEW m \in Nat, NEW n \in Nat
  PROVE  LET x == [k \in 1 .. n |-> m + k]
         IN  /\ x \in Seq(Nat) /\ Len(x) = n
             /\ Numbered(m) \o x = Numbered(m + n)
             /\ m = 0 => x = Numbered(n)
<1> DEFINE x == [k \in 1 .. n |-> m + k]
           u == Numbered(m)
<1>1. x \in Seq(Nat) /\ Len(x) = n /\ \A k \in 1 .. n : x[k] = m + k
  OBVIOUS
<1>2. u \in Seq(Nat) /\ Len(u) = m /\ \A k \in 1 .. m : u[k] = k
  BY DEF Numbered
<1>3. m = 0 => x = Numbered(n)
  BY DEF Numbered
<1> HIDE DEF x, u
<1> DEFINE w == u \o x
<1>4. w \in Seq(Nat) /\ Len(w) = m + n
  BY <1>1, <1>2
<1>5. ASSUME NEW k \in 1 .. m + n PROVE w[k] = k
  <2>1. CASE k <= m
    BY <1>1, <1>2, <2>1
  <2>2. CASE k > m
    <3>1. w[k] = x[k - m] /\ k - m \in 1 .. n
      BY <1>1, <1>2, <2>2
    <3>2. x[k - m] = m + (k - m)
      BY <1>1, <3>1
    <3> QED
      BY <3>1, <3>2
  <2>3. k <= m \/ k > m
    OBVIOUS
  <2> HIDE DEF w
  <2> QED
    BY <2>1, <2>2, <2>3
<1> HIDE DEF w
<1>6. w = [k \in 1 .. m + n |-> k]
  <2>1. w = [k \in 1 .. m + n |-> w[k]]
    BY <1>4
  <2> QED
    BY <1>5, <2>1
<1> QED
  BY <1>1, <1>3, <1>6 DEF w, x, u, Numbered

LEMMA CopyMsg ==
  ASSUME BufInv, MsgInv, Copy
  PROVE  MsgInv'
<1> DEFINE sz == out.vals[i + 1]
           x == [k \in 1 .. sz |-> offset + k]
<1>1. /\ pc = "copy" /\ i < out.count /\ i' = i + 1
      /\ msgs' = Append(msgs, x) /\ offset' = offset + sz
      /\ UNCHANGED <<senders, out, pc>>
  BY DEF Copy, rest
<1>2. /\ senders \in Nat /\ i \in 0 .. senders /\ out.count = senders
      /\ Len(out.vals) = senders /\ out.vals \in Seq(Int)
      /\ Total(out.vals) \in Nat /\ out.len = Total(out.vals)
      /\ Copied(i) /\ offset \in Nat
      /\ \A n \in 0 .. senders : Prefix(n) \in Nat /\ Prefix(n) <= Total(out.vals)
      /\ \A j \in 1 .. senders : out.vals[j] \in Nat
  BY <1>1, CopyState
<1>3. i \in Nat /\ i + 1 \in 1 .. senders /\ i + 1 \in 0 .. senders /\ sz \in Nat /\ i + 1 <= Len(out.vals)
  BY <1>1, <1>2
<1>4. offset = Prefix(i) /\ Prefix(i + 1) = Prefix(i) + sz
  BY <1>2, <1>3, PrefixStep DEF Copied, Prefix
<1>5. /\ x \in Seq(Nat) /\ Len(x) = sz /\ Numbered(offset) \o x = Numbered(offset + sz)
      /\ offset = 0 => x = Numbered(sz)
  <2> HIDE DEF sz
  <2> QED
    BY <1>2, <1>3, NextBytes
<1> HIDE DEF x, sz
<1>6. /\ msgs \in Seq(Seq(Nat)) /\ Len(msgs) = i /\ FlattenSeq(msgs) = Numbered(offset)
      /\ \A j \in 1 .. i : Len(msgs[j]) = out.vals[j]
  BY <1>2 DEF Copied
<1>7. FlattenSeq(msgs') = Numbered(offset')
  <2>1. FlattenSeq(msgs') = IF msgs = <<>> THEN x ELSE FlattenSeq(msgs) \o x
    BY <1>1, <1>5, <1>6, FlattenAppend
  <2>2. CASE msgs = <<>>
    <3>1. i = 0
      BY <1>6, <2>2
    <3>2. offset = 0
      <4>1. Prefix(0) = 0
        BY <1>2, PrefixStep DEF Prefix
      <4> QED
        BY <1>4, <3>1, <4>1
    <3>3. offset' = sz
      BY <1>1, <1>3, <3>2
    <3> QED
      BY <1>5, <2>1, <2>2, <3>2, <3>3
  <2>3. CASE msgs # <<>>
    BY <1>1, <1>5, <1>6, <2>1, <2>3
  <2> QED
    BY <2>2, <2>3
<1>8. /\ msgs' \in Seq(Seq(Nat)) /\ Len(msgs') = i + 1 /\ msgs'[i + 1] = x
      /\ \A j \in 1 .. i : msgs'[j] = msgs[j]
  BY <1>1, <1>5, <1>6
<1>9. \A j \in 1 .. i' : Len(msgs'[j]) = out'.vals[j]
  <2>1. \A j \in 1 .. i + 1 : j \in 1 .. i \/ j = i + 1
    BY <1>3
  <2>2. Len(msgs'[i + 1]) = out.vals[i + 1]
    BY <1>5, <1>8 DEF sz
  <2>3. \A j \in 1 .. i : Len(msgs'[j]) = out.vals[j]
    BY <1>6, <1>8
  <2> QED
    BY <1>1, <2>1, <2>2, <2>3
<1>10. Prefix(i)' = offset'
  <2>1. Prefix(i)' = Prefix(i + 1)
    BY <1>1 DEF Prefix
  <2> QED
    BY <1>1, <1>4, <2>1
<1>11. Copied(i)'
  BY <1>1, <1>7, <1>8, <1>9, <1>10 DEF Copied, Prefix
<1>12. Len(FlattenSeq(msgs')) <= out'.len
  <2>1. offset' \in Nat /\ offset' <= out.len
    BY <1>1, <1>2, <1>3, <1>4
  <2>2. Len(Numbered(offset')) = offset'
    BY <2>1 DEF Numbered
  <2> QED
    BY <1>1, <1>7, <2>1, <2>2
<1>13. i' \in 0 .. senders' /\ pc' = "copy"
  BY <1>1, <1>3
<1>14. Announced(out'.vals) /\ (Total(out'.vals) > 0 => out'.data # None)
  BY <1>1 DEF MsgInv
<1> QED
  BY <1>11, <1>12, <1>13, <1>14 DEF MsgInv, MessagesAsSent

LEMMA CopyDoneMsg ==
  ASSUME BufInv, MsgInv, CopyDone
  PROVE  MsgInv'
<1>1. pc = "copy" /\ i = out.count /\ pc' = "protocol" /\ UNCHANGED <<senders, out, msgs>>
  BY DEF CopyDone, rest, loop
<1>2. /\ i = senders /\ Copied(i) /\ senders \in Nat
      /\ Total(out.vals) = Prefix(senders) /\ Total(out.vals) \in Nat /\ out.len = Total(out.vals)
  BY <1>1, CopyState
<1>3. /\ Len(msgs) = senders /\ (\A j \in 1 .. senders : Len(msgs[j]) = out.vals[j])
      /\ FlattenSeq(msgs) = [k \in 1 .. Total(out.vals) |-> k]
      /\ Total(out.vals) <= out.len
  BY <1>2 DEF Copied, Numbered
<1> QED
  BY <1>1, <1>3 DEF MsgInv, MessagesAsSent

LEMMA CopyThrowsMsg ==
  ASSUME CopyThrows
  PROVE  MsgInv'
<1>1. pc' = "returned" /\ rv' = "E_INSUFFICIENT"
  BY DEF CopyThrows, Fail
<1> QED
  BY <1>1, ReturnMsg

LEMMA MsgNext == BufInv /\ MsgInv /\ [Next]_vars => MsgInv'
<1> SUFFICES ASSUME BufInv, MsgInv, [Next]_vars PROVE MsgInv'
  OBVIOUS
<1>1. CASE Validate \/ ProtocolFails \/ ProtocolReturns \/ AllocOutput \/ Succeed
  BY <1>1, OutsideMsg
<1>2. CASE CallReceiveAll \/ CallReceive
  BY <1>2, ReceiveCallsMsg
<1>3. CASE receive
  BY <1>3, receiveMsg
<1>4. CASE BatchReply
  BY <1>4, BatchReplyMsg
<1>5. CASE Sum
  BY <1>5, SumMsg
<1>6. CASE SumDone
  BY <1>6, SumDoneMsg
<1>7. CASE Copy
  BY <1>7, CopyMsg
<1>8. CASE CopyDone
  BY <1>8, CopyDoneMsg
<1>9. CASE CopyThrows
  BY <1>9, CopyThrowsMsg
<1>10. CASE UNCHANGED vars
  <2>1. UNCHANGED <<pc, senders, out, i, total, offset, msgs, receives, rv>>
    BY <1>10 DEF vars
  <2>2. Copied(i)' = Copied(i) /\ Prefix(i)' = Prefix(i)
    BY <2>1 DEF Copied, Prefix
  <2>3. MessagesAsSent'
    BY <2>1 DEF MsgInv, MessagesAsSent
  <2> QED
    BY <2>1, <2>2, <2>3 DEF MsgInv
<1> QED
  BY <1>1, <1>2, <1>3, <1>4, <1>5, <1>6, <1>7, <1>8, <1>9, <1>10 DEF Next

(* c_transport_adapter_t::receive and receive_all: a receive that succeeds *)
(* returns the bytes of the buffer cut at the announced sizes, none beyond *)
(* its end, and a reply that fits together is never refused, for every     *)
(* INT_MAX, number of peers and list of sizes.                             *)
THEOREM MessagesHold == Spec => []MessagesAsSent
<1>1. MsgInv => MessagesAsSent
  BY DEF MsgInv
<1>2. Init => BufInv /\ MsgInv
  BY BufInit, MsgInit
<1>3. (BufInv /\ MsgInv) /\ [Next]_vars => (BufInv /\ MsgInv)'
  BY BufNext, MsgNext
<1> QED
  BY <1>1, <1>2, <1>3, PTL DEF Spec
=============================================================================
