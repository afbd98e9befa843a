-------------------------------- MODULE CApi --------------------------------
(* The C boundary of a protocol call: the checks of the job, the adapter   *)
(* c_transport_adapter_t that turns what an integrator's callbacks hand    *)
(* over into messages, and the allocation of the call's outputs, with      *)
(* errors, failing allocations and exceptions at every place where the     *)
(* code can meet them.  The question is who owns which buffer.             *)
(*                                                                         *)
(* Protocols themselves are reduced to what this layer sees of them: they  *)
(* receive, from one peer or from several, and then fail, throw or return  *)
(* buffers.  The k-th byte of a callback's data buffer is the number k.    *)
EXTENDS Integers, Sequences, FiniteSets, FiniteSetsExt, SequencesExt

CONSTANTS
  IntMax,       \* stands for INT_MAX
  ShortSize,    \* buf_t::short_size: a longer message needs an allocation
  MaxNames,     \* the 64 parties a job may name
  MaxReceives,  \* bound on the receives of one call
  Jobs,         \* the jobs that applications call with
  None

ASSUME BoundsAssumption ==
  /\ IntMax \in Nat \ {0} /\ ShortSize \in 0 .. IntMax
  /\ MaxNames \in Nat /\ MaxReceives \in Nat

VARIABLES
  job,          \* the job, the function called and whether sid_out is given
  pc,           \* where the call is
  senders,      \* number of senders of the current receive
  out,          \* what the callback returned
  i, total, offset,  \* the local variables of the loops
  msgs,         \* the messages of the last receive, None after an error
  receives,     \* receives so far
  allocated,    \* buffers allocated: by the last callback, and for outputs
  freed,        \* who freed each of them, in order
  ptr,          \* the output pointers of the call
  next,         \* the output to allocate next
  unwound,      \* an exception left the adapter while it held buffers
  rv            \* the result of the call

vars == <<job, pc, senders, out, i, total, offset, msgs, receives, allocated, freed, ptr,
          next, unwound, rv>>

Lent == {"data", "sizes"}

(* Each function's outputs; public_shares is a cmems_t and has two parts.  *)
Outputs(f) ==
  CASE f = "tdh2_dkg_additive" -> << <<"public_key">>, <<"share_sizes", "public_shares">>,
                                     <<"private_share">>, <<"sid">> >>
    [] f = "ecdsa_mp_refresh_additive" ->
         IF job.sid_out THEN << <<"key_blob">>, <<"sid">> >> ELSE << <<"key_blob">> >>
    [] f = "ecdsa_2p_sign" -> IF job.sid_out THEN << <<"sig">>, <<"sid">> >> ELSE << <<"sig">> >>
    [] f = "ecdsa_mp_sign_additive" -> << <<"sig">> >>
OutBlock == {"public_key", "share_sizes", "public_shares", "private_share", "sid", "key_blob", "sig"}
Block == Lent \union OutBlock

(* The functions modelled; a null pointer is no block, a job names its     *)
(* parties in a list, empty or not.                                        *)
ASSUME JobTypes ==
  /\ None \notin Block
  /\ \A j \in Jobs :
       /\ j.fn \in {"tdh2_dkg_additive", "ecdsa_mp_refresh_additive", "ecdsa_2p_sign",
                    "ecdsa_mp_sign_additive"}
       /\ j.names \in Seq(Range(j.names))

TwoParty == job.fn = "ecdsa_2p_sign"

(***************************************************************************)
(* Ownership.                                                              *)
(***************************************************************************)
(* transport_free: the transport's own function when it has one.           *)
Freer == IF job.free THEN "callback" ELSE "cbmpc_free"

(* The frees of a list of pointers, null ones being skipped.               *)
Freed(ptrs, by) ==
  [b \in Block |-> freed[b] \o [k \in 1 .. Cardinality({j \in DOMAIN ptrs : ptrs[j] = b}) |-> by]]
transport_free(ptrs) == freed' = Freed(ptrs, Freer)

(* The call returns err, its output pointers reset: they were at its start,*)
(* and are again by tdh2_dkg_out_guard_t::cleanup, the r_sid branches and  *)
(* the handlers.                                                           *)
Fail(err) ==
  /\ rv' = err /\ pc' = "returned"
  /\ ptr' = [b \in OutBlock |-> None]

NothingReceived ==
  [rv |-> 0, count |-> 0, data |-> None, sizes |-> None, vals |-> <<>>, len |-> 0]

Init ==
  /\ job \in Jobs
  /\ pc = "called" /\ senders = 0 /\ out = NothingReceived
  /\ i = 0 /\ total = 0 /\ offset = 0 /\ msgs = None /\ receives = 0
  /\ allocated = {} /\ freed = [b \in Block |-> <<>>]
  /\ ptr = [b \in OutBlock |-> None] /\ next = 1
  /\ unwound = FALSE /\ rv = "none"

locals == <<senders, out, i, total, offset, msgs, receives, next, unwound>>

(***************************************************************************)
(* Arguments.                                                              *)
(***************************************************************************)
(* job.receive: the transport has send and receive.                        *)
NameMissing == \E j \in DOMAIN job.names : job.names[j] \in {None, "empty"}
NamesRepeat == Cardinality(Range(job.names)) < Len(job.names)

validate_2pc_job ==
  IF NameMissing \/ NamesRepeat \/ ~ job.receive THEN "E_BADARG" ELSE "SUCCESS"

validate_mp_job ==
  CASE Len(job.names) < 2 -> "E_BADARG"
    [] Len(job.names) > MaxNames -> "E_RANGE"
    [] OTHER -> IF \/ job.self \notin 0 .. Len(job.names) - 1
                   \/ NameMissing \/ NamesRepeat
                   \/ ~ job.receive \/ ~ job.receive_all
                THEN "E_BADARG" ELSE "SUCCESS"

(* A key blob handed in: its size and whether its pointer is not null.     *)
validate_cmem(m) == IF m.size < 0 \/ (m.size > 0 /\ ~ m.data) THEN "E_BADARG" ELSE "SUCCESS"

to_cpp_party == IF job.self \in {0, 1} THEN "SUCCESS" ELSE "E_BADARG"

(* The checks of a function, in its order: the first error is returned.    *)
(* Left out: more of the same (validate_cmem of msg_hash and sid_in,       *)
(* to_cpp_curve) and null output pointers, before any buffer is touched.   *)
Checks ==
  CASE TwoParty -> <<validate_2pc_job, validate_cmem(job.key_blob), to_cpp_party>>
    [] job.fn = "tdh2_dkg_additive" -> <<validate_mp_job>>
    [] OTHER -> <<validate_mp_job, validate_cmem(job.key_blob)>>

Validate ==
  /\ pc = "called"
  /\ LET errors == SelectSeq(Checks, LAMBDA c : c # "SUCCESS")
         v == IF errors = <<>> THEN "SUCCESS" ELSE errors[1]
     IN  \/ v # "SUCCESS" /\ Fail(v)
         \/ v = "SUCCESS" /\ pc' = "protocol" /\ UNCHANGED <<rv, ptr>>
  /\ UNCHANGED <<job, allocated, freed, locals>>

(***************************************************************************)
(* The integrator's callbacks.  With an error they may leave any pointers, *)
(* the same one twice included; without one, a data buffer holds what the  *)
(* sizes announce whenever an int can announce it.                         *)
(***************************************************************************)
Total(vals) == SumFunction(vals)
Announced(vals) == (\A j \in DOMAIN vals : vals[j] >= 0) /\ Total(vals) <= IntMax

ErrorReplies ==
  { [NothingReceived EXCEPT !.rv = 1, !.data = d, !.sizes = s] :
      d \in {None, "data"}, s \in {None, "sizes"} }
  \union { [NothingReceived EXCEPT !.rv = 1, !.data = "data", !.sizes = "data"] }

Reply(count, vals, d, s) ==
  [rv |-> 0, count |-> count, data |-> d, sizes |-> s, vals |-> vals,
   len |-> IF d = None THEN 0 ELSE IF Announced(vals) THEN Total(vals) ELSE IntMax]

Sizes == -1 .. IntMax

(* Without an error the two buffers are distinct: job.h asks for both to be*)
(* allocated, and receive_all frees each.                                  *)
BatchReplies(n) ==
  ErrorReplies
  \union { Reply(n, vals, d, "sizes") : vals \in [1 .. n -> Sizes], d \in {None, "data"} }
  \union { Reply(c, <<>>, d, s) : c \in -1 .. n + 1, d \in {None, "data"}, s \in {None, "sizes"} }

SingleReplies ==
  { r \in ErrorReplies : r.sizes = None }
  \union { Reply(1, <<sz>>, d, None) : sz \in Sizes, d \in {None, "data"} }

(* A batch whose count is n and whose sizes are there has n of them.       *)
SizesFit(n, r) == (r.rv = 0 /\ r.count = n /\ r.sizes # None) => Len(r.vals) = n

HandOver(r) ==
  /\ out' = r
  /\ allocated' = (allocated \ Lent) \union ({r.data, r.sizes} \ {None})
  /\ freed' = [b \in Block |-> IF b \in Lent THEN <<>> ELSE freed[b]]
  /\ i' = 0 /\ total' = 0 /\ offset' = 0 /\ msgs' = None
  /\ receives' = receives + 1
  /\ UNCHANGED <<job, ptr, next, unwound, rv>>

(* receive_all is called for any set of peers, the empty one included.     *)
CallReceiveAll ==
  /\ pc = "protocol" /\ ~ TwoParty /\ receives < MaxReceives
  /\ \E n \in 0 .. Len(job.names) - 1 :
       \E r \in {x \in BatchReplies(n) : SizesFit(n, x)} :
         HandOver(r) /\ senders' = n /\ pc' = "batch"

CallReceive ==
  /\ pc = "protocol" /\ receives < MaxReceives
  /\ \E r \in SingleReplies : HandOver(r) /\ senders' = 1 /\ pc' = "single"

(***************************************************************************)
(* The adapter.                                                            *)
(***************************************************************************)
rest == <<job, senders, out, receives, allocated, next>>
loop == <<i, total, offset, msgs>>

(* It frees the listed pointers and returns the error through the          *)
(* protocol.                                                               *)
Refuse(ptrs, err) ==
  /\ transport_free(ptrs) /\ Fail(err)
  /\ UNCHANGED <<rest, loop, unwound>>

(* Seeded fault: both pointers are freed, whether or not they differ.      *)
CleanupAfterError_Both == <<out.data, out.sizes>>

CleanupAfterError ==
  IF out.sizes = out.data THEN <<out.data>> ELSE <<out.data, out.sizes>>

receive ==
  /\ pc = "single"
  /\ LET sz == out.vals[1]
     IN  \/ out.rv # 0 /\ Refuse(<<out.data>>, "E_NET")
         \/ out.rv = 0 /\ (sz < 0 \/ (sz > 0 /\ out.data = None)) /\ Refuse(<<out.data>>, "E_FORMAT")
         \/ /\ out.rv = 0 /\ sz >= 0 /\ (sz > 0 => out.data # None)
            /\ msgs' = << [k \in 1 .. sz |-> k] >>
            /\ transport_free(<<out.data>>)
            /\ pc' = "protocol"
            /\ UNCHANGED <<rest, i, total, offset, ptr, unwound, rv>>

BatchReply ==
  /\ pc = "batch"
  /\ \/ out.rv # 0 /\ Refuse(CleanupAfterError, "E_NET")
     \/ out.rv = 0 /\ out.count # senders /\ Refuse(<<out.data, out.sizes>>, "E_FORMAT")
     \/ out.rv = 0 /\ out.count = senders /\ out.count > 0 /\ out.sizes = None
        /\ Refuse(<<out.data>>, "E_FORMAT")
     \/ /\ out.rv = 0 /\ out.count = senders /\ (out.count > 0 => out.sizes # None)
        /\ pc' = "sum"
        /\ UNCHANGED <<rest, loop, freed, ptr, unwound, rv>>

(* int arithmetic.                                                         *)
Wrap(x) == ((x + IntMax + 1) % (2 * (IntMax + 1))) - (IntMax + 1)

(* Seeded fault: the sum is compared with INT_MAX after it was taken.      *)
Fits_AfterAdding(sz) == Wrap(total + sz) <= IntMax

Fits(sz) == sz <= IntMax - total

Sum ==
  /\ pc = "sum" /\ i < out.count
  /\ LET sz == out.vals[i + 1]
     IN  \/ sz < 0 /\ Refuse(<<out.data, out.sizes>>, "E_FORMAT")
         \/ sz >= 0 /\ ~ Fits(sz) /\ Refuse(<<out.data, out.sizes>>, "E_RANGE")
         \/ /\ sz >= 0 /\ Fits(sz)
            /\ total' = Wrap(total + sz) /\ i' = i + 1
            /\ UNCHANGED <<rest, pc, offset, msgs, freed, ptr, unwound, rv>>

SumDone ==
  /\ pc = "sum" /\ i = out.count
  /\ \/ total > 0 /\ out.data = None /\ Refuse(<<out.sizes>>, "E_FORMAT")
     \/ /\ total > 0 => out.data # None
        /\ msgs' = <<>> /\ i' = 0 /\ pc' = "copy"
        /\ UNCHANGED <<rest, total, offset, freed, ptr, unwound, rv>>

Copy ==
  /\ pc = "copy" /\ i < out.count
  /\ LET sz == out.vals[i + 1]
     IN  /\ msgs' = Append(msgs, [k \in 1 .. sz |-> offset + k])
         /\ offset' = offset + sz
  /\ i' = i + 1
  /\ UNCHANGED <<rest, pc, total, freed, ptr, unwound, rv>>

CopyDone ==
  /\ pc = "copy" /\ i = out.count
  /\ transport_free(<<out.data, out.sizes>>)
  /\ pc' = "protocol"
  /\ UNCHANGED <<rest, loop, ptr, unwound, rv>>

(* std::bad_alloc from a message that buf_t cannot keep inline, or from    *)
(* the vector of messages, unwinds through the adapter to the handler of   *)
(* the C function.                                                         *)
CopyThrows ==
  /\ \/ pc = "single" /\ out.rv = 0 /\ out.vals[1] > ShortSize /\ out.data # None
     \/ pc = "copy" /\ i < out.count /\ (i = 0 \/ out.vals[i + 1] > ShortSize)
  /\ unwound' = TRUE
  /\ Fail("E_INSUFFICIENT")
  /\ UNCHANGED <<rest, loop, freed>>

(***************************************************************************)
(* The protocol's result and the outputs.                                  *)
(***************************************************************************)
ProtocolFails ==
  /\ pc = "protocol"
  /\ \E err \in {"E_CRYPTO", "E_INSUFFICIENT", "E_GENERAL"} : Fail(err)
  /\ UNCHANGED <<job, allocated, freed, locals>>

ProtocolReturns ==
  /\ pc = "protocol" /\ pc' = "alloc"
  /\ UNCHANGED <<job, allocated, freed, ptr, rv, locals>>

(* A signature is empty at a party that is not its receiver.               *)
MayBeEmpty(o) == o = <<"sig">> /\ ~ TwoParty

Pointers == SetToSeq({ptr[b] : b \in OutBlock} \ {None})

(* An allocation failed after those in taken, which belong to the same     *)
(* output and are freed by alloc_cmems_from_bufs; the function frees the   *)
(* outputs that were complete.                                             *)
Abandon(taken) ==
  /\ allocated' = allocated \union Range(taken)
  /\ freed' = Freed(taken \o Pointers, "cbmpc_free")
  /\ Fail("E_INSUFFICIENT")

(* alloc_cmem_from_buf, alloc_cmems_from_bufs.                             *)
AllocOutput ==
  /\ pc = "alloc" /\ next <= Len(Outputs(job.fn))
  /\ LET o == Outputs(job.fn)[next]
     IN  \/ /\ allocated' = allocated \union Range(o)
            /\ ptr' = [b \in OutBlock |-> IF b \in Range(o) THEN b ELSE ptr[b]]
            /\ next' = next + 1
            /\ UNCHANGED <<pc, freed, rv>>
         \/ MayBeEmpty(o) /\ next' = next + 1 /\ UNCHANGED <<pc, allocated, freed, ptr, rv>>
         \/ \E k \in 0 .. Len(o) - 1 : Abandon(SubSeq(o, 1, k)) /\ UNCHANGED next
  /\ UNCHANGED <<job, senders, out, loop, receives, unwound>>

Succeed ==
  /\ pc = "alloc" /\ next > Len(Outputs(job.fn))
  /\ pc' = "returned" /\ rv' = "SUCCESS"
  /\ UNCHANGED <<job, allocated, freed, ptr, locals>>

Next ==
  \/ Validate \/ CallReceiveAll \/ CallReceive
  \/ receive \/ BatchReply \/ Sum \/ SumDone \/ Copy \/ CopyDone \/ CopyThrows
  \/ ProtocolFails \/ ProtocolReturns \/ AllocOutput \/ Succeed

Spec == Init /\ [][Next]_vars

(***************************************************************************)
(* Properties.                                                             *)
(***************************************************************************)
(* No buffer is ever freed twice, by the wrong function, or while it is    *)
(* still read.  Whatever a callback handed over has been freed when the    *)
(* adapter is left, unless an exception left it, and what the library      *)
(* allocated for the outputs belongs to the caller after SUCCESS, whole,   *)
(* and is freed with every output pointer null after an error.             *)
BuffersFreedOnce ==
  /\ \A b \in Block :
       freed[b] \in {<<>>, <<IF b \in Lent THEN Freer ELSE "cbmpc_free">>}
       /\ (freed[b] # <<>> => b \in allocated)
  /\ pc \in {"sum", "copy"} => \A b \in Lent : freed[b] = <<>>
  /\ (pc \in {"protocol", "alloc", "returned"} /\ ~ unwound) =>
       \A b \in Lent \cap allocated : freed[b] # <<>>
  /\ pc = "returned" =>
       \A b \in OutBlock \cap allocated :
         IF rv = "SUCCESS" THEN freed[b] = <<>> /\ ptr[b] = b
                           ELSE freed[b] # <<>> /\ ptr[b] = None

(* A receive that succeeds returns one message per sender, of the sizes    *)
(* announced, which together are the bytes of the data buffer from its     *)
(* start, none read beyond its end; and a reply in which sizes and         *)
(* pointers fit together is never refused.                                 *)
MessagesAsSent ==
  /\ pc = "copy" => Len(FlattenSeq(msgs)) <= out.len
  /\ (pc = "protocol" /\ msgs # None) =>
       /\ Len(msgs) = senders
       /\ \A j \in 1 .. senders : Len(msgs[j]) = out.vals[j]
       /\ FlattenSeq(msgs) = [k \in 1 .. Total(out.vals) |-> k]
       /\ Total(out.vals) <= out.len
  /\ (pc = "returned" /\ rv \in {"E_FORMAT", "E_RANGE"} /\ receives > 0) =>
       ~ /\ out.rv = 0 /\ out.count = senders /\ Announced(out.vals)
         /\ (Total(out.vals) > 0 => out.data # None)
         /\ (Len(out.vals) = senders)
=============================================================================
