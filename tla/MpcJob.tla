------------------------------- MODULE MpcJob -------------------------------
(***************************************************************************)
(* The messaging layer of a protocol run: job_mp_t over a blocking         *)
(* point-to-point transport (mpc_job.h, mpc_job.cpp).                      *)
(*                                                                         *)
(* Every protocol of the library is a straight line of messaging calls;    *)
(* each call is a group_message(to_set, from_set): send one message to     *)
(* every peer of to_set, in ascending index order, then collect one        *)
(* message from every peer of from_set, then unpack them into the slots    *)
(* of the message containers.  Messages carry no round number: that the    *)
(* message a party unpacks in round r is the one its peer packed for       *)
(* round r follows only from the order of the calls and of the channels,   *)
(* and is what this module states.  Here a message is tagged with sender,  *)
(* receiver and round so that it can be stated at all; no action reads the *)
(* tag.                                                                    *)
(***************************************************************************)
EXTENDS Integers, Sequences, FiniteSets

CONSTANTS
  N,        \* number of parties; party indices are 0..N-1
  Script,   \* the messaging calls of the protocol, one [to, from] per round
  Cap,      \* messages a channel holds before send blocks
  MaxErr    \* bound: transport errors that happen by themselves

Party == 0 .. N - 1
Round == DOMAIN Script

(* What a round may look like: to[p] and from[p] are the sets p passes to  *)
(* group_message.  They need not exclude p itself; both loops remove it.   *)
RoundDescr == [to : [Party -> SUBSET Party], from : [Party -> SUBSET Party]]

(* job_mp_t asserts 2..64 parties.                                         *)
ASSUME PartyCount == N \in 2 .. 64

ASSUME ScriptType == Script \in Seq(RoundDescr)

(* The parties run the same protocol: q sends to p in a round exactly when *)
(* p waits for q in it.                                                    *)
ASSUME ScriptMatched ==
  \A r \in Round : \A p, q \in Party :
    p # q => (p \in Script[r].to[q] <=> q \in Script[r].from[p])

(* A blocking transport needs room for a message that the receiver has not *)
(* asked for yet.                                                          *)
ASSUME CapType == Cap \in Nat \ {0}

ASSUME MaxErrType == MaxErr \in Nat

VARIABLES
  round,    \* round[p]: index of the messaging call p is in
  phase,    \* phase[p]: where in that call p is, or how p's run ended
  next,     \* next[p]: loop variable i of send_to_parties
  outs,     \* outs[p]: the vector receive_all fills, indexed from 1
  inbox,    \* inbox[p][q]: what unpack_msgs stored for sender q last
  chan,     \* chan[q][p]: messages under way from q to p, oldest first
  errs      \* transport errors so far

vars == <<round, phase, next, outs, inbox, chan, errs>>

-----------------------------------------------------------------------------
(* The three shapes of a round.                                            *)

plain_broadcast ==
  [to |-> [p \in Party |-> Party], from |-> [p \in Party |-> Party]]

send_message_all_to_one(t) ==
  [to   |-> [p \in Party |-> IF p = t THEN {} ELSE {t}],
   from |-> [p \in Party |-> IF p = t THEN Party ELSE {}]]

send_receive_message(from, to) ==
  [to   |-> [p \in Party |-> IF p = from THEN {to} ELSE {}],
   from |-> [p \in Party |-> IF p = to THEN {from} ELSE {}]]

-----------------------------------------------------------------------------
Msg(q, p, r) == [src |-> q, dst |-> p, rnd |-> r]

Message == [src : Party, dst : Party, rnd : Round]

NoMsg == [src |-> -1, dst |-> -1, rnd |-> 0]

(* set.remove(party_index) of both loops.                                  *)
Targets(p) == Script[round[p]].to[p] \ {p}
Senders(p) == Script[round[p]].from[p] \ {p}

(* The position of i in peer_roles, the ascending list of the members of S.*)
RoleIdx(S, i) == Cardinality({j \in S : j <= i})

Running(p) == phase[p] \in {"send", "recv"}

Init ==
  /\ round = [p \in Party |-> 1]
  /\ phase = [p \in Party |-> IF Script = <<>> THEN "done" ELSE "send"]
  /\ next = [p \in Party |-> 0]
  /\ outs = [p \in Party |-> [k \in 1 .. N |-> NoMsg]]
  /\ inbox = [p \in Party |-> [q \in Party |-> NoMsg]]
  /\ chan = [q \in Party |-> [p \in Party |-> <<>>]]
  /\ errs = 0

(* Seeded faults of the send loop: an index visited twice; a bound of      *)
(* n_parties - 1.                                                          *)
NextIndex_Again(i) == i

LoopDone_Early(p) == \A i \in Targets(p) : i < next[p] \/ i = N - 1

(* for (i = 0; i < n_parties; i++): the next index, and the loop's end.    *)
NextIndex(i) == i + 1

LoopDone(p) == \A i \in Targets(p) : i < next[p]

(* One iteration of send_to_parties that is not skipped by `continue`;     *)
(* send_impl blocks while the channel is full.                             *)
SendOne(p) ==
  /\ phase[p] = "send"
  /\ \E i \in Targets(p) :
       /\ i >= next[p]
       /\ \A j \in Targets(p) : j >= next[p] => i <= j
       /\ Len(chan[p][i]) < Cap
       /\ chan' = [chan EXCEPT ![p][i] = Append(@, Msg(p, i, round[p]))]
       /\ next' = [next EXCEPT ![p] = NextIndex(i)]
  /\ UNCHANGED <<round, phase, outs, inbox, errs>>

(* send_to_parties returned: group_message turns to receiving.             *)
StartReceive(p) ==
  /\ phase[p] = "send"
  /\ LoopDone(p)
  /\ phase' = [phase EXCEPT ![p] = "recv"]
  /\ UNCHANGED <<round, next, outs, inbox, chan, errs>>

(* receive_all takes the oldest message of a sender it still waits for; it *)
(* may serve the senders in any order.                                     *)
ReceiveOne(p, q) ==
  /\ phase[p] = "recv"
  /\ q \in Senders(p)
  /\ outs[p][RoleIdx(Senders(p), q)] = NoMsg
  /\ chan[q][p] # <<>>
  /\ outs' = [outs EXCEPT ![p][RoleIdx(Senders(p), q)] = Head(chan[q][p])]
  /\ chan' = [chan EXCEPT ![q][p] = Tail(@)]
  /\ UNCHANGED <<round, phase, next, inbox, errs>>

(* Seeded faults of receiving: return when some sender was heard; read     *)
(* outs at the party index.                                                *)
Collected_Any(p) ==
  \/ Senders(p) = {}
  \/ \E q \in Senders(p) : outs[p][RoleIdx(Senders(p), q)] # NoMsg

Spread_Raw(p) ==
  [q \in Party |-> IF q \in Senders(p) THEN outs[p][q + 1] ELSE NoMsg]

(* receive_all has one message of every sender.                            *)
Collected(p) == \A q \in Senders(p) : outs[p][RoleIdx(Senders(p), q)] # NoMsg

(* v[i] = outs[n++] for the senders i in ascending order.                  *)
Spread(p) ==
  [q \in Party |-> IF q \in Senders(p) THEN outs[p][RoleIdx(Senders(p), q)] ELSE NoMsg]

(* The protocol's next statement after round r.                            *)
PhaseAfter(r) == IF r = Len(Script) THEN "done" ELSE "send"

(* receive_all returned: receive_from_parties spreads outs over the        *)
(* senders' indices, unpack_msgs stores the parts, and the protocol goes   *)
(* on to its next messaging call.  outs is a local vector: it is gone when *)
(* the call returns.                                                       *)
Unpack(p) ==
  /\ phase[p] = "recv"
  /\ Collected(p)
  /\ inbox' = [inbox EXCEPT ![p] = Spread(p)]
  /\ round' = [round EXCEPT ![p] = @ + 1]
  /\ phase' = [phase EXCEPT ![p] = PhaseAfter(round[p])]
  /\ next' = [next EXCEPT ![p] = 0]
  /\ outs' = [outs EXCEPT ![p] = [k \in 1 .. N |-> NoMsg]]
  /\ UNCHANGED <<chan, errs>>

(* send, receive or receive_all reports an error: the call, and with it    *)
(* the protocol, returns at once.                                          *)
TransportError(p) ==
  /\ Running(p)
  /\ errs < MaxErr
  /\ errs' = errs + 1
  /\ phase' = [phase EXCEPT ![p] = "failed"]
  /\ UNCHANGED <<round, next, outs, inbox, chan>>

(* The transport reports to p that the peer it is blocked on has stopped.  *)
PeerGone(p) ==
  /\ Running(p)
  /\ \E q \in Party :
       /\ phase[q] = "failed"
       /\ \/ /\ phase[p] = "recv"
             /\ q \in Senders(p)
             /\ outs[p][RoleIdx(Senders(p), q)] = NoMsg
             /\ chan[q][p] = <<>>
          \/ /\ phase[p] = "send"
             /\ q \in Targets(p)
             /\ q >= next[p]
             /\ \A j \in Targets(p) : j >= next[p] => q <= j
             /\ Len(chan[p][q]) = Cap
  /\ phase' = [phase EXCEPT ![p] = "failed"]
  /\ UNCHANGED <<round, next, outs, inbox, chan, errs>>

Finished == \A p \in Party : ~ Running(p)

(* Every party's call returned: nothing is left to do.                     *)
AllReturned == Finished /\ UNCHANGED vars

PartyStep(p) ==
  \/ SendOne(p)
  \/ StartReceive(p)
  \/ \E q \in Party : ReceiveOne(p, q)
  \/ Unpack(p)
  \/ PeerGone(p)

Next ==
  \/ \E p \in Party : PartyStep(p) \/ TransportError(p)
  \/ AllReturned

Spec == Init /\ [][Next]_vars

(* Each party runs in a thread or process of its own, and the transport    *)
(* delivers what was sent: a step that stays possible is taken.            *)
FairSpec == Spec /\ \A p \in Party : WF_vars(PartyStep(p))

-----------------------------------------------------------------------------
(* Every variable has the shape the code gives it; in particular the send  *)
(* loop index stays within the party range and no round is entered that    *)
(* the protocol does not have.                                             *)
TypeOK ==
  /\ round \in [Party -> 1 .. Len(Script) + 1]
  /\ phase \in [Party -> {"send", "recv", "done", "failed"}]
  /\ next \in [Party -> 0 .. N]
  /\ outs \in [Party -> [1 .. N -> Message \union {NoMsg}]]
  /\ inbox \in [Party -> [Party -> Message \union {NoMsg}]]
  /\ chan \in [Party -> [Party -> Seq(Message)]]
  /\ errs \in Nat
  /\ \A p \in Party : Running(p) => round[p] \in Round

(* q handed its round r message for p to the transport.                    *)
SentTo(q, p, r) == round[q] > r \/ (round[q] = r /\ next[q] > p)

(* p took q's round r message out of the channel.                          *)
Taken(p, q, r) ==
  \/ round[p] > r
  \/ /\ round[p] = r
     /\ outs[p][RoleIdx(Script[r].from[p] \ {p}, q)] # NoMsg

(* What a party unpacks in a round is what the named peer packed for it in *)
(* that very round, in the slot of that peer, and the slots of parties     *)
(* that send nothing stay empty: the compaction to peer_roles and the      *)
(* spreading of outs (receive_from_parties) are inverse to each other, and *)
(* no message of an earlier or later call slips in.                        *)
RoundAligned ==
  \A p, q \in Party :
    inbox[p][q] = IF round[p] > 1 /\ q \in Script[round[p] - 1].from[p] \ {p}
                  THEN Msg(q, p, round[p] - 1)
                  ELSE NoMsg

(* A party leaves a round only after every peer it had to hear from sent   *)
(* its message of that round: nobody completes a call by itself, whatever  *)
(* transport errors stop the others.                                       *)
NobodyRunsAhead ==
  \A p, q \in Party : \A r \in Round :
    (q \in Script[r].from[p] \ {p} /\ round[p] > r) => SentTo(q, p, r)

(* The channel from q to p holds exactly the messages sent and not yet taken, in the     *)
(* order of the rounds: none is lost, duplicated or overtaken when a call  *)
(* fails half-way through its send loop.                                   *)
ChannelOK(q, p) ==
  /\ \A k \in 1 .. Len(chan[q][p]) :
       /\ chan[q][p][k] = Msg(q, p, chan[q][p][k].rnd)
       /\ \A l \in 1 .. k - 1 : chan[q][p][l].rnd < chan[q][p][k].rnd
  /\ \A r \in Round :
       (\E k \in 1 .. Len(chan[q][p]) : chan[q][p][k].rnd = r)
         <=> (p \in Script[r].to[q] \ {q} /\ SentTo(q, p, r) /\ ~ Taken(p, q, r))

InFlight == \A q, p \in Party : ChannelOK(q, p)

(* The parts that make the above inductive.  While p collects, a position  *)
(* of outs is empty or holds its sender's message of p's round, which that *)
(* sender has sent; before p collects, all positions are empty.            *)
OutsAligned ==
  /\ \A p \in Party : phase[p] = "send" => \A k \in 1 .. N : outs[p][k] = NoMsg
  /\ \A p, q \in Party :
       (round[p] \in Round /\ q \in Script[round[p]].from[p] \ {p}
          /\ outs[p][RoleIdx(Script[round[p]].from[p] \ {p}, q)] # NoMsg)
       => /\ outs[p][RoleIdx(Script[round[p]].from[p] \ {p}, q)] = Msg(q, p, round[p])
          /\ SentTo(q, p, round[p])

(* A party that collects has sent all its messages of the round.           *)
SendLoopDone ==
  \A p \in Party : phase[p] = "recv" =>
    \A i \in Script[round[p]].to[p] \ {p} : i < next[p]

(* The inductive invariant.                                                *)
IndInv ==
  /\ TypeOK
  /\ InFlight
  /\ OutsAligned
  /\ SendLoopDone
  /\ NobodyRunsAhead
  /\ RoundAligned

(* A broadcast is a barrier: no channel ever holds a message of an earlier *)
(* round together with one of a later round, so a party cannot run ahead   *)
(* over a broadcast of which a peer still has older messages to take.      *)
BroadcastBarrier ==
  \A r \in Round : Script[r] = plain_broadcast =>
    \A q, p \in Party : \A k, l \in 1 .. Len(chan[q][p]) :
      chan[q][p][k].rnd < r => chan[q][p][l].rnd <= r

AllBroadcast == \A r \in Round : Script[r] = plain_broadcast

(* In a protocol made of broadcasts only, no party is more than one round  *)
(* ahead of another, and a party that failed holds everyone else back      *)
(* within one round of it.                                                 *)
LockStep ==
  AllBroadcast => \A p, q \in Party : round[p] <= round[q] + 1

(* In such a protocol a transport never has to hold more than two messages *)
(* of a pair of parties: the one of the receiver's round and the next.     *)
QueueBound ==
  AllBroadcast => \A p, q \in Party : Len(chan[p][q]) <= 2

(* Every party's protocol call returns: nobody waits for ever, even when   *)
(* errors stop some of the parties in the middle of a send loop; and if no *)
(* error strikes, every call returns because it completed.                 *)
Termination ==
  <>(Finished /\ (errs = 0 => \A p \in Party : phase[p] = "done"))
=============================================================================
