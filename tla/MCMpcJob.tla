------------------------------ MODULE MCMpcJob ------------------------------
(* A small instance of MpcJob.                                             *)
EXTENDS MpcJob

(* Every kind of round, in an order in which senders run ahead of the      *)
(* receiver: three collections at party 0, a one-way message, a broadcast  *)
(* and another collection at party 0.                                      *)
MixedScript ==
  << send_message_all_to_one(0), send_message_all_to_one(0), send_message_all_to_one(0),
     send_receive_message(1, 2), plain_broadcast, send_message_all_to_one(0) >>
=============================================================================
