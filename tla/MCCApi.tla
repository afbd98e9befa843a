------------------------------- MODULE MCCApi -------------------------------
EXTENDS CApi

Job(f, names, self, all, free, sid) ==
  [fn |-> f, names |-> names, self |-> self, receive |-> TRUE, receive_all |-> all,
   free |-> free, sid_out |-> sid, key_blob |-> [size |-> 1, data |-> TRUE]]

Functions4 == {"tdh2_dkg_additive", "ecdsa_mp_refresh_additive", "ecdsa_mp_sign_additive", "ecdsa_2p_sign"}
TwoNames == <<"a", "b">>
ThreeNames == <<"a", "b", "c">>

(* Good jobs for each function, and each way for a job to be refused.      *)
MCJobs ==
  { Job(f, TwoNames, 1, TRUE, free, sid) : f \in Functions4, free \in BOOLEAN, sid \in BOOLEAN }
  \union { Job("ecdsa_mp_refresh_additive", ThreeNames, 0, TRUE, free, TRUE) : free \in BOOLEAN }
  \union { Job("ecdsa_2p_sign", TwoNames, 0, FALSE, FALSE, TRUE) }
  \union { Job("ecdsa_mp_sign_additive", names, self, all, TRUE, FALSE) :
             names \in { <<"a">>, <<"a", "a">>, <<"a", None>>, <<"a", "empty">>, <<"a", "b", "c", "d">>, TwoNames },
             self \in {-1, 0, 2}, all \in BOOLEAN }
  \union { [Job(f, TwoNames, 0, TRUE, TRUE, FALSE) EXCEPT !.receive = FALSE] : f \in Functions4 }
  \union { [Job(f, TwoNames, 2, TRUE, TRUE, FALSE) EXCEPT !.key_blob = blob] :
             f \in Functions4, blob \in {[size |-> -1, data |-> TRUE], [size |-> 1, data |-> FALSE], [size |-> 0, data |-> FALSE]} }
=============================================================================
