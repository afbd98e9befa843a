----------------------------- MODULE MCEcdsa2p -----------------------------
EXTENDS Ecdsa2p

MCBatches == {<<1>>, <<2>>, <<1, 2>>}

MCFaultyRho == {-195, 195}

(* Three refreshes with one error, then signing; a faulty P1 over two      *)
(* refreshes; a faulty P2 over a refresh and a signature.                  *)
MCSetups ==
  { [faulty |-> {}, errs |-> 1,
     kinds |-> <<{"dkg"}, {"refresh"}, {"refresh", "global_abort"}, {"refresh", "sign", "global_abort"}>>],
    [faulty |-> {1}, errs |-> 0, kinds |-> <<{"dkg"}, {"refresh"}, {"refresh"}>>],
    [faulty |-> {2}, errs |-> 0, kinds |-> <<{"dkg"}, {"refresh"}, {"sign", "global_abort"}>>] }

(* A refresh whose last message is lost, then a signature.                 *)
TornSetup ==
  { [faulty |-> {}, errs |-> 1, kinds |-> <<{"dkg"}, {"refresh"}, {"global_abort"}>>] }
=============================================================================
