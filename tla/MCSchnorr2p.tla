---------------------------- MODULE MCSchnorr2p ----------------------------
EXTENDS Schnorr2p

(* Nonces that add up to points of both parities, never to infinity.       *)
MCNonces == << {<<1, 2>>}, {<<1, 1>>, <<3, 2>>} >>

(* Never 0, and different for different messages.                          *)
MCChallenge == [P \in 0 .. 4 |-> [m \in 0 .. 2 |-> 1 + ((P + m) % 4)]]

Asked(variant, msgs) == [curve |-> "secp256k1", variant |-> variant, msgs |-> msgs]
Edwards(variant, msgs) == [curve |-> "ed25519", variant |-> variant, msgs |-> msgs]

(* Alike; with other messages, another number of them, another variant; a  *)
(* message of the wrong length; nothing to sign; the wrong curve.          *)
MCCalls ==
  { <<Asked("BIP340", <<1, 2>>), Asked("BIP340", <<1, 2>>)>>,
    <<Asked("BIP340", <<1>>), Asked("BIP340", <<2>>)>>,
    <<Asked("BIP340", <<1>>), Asked("BIP340", <<1, 2>>)>>,
    <<Asked("BIP340", <<1, 0>>), Asked("BIP340", <<1, 2>>)>>,
    <<Asked("BIP340", <<1>>), Asked("EdDSA", <<1>>)>>,
    <<Asked("BIP340", <<>>), Asked("BIP340", <<1>>)>>,
    <<Asked("BIP340", <<1>>), Asked("BIP340", <<>>)>>,
    <<Edwards("EdDSA", <<0, 1>>), Edwards("EdDSA", <<0, 1>>)>>,
    <<Edwards("EdDSA", <<1>>), Edwards("EdDSA", <<2>>)>>,
    <<Edwards("BIP340", <<1>>), Edwards("EdDSA", <<1>>)>> }
=============================================================================
