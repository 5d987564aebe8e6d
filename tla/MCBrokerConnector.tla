------------------------- MODULE MCBrokerConnector -------------------------
(* Values of the constants of BrokerConnector for TLC.                     *)
EXTENDS BrokerConnector, TLC

CONSTANTS b1, b2, b3, s1

MCThreeConns == {b1, b2, b3}
MCOneSender  == {s1}

ConnSymmetry == Permutations(Conns)
=============================================================================
