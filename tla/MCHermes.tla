------------------------------- MODULE MCHermes -------------------------------
(* Two accounts on one network, one on another.                              *)
EXTENDS Hermes

CONSTANTS perso, pro, work, whatsapp, matrix

MCConnections == {perso, pro, work}
MCNetworks    == {whatsapp, matrix}
MCNetworkOf   == [c \in MCConnections |-> IF c = work THEN matrix ELSE whatsapp]
=============================================================================
