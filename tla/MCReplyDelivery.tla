-------------------------- MODULE MCReplyDelivery --------------------------
(* One reply of each kind.                                                   *)
EXTENDS ReplyDelivery

CONSTANTS bridged, direct, broken, mail

MCPortals  == {bridged}
MCNatives  == {direct}
MCUnusable == {broken}
MCOthers   == {mail}
MCNone     == {}
=============================================================================
