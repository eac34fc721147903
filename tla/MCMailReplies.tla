--------------------------- MODULE MCMailReplies ---------------------------
(* The three kinds of approval the collector's consumer is handed, one of     *)
(* each: a mail to answer, one that cannot be used, one for the Sensor.       *)
EXTENDS MailReplies

CONSTANTS mail, broken, room

MCMails    == {mail}
MCUnusable == {broken}
MCOthers   == {room}
MCNone     == {}
=============================================================================
