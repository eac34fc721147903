------------------------- MODULE MCConsentPipeline -------------------------
(* One contact, one network default and one persona over one connection.     *)
EXTENDS ConsentPipeline

CONSTANTS alice, default, assistant, whatsapp

MCContacts    == {alice}
MCNetworks    == {default}
MCPersonas    == {assistant}
MCConnections == {whatsapp}

Takes(subject, state) ==
  [subject |-> subject, scope |-> {whatsapp}, state |-> state]

\* The decisions that label somebody, and one that labels nobody.
MCLabelling ==
  {Takes(alice, "granted"), Takes(alice, "revoked"), Takes(default, "granted")}

MCTakeable == MCLabelling \cup {Takes(assistant, "granted")}
=============================================================================
