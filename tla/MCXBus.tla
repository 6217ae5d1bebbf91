------------------------------- MODULE MCXBus --------------------------------
(***************************************************************************)
(* Instances of XBus: servers that offer TLS first, last or not at all.    *)
(***************************************************************************)
EXTENDS XBus

MCOffers == {<<"starttls", "mechanisms">>, <<"mechanisms", "starttls">>, <<"mechanisms">>}
MCTlsOffers == {<<"starttls", "mechanisms">>}
MCMechanisms == {{"PLAIN"}, {"DIGEST-MD5"}, {"PLAIN", "DIGEST-MD5"}}
MCPlain == {{"PLAIN"}}

=============================================================================
