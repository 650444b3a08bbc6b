---------------------------- MODULE MCHeartbleed ----------------------------
(***************************************************************************)
(* Servers for the model-checking run of Heartbleed.                      *)
(***************************************************************************)
EXTENDS Heartbleed

H        == [header |-> TRUE,  type |-> "handshake", big |-> TRUE]
Alert    == [header |-> TRUE,  type |-> "alert",     big |-> FALSE]
Plain    == [header |-> FALSE, type |-> "handshake", big |-> FALSE]
LooksBig == [header |-> FALSE, type |-> "heartbeat", big |-> TRUE]

\* Two records that fit one read, flights that do not, and a refusal.
Flights == {<<H, Plain, H>>, <<H, Plain, Plain, H, Plain>>,
            <<H, Plain, LooksBig, H>>, <<H, LooksBig>>, <<Alert>>, <<>>}

AllServers == [flight : Flights, answer : DOMAIN Answers]
=============================================================================
