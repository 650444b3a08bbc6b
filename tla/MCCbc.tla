------------------------------- MODULE MCCbc -------------------------------
(***************************************************************************)
(* Servers and host names for the model-checking runs of CbcOracle.        *)
(***************************************************************************)
EXTENDS CbcOracle

Reacts(good, badMAC, zeroPad, badPad) ==
  [cbc |-> TRUE,
   react |-> [c \in RecordClasses |->
                CASE c = "good"            -> good
                  [] c = "badMAC"          -> badMAC
                  [] c = "badMAC zero pad" -> zeroPad
                  [] c = "badPad"          -> badPad]]

Rejecting(arrival) == Reacts("data", arrival, arrival, arrival)

Alerting  == Rejecting("encrypted_alert")
Closing   == Rejecting("EOF")
Resetting == Rejecting("reset")
Dropping  == Rejecting("silence")
PlainOne  == Rejecting("plain_alert")
ZeroLeak  == Reacts("data", "EOF", "reset", "EOF")
PadLeak   == Reacts("data", "EOF", "EOF", "silence")
AlertLeak == Reacts("data", "plain_alert", "cut_alert", "EOF")
Masked    == Reacts("data", "encrypted_alert", "EOF", "EOF")
AEADOnly  == [Closing EXCEPT !.cbc = FALSE]

AllServers == {Alerting, Closing, Resetting, Dropping, PlainOne, ZeroLeak,
               PadLeak, AlertLeak, Masked, AEADOnly}
HardenedServers == {Closing, Dropping, Alerting}
AlertingServers == {PlainOne, AlertLeak, Masked}

\* One host length for each remainder of the record length by the block size.
AllLens     == 3..18
\* All but the remainder that makes the badPad record a well-formed one.
UsualLens   == AllLens \ {15}
=============================================================================
