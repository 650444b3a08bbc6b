------------------------------ MODULE MCRobot ------------------------------
(***************************************************************************)
(* Backends and pools for the model-checking runs of RobotProbe.           *)
(***************************************************************************)
EXTENDS RobotProbe

CONSTANTS k1, k2

Backend(key, flight, good, bad) ==
  [key |-> key, flight |-> flight,
   react |-> [v \in Vectors |-> IF v = "correct" THEN good ELSE bad]]

Hardened == Backend(k1, "done", "bad_record_mac", "bad_record_mac")
Silent   == Backend(k1, "done", "silence", "silence")
Leaky    == Backend(k1, "done", "bad_record_mac", "decrypt_error")
LeakyEOF == Backend(k1, "done", "silence", "EOF")
Partial  == [Leaky EXCEPT !.react["no0x00"] = "bad_record_mac"]
Cut      == Backend(k1, "cut", "bad_record_mac", "EOF")
NotRSA   == Backend(k1, "notRSA", "bad_record_mac", "EOF")
Refuses  == Backend(k1, "refused", "reset", "reset")
OtherKey == Backend(k2, "done", "EOF", "EOF")

UniformPools == {{}, {Hardened}, {Silent}, {Leaky}, {LeakyEOF}, {Partial},
                 {Cut}, {NotRSA}, {Refuses}}
AllPools     == UniformPools \cup {{Hardened, OtherKey}, {Hardened, Cut}}
MixedPool    == {{Hardened, Silent}}
TwoKeys      == {k1, k2}
=============================================================================
