--------------------------- MODULE ProbeContract ---------------------------
(***************************************************************************)
(* What Scan relies on of an active probe (the FAIL-SAFE rule of           *)
(* pkg/tlsscan/vulns.go): it decides once, in the end it does decide, and  *)
(* what it then claims is a subset of the flaws the target has.  A probe   *)
(* may miss a flaw; it may not invent one.                                 *)
(***************************************************************************)

CONSTANT Claims           \* the flaws the probe can report

VARIABLES present,        \* the flaws of Claims the target has
          claimed,        \* the flaws reported
          decided         \* the probe has returned

contractVars == <<present, claimed, decided>>

Init == present \in SUBSET Claims /\ claimed = {} /\ decided = FALSE

Decide ==
  /\ ~decided /\ decided' = TRUE
  /\ claimed' \in SUBSET present
  /\ UNCHANGED present

Spec == Init /\ [][Decide]_contractVars /\ WF_contractVars(Decide)
=============================================================================
