----------------------------- MODULE LibraryScan -----------------------------
(***************************************************************************)
(* What the custom-section scan of the runtime loader promises (spec 4.5 *)
(* and 6): the names of the module's _onyx_libs section are handed to the *)
(* library loader one at a time, in the order they are listed, and when   *)
(* the scan is over every one of them has been handed over, and no other. *)
(***************************************************************************)
EXTENDS Naturals, Sequences

VARIABLES
  wanted,   \* the library names listed in the _onyx_libs section (input)
  tried,    \* the names handed to the library loader so far
  scanned   \* the scan is over

Init == tried = <<>> /\ scanned = FALSE

\* The next listed name is handed over.
Try ==
  /\ ~scanned
  /\ Len(tried) < Len(wanted)
  /\ tried' = Append(tried, wanted[Len(tried) + 1])
  /\ UNCHANGED <<wanted, scanned>>

\* The scan ends once every listed name was handed over.
Finish ==
  /\ ~scanned
  /\ tried = wanted
  /\ scanned' = TRUE
  /\ UNCHANGED <<wanted, tried>>

Spec == Init /\ [][Try \/ Finish]_<<wanted, tried, scanned>>

=============================================================================
