----------------------------- MODULE MCBmsTask -----------------------------
(* Values for checking BmsTask at the controller's own sizes.              *)
EXTENDS BmsTask

\* The smallest bank, one whose settings need two bursts, the full array, one
\* past it, and one that never finishes a sweep.
MCSizes == {1, 6, 16, 17, 18}
MCIdentifyIds == {3}
\* Nothing, the first module, and one that only large configurations scan.
MCBypassSets == {{}, {0}, {12}}
============================================================================
