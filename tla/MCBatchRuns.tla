--------------------------- MODULE MCBatchRuns ---------------------------
(* BatchRuns on a small instance: two runs over two venues, a record that  *)
(* keeps one run, so that a second run drops the first one while it is     *)
(* being driven.                                                           *)
EXTENDS BatchRuns, TLC

CONSTANTS r1, r2, v1, v2

MCRuns == {r1, r2}
MCOneRun == {r1}
MCVenues == {v1, v2}
MCListings == {{v1, v2}}
MCOutcomes == {"ok", "partial"}
MCSymmetry == Permutations(MCRuns) \cup Permutations(MCVenues)
===========================================================================
