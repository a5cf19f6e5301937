------------------------------ MODULE MCShuffle ------------------------------
(* Small instances of the shuffle.  Every rank affects the whole region, so    *)
(* that every message counts.                                                  *)
EXTENDS NoiseShuffle

AllCells == {Cells}
Eager == {"eager"}
Both == {"eager", "deferred"}
==============================================================================
