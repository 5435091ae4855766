----------------------------- MODULE MCTimerHeap -----------------------------
(* Instances of TimerHeap for TLC. *)
EXTENDS TimerHeap, TLC

Symmetry == Permutations(Tasks)

\* Full heaps while the clock stands, small ones while it moves: the order of
\* the heap does not depend on the clock.
SmallOnceTimePasses == clock > 0 => Count <= 3

====
