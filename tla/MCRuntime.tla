------------------------------ MODULE MCRuntime ------------------------------
(* Instances of Runtime for TLC. *)
EXTENDS Runtime, TLC

\* Callers watch for reading or for writing, as the async connections do.
SingleMasks == {{"READ"}, {"WRITE"}}
\* Which mask a watcher has does not matter to who gets a turn.
ReadMask == {{"READ"}}
Symmetry == Permutations(Tasks) \cup Permutations(Fds)

====
