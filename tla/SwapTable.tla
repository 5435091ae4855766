------------------------------ MODULE SwapTable ------------------------------
(* Removal from the unordered arrays of modules/runtime. *)
EXTENDS Naturals, Sequences

\* table[i] = table[count - 1]; count--
SwapRemove(table, i) ==
    [k \in 1 .. (Len(table) - 1) |->
        IF k = i THEN table[Len(table)] ELSE table[k]]

====
