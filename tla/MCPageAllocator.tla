---------------------------- MODULE MCPageAllocator ----------------------------
(* PageAllocator on small instances: the constants that are not model values. *)
EXTENDS PageAllocator, TLC

CallerSymmetry == Permutations(Callers)

\* Limits a shrink and a later expansion reach, none above the initial one
TargetsWithin == 1 .. NumPages
\* Physical memory exhausted, or enough for every page
MemoryTightOrAmple == {0, NumPages}
MapFailures == {"map"}
AllFailures == {"map", "unmap"}
================================================================================
