------------------------ MODULE MCPageAllocatorBinding ------------------------
(* PageAllocatorBinding on a small instance. *)
EXTENDS PageAllocatorBinding

NoTargets == {}
MemoryAmple == {NumPages}
NoFailures == {}
===============================================================================
