--------------------------- MODULE MCKVCacheManager ---------------------------
(* KVCacheManager on small instances: the constants that are not model values. *)
EXTENDS KVCacheManager

\* kvctl limits of one and of two pages
BelowInitial == {PageSize, 2 * PageSize}
NoLimits == {}
OnePage == {PageSize}
MemoryAmple == {NumPages}
MemoryTightOrAmple == {0, NumPages}
MapFailures == {"map"}
AllFailures == {"map", "unmap"}
===============================================================================
