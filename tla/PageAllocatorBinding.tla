------------------------- MODULE PageAllocatorBinding -------------------------
(***************************************************************************)
(* PageAllocator as Python sees it (kvcached/csrc/torch_bindings.cpp).     *)
(*                                                                         *)
(* None of the PageAllocator methods releases the interpreter lock, so a   *)
(* caller runs the whole C++ method, cond_.wait and join included, with    *)
(* the lock held.  map_pages and unmap_pages call back into Python         *)
(* (should_use_worker_ipc, and the broadcast over the worker sockets): the *)
(* callback needs the lock, and while it runs the interpreter may pass the *)
(* lock to another thread.                                                 *)
(***************************************************************************)
EXTENDS PageAllocator

CONSTANT Nobody   \* the holder of an interpreter lock that is free

VARIABLE gil      \* the thread that holds the interpreter lock, or Nobody
gilVars == <<vars, gil>>

GilInit == Init /\ gil = Nobody

\* Threads that execute Python bytecode: a caller between two allocator calls
\* or inside a callback, and the worker inside its map callback
InPython(t) == pc[t] \in {"idle", "alloc_map", "map"} \cup UnmapLabels

TakeGil(t) == gil = Nobody /\ InPython(t) /\ gil' = t /\ UNCHANGED vars
DropGil(t) == gil = t /\ InPython(t) /\ gil' = Nobody /\ UNCHANGED vars

\* A method of the binding, entered and left with the lock held
CallerBegins(t)   == gil = t /\ Begin(t) /\ UNCHANGED gil
CallerContinues(t) == gil = t /\ Continue(t) /\ UNCHANGED gil

\* The worker needs the lock for the map callback only, and drops it after
WorkerOutside  == (WorkerWait \/ WorkerExit \/ WorkerTake) /\ UNCHANGED gil
WorkerCallback == gil = Prealloc /\ (WorkerMapped \/ WorkerMapFailed) /\ gil' = Nobody

GilNext ==
    \/ \E t \in Callers : CallerBegins(t) \/ CallerContinues(t)
    \/ \E t \in Threads : TakeGil(t) \/ DropGil(t)
    \/ WorkerOutside \/ WorkerCallback

\* The interpreter passes the lock on (the switch interval), and every thread
\* that keeps asking for it gets it.
GilFairness ==
    /\ WF_gilVars(WorkerOutside) /\ SF_gilVars(WorkerCallback)
    /\ \A t \in Callers : SF_gilVars(CallerContinues(t))
    /\ \A t \in Threads : SF_gilVars(TakeGil(t)) /\ WF_gilVars(DropGil(t))

GilSpec == GilInit /\ [][GilNext]_gilVars /\ GilFairness
===============================================================================
