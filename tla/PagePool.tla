------------------------------- MODULE PagePool -------------------------------
(***************************************************************************)
(* What kvcached's page allocator promises, with no list, lock or thread:  *)
(* a fixed set of pages, each available, held by the client, or withdrawn  *)
(* by a lowered limit, and two counters that always match the sets.        *)
(***************************************************************************)
EXTENDS Integers, FiniteSets

CONSTANT NumPages   \* a natural number

VARIABLES available, held, withdrawn, freeCount, limit
vars == <<available, held, withdrawn, freeCount, limit>>

Counted == freeCount' = Cardinality(available') /\ limit' = NumPages - Cardinality(withdrawn')

Init ==
    /\ available = 0 .. NumPages - 1 /\ held = {} /\ withdrawn = {}
    /\ freeCount = NumPages /\ limit = NumPages

\* One page goes to the client
Take ==
    /\ \E p \in available : available' = available \ {p} /\ held' = held \cup {p}
    /\ UNCHANGED withdrawn
    /\ Counted

\* The client returns pages it holds (or an allocation is undone)
Give ==
    /\ \E pages \in (SUBSET held) \ {{}} : held' = held \ pages /\ available' = available \cup pages
    /\ UNCHANGED withdrawn
    /\ Counted

\* The limit goes down: only available pages are withdrawn
Lower ==
    /\ \E pages \in (SUBSET available) \ {{}} :
         available' = available \ pages /\ withdrawn' = withdrawn \cup pages
    /\ UNCHANGED held
    /\ Counted

\* The limit goes up again: withdrawn pages come back
Raise ==
    /\ \E pages \in (SUBSET withdrawn) \ {{}} :
         withdrawn' = withdrawn \ pages /\ available' = available \cup pages
    /\ UNCHANGED held
    /\ Counted

Next == Take \/ Give \/ Lower \/ Raise

Spec == Init /\ [][Next]_vars
===============================================================================
