----------------------------- MODULE LatestSlot -----------------------------
(***************************************************************************)
(* What a cache of accounts promises its readers, whatever fills it: the   *)
(* slot an account is held for never goes back.  Absent (-1) is an account *)
(* the cache does not hold yet; one that is held is never given up.        *)
(***************************************************************************)
EXTENDS Integers

CONSTANTS
    Keys,       \* the accounts
    MaxSlot     \* bound: the last slot

VARIABLE held   \* account -> the slot it is held for

Absent == -1

\* A cache starts empty or from a copy of slot 0.
Init == held \in [Keys -> {Absent, 0}]

\* A writer stores account k for slot s.
Store(k, s) ==
    /\ held[k] <= s
    /\ held' = [held EXCEPT ![k] = s]

Next == \E k \in Keys, s \in 0..MaxSlot : Store(k, s)

Spec == Init /\ [][Next]_held
=============================================================================
