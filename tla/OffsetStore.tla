---------------------------- MODULE OffsetStore ----------------------------
(***************************************************************************)
(* What the offset manager promises a group that has each partition to     *)
(* itself: commits become visible one key at a time, and what a crash of   *)
(* the broker leaves of a key is its last safe commit or the visible one,  *)
(* never an older one.                                                     *)
(***************************************************************************)
CONSTANTS
    Keys,     \* (group, topic, partition)
    NoOffset  \* nothing was committed for the key

VARIABLES
    value,  \* key -> the offset that FetchOffset finds
    safe    \* key -> the last offset that no crash can take back

Init ==
    /\ value = [k \in Keys |-> NoOffset]
    /\ safe = value

\* A commit becomes visible to the group; it may move the offset either way.
Commit(k) ==
    /\ value' = [value EXCEPT ![k] = value'[k]]
    /\ UNCHANGED safe

\* What is visible is safe from now on.
Secure(k) ==
    /\ safe' = [safe EXCEPT ![k] = value[k]]
    /\ UNCHANGED value

\* The broker dies: every key falls back to what is safe, or stays.
Fallback ==
    /\ DOMAIN value' = Keys
    /\ \A k \in Keys : value'[k] = safe[k] \/ value'[k] = value[k]
    /\ safe' = value'

Next == Fallback \/ \E k \in Keys : Commit(k) \/ Secure(k)

Spec == Init /\ [][Next]_<<value, safe>>
=============================================================================
