----------------------------- MODULE MessageLog -----------------------------
(***************************************************************************)
(* What a partition promises its clients: an ordered sequence of messages  *)
(* that is only ever extended at its end, one message at a time.  The      *)
(* position of a message is its offset, for ever.  An append that is       *)
(* acknowledged extends the sequence; one that failed or crashed may have  *)
(* extended it as well.                                                    *)
(***************************************************************************)
EXTENDS Integers, Sequences

CONSTANT NoMessage  \* a hole: an offset at which nothing can be read

VARIABLES
    log,   \* the messages, in offset order
    acked  \* <<offset, message>> of every acknowledged append

Init == log = <<>> /\ acked = {}

Grow ==
    /\ Len(log') = Len(log) + 1
    /\ \A i \in DOMAIN log : log'[i] = log[i]
    /\ log'[Len(log')] # NoMessage

AppendAcked ==
    /\ Grow
    /\ acked' = acked \cup {<<Len(log), log'[Len(log')]>>}

AppendUnacked ==
    /\ Grow
    /\ UNCHANGED acked

Next == AppendAcked \/ AppendUnacked

Spec == Init /\ [][Next]_<<log, acked>>
=============================================================================
