----------------------------- MODULE Snapshots ------------------------------
(***************************************************************************)
(* What taking and reverting to snapshots promises, whatever is kept to do *)
(* it: going back to a snapshot gives the state it was taken of, and until *)
(* then no step changes what any of them stands for.                       *)
(***************************************************************************)
EXTENDS Naturals, Sequences

VARIABLES
    view,       \* the state as its user observes it
    saved,      \* saved[i]: what the i-th valid snapshot was taken of
    period      \* snapshots are only reverted to in the period they were taken in

snapshotsVars == <<view, saved, period>>

Init == saved = <<>>

Change == UNCHANGED <<saved, period>>

Take ==
    /\ saved' = Append(saved, view)
    /\ UNCHANGED <<view, period>>

GoBack(i) ==
    /\ view' = saved[i]
    /\ saved' = SubSeq(saved, 1, i - 1)
    /\ UNCHANGED period

StartPeriod ==
    /\ period' # period
    /\ saved' = <<>>

Next ==
    \/ Change
    \/ Take
    \/ \E i \in 1..Len(saved) : GoBack(i)
    \/ StartPeriod

Spec == Init /\ [][Next]_snapshotsVars
=============================================================================
