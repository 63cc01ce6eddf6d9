------------------------------ MODULE LoadRamp ------------------------------
(***************************************************************************)
(* What the ramp of ioload promises, whatever its threads and semaphores   *)
(* do: rounds follow each other with Step more workers per file each.  In  *)
(* a round every worker that belongs to it, and no other, works once and   *)
(* until the round is over; what it begins while the round is measured is  *)
(* counted before it leaves; the summary is made when all have left.       *)
(*                                                                         *)
(* IolRounds implements this specification (IolRoundsInv!ImplementsRamp).  *)
(***************************************************************************)
EXTENDS Naturals

CONSTANTS
    Workers,
    Rank,        \* per worker: its number among the workers of its file
    First,       \* workers per file in the first round
    Step,        \* and how many more in each further one
    Last         \* and at most

VARIABLES
    level,       \* workers per file in this round, or in the next one
    phase,       \* "between" two rounds, "running" one, or "ended"
    over,        \* the time of the round is over
    joined,      \* the workers that have begun to work in this round
    working,     \* those of them that have not left
    begun,       \* per worker: what it began while the round was measured
    counted      \* per worker: how much of it has been counted

vars == <<level, phase, over, joined, working, begun, counted>>

Nothing == [k \in Workers |-> 0]

Init ==
    /\ level = First
    /\ phase = "between"
    /\ over = TRUE
    /\ joined = {} /\ working = {}
    /\ begun = Nothing /\ counted = Nothing

Begin ==
    /\ phase = "between" /\ level <= Last
    /\ phase' = "running"
    /\ over' = FALSE
    /\ joined' = {}
    /\ begun' = Nothing
    /\ UNCHANGED <<level, working, counted>>

Join(k) ==
    /\ phase = "running"
    /\ Rank[k] < level /\ k \notin joined
    /\ joined' = joined \cup {k}
    /\ working' = working \cup {k}
    /\ UNCHANGED <<level, phase, over, begun, counted>>

Work(k) ==
    /\ k \in working /\ ~over
    /\ begun' = [begun EXCEPT ![k] = @ + 1]
    /\ UNCHANGED <<level, phase, over, joined, working, counted>>

Count(k) ==
    /\ k \in working /\ counted[k] < begun[k]
    /\ counted' = [counted EXCEPT ![k] = @ + 1]
    /\ UNCHANGED <<level, phase, over, joined, working, begun>>

TimeOver ==
    /\ ~over
    /\ over' = TRUE
    /\ UNCHANGED <<level, phase, joined, working, begun, counted>>

Leave(k) ==
    /\ k \in working
    /\ over /\ counted[k] = begun[k]
    /\ working' = working \ {k}
    /\ UNCHANGED <<level, phase, over, joined, begun, counted>>

\* All that belong to the round have worked and have left: the summary says what
\* they did, and their counts are cleared.
Summary ==
    /\ phase = "running"
    /\ joined = {k \in Workers : Rank[k] < level} /\ working = {}
    /\ counted = begun
    /\ phase' = "between"
    /\ level' = level + Step
    /\ counted' = Nothing
    /\ UNCHANGED <<over, joined, working, begun>>

\* After the last round, or at any time because of an error or a slow device.
End ==
    /\ phase # "ended"
    /\ phase' = "ended"
    /\ UNCHANGED <<level, over, joined, working, begun, counted>>

Next ==
    \/ Begin \/ TimeOver \/ Summary \/ End
    \/ \E k \in Workers : Join(k) \/ Work(k) \/ Count(k) \/ Leave(k)

Spec == Init /\ [][Next]_vars
=============================================================================
