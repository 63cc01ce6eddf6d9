------------------------------ MODULE WorkPool ------------------------------
(***************************************************************************)
(* What a fill of iofill promises, whatever its threads, semaphores and    *)
(* counters do.  The blocks of a file are handed out in order, each of     *)
(* them to one worker.  Whoever holds a block may close the file; after    *)
(* that no block of it is handed out.  The report comes when nobody holds  *)
(* a block any more, and in a file that was not closed every block has     *)
(* been done.                                                              *)
(*                                                                         *)
(* IofRun implements this specification (IofRunInv!ImplementsPool).        *)
(***************************************************************************)
EXTENDS Integers

CONSTANTS
    Files,     \* the files to fill
    Workers,   \* pairs of a file and one of its threads
    Blocks     \* 0 .. n - 1, the blocks of every file

VARIABLES
    given,     \* per file: the blocks handed out so far
    held,      \* per worker: the block it works on, a set with at most one member
    done,      \* per file: the blocks written without an error
    closed,    \* per file: a stop has been asked for
    reported   \* the results are being printed

vars == <<given, held, done, closed, reported>>

Init ==
    /\ given = [f \in Files |-> {}]
    /\ held = [w \in Workers |-> {}]
    /\ done = [f \in Files |-> {}]
    /\ closed = [f \in Files |-> FALSE]
    /\ reported = FALSE

\* The next block of the file goes to worker w.
Take(w, b) ==
    /\ ~closed[w[1]]
    /\ held[w] = {}
    /\ given[w[1]] = 0 .. b - 1
    /\ given' = [given EXCEPT ![w[1]] = @ \cup {b}]
    /\ held' = [held EXCEPT ![w] = {b}]
    /\ UNCHANGED <<done, closed, reported>>

Close(f) == closed' = [closed EXCEPT ![f] = TRUE]

\* The time is over or the header did not fit: the block is still to be written.
CloseEarly(w) ==
    /\ held[w] # {}
    /\ Close(w[1])
    /\ UNCHANGED <<given, held, done, reported>>

Finish(w) ==
    /\ held[w] # {}
    /\ held' = [held EXCEPT ![w] = {}]
    /\ done' = [done EXCEPT ![w[1]] = @ \cup held[w]]
    /\ UNCHANGED closed \/ Close(w[1])
    /\ UNCHANGED <<given, reported>>

\* The block did not fit into the file.
GiveUp(w) ==
    /\ held[w] # {}
    /\ held' = [held EXCEPT ![w] = {}]
    /\ Close(w[1])
    /\ UNCHANGED <<given, done, reported>>

Report ==
    /\ \A w \in Workers : held[w] = {}
    /\ \A f \in Files : closed[f] \/ done[f] = Blocks
    /\ reported' = TRUE
    /\ UNCHANGED <<given, held, done, closed>>

Next ==
    \/ \E w \in Workers :
          \/ \E b \in Blocks : Take(w, b)
          \/ CloseEarly(w) \/ Finish(w) \/ GiveUp(w)
    \/ Report

Spec == Init /\ [][Next]_vars
=============================================================================
