---------------------------- MODULE IolRoundsInv ----------------------------
(***************************************************************************)
(* The inductive invariants of IolRounds: the reasons why a round of       *)
(* ioload starts and ends cleanly.  TLC checks them, IolRoundsProofs       *)
(* proves them.                                                            *)
(***************************************************************************)
EXTENDS IolRounds

B(x) == IF x THEN 1 ELSE 0

\* The phases of a round between its setup and its summary.
InRound == mpc \in {"post", "run", "sleep", "status", "gather", "report"}

\* The main thread has created thread k.
Created(k) == mpc # "create" \/ k < mi

\* The main thread has asked thread k for something (to get ready, to take part
\* in a round, to end) and has not yet waited for its answer.
Pending(k) ==
    \/ mpc \in {"create", "post", "final"} /\ k < mi
    \/ mpc \in {"ready", "gather"} /\ k >= mi
    \/ mpc \in {"run", "sleep", "status", "exit"}

\* The thread works on what it was asked for.
Busy(k) == wpc[k] \in {"init", "test", "next", "chunk", "io", "post"}

(***************************************************************************)
(* The hand-shake: what was asked of a thread is in exactly one place, its *)
(* start semaphore, the thread itself, or its stop semaphore.              *)
(***************************************************************************)
Token(k) ==
    /\ wpc[k] = "new" <=> ~Created(k)
    /\ start[k] + stop[k] + B(Busy(k)) = B(Pending(k))
    /\ mpc \in {"create", "ready"} =>
          start[k] = 0 /\ wpc[k] \in {"new", "init", "check", "wait", "exit"}

LoopBound == mi # 0 => mpc \in {"create", "ready", "post", "status", "gather", "final"}

\* The start and stop semaphores of an I/O thread form a hand-shake: at no time
\* is more than one request or answer under way between it and the main thread.
HandShake == LoopBound /\ \A k \in Workers : Token(k)

-----------------------------------------------------------------------------
\* The counters of a round: every I/O begun in the measured interval is counted,
\* but for the one that is still under way.
Tally(k) ==
    /\ mpc \in {"create", "ready", "setup", "final", "exit"} => cur[k] = 0
    /\ InRound => begun[k] = cur[k] + B(wpc[k] = "io" /\ stamp[k] = "measure")

\* Thread k has taken its start in this round and has come out of do_io again.
DoneLoad(k) ==
    /\ mpc \in {"run", "sleep", "status", "gather", "report"} \/ (mpc = "post" /\ k < mi)
    /\ start[k] = 0
    /\ wpc[k] \notin InDoIo \cup {"test"}

Load(k) ==
    /\ wpc[k] \in InDoIo => threadid(k) < threads
    /\ InRound /\ ~(threadid(k) < threads) => stamp[k] = "past"
    /\ DoneLoad(k) /\ threadid(k) < threads => stamp[k] = "over"

\* After the last round no thread belongs to a round.
NoneLeft == mpc \in {"final", "exit"} => threads = 0

\* What a thread has done in the round: only threads of the round do I/O, all
\* they began in the measured interval is counted, and they stop only at its end.
RoundAccount == NoneLeft /\ \A k \in Workers : Tally(k) /\ Load(k)

-----------------------------------------------------------------------------
(***************************************************************************)
(* The rounds as a ramp of load: a thread works while it is in do_io, and  *)
(* has joined the round when it has taken a time in it.                    *)
(***************************************************************************)
Phase == IF exited # "no" \/ mpc \in {"final", "exit"} THEN "ended"
         ELSE IF InRound THEN "running" ELSE "between"

Working == {k \in Workers : wpc[k] \in InDoIo}
Joined  == {k \in Workers : wpc[k] \in InDoIo \/ stamp[k] # "past"}

Ramp == INSTANCE LoadRamp WITH
            Rank <- [k \in Workers |-> threadid(k)],
            First <- InitThreads,
            Step <- IncrThreads,
            Last <- MaxThreads,
            phase <- Phase,
            over <- (win = "over"),
            joined <- Joined,
            working <- Working,
            counted <- cur

\* Seen from outside, runtest, do_io and output make nothing but rounds of load:
\* in each of them exactly the threads of its level work, once and until it is
\* over, and its summary is made of all their measured I/Os and of no others.
ImplementsRamp == Ramp!Spec
=============================================================================
