------------------------------ MODULE IofRunInv ------------------------------
(***************************************************************************)
(* The inductive invariants of IofRun: the reasons why its barriers and    *)
(* its block counter work.  TLC checks them, IofRunProofs proves them.     *)
(***************************************************************************)
EXTENDS IofRun

B(x) == IF x THEN 1 ELSE 0

-----------------------------------------------------------------------------
\* Which semaphore operations on thread t a file thread has behind it.
FilePast(f, t, here, later) == fpc[f] \in later \/ (fpc[f] = here /\ t < fi[f])

Created(f, t)  == FilePast(f, t, "create", {"gather", "ready", "wait", "go",
                                             "finish", "done", "exit"})
Gathered(f, t) == FilePast(f, t, "gather", {"ready", "wait", "go", "finish",
                                             "done", "exit"})
Started(f, t)  == FilePast(f, t, "go", {"finish", "done", "exit"})
Finished(f, t) == FilePast(f, t, "finish", {"done", "exit"})

\* Which semaphore operations on file f the main thread has behind it.
MainPast(f, here, later) == mpc \in later \/ (mpc = here /\ f < mi)

MainCreated(f)  == MainPast(f, "create", {"gather", "go", "finish", "output", "exit"})
MainGathered(f) == MainPast(f, "gather", {"go", "finish", "output", "exit"})
MainStarted(f)  == MainPast(f, "go", {"finish", "output", "exit"})
MainFinished(f) == MainPast(f, "finish", {"output", "exit"})

(***************************************************************************)
(* Every semaphore holds the posts made to it less the waits that took     *)
(* one.  Posts and waits are read off the phases of the threads.           *)
(***************************************************************************)
ThreadBalance(f, t) ==
    LET phase == tpc[<<f, t>>] IN
        /\ phase = "new" <=> ~Created(f, t)
        /\ tstop[<<f, t>>] = B(phase \notin Starting) + B(phase = "exit")
                               - B(Gathered(f, t)) - B(Finished(f, t))
        /\ tstart[<<f, t>>] = B(Started(f, t)) - B(phase \notin Waiting)

FileBalance(f) ==
    /\ fpc[f] = "new" <=> ~MainCreated(f)
    /\ fi[f] # 0 => fpc[f] \in {"create", "gather", "go", "finish"}
    /\ fstop[f] = B(fpc[f] \in {"wait", "go", "finish", "done", "exit"})
                    + B(fpc[f] = "exit")
                    - B(MainGathered(f)) - B(MainFinished(f))
    /\ fstart[f] = B(MainStarted(f))
                     - B(fpc[f] \in {"go", "finish", "done", "exit"})

ThreadAccount == \A f \in Files, t \in Threads : ThreadBalance(f, t)

FileAccount == \A f \in Files : FileBalance(f)

MainAccount == mi # 0 => mpc \in {"create", "gather", "go", "finish"}

\* No semaphore operation of runtest, file_thread or io_thread is ever lost: a
\* semaphore's value accounts for all the posts and waits made so far.
SemaphoreAccount == ThreadAccount /\ FileAccount /\ MainAccount

-----------------------------------------------------------------------------
\* I/O threads of f whose last claim found no block left.
Late(f) == {t \in Threads : tpc[<<f, t>>] \in {"done", "exit"}}

(***************************************************************************)
(* The counter of file f after n blocks were claimed: one for each block,  *)
(* one for each thread that came too late and TotalIo for each stop.       *)
(***************************************************************************)
CounterIs(f, n) ==
    /\ \A b \in Blocks : claims[f][b] = B(b < n)
    /\ thread_bno[f] = n + Cardinality(Late(f)) + TotalIo * Cardinality(signals[f])
    /\ Late(f) # {} /\ signals[f] = {} => n = TotalIo

\* An I/O asks for a stop at most once.
SignalOnce(f) ==
    \A t \in Threads :
        /\ <<t, "hdr">> \in signals[f] => tpc[<<f, t>>] # "hdr"
        /\ <<t, "io">> \in signals[f] => tpc[<<f, t>>] \notin Kinds

ClaimBalance(f) ==
    /\ \E n \in 0 .. TotalIo : CounterIs(f, n)
    /\ SignalOnce(f)

\* The value of thread_bno is exactly accounted for by the claims and the stops
\* made so far, and it never wraps.
ClaimAccount == \A f \in Files : ClaimBalance(f)

-----------------------------------------------------------------------------
\* Thread t of file f still has to do I/O u, a header or a block.
InHand(f, t, u) ==
    /\ bno[<<f, t>>] = u[1]
    /\ tpc[<<f, t>>] = "hdr" \/ (tpc[<<f, t>>] = "io" /\ u[2] = "io")

Units == HeaderUnits \cup BlockUnits

FileWork(f) ==
    /\ written[f] \subseteq Units
    /\ \A t \in Threads :
          tpc[<<f, t>>] \in Kinds =>
            /\ bno[<<f, t>>] \in Blocks
            /\ <<bno[<<f, t>>], tpc[<<f, t>>]>> \in Units
    /\ signals[f] = {} =>
          \A u \in Units : claims[f][u[1]] > 0 =>
              u \in written[f] \/ \E t \in Threads : InHand(f, t, u)

\* Until a stop is asked for, every claimed block and every header before it has
\* been written or is in the hands of the thread that claimed it.
WorkAccount == \A f \in Files : FileWork(f)

\* Every claim and every stop is in the counter, and every claimed block is
\* written or in the hands of the one thread that claimed it.
FillAccount == ClaimAccount /\ WorkAccount

-----------------------------------------------------------------------------
(***************************************************************************)
(* The fill as a pool of work: a block is given when it has been claimed,  *)
(* held until the I/O on it returns, and a stop closes the file.           *)
(***************************************************************************)
Given == [f \in Files |-> {b \in Blocks : claims[f][b] > 0}]
Held  == [p \in Thr |-> IF tpc[p] \in Kinds THEN {bno[p]} ELSE {}]
Done  == [f \in Files |-> {b \in Blocks : <<b, "io">> \in written[f]}]
Closed == [f \in Files |-> signals[f] # {}]

Pool == INSTANCE WorkPool WITH
            Workers <- Thr,
            given <- Given,
            held <- Held,
            done <- Done,
            closed <- Closed,
            reported <- mpc \in {"output", "exit"}

\* Seen from outside, runtest and its threads only hand out the blocks of each
\* file in order, to one thread each, until they are used up or a stop is asked
\* for, and report when all that was handed out has come back.
ImplementsPool == Pool!Spec
=============================================================================
