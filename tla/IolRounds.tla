------------------------------ MODULE IolRounds ------------------------------
(***************************************************************************)
(* The load test of ioload (src/src/ioload): the main thread runs a ramp   *)
(* of rounds, each with more active I/O threads per file than the last.    *)
(* Every round has a warmup, a measured interval and a second to cool      *)
(* down.  The main thread starts the round by posting the start semaphore  *)
(* of EVERY I/O thread, prints status lines while the threads run, gathers *)
(* all of them, prints the summary, and clears their counters.             *)
(*                                                                         *)
(* Modelled here: runtest, io_thread, do_io, io_start and io_finish of     *)
(* iol_iotest.c and output and stats_diff of iol_output.c.  Latencies,     *)
(* sizes and offsets are left out, so one counter per thread stands for    *)
(* its latency buckets and totals; I/O types with op=sleep, which no       *)
(* counter counts, are left out.  Time is the part of the current round    *)
(* that the clock has reached.                                             *)
(***************************************************************************)
EXTENDS Integers

CONSTANTS
    NFiles,        \* number of files on the command line
    InitThreads,   \* -m initthreads=
    MaxThreads,    \* -m maxthreads=, the I/O threads created per file
    IncrThreads,   \* -m incrthreads=
    IgnErrors,     \* -n
    MaxStatus,     \* bound: status lines per round; 0 is -m status=0
    MaxIos         \* bound: I/Os per thread and round before the round is over

ASSUME RampAssumption ==
    /\ NFiles \in Nat \ {0}
    /\ InitThreads \in Nat
    /\ MaxThreads \in Nat \ {0}
    /\ IncrThreads \in Nat
    /\ IgnErrors \in BOOLEAN
    /\ MaxStatus \in Nat
    /\ MaxIos \in Nat

\* The I/O threads in the order in which runtest walks the lists of the files.
NWorkers == NFiles * MaxThreads
Workers  == 0 .. NWorkers - 1
threadid(k) == k % MaxThreads

VARIABLES
    mpc, mi,       \* main thread: phase, and the thread its loop has reached
    level,         \* runtest's i, the thread count of the round
    threads,       \* current->threads
    win,           \* where the clock is in the round that was set up last
    wpc,           \* I/O threads: phase
    stamp,         \* I/O threads: detail.start, as a part of the current round
    ios,           \* I/O threads: I/Os started before the round is over (for the bound)
    cur,           \* I/O threads: I/Os counted in itp->cur
    start, stop,   \* semaphores of the I/O threads
    fpout,         \* the output file has been opened
    snap, last,    \* systot.cur while output() sums it up, systot.last
    nstatus,       \* status lines printed in this round (for the bound)
    exited,        \* "no", or the way the process ended
    begun          \* history: I/Os begun in the measured interval of this round

wvars == <<wpc, stamp, ios, cur, begun>>
stats == <<fpout, snap, last, nstatus>>
vars  == <<mpc, mi, level, threads, win, wvars, start, stop, stats, exited>>

MainPhases == {"create", "ready", "setup", "post", "run", "sleep", "status",
               "gather", "report", "final", "exit"}
WorkPhases == {"new", "init", "check", "wait", "test", "next", "chunk", "io",
               "post", "exit"}

\* warmup < endwarmup <= measure < endinterval <= cool < finish <= over
Windows == {"warmup", "measure", "cool", "over"}
Stamps  == Windows \cup {"past"}      \* "past": before this round was set up

Init ==
    /\ mpc = "create" /\ mi = 0
    /\ level = InitThreads /\ threads = 1
    /\ win = "over"
    /\ wpc = [k \in Workers |-> "new"]
    /\ stamp = [k \in Workers |-> "past"]
    /\ ios = [k \in Workers |-> 0]
    /\ cur = [k \in Workers |-> 0]
    /\ start = [k \in Workers |-> 0] /\ stop = [k \in Workers |-> 0]
    /\ fpout = FALSE /\ snap = 0 /\ last = 0 /\ nstatus = 0
    /\ exited = "no"
    /\ begun = [k \in Workers |-> 0]

-----------------------------------------------------------------------------
Post(sem, k) == [sem EXCEPT ![k] = @ + 1]
Wait(sem, k) == [sem EXCEPT ![k] = @ - 1]

(***************************************************************************)
(* The main thread, runtest.                                               *)
(***************************************************************************)
\* One step of a loop over all I/O threads.
Loop(here, next) ==
    /\ mpc = here
    /\ mpc' = IF mi = NWorkers - 1 THEN next ELSE here
    /\ mi' = IF mi = NWorkers - 1 THEN 0 ELSE mi + 1

Create ==
    /\ Loop("create", "ready")
    /\ wpc' = [wpc EXCEPT ![mi] = "init"]
    /\ UNCHANGED <<level, threads, win, stamp, ios, cur, begun, start, stop, stats,
                   exited>>

\* pthread_create fails in iob_thr_create, which calls exit(1)
CreateFails ==
    /\ mpc = "create"
    /\ exited' = "error"
    /\ UNCHANGED <<mpc, mi, level, threads, win, wvars, start, stop, stats>>

\* sem_wait returns too early
ReadyUnguarded ==
    /\ Loop("ready", "setup")
    /\ stop' = Wait(stop, mi)
    /\ UNCHANGED <<level, threads, win, wvars, start, stats, exited>>

\* Wait until every thread is ready; the ramp starts with initthreads.
Ready ==
    /\ Loop("ready", "setup")
    /\ stop[mi] > 0
    /\ stop' = Wait(stop, mi)
    /\ UNCHANGED <<level, threads, win, wvars, start, stats, exited>>

\* A round begins: its times lie after every time taken so far.
Setup ==
    /\ mpc = "setup" /\ level <= MaxThreads
    /\ mpc' = "post"
    /\ threads' = level
    /\ win' = "warmup"
    /\ stamp' = [k \in Workers |-> "past"]
    /\ ios' = [k \in Workers |-> 0]
    /\ nstatus' = 0
    /\ begun' = [k \in Workers |-> 0]
    /\ UNCHANGED <<mi, level, wpc, cur, start, stop, fpout, snap, last, exited>>

\* The ramp is over.
LeaveRamp ==
    /\ mpc = "setup" /\ level > MaxThreads
    /\ mpc' = "final"
    /\ threads' = 0
    /\ UNCHANGED <<mi, level, win, wvars, start, stop, stats, exited>>

PostStart ==
    /\ Loop("post", "run")
    /\ start' = Post(start, mi)
    /\ UNCHANGED <<level, threads, win, wvars, stop, stats, exited>>

\* The status loop: its condition holds, and the main thread sleeps.  The loop looks
\* at curtime, an old time: it may go on, and it may end, wherever the clock is.
Sleep ==
    /\ mpc = "run"
    /\ nstatus < MaxStatus
    /\ mpc' = "sleep"
    /\ UNCHANGED <<mi, level, threads, win, wvars, start, stop, stats, exited>>

LeaveStatus ==
    /\ mpc = "run"
    /\ mpc' = "gather"
    /\ UNCHANGED <<mi, level, threads, win, wvars, start, stop, stats, exited>>

\* output_header opens the output file when it is first called, or calls exit(1)
OpenFails ==
    /\ mpc \in {"sleep", "report"} /\ ~fpout
    /\ exited' = "error"
    /\ UNCHANGED <<mpc, mi, level, threads, win, wvars, start, stop, stats>>

\* output(..., 1): memset(&systot.cur, 0)
Wake ==
    /\ mpc = "sleep"
    /\ mpc' = "status"
    /\ fpout' = TRUE
    /\ snap' = 0
    /\ UNCHANGED <<mi, level, threads, win, wvars, start, stop, last, nstatus, exited>>

\* output(..., 1): the counters of one thread, which goes on using them, are
\* added up; after the last one the line shows cur - last, and last = cur
StatusLine ==
    /\ Loop("status", "run")
    /\ snap' = snap + cur[mi]
    /\ IF mi = NWorkers - 1
       THEN last' = snap' /\ nstatus' = nstatus + 1
       ELSE UNCHANGED <<last, nstatus>>
    /\ UNCHANGED <<level, threads, win, wvars, start, stop, fpout, exited>>

GatherUnguarded ==
    /\ Loop("gather", "report")
    /\ stop' = [stop EXCEPT ![mi] = IF @ > 0 THEN @ - 1 ELSE 0]
    /\ UNCHANGED <<level, threads, win, wvars, start, stats, exited>>

Gather ==
    /\ Loop("gather", "report")
    /\ stop[mi] > 0
    /\ stop' = Wait(stop, mi)
    /\ UNCHANGED <<level, threads, win, wvars, start, stats, exited>>

ReportKeepsLast ==
    /\ mpc = "report"
    /\ mpc' = "setup"
    /\ level' = level + IncrThreads
    /\ fpout' = TRUE
    /\ cur' = [k \in Workers |-> 0]
    /\ UNCHANGED <<mi, threads, win, wpc, stamp, ios, begun, start, stop, snap, last,
                   nstatus, exited>>

ReportKeepsCur ==
    /\ mpc = "report"
    /\ mpc' = "setup"
    /\ level' = level + IncrThreads
    /\ fpout' = TRUE
    /\ last' = 0
    /\ UNCHANGED <<mi, threads, win, wvars, start, stop, snap, nstatus, exited>>

\* output(..., 0) prints the sums of cur and clears cur and last; the ramp goes on
Report ==
    /\ mpc = "report"
    /\ mpc' = "setup"
    /\ level' = level + IncrThreads
    /\ fpout' = TRUE
    /\ cur' = [k \in Workers |-> 0]
    /\ last' = 0
    /\ UNCHANGED <<mi, threads, win, wpc, stamp, ios, begun, start, stop, snap,
                   nstatus, exited>>

\* output_times finds the 90th percentile above maxlat and calls exit(3)
Halt ==
    /\ mpc = "report"
    /\ exited' = "halted"
    /\ UNCHANGED <<mpc, mi, level, threads, win, wvars, start, stop, stats>>

\* current->threads is 0; every thread is woken a last time, then exit(0)
PostFinal ==
    /\ Loop("final", "exit")
    /\ start' = Post(start, mi)
    /\ exited' = IF mi = NWorkers - 1 THEN "ok" ELSE "no"
    /\ UNCHANGED <<level, threads, win, wvars, stop, stats>>

Main == \/ Create \/ Ready \/ Setup \/ LeaveRamp \/ PostStart \/ Sleep
        \/ LeaveStatus \/ Wake \/ StatusLine \/ Gather \/ Report \/ Halt
        \/ PostFinal \/ CreateFails \/ OpenFails

-----------------------------------------------------------------------------
(***************************************************************************)
(* I/O thread k, io_thread.                                                *)
(***************************************************************************)
Goes(k, next) == wpc' = [wpc EXCEPT ![k] = next]

PostReady(k) ==
    /\ wpc[k] = "init"
    /\ Goes(k, "check")
    /\ stop' = Post(stop, k)
    /\ UNCHANGED <<mpc, mi, level, threads, win, stamp, ios, cur, begun, start, stats,
                   exited>>

\* while (current->threads)
Check(k) ==
    /\ wpc[k] = "check"
    /\ Goes(k, IF threads # 0 THEN "wait" ELSE "exit")
    /\ UNCHANGED <<mpc, mi, level, threads, win, stamp, ios, cur, begun, start, stop,
                   stats, exited>>

WaitStart(k) ==
    /\ wpc[k] = "wait"
    /\ start[k] > 0
    /\ Goes(k, "test")
    /\ start' = Wait(start, k)
    /\ UNCHANGED <<mpc, mi, level, threads, win, stamp, ios, cur, begun, stop, stats,
                   exited>>

TestInclusive(k) ==
    /\ wpc[k] = "test"
    /\ Goes(k, IF threadid(k) <= threads THEN "next" ELSE "post")
    /\ UNCHANGED <<mpc, mi, level, threads, win, stamp, ios, cur, begun, start, stop,
                   stats, exited>>

\* Only the threads of this round do I/O.
Test(k) ==
    /\ wpc[k] = "test"
    /\ Goes(k, IF threadid(k) < threads THEN "next" ELSE "post")
    /\ UNCHANGED <<mpc, mi, level, threads, win, stamp, ios, cur, begun, start, stop,
                   stats, exited>>

PostStopLost(k) ==
    /\ wpc[k] = "post"
    /\ Goes(k, "check")
    /\ UNCHANGED <<mpc, mi, level, threads, win, stamp, ios, cur, begun, start, stop,
                   stats, exited>>

PostStop(k) ==
    /\ wpc[k] = "post"
    /\ Goes(k, "check")
    /\ stop' = Post(stop, k)
    /\ UNCHANGED <<mpc, mi, level, threads, win, stamp, ios, cur, begun, start, stats,
                   exited>>

(***************************************************************************)
(* do_io.  The loop looks at the start time of the LAST I/O, which at its  *)
(* first turn is one of an earlier round.  A large I/O is split in chunks, *)
(* and a write may be repeated, without looking at the time in between:    *)
(* how often, and until when, is up to sizes and chance.                   *)
(***************************************************************************)
\* io_start takes the time and issues the I/O
IoStart(k) ==
    /\ wpc[k] = "chunk" \/ (wpc[k] = "next" /\ stamp[k] # "over")
    /\ ios[k] < MaxIos \/ win = "over"
    /\ Goes(k, "io")
    /\ stamp' = [stamp EXCEPT ![k] = win]
    /\ ios' = [ios EXCEPT ![k] = IF win = "over" THEN @ ELSE @ + 1]
    /\ begun' = [begun EXCEPT ![k] = IF win = "measure" THEN @ + 1 ELSE @]
    /\ UNCHANGED <<mpc, mi, level, threads, win, cur, start, stop, stats, exited>>

\* the loop ends at endinterval
LeaveAtInterval(k) ==
    /\ wpc[k] = "next" /\ stamp[k] \in {"cool", "over"}
    /\ Goes(k, "post")
    /\ UNCHANGED <<mpc, mi, level, threads, win, stamp, ios, cur, begun, start, stop,
                   stats, exited>>

LeaveDoIo(k) ==
    /\ wpc[k] = "next" /\ stamp[k] = "over"
    /\ Goes(k, "post")
    /\ UNCHANGED <<mpc, mi, level, threads, win, stamp, ios, cur, begun, start, stop,
                   stats, exited>>

\* The time at which the I/O ends decides.
CountedByEnd(k) == win = "measure"

\* counted unless start < endwarmup or start >= endinterval
Counted(k) == stamp[k] = "measure"

\* The I/O returns (an error is ignored with -n) and io_finish accounts for it.
IoDone(k) ==
    /\ wpc[k] = "io"
    /\ Goes(k, "next") \/ Goes(k, "chunk")
    /\ cur' = IF Counted(k) THEN [cur EXCEPT ![k] = @ + 1] ELSE cur
    /\ UNCHANGED <<mpc, mi, level, threads, win, stamp, ios, begun, start, stop, stats,
                   exited>>

\* The I/O fails and iob_errlog calls exit(1).
IoAbort(k) ==
    /\ wpc[k] = "io"
    /\ ~IgnErrors
    /\ exited' = "error"
    /\ UNCHANGED <<mpc, mi, level, threads, win, wvars, start, stop, stats>>

Worker(k) == \/ PostReady(k) \/ Check(k) \/ WaitStart(k) \/ Test(k) \/ PostStop(k)
             \/ IoStart(k) \/ LeaveDoIo(k) \/ IoDone(k) \/ IoAbort(k)

\* The clock moves on.
Tick ==
    /\ win # "over"
    /\ win' = CASE win = "warmup" -> "measure"
                [] win = "measure" -> "cool"
                [] win = "cool" -> "over"
    /\ UNCHANGED <<mpc, mi, level, threads, wvars, start, stop, stats, exited>>

\* exit() ends every thread of the process.
Running == exited = "no"
Ended   == ~Running /\ UNCHANGED vars

Next ==
    \/ Running /\ (Main \/ Tick \/ \E k \in Workers : Worker(k))
    \/ Ended

(***************************************************************************)
(* Every thread that can run does, every I/O returns, and time passes.     *)
(***************************************************************************)
Fairness ==
    /\ WF_vars(Running /\ Main)
    /\ WF_vars(Running /\ Tick)
    /\ \A k \in Workers : WF_vars(Running /\ Worker(k))

Spec     == Init /\ [][Next]_vars
FairSpec == Spec /\ Fairness

-----------------------------------------------------------------------------
(***************************************************************************)
(* Properties.                                                             *)
(***************************************************************************)
\* Every variable has the values the code can give it; a semaphore is never
\* negative.
TypeOK ==
    /\ mpc \in MainPhases /\ mi \in Workers
    /\ level \in Nat /\ threads \in Nat
    /\ win \in Windows
    /\ wpc \in [Workers -> WorkPhases]
    /\ stamp \in [Workers -> Stamps]
    /\ ios \in [Workers -> Nat]
    /\ cur \in [Workers -> Nat]
    /\ start \in [Workers -> Nat] /\ stop \in [Workers -> Nat]
    /\ fpout \in BOOLEAN /\ snap \in Nat /\ last \in Nat /\ nstatus \in Nat
    /\ exited \in {"no", "ok", "halted", "error"}
    /\ begun \in [Workers -> Nat]

InDoIo == {"next", "chunk", "io"}

\* When the summary of a round is printed and the counters are cleared, no I/O
\* thread is in do_io or on its way there: no count is missed or cleared too late.
ReportQuiescent ==
    mpc \in {"report", "setup"} =>
        \A k \in Workers : wpc[k] \notin InDoIo \cup {"test", "post"}

\* A thread does I/O only in rounds it belongs to: the load on the devices is
\* never that of another thread count than the one the summary names.
OnlyActive == \A k \in Workers : wpc[k] \in InDoIo => threadid(k) < threads

\* The summary of a round counts exactly the I/Os that were started in its own
\* measured interval, whatever status lines were printed on the way.
SummaryExact == mpc = "report" => cur = begun

\* At the summary every thread of the round has kept up the load until the round
\* was over, and no other thread has done any I/O in it.
FullLoad ==
    mpc = "report" =>
        \A k \in Workers :
            stamp[k] = IF threadid(k) < threads THEN "over" ELSE "past"

\* A status line is the difference of two snapshots of running counters, taken
\* without a lock; it never underflows, in the first round or in a later one.
StatusNoUnderflow ==
    [][mpc = "status" /\ mpc' = "run" => last <= last']_vars

InTurn(k) == wpc[k] \in {"io", "chunk"}

\* Each turn of do_io's loop, an I/O with its pieces and repeats, has an end.  With
\* repwrite=1 or more, and with maxiosize=0, which ioload accepts, one need not have.
TurnsEnd == \A k \in Workers : InTurn(k) ~> ~InTurn(k) \/ ~Running

\* The ramp comes to its end: every round is started, gathered and reported, if the
\* turns of do_io's loop end.  The threads look at the time, and runtest waits for
\* them, between two turns only.
Terminates == TurnsEnd => <>(exited # "no")
=============================================================================
