------------------------------- MODULE IofRun -------------------------------
(***************************************************************************)
(* One run of iofill (src/src/iofill): the main thread, one control thread *)
(* per file and NThreads I/O threads per file.  The threads meet through   *)
(* counting semaphores, and the I/O threads of a file share the counter    *)
(* thread_bno, from which each of them claims the next block to write.     *)
(* Adding totalio to that counter is how an I/O thread tells its           *)
(* neighbours to stop: the target is full, or the time is over.            *)
(*                                                                         *)
(* Modelled here: runtest, file_thread, io_thread, io_start and io_finish  *)
(* of iof_iotest.c for the sequential fill that the options of iofill can  *)
(* select (seqflag 1, streams 1, readpct 0, writeinject 0).  Offsets are   *)
(* in FillPlan, the details that io_finish records in IobDetails.          *)
(***************************************************************************)
EXTENDS Integers, FiniteSets

CONSTANTS
    NFiles,      \* number of files on the command line
    NThreads,    \* -m threads=
    NIo,         \* -t count=, params.nio
    NRep,        \* -t nrep=
    HasHeader,   \* params.headersz # 0
    Word         \* the counters are integers modulo Word (2^64 in the code)

TotalIo == (NIo * NRep) % Word

ASSUME ShapeAssumption ==
    /\ NFiles \in Nat \ {0}
    /\ NThreads \in Nat \ {0}
    /\ NIo \in Nat
    /\ NRep \in Nat
    /\ HasHeader \in BOOLEAN

(***************************************************************************)
(* The counter does not wrap: every I/O thread may ask for a stop twice    *)
(* (header and block of its last claim) and makes one claim that fails.    *)
(***************************************************************************)
ASSUME WordAssumption ==
    /\ Word \in Nat \ {0}
    /\ TotalIo + NThreads * (2 * TotalIo + 1) < Word

Files   == 0 .. NFiles - 1
Threads == 0 .. NThreads - 1
Thr     == Files \X Threads
Blocks  == 0 .. TotalIo - 1
Kinds   == {"hdr", "io"}

VARIABLES
    mpc, mi,          \* main thread: phase, and the file its loop has reached
    fpc, fi,          \* file threads: phase, and the thread their loop has reached
    tpc, bno,         \* I/O threads: phase, and the block number held in bno
    errno,            \* I/O threads: errno is thread-local and sticky
    nextsec,          \* I/O threads: nextsec # 0, a first I/O has been recorded
    tstart, tstop,    \* semaphores of the I/O threads
    fstart, fstop,    \* semaphores of the file threads
    thread_bno,       \* per file: the shared block counter
    expired,          \* per file: endtime has passed
    exited,           \* "no", or the way the process ended
    (* history variables *)
    claims,           \* per file and block: how often it has been claimed
    signals,          \* per file: the I/Os after which a stop was asked for
    written,          \* per file: the I/Os that were completed without error
    failed            \* an I/O, a thread creation or an output file really failed

sems == <<tstart, tstop, fstart, fstop>>
hist == <<claims, signals, written, failed>>
io   == <<bno, errno, nextsec, thread_bno>>
vars == <<mpc, mi, fpc, fi, tpc, sems, io, expired, exited, hist>>

MainPhases   == {"create", "gather", "go", "finish", "output", "exit"}
FilePhases   == {"new", "create", "gather", "ready", "wait", "go", "finish",
                 "done", "exit"}
ThreadPhases == {"new", "init", "wait", "claim", "hdr", "io", "done", "exit"}

Init ==
    /\ mpc = "create" /\ mi = 0
    /\ fpc = [f \in Files |-> "new"] /\ fi = [f \in Files |-> 0]
    /\ tpc = [t \in Thr |-> "new"] /\ bno = [t \in Thr |-> 0]
    /\ errno = [t \in Thr |-> "zero"]
    /\ nextsec = [t \in Thr |-> FALSE]
    /\ tstart = [t \in Thr |-> 0] /\ tstop = [t \in Thr |-> 0]
    /\ fstart = [f \in Files |-> 0] /\ fstop = [f \in Files |-> 0]
    /\ thread_bno = [f \in Files |-> 0]
    /\ expired = [f \in Files |-> FALSE]
    /\ exited = "no"
    /\ claims = [f \in Files |-> [b \in Blocks |-> 0]]
    /\ signals = [f \in Files |-> {}]
    /\ written = [f \in Files |-> {}]
    /\ failed = FALSE

-----------------------------------------------------------------------------
Add(a, b) == (a + b) % Word

\* a for-loop over n list members, at member i: where it stands after a step
After(i, n) == IF i = n - 1 THEN 0 ELSE i + 1
Leaves(i, n, here, next) == IF i = n - 1 THEN next ELSE here

Post(sem, k) == [sem EXCEPT ![k] = @ + 1]
Wait(sem, k) == [sem EXCEPT ![k] = @ - 1]

(***************************************************************************)
(* The main thread, runtest.                                               *)
(***************************************************************************)
MainLoop(here, next) ==
    /\ mpc = here
    /\ mpc' = Leaves(mi, NFiles, here, next)
    /\ mi' = After(mi, NFiles)

\* iob_thr_create(file_thread); the new thread starts its own first loop
MainCreate ==
    /\ MainLoop("create", "gather")
    /\ fpc' = [fpc EXCEPT ![mi] = "create"]
    /\ UNCHANGED <<fi, tpc, sems, io, expired, exited, hist>>

MainGatherUnguarded ==
    /\ MainLoop("gather", "go")
    /\ fstop' = Wait(fstop, mi)
    /\ UNCHANGED <<fpc, fi, tpc, tstart, tstop, fstart, io, expired, exited, hist>>

MainGather ==
    /\ MainLoop("gather", "go")
    /\ fstop[mi] > 0
    /\ fstop' = Wait(fstop, mi)
    /\ UNCHANGED <<fpc, fi, tpc, tstart, tstop, fstart, io, expired, exited, hist>>

MainGo ==
    /\ MainLoop("go", "finish")
    /\ fstart' = Post(fstart, mi)
    /\ UNCHANGED <<fpc, fi, tpc, tstart, tstop, fstop, io, expired, exited, hist>>

MainFinishUnguarded ==
    /\ MainLoop("finish", "output")
    /\ fstop' = [fstop EXCEPT ![mi] = IF @ > 0 THEN @ - 1 ELSE 0]
    /\ UNCHANGED <<fpc, fi, tpc, tstart, tstop, fstart, io, expired, exited, hist>>

MainFinish ==
    /\ MainLoop("finish", "output")
    /\ fstop[mi] > 0
    /\ fstop' = Wait(fstop, mi)
    /\ UNCHANGED <<fpc, fi, tpc, tstart, tstop, fstart, io, expired, exited, hist>>

\* output() has read every counter; it writes its files, main returns and calls exit(0)
MainExit ==
    /\ mpc = "output"
    /\ mpc' = "exit"
    /\ exited' = "ok"
    /\ UNCHANGED <<mi, fpc, fi, tpc, sems, io, expired, hist>>

\* one of the output files cannot be opened, and iob_errlog calls exit(1)
OutputFails ==
    /\ mpc = "output"
    /\ exited' = "error"
    /\ failed' = TRUE
    /\ UNCHANGED <<mpc, mi, fpc, fi, tpc, sems, io, expired, claims, signals, written>>

Main == MainCreate \/ MainGather \/ MainGo \/ MainFinish \/ MainExit \/ OutputFails

(***************************************************************************)
(* The control thread of file f, file_thread.                              *)
(***************************************************************************)
FileLoop(f, here, next) ==
    /\ fpc[f] = here
    /\ fpc' = [fpc EXCEPT ![f] = Leaves(fi[f], NThreads, here, next)]
    /\ fi' = [fi EXCEPT ![f] = After(@, NThreads)]

\* the I/O thread that the loop of file thread f has reached
At(f) == <<f, fi[f]>>

FileGoes(f, here, next) ==
    /\ fpc[f] = here
    /\ fpc' = [fpc EXCEPT ![f] = next]
    /\ UNCHANGED fi

FileCreate(f) ==
    /\ FileLoop(f, "create", "gather")
    /\ tpc' = [tpc EXCEPT ![At(f)] = "init"]
    /\ UNCHANGED <<mpc, mi, sems, io, expired, exited, hist>>

FileGather(f) ==
    /\ FileLoop(f, "gather", "ready")
    /\ tstop[At(f)] > 0
    /\ tstop' = Wait(tstop, At(f))
    /\ UNCHANGED <<mpc, mi, tpc, tstart, fstart, fstop, io, expired, exited, hist>>

FileReady(f) ==
    /\ FileGoes(f, "ready", "wait")
    /\ fstop' = Post(fstop, f)
    /\ UNCHANGED <<mpc, mi, tpc, tstart, tstop, fstart, io, expired, exited, hist>>

FileStartEarly(f) ==
    /\ FileGoes(f, "wait", "go")
    /\ UNCHANGED <<mpc, mi, tpc, sems, io, expired, exited, hist>>

FileStart(f) ==
    /\ FileGoes(f, "wait", "go")
    /\ fstart[f] > 0
    /\ fstart' = Wait(fstart, f)
    /\ UNCHANGED <<mpc, mi, tpc, tstart, tstop, fstop, io, expired, exited, hist>>

FileGo(f) ==
    /\ FileLoop(f, "go", "finish")
    /\ tstart' = Post(tstart, At(f))
    /\ UNCHANGED <<mpc, mi, tpc, tstop, fstart, fstop, io, expired, exited, hist>>

FileFinish(f) ==
    /\ FileLoop(f, "finish", "done")
    /\ tstop[At(f)] > 0
    /\ tstop' = Wait(tstop, At(f))
    /\ UNCHANGED <<mpc, mi, tpc, tstart, fstart, fstop, io, expired, exited, hist>>

FileDone(f) ==
    /\ FileGoes(f, "done", "exit")
    /\ fstop' = Post(fstop, f)
    /\ UNCHANGED <<mpc, mi, tpc, tstart, tstop, fstart, io, expired, exited, hist>>

File(f) == \/ FileCreate(f) \/ FileGather(f) \/ FileReady(f) \/ FileStart(f)
           \/ FileGo(f) \/ FileFinish(f) \/ FileDone(f)

\* pthread_create fails in iob_thr_create, which calls exit(1)
CreateFails ==
    /\ mpc = "create" \/ \E f \in Files : fpc[f] = "create"
    /\ exited' = "error"
    /\ failed' = TRUE
    /\ UNCHANGED <<mpc, mi, fpc, fi, tpc, sems, io, expired, claims, signals, written>>

-----------------------------------------------------------------------------
(***************************************************************************)
(* I/O thread p, io_thread; p[1] is its file.                              *)
(***************************************************************************)
Goes(p, next) == tpc' = [tpc EXCEPT ![p] = next]

ThreadInit(p) ==
    /\ tpc[p] = "init"
    /\ Goes(p, "wait")
    /\ tstop' = Post(tstop, p)
    /\ UNCHANGED <<mpc, mi, fpc, fi, tstart, fstart, fstop, io, expired, exited, hist>>

ThreadStart(p) ==
    /\ tpc[p] = "wait"
    /\ tstart[p] > 0
    /\ Goes(p, "claim")
    /\ tstart' = Wait(tstart, p)
    /\ UNCHANGED <<mpc, mi, fpc, fi, tstop, fstart, fstop, io, expired, exited, hist>>

\* bno % nio starts every repetition of the fill with the header
StartsRep(b) == HasHeader /\ b % NIo = 0

\* The thread acts on the block number b it has read from thread_bno.
Take(p, b) ==
    IF b < TotalIo
    THEN /\ bno' = [bno EXCEPT ![p] = b]
         /\ claims' = [claims EXCEPT ![p[1]][b] = @ + 1]
         /\ Goes(p, IF StartsRep(b) THEN "hdr" ELSE "io")
    ELSE /\ Goes(p, "done")
         /\ UNCHANGED <<bno, claims>>

ClaimInTwoSteps(p) ==
    /\ \/ /\ tpc[p] = "claim"
          /\ bno' = [bno EXCEPT ![p] = thread_bno[p[1]]]
          /\ Goes(p, "bump")
          /\ UNCHANGED <<claims, thread_bno>>
       \/ /\ tpc[p] = "bump"
          /\ Take(p, bno[p])
          /\ thread_bno' = [thread_bno EXCEPT ![p[1]] = Add(@, 1)]
    /\ UNCHANGED <<mpc, mi, fpc, fi, sems, errno, nextsec, expired, exited,
                   signals, written, failed>>

\* __sync_fetch_and_add
Claim(p) ==
    /\ tpc[p] = "claim"
    /\ Take(p, thread_bno[p[1]])
    /\ thread_bno' = [thread_bno EXCEPT ![p[1]] = Add(@, 1)]
    /\ UNCHANGED <<mpc, mi, fpc, fi, sems, errno, nextsec, expired, exited,
                   signals, written, failed>>

(***************************************************************************)
(* One I/O, io_start followed by io_finish.  The header of a repetition    *)
(* comes before its first block, and the block is written whatever became  *)
(* of the header.                                                          *)
(***************************************************************************)
AskStopByOne(p) ==
    /\ thread_bno' = [thread_bno EXCEPT ![p[1]] = Add(@, 1)]
    /\ signals' = [signals EXCEPT ![p[1]] = @ \cup {<<p[2], tpc[p]>>}]

\* Stop the other threads of the file.
AskStop(p) ==
    /\ thread_bno' = [thread_bno EXCEPT ![p[1]] = Add(@, TotalIo)]
    /\ signals' = [signals EXCEPT ![p[1]] = @ \cup {<<p[2], tpc[p]>>}]

\* Which block or header an I/O of phase kind stands for.
Unit(p) == <<bno[p], tpc[p]>>

HeaderIsBlock(p, err) ==
    /\ Goes(p, "claim")
    /\ errno' = [errno EXCEPT ![p] = err]

\* A message that the thread prints may leave a value of its own in errno.
Prints(p) == errno' = [errno EXCEPT ![p] = "message"]

\* After the I/O: the block follows its header; after the block comes the next
\* claim, and maybe a status line.
IoReturns(p, err) ==
    /\ Goes(p, IF tpc[p] = "hdr" THEN "io" ELSE "claim")
    /\ errno' = [errno EXCEPT ![p] = err] \/ (tpc[p] = "io" /\ Prints(p))

\* The same for an I/O that the target had no room for: io_finish says so on stderr.
IoReturnsFull(p, err) ==
    /\ Goes(p, IF tpc[p] = "hdr" THEN "io" ELSE "claim")
    /\ errno' = [errno EXCEPT ![p] = err] \/ Prints(p)

InIo(p) ==
    /\ tpc[p] \in Kinds
    /\ UNCHANGED <<mpc, mi, fpc, fi, sems, bno, expired, claims>>

\* The I/O transfers all its bytes.  From the second recorded I/O on, one that
\* started after nextsec looks at the clock of the run.
IoOk(p) ==
    /\ InIo(p)
    /\ IoReturns(p, errno[p])
    /\ nextsec' = [nextsec EXCEPT ![p] = TRUE]
    /\ written' = [written EXCEPT ![p[1]] = @ \cup {Unit(p)}]
    /\ \/ UNCHANGED <<thread_bno, signals>>
       \/ nextsec[p] /\ expired[p[1]] /\ AskStop(p)
    /\ UNCHANGED <<exited, failed>>

\* The I/O returns -1 with ENOSPC or EFBIG.
IoFull(p) ==
    /\ InIo(p)
    /\ IoReturnsFull(p, "nospc")
    /\ AskStop(p)
    /\ UNCHANGED <<nextsec, exited, written, failed>>

\* iob_errlog reports the error and calls exit(1).
Abort(p) ==
    /\ exited' = "error"
    /\ UNCHANGED <<tpc, thread_bno, nextsec, signals, written>>

ShortNeedsZeroErrno(p) ==
    /\ InIo(p)
    /\ IF errno[p] = "zero"
       THEN /\ IoReturnsFull(p, errno[p])
            /\ AskStop(p)
            /\ UNCHANGED <<nextsec, exited, written>>
       ELSE Abort(p) /\ UNCHANGED errno
    /\ UNCHANGED failed

\* The I/O returns fewer bytes than asked for and leaves errno as it was: the
\* code classifies it by whatever errno holds.
IoShort(p) ==
    /\ InIo(p)
    /\ IF errno[p] \in {"zero", "nospc"}
       THEN /\ IoReturnsFull(p, errno[p])
            /\ AskStop(p)
            /\ UNCHANGED <<nextsec, exited, written>>
       ELSE Abort(p) /\ UNCHANGED errno
    /\ UNCHANGED failed

\* The I/O returns -1 with any other error.
IoFails(p) ==
    /\ InIo(p)
    /\ Abort(p)
    /\ errno' = [errno EXCEPT ![p] = "other"]
    /\ failed' = TRUE

ThreadDoneSilently(p) ==
    /\ tpc[p] = "done"
    /\ Goes(p, "exit")
    /\ UNCHANGED <<mpc, mi, fpc, fi, sems, io, expired, exited, hist>>

ThreadDone(p) ==
    /\ tpc[p] = "done"
    /\ Goes(p, "exit")
    /\ tstop' = Post(tstop, p)
    /\ UNCHANGED <<mpc, mi, fpc, fi, tstart, fstart, fstop, io, expired, exited, hist>>

Thread(p) == \/ ThreadInit(p) \/ ThreadStart(p) \/ Claim(p)
             \/ IoOk(p) \/ IoFull(p) \/ IoShort(p) \/ IoFails(p)
             \/ ThreadDone(p)

\* The clock passes ftp->endtime, which FileStart has set.
Expire(f) ==
    /\ fpc[f] \in {"go", "finish"}
    /\ ~expired[f]
    /\ expired' = [expired EXCEPT ![f] = TRUE]
    /\ UNCHANGED <<mpc, mi, fpc, fi, tpc, sems, io, exited, hist>>

\* exit() ends every thread of the process.
Running == exited = "no"
Ended   == ~Running /\ UNCHANGED vars

Next ==
    \/ /\ Running
       /\ \/ Main
          \/ CreateFails
          \/ \E f \in Files : File(f) \/ Expire(f)
          \/ \E p \in Thr : Thread(p)
    \/ Ended

(***************************************************************************)
(* The scheduler runs every thread that can run, and every I/O returns.    *)
(* Whether a thread creation fails or the time runs out is not promised.   *)
(***************************************************************************)
Fairness ==
    /\ WF_vars(Running /\ Main)
    /\ \A f \in Files : WF_vars(Running /\ File(f))
    /\ \A p \in Thr : WF_vars(Running /\ Thread(p))

Spec     == Init /\ [][Next]_vars
FairSpec == Spec /\ Fairness

-----------------------------------------------------------------------------
(***************************************************************************)
(* Properties.                                                             *)
(***************************************************************************)
\* Every variable has the values the code can give it: semaphores never go
\* negative, the counter keeps to its width (struct fthread, struct iothread).
TypeOK ==
    /\ mpc \in MainPhases /\ mi \in Files
    /\ fpc \in [Files -> FilePhases] /\ fi \in [Files -> Threads]
    /\ tpc \in [Thr -> ThreadPhases]
    /\ bno \in [Thr -> Nat]
    /\ errno \in [Thr -> {"zero", "nospc", "other", "message"}]
    /\ nextsec \in [Thr -> BOOLEAN]
    /\ tstart \in [Thr -> Nat] /\ tstop \in [Thr -> Nat]
    /\ fstart \in [Files -> Nat] /\ fstop \in [Files -> Nat]
    /\ thread_bno \in [Files -> 0 .. Word - 1]
    /\ expired \in [Files -> BOOLEAN]
    /\ exited \in {"no", "ok", "error"}
    /\ claims \in [Files -> [Blocks -> Nat]]
    /\ signals \in [Files -> SUBSET (Threads \X Kinds)]
    /\ written \in [Files -> SUBSET (Nat \X Kinds)]
    /\ failed \in BOOLEAN

Waiting  == {"new", "init", "wait"}
Starting == {"new", "init"}

\* No I/O thread of any file passes its start semaphore before every I/O thread
\* of every file has been created and is ready: all files are filled from one
\* common start time, the one runtest takes between its two loops.
StartBarrier ==
    \A p, q \in Thr : tpc[p] \notin Waiting => tpc[q] \notin Starting

\* output() sums counters that the I/O threads update without a lock.  When it
\* runs, every one of them has ended, so no update can be missed or torn.
OutputQuiescent ==
    mpc \in {"output", "exit"} => \A p \in Thr : tpc[p] = "exit"

\* Whatever the interleaving of the claims, and whether or not a stop is asked
\* for, no two I/O threads write the same block of a file.
EachBlockOnce ==
    \A f \in Files : \A b \in Blocks : claims[f][b] <= 1

\* The fill is sequential: the blocks that have been claimed are always a prefix
\* of the file's blocks, also after a stop.
SequentialFill ==
    \A f \in Files : \A b \in Blocks :
        claims[f][b] > 0 => \A c \in 0 .. b : claims[f][c] > 0

\* Once an I/O thread of a file has asked for a stop (target full, or the time
\* over), no I/O thread of that file claims another block.
StopIsFinal ==
    [][\A f \in Files : signals[f] # {} => claims'[f] = claims[f]]_vars

HeaderUnits == {<<b, "hdr">> : b \in {c \in Blocks : StartsRep(c)}}
BlockUnits  == {<<b, "io">> : b \in Blocks}

\* When the results are printed and nobody asked for a stop, every block of every
\* file, and the header of every repetition, has been written without an error.
CompleteFill ==
    mpc = "output" =>
        \A f \in Files :
            signals[f] = {} => written[f] = HeaderUnits \cup BlockUnits

\* io_finish means to keep exit status 1 for real errors: a full target, also one that
\* is met by a short write after an I/O that failed for it, ends the fill of that file
\* only.  The one exception is a short write of a thread in whose errno a message (the
\* status line, or the one about the full target) has left its own value: errno is
\* not cleared before an I/O, and such a value counts as an error.
AbortOnlyOnError ==
    exited = "error" =>
        failed \/ \E p \in Thr : tpc[p] \in Kinds /\ errno[p] = "message"

\* The run ends: no thread is left waiting on a semaphore, in particular not when
\* some threads of a file stop early.
Terminates == <>(exited # "no")

=============================================================================
