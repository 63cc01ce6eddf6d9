----------------------------- MODULE IofSeconds -----------------------------
(***************************************************************************)
(* The clock of a fill: when the I/O threads of a file notice that maxrun  *)
(* is over, and the rows "I/Os per thread each second" of the report.      *)
(* Both hang on nextsec: io_finish compares the start time of an I/O with  *)
(* it, at most one row is finished per I/O, and only then is the deadline  *)
(* looked at.                                                              *)
(*                                                                         *)
(* Time is counted in ticks, Sec of them in a second; no I/O is shorter    *)
(* than a tick.  What a thread does between two I/Os takes no time of its  *)
(* own, a delay there is part of the I/O before it.  How threads are       *)
(* started and how the block counter works is in IofRun: here a claim      *)
(* finds a block until the file is stopped or its last block is claimed.   *)
(***************************************************************************)
EXTENDS Integers, FiniteSets, Functions

CONSTANTS
    Threads,     \* the I/O threads of a file
    Sec,         \* ticks of a second, IOB_NSEC_TO_SEC
    MaxTime,     \* -m maxrun= in ticks, params.maxtime
    NSEC,        \* rows of the array seconds
    NHeaders,    \* headers in the fill: one per repetition, or 0 without headers
    StartTimes,  \* bound: when the scheduler may let a thread begin
    MaxLat,      \* bound: the longest I/O
    MaxClock     \* bound: the clock stops here, later than any fill ends

Never == 100000000 * Sec

\* ftp->endtime of a file whose starttime is 0
endtime == IF MaxTime # 0 THEN MaxTime ELSE Never

ASSUME ThreadsAssumption == IsFiniteSet(Threads)

ASSUME TimeAssumption ==
    /\ Sec \in Nat \ {0}
    /\ MaxTime \in Nat
    /\ NSEC \in Nat \ {0}
    /\ NHeaders \in Nat
    /\ StartTimes \subseteq Nat /\ StartTimes # {}
    /\ MaxLat \in Nat \ {0}
    /\ MaxClock \in Nat

VARIABLES
    clock,
    pc,          \* per thread: where it is in io_thread
    start,       \* per thread: detail.start of its I/O
    nextsec,     \* per thread: 0 before the first counted I/O
    nseconds,    \* per thread: the row of its last counted I/O
    seconds,     \* per thread: I/Os in each row
    counted,     \* per thread: I/Os in its latency buckets
    headers,     \* headers begun so far
    stopped,     \* no block of the file is left to claim
    reported,    \* output_seconds has run
    aborted,     \* exit(1) has been called
    (* history variables *)
    first,       \* per thread: start of its first counted I/O
    dense,       \* per thread: no I/O began more than a second after the one before
    overrun      \* per thread: blocks claimed more than a second too late

rows == <<nextsec, nseconds, seconds, counted, first>>
vars == <<clock, pc, start, rows, headers, stopped, reported, aborted, dense, overrun>>

Kinds == {"hdr", "io"}
Rows  == 0 .. NSEC - 1

Init ==
    /\ clock = 0
    /\ pc = [t \in Threads |-> "wait"]
    /\ start = [t \in Threads |-> 0]
    /\ nextsec = [t \in Threads |-> 0]
    /\ nseconds = [t \in Threads |-> 0]
    /\ seconds = [t \in Threads |-> [i \in Rows |-> 0]]
    /\ counted = [t \in Threads |-> 0]
    /\ headers = 0
    /\ stopped \in BOOLEAN    \* totalio may be 0
    /\ reported = FALSE
    /\ aborted = FALSE
    /\ first = [t \in Threads |-> 0]
    /\ dense = [t \in Threads |-> TRUE]
    /\ overrun = [t \in Threads |-> 0]

-----------------------------------------------------------------------------
Goes(t, next) == pc' = [pc EXCEPT ![t] = next]

ThreadStart(t) ==
    /\ pc[t] = "wait"
    /\ clock \in StartTimes
    /\ Goes(t, "claim")
    /\ UNCHANGED <<clock, start, rows, headers, stopped, reported, aborted, dense, overrun>>

Later(a, b) == IF a < b THEN b ELSE a

\* By now the thread should have noticed that the time is over.
Overdue(t) == nextsec[t] # 0 /\ clock > Later(endtime, first[t]) + Sec

\* The thread has done an I/O, or its header, before.
NotFirst(t) == nextsec[t] # 0 \/ pc[t] = "hdr"

\* io_start: the I/O of phase k begins
Begins(t, k) ==
    /\ Goes(t, k)
    /\ start' = [start EXCEPT ![t] = clock]
    /\ dense' = [dense EXCEPT ![t] = @ /\ (NotFirst(t) => clock - start[t] <= Sec)]

\* A thread claims a block, which may be the file's last, and goes on with it or
\* with the header before it.
Claim(t) ==
    /\ pc[t] = "claim"
    /\ ~stopped
    /\ \/ Begins(t, "io") /\ UNCHANGED headers
       \/ headers < NHeaders /\ Begins(t, "hdr") /\ headers' = headers + 1
    /\ stopped' \in BOOLEAN
    /\ overrun' = [overrun EXCEPT ![t] = IF Overdue(t) THEN @ + 1 ELSE @]
    /\ UNCHANGED <<clock, rows, reported, aborted>>

NoBlockRetries(t) ==
    /\ pc[t] = "claim"
    /\ stopped
    /\ UNCHANGED vars

NoBlock(t) ==
    /\ pc[t] = "claim"
    /\ stopped
    /\ Goes(t, "gone")
    /\ UNCHANGED <<clock, start, rows, headers, stopped, reported, aborted, dense, overrun>>

\* The I/O has returned: the block follows its header, the next claim the block.
Ends(t) ==
    /\ pc[t] \in Kinds
    /\ clock > start[t]
    /\ IF pc[t] = "hdr" THEN Begins(t, "io")
       ELSE Goes(t, "claim") /\ UNCHANGED <<start, dense>>
    /\ UNCHANGED <<clock, headers, reported, aborted, overrun>>

\* The I/O began after the end of the row.
NewRow(t) == nextsec[t] # 0 /\ start[t] > nextsec[t]

CapPastEnd(t) ==
    IF NewRow(t) /\ nseconds[t] < NSEC THEN nseconds[t] + 1 ELSE nseconds[t]

\* tp->nseconds after the I/O: one row on, but not past the last one
Row(t) ==
    IF NewRow(t) /\ nseconds[t] < NSEC - 1 THEN nseconds[t] + 1 ELSE nseconds[t]

NextsecFromStart(t) ==
    IF nextsec[t] = 0 \/ NewRow(t) THEN start[t] + Sec ELSE nextsec[t]

\* tp->nextsec after the I/O
Nextsec(t) ==
    IF nextsec[t] = 0 THEN start[t] + Sec
    ELSE IF NewRow(t) THEN nextsec[t] + Sec ELSE nextsec[t]

DeadlineInLastRow(t) == NewRow(t) /\ nseconds[t] = NSEC - 1 /\ start[t] > endtime

\* The I/O finds that the time is over.
TimeOver(t) == NewRow(t) /\ start[t] > endtime

\* io_finish of an I/O without error
IoOk(t) ==
    /\ Ends(t)
    /\ nextsec' = [nextsec EXCEPT ![t] = Nextsec(t)]
    /\ nseconds' = [nseconds EXCEPT ![t] = Row(t)]
    /\ seconds' = [seconds EXCEPT ![t][Row(t)] = @ + 1]
    /\ counted' = [counted EXCEPT ![t] = @ + 1]
    /\ first' = [first EXCEPT ![t] = IF nextsec[t] = 0 THEN start[t] ELSE @]
    /\ stopped' = (stopped \/ TimeOver(t))

\* io_finish of an I/O that met the full target: it is in no row
IoFull(t) ==
    /\ Ends(t)
    /\ stopped' = TRUE
    /\ UNCHANGED rows

\* io_finish of an I/O that met any other error: iob_errlog calls exit(1)
IoFails(t) ==
    /\ pc[t] \in Kinds
    /\ clock > start[t]
    /\ aborted' = TRUE
    /\ UNCHANGED <<clock, pc, start, rows, headers, stopped, reported, dense, overrun>>

Thread(t) == \/ ThreadStart(t) \/ Claim(t) \/ NoBlock(t)
             \/ IoOk(t) \/ IoFull(t) \/ IoFails(t)

\* Time goes on while threads wait for their start or for an I/O.
Tick ==
    /\ clock < MaxClock
    /\ \E t \in Threads : pc[t] # "gone"
    /\ \A t \in Threads :
          /\ pc[t] # "claim"
          /\ pc[t] = "wait" => \E s \in StartTimes : s > clock
          /\ pc[t] \in Kinds => clock - start[t] < MaxLat
    /\ clock' = clock + 1
    /\ UNCHANGED <<pc, start, rows, headers, stopped, reported, aborted, dense, overrun>>

-----------------------------------------------------------------------------
\* output_seconds prints the rows 0 .. maxsec - 1 of all threads; maxrow is the
\* greatest nseconds, or 0 if there is none.
maxrow == CHOOSE n \in Rows :
              /\ n = 0 \/ \E t \in Threads : nseconds[t] = n
              /\ \A t \in Threads : nseconds[t] <= n

maxsecBelowCap == IF maxrow < NSEC - 1 THEN maxrow + 1 ELSE maxrow

maxsec == IF maxrow < NSEC THEN maxrow + 1 ELSE maxrow

\* The results come when every thread of the file has ended.
Output ==
    /\ \A t \in Threads : pc[t] = "gone"
    /\ ~reported
    /\ reported' = TRUE
    /\ UNCHANGED <<clock, pc, start, rows, headers, stopped, aborted, dense, overrun>>

\* The rows file, or an output file before it, cannot be opened: exit(1).
OutputFails ==
    /\ \A t \in Threads : pc[t] = "gone"
    /\ ~reported
    /\ aborted' = TRUE
    /\ UNCHANGED <<clock, pc, start, rows, headers, stopped, reported, dense, overrun>>

Report == Output \/ OutputFails

\* exit() ends every thread of the process.
Running == ~aborted
Ended   == (reported \/ aborted) /\ UNCHANGED vars

Next ==
    \/ Running /\ ((\E t \in Threads : Thread(t)) \/ Tick \/ Report)
    \/ Ended

\* Threads run when they can, every I/O returns, time goes on.
Fairness ==
    /\ \A t \in Threads : WF_vars(Running /\ Thread(t))
    /\ WF_vars(Running /\ Tick)
    /\ WF_vars(Running /\ Report)

Spec == Init /\ [][Next]_vars /\ Fairness

-----------------------------------------------------------------------------
(***************************************************************************)
(* Properties.                                                             *)
(***************************************************************************)
\* Every variable has the values the code can give it; nseconds is an index of
\* the array seconds (struct iothread).
TypeOK ==
    /\ clock \in 0 .. MaxClock
    /\ pc \in [Threads -> {"wait", "claim", "hdr", "io", "gone"}]
    /\ start \in [Threads -> 0 .. MaxClock]
    /\ nextsec \in [Threads -> Nat]
    /\ nseconds \in [Threads -> Rows]
    /\ seconds \in [Threads -> [Rows -> Nat]]
    /\ counted \in [Threads -> Nat]
    /\ headers \in 0 .. NHeaders
    /\ stopped \in BOOLEAN
    /\ reported \in BOOLEAN
    /\ aborted \in BOOLEAN
    /\ first \in [Threads -> 0 .. MaxClock]
    /\ dense \in [Threads -> BOOLEAN]
    /\ overrun \in [Threads -> Nat]

\* A fill that runs into maxrun does not go on: a thread claims at most one block
\* later than a second after the end (or after its own first I/O, if that was late).
StopsInTime == \A t \in Threads : overrun[t] <= 1

InRow(t, i) == first[t] + i * Sec

\* Row i of a thread holds I/Os that began more than i seconds after its first one.
\* While no I/O takes longer than a second it holds exactly those of second i; after
\* a longer one the rows lag behind, by one second less with each I/O.
\* (Stated of the block a thread has just done, until the fill is stopped.)
RowsInStep ==
    \A t \in Threads : pc[t] = "claim" /\ counted[t] > 0 /\ ~stopped =>
        /\ nseconds[t] > 0 => start[t] > InRow(t, nseconds[t])
        /\ dense[t] /\ nseconds[t] < NSEC - 1 => start[t] <= InRow(t, nseconds[t] + 1)

\* The printed rows of a thread add up to the I/Os that the other reports count for
\* it, whichever thread has the most rows and also if the array was too short.
RowsExact ==
    reported => \A t \in Threads :
        SumFunctionOnSet(seconds[t], 0 .. maxsec - 1) = counted[t]

\* A fill ends even if its blocks never do: the deadline is noticed.  It ends with
\* its report, unless an I/O or an output file fails.
Terminates == <>(reported \/ aborted)

=============================================================================
