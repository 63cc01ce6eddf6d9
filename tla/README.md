# blockbench in TLA+

blockbench is a pair of programs that load block devices: `iofill` fills files or
devices with data, `ioload` puts a growing random load on them and measures it. Both
are multi-threaded C programs on counting semaphores, shared counters without locks,
and a small library in `src/lib`. This directory models that behaviour in TLA+, checks
the models with TLC and proves every safety property that the runs check with TLAPS,
for all sizes.

## The system

| component | code | state | operations | what makes it correct |
|---|---|---|---|---|
| iofill run control | `src/src/iofill/iof_iotest.c`, `iof_init.c` | phase of the main thread, one file thread per file, `nthreads` I/O threads per file; `start`/`stop` semaphores of each; `thread_bno` per file; thread-local `errno`, `nextsec` | `runtest`, `file_thread`, `io_thread`, `io_start`, `io_finish` | all files start together; the report sees only ended threads; each block is handed out once and in order, and none is lost; a stop is final; exit status 1 only for what is or looks like an error; the run ends |
| iofill deadline and rows | `file_thread`, `io_finish`; `output_seconds` in `iof_output.c` | `endtime` of a file; `nextsec`, `nseconds`, `seconds[]` of a thread | `io_finish`, `output_seconds` | the deadline is noticed in time; an I/O is in the row of its second; no I/O is missing in the rows |
| iofill region | `ithreadinit`, offset part of `io_thread` | parameters, `rangeoff` | layout of header and blocks | I/Os stay in the region; pieces do not overlap; the region is filled |
| ioload run control | `src/src/ioload/iol_iotest.c`, `iol_init.c`, counters of `iol_output.c` | `current` (threads, times), `start`/`stop` of each thread, counters `cur`, `last` | `runtest`, `io_thread`, `do_io`, `io_start`, `io_finish`, `output`, `stats_diff` | rounds do not mix; a summary counts exactly its interval; load is kept up; the ramp ends |
| detail records | `src/lib/iob_stats.c`, called by both | `cur_iodet`, `details[]` | `iob_details_init/add/reset/output` | one record per slot, the first ones are kept, reports are complete |
| ioload offsets | `do_io` and `io_start`, `init_threads` of `iol_init.c`, options in `iol_main.c` | `params`, `itlist`, `rangeoff`, buffers; `offset`, `baseoff`, `sz` of a thread | one per option, `init_threads`, random offset, pieces of `maxiosize`, repeats, sleeps | pieces stay in the region, on sectors and in the buffers; each turn does the whole I/O |
| ioload reports | `io_finish`, `iol_output.c` | `cur`, `last`, `pctval`, `latency_flag` | `io_finish`, `output`, `stats_diff`, `printbuckets`, halting | a summary's percentiles are those of its round; the test halts when, and only when, they exceed the limit |
| other iofill reports | `output_times`, `output_latency` in `iof_output.c` | counters of ended threads | sums, percentiles, CSV output | not modelled: sequential, after the last thread has ended |
| write data | `iob_initdata`, `iob_iodata`, `iob_dedupdata` in `iob_lib.c` | buffers | fill a buffer | not modelled: nothing depends on the data |
| other options | `iof_main.c`, `iol_main.c` | parameters | `getopt`, `getsubopt` | not modelled: constants of the modules |
| SCSI, data tables, build files | `iob_scsi.c`, `iob_pstdata.c`, `iob_vmdata.c`, autotools | | | not modelled: unused by the two programs, or generated |

How they interact: the main thread creates threads and meets them only through the
semaphores; I/O threads of a file share `thread_bno`; all I/O threads share the detail
array; the reports read every thread's counters without a lock, and rely on the
semaphores for the threads to be at rest. `exit()` in any thread ends the process.

What is hard to test: the interleavings of claims, stops and deadlines; a thread that
ends early; two uses of one semaphore (`stop` means "ready" and later "done"); status
lines printed while threads count and record; rounds that follow each other at once;
sticky `errno` and sticky percentiles; wrap-around at the end of the region and of 64
bits; options in any order and combination. `PROJECT.json` lists each hazard
at its line with the properties that cover it, or the reason why none does.

## Modules

| module | what it is |
|---|---|
| `IofRun` | one run of iofill |
| `IofRunInv` | its inductive invariants `SemaphoreAccount`, `ClaimAccount`, `WorkAccount`; how it maps to `WorkPool` |
| `WorkPool` | abstract: what a fill promises, blocks handed out from a pool that can be closed |
| `IofRunProofs` | theorems about `IofRun`; `IofRun` implements `WorkPool` |
| `IofSeconds` | the deadline of a fill and its rows per second |
| `IofSecondsProofs` | theorems about `IofSeconds` |
| `IolRounds` | the ramp of rounds of ioload |
| `IolRoundsInv` | its inductive invariants `HandShake`, `RoundAccount`; how it maps to `LoadRamp` |
| `LoadRamp` | abstract: what a ramp promises, rounds of a load of growing level |
| `IolRoundsProofs` | theorems about `IolRounds`; `IolRounds` implements `LoadRamp` |
| `IobDetails`, `MCIobDetails` | the shared detail records; thread symmetry for TLC |
| `IobDetailsProofs` | theorems about `IobDetails`, among them that a report is exact |
| `FillPlan`, `MCFillPlan` | where a fill reads and writes; families of command lines for TLC |
| `FillPlanProofs` | theorems about `FillPlan`, among them that a fill is complete |
| `IolIo`, `MCIolIo` | offsets, pieces and sleeps of ioload, from its options on |
| `IolIoProofs` | theorems about `IolIo` |
| `IolLatency`, `MCIolLatency` | latency buckets, percentiles and the halt of ioload |
| `IolLatencyProofs` | theorems about `IolLatency` |
| `Arithmetic` | lemmas of several proofs: products, remainders and quotients, induction over finite sets and numbers, sums |

Apart from the two refinements the modules meet in stated facts. `IobDetails` lets the
last report of a round run only when all threads are at rest: this is `OutputQuiescent`
of `IofRun` and `ReportQuiescent` of `IolRounds`, both proved. `FillPlan` takes blocks one
after the other, as the pool `WorkPool` hands them out. `IofSeconds` takes from `IofRun`
that a claim finds a block until the file is closed or used up. `IolLatency` makes a
summary in one step, and `IolRounds` takes its halt as a choice: that no I/O ends in
between is `ReportQuiescent`, proved. `IolIo` needs one thread only, since threads share
no offset and no buffer.

### IofRun

Main thread `mpc`/`mi`, file thread `fpc[f]`/`fi[f]`, I/O thread `tpc[p]` for the pair
`p = <<file, thread>>`; an index is the place a loop over a list has reached, and one
iteration is one action, so every interleaving of posts and waits happens. `Claim` is
the `fetch_and_add` of gcc; the branches for SunPro and HP-UX, where it is two steps, are
not modelled, since the tools only build on Linux (`src/doc/BUILD:3`). An I/O ends as
`IoOk`, `IoFull` (ENOSPC, EFBIG), `IoShort` (fewer bytes, `errno` unchanged and read
nevertheless) or `IoFails` (abort). After a block a status line may be printed, and after
a full target a message is; either may leave a value of its own in `errno`, `"message"`
(`Prints`), since the code neither saves `errno` nor clears it. Whoever meets a full
target or a passed deadline adds `totalio` to `thread_bno` (`AskStop`). The process ends
with status 0 (`MainExit`), or with 1 when an I/O fails (`IoFails`, `IoShort`), a thread
cannot be created (`CreateFails`) or an output file cannot be opened (`OutputFails`). Not
in the model:
latency buckets, and the pause, write-inject and flush protocol, which is reached only
with parameters that no option of iofill sets.

### WorkPool and its refinement

A pool hands out the blocks of each file in order, one to a worker that holds none; the
holder finishes it, gives it up because the file is full, or closes the file because of
that or of the time; after a close nothing of the file is handed out; the report needs
all hands empty and every file closed or done. The map from `IofRun` (`Given`, `Held`,
`Done`, `Closed` in `IofRunInv`): given is what has been claimed, held the block number
of a thread that is between its claim and the return of its block, done what has been
written without an error, closed that a stop has been asked for. The semaphores, the
file threads and the counter are invisible. A claim after a stop is a stutter, because
`thread_bno` is then `totalio` or more.

### IofSeconds

Time is in ticks, `Sec` of them a second, and passes while every thread waits for its
start or for an I/O. `NewRow`, `Row`, `Nextsec` and `TimeOver` are the branches of
`io_finish`, taken by the START time of the I/O that has ended; `maxrow` and `maxsec`
the loop and the correction in `output_seconds`. `IoFull` is the early return that
counts nothing; `IoFails` and `OutputFails` are the two `exit(1)`. History variables:
`first` (start of the thread's first counted I/O), `dense` (no two I/Os began more than
a second apart, the thread's first header included) and `overrun` (blocks claimed too
late).

### IolRounds

`mpc`/`mi` is `runtest`, `wpc[k]` the I/O thread, numbered over all files as `runtest`
walks them; `threadid(k)` is its number in its file. `win` is the part of the round in
which the clock is (`warmup`, `measure`, `cool`, `over`), `stamp[k]` the start time of
the thread's last I/O on that scale (`past`: before this round). `do_io` tests that old
time, not the clock, and so does the model. Status lines add up `cur` thread by thread
while the threads count. A halt on latency is a free choice. A turn of `do_io`'s loop, with
its pieces and repeats, looks at no time and has no bound (`IoDone` goes to `"chunk"` or
`"next"` freely); whether each turn has an end depends on options, and `TurnsEnd` says it.

### LoadRamp and its refinement

A round begins, each worker whose rank is below the level joins once, works, has
everything counted that it began in the measured time, and leaves when the time is over;
the summary needs that all of them have joined and left and that what is counted is what
was begun; then the next level. The run may end at any time. The map from `IolRounds`
(`Phase`, `Working`, `Joined` in `IolRoundsInv`): working is being in `do_io`, joined is
that or having taken a time in this round, counted is `cur`. Semaphores, waking of threads
that take no part, status lines and the last wake-up are invisible.

### IobDetails

`Claim` advances `cur_iodet`, `CopyHalf` and `CopyRest` copy the record in two steps, so
that a torn record is visible. `StartOutput`, `PrintLine`, `StatusDone`/`RoundDone` are
the report and its reset. `program` is `"fill"` (one report at the end) or `"load"`
(a report per round and per status line). Only gcc builds.

### FillPlan

`Rangeoff`, `RegionEnd`, `Place`, `Header`, `Block` are the computations of the code,
modulo 2^64 (`Word`) and, for a size, 2^32 (`Uint`); `cmd` is one command line, `ios` the
I/Os so far. No option but `size` is taken to be in order: `Fits`, a condition of the
properties, says that `minoff` is not above `maxoff` and that no sum or product wraps.

### IolIo

`stage` is where the process is: options (`"main"`, `"itype"`), `"pick"` at the top of
`do_io`'s loop, `"pass"` within an I/O, `"exit"`. `SetMinoff`, ..., `EndItype` are the
cases of `getmodopts` and `getitypeopts`, in any order; a refused option ends the
process, as `usage` does. `InitThreads` computes `headersz`, `rangeoff` and `iosize`
modulo `Word` (2^64 in the code). `Pick` draws any random number of the word, `DoPiece`
is one turn of the inner loop with `io_start`, which changes the size of a sleep and asks
`nanosleep` for `Nanos` of it, a product of 32 bits (`Uint`); `Repeat` and `PassEnd` are
the two ends of a turn. With `maxiosize=0` a transfer makes no headway (`EmptyPiece`) and
a sleep divides by 0, which ends the process (`SleepTraps`, stage `"trap"`). `pass` and
`asked` (the ns asked for in this turn) are history variables.

### IolLatency

`Io` is the counting part of `io_finish`. A status line has two steps, because the
totals are read after the buckets while I/Os go on; a summary has one. `pctval` is a
global of the code and keeps what is not found. `shown` and `seen` are history
variables: what was printed for all files, and the latencies themselves, from which the
properties compute what a percentile should be without looking at a bucket.

## Runs

| run | bounds | shows |
|---|---|---|
| `iof_barrier` | 2 files, 2 threads, 1 block | start barrier, quiescent report, semaphores, termination |
| `iof_claims` | 1 file, 3 threads, 3 repetitions of a header and a block | `IofRun` implements `WorkPool`; account of all claims, complete fill, final stops, error classification |
| `iof_seconds` | 2 threads, 2 ticks a second, `maxrun` of 2 s, 3 rows, I/Os up to 1.5 s | deadline noticed in time, rows in step and complete, termination |
| `iol_ramp` | 1 file, rounds of 1 and 2 threads, 2 status lines, 2 I/Os per thread | `IolRounds` implements `LoadRamp`; exact summaries, account of the hand-shakes and counters, status lines, termination |
| `iol_init0` | `initthreads=0` | **violation**: the ramp hangs |
| `details` | 3 threads, 3 slots, 2 records, 2 rounds, 1 status line | exact reports, nothing of another round |
| `details_longlat` | 2 threads, 2 slots, 1 status line | **violation**: a long I/O is never reported |
| `fill_small` | 10368 command lines, blocks of 3 and 4 bytes, multipliers 0 to 6, words of 64 and 32 | region and `maxoff`, alignment, complete fill |
| `iol_io` | words of 128 and 16, sectors of 2 bytes, 2 types of I/O, 3 sizes, 2 values of each other option, 0 among them | region, sectors, buffers, whole I/Os, length of sleeps, no division by 0 but one |
| `iol_range` | the same | **violation**: a region too small for its I/Os is accepted |
| `iol_latency` | 2 files, 3 buckets, 3 I/Os per round, 2 rounds, percentiles 1/2 and 2/3, any number of status lines | right percentiles, right halts |
| `iol_halt` | the same | **violation**: halt on a percentile of another round |

Why the bounds are enough. Two files and two threads per file give both kinds of
neighbours; three threads let one claim while another stops and a third is between its
claim and its I/O; three repetitions with a header give both kinds of I/O and a block
number that wraps (every block begins a repetition there; those of `iof_barrier` have no
header). In `iof_seconds` two ticks are the least in which an I/O can be shorter than,
as long as and longer than a second; the deadline lies before and after the first I/O of
a thread (`StartTimes` 0 and 5), the array of 3 rows is overrun, `MaxClock` is later
than any fill can go on, so that it never holds the clock back, and one header is enough
to have two I/Os for one claim. Two rounds show what one leaves for the next; a thread
that sits out round one and works in round two, the change of its role; two status lines
in a round make one that subtracts another of the same round. `MaxStatus` bounds a loop
whose iterations are alike; `MaxIos` bounds the I/Os that a thread begins before the
round is over, and none after it: a turn under way may then still go on for as long as
it likes. Three slots for up to six records fill the array. In `fill_small` headers are
none, shorter than, equal to and longer than a block, regions begin and end inside
blocks, and fills are shorter and longer than the region; `minoff` lies before and
behind `maxoff`, and some sums and products pass the word of 64. The sizes of `iol_io`
make one, two and two and a half pieces; an odd one is refused, an odd time of a sleep
is not; headers are none, a default one and one as large as an I/O; one size is as large
as the small region and one too large; a word is five regions, so that random offsets
wrap around the range and a failing subtraction is large; a second is 3 us of 2 ns, so
that sleeps are shorter and longer than a second, and 16, the word of their nanoseconds,
is passed by a piece of 8 us and not by those of 4. The latencies of `iol_latency` are
one in the first bucket, one at the limit and one after the last bucket; three I/Os make
the two percentiles differ, and are spread over files and types in every way; with `-v`
every file is printed after the sum. Two files in one ramp are left to the proofs about
`IolRounds`, whose theorems hold for any number. The theorems below have no bounds.

Fairness: weak fairness of every thread's next step, as a preemptive scheduler gives it,
of I/O completion (part of the thread's step) and of the clock in ioload and in
`IofSeconds`, where the clock waits for an I/O of `MaxLat` ticks: every I/O returns. A
thread at a semaphore is enabled only while it is positive, and no two threads wait on
the same one. Failures, deadlines and halts are never assumed to happen. That the turns
of `do_io`'s loop in ioload end is no fairness but the condition `TurnsEnd` of
`Terminates`. The code has it if `maxiosize` is not 0, so that an I/O has finitely many
pieces, and `repwrite` is below 1, so that each repeat may be the last; ioload accepts
other values, with which the test has no end, and the property without its condition
does not hold in `iol_ramp`. Deadlock is checked in every passing run; `IolIo` and
`IolLatency` stutter where the process has ended; `iol_init0` switches it off because
its temporal property shows the hang.

Every property of a passing run has a mutant, a plausible slip in the code (a dropped
wait, a claim in two steps, a reset left out), that makes TLC report it.

## Proofs

All for every value of the constants that the named assumptions allow; the prover checks
every step. Every invariant and action property of a passing run is the statement of a
theorem below. TLC finds each inductive invariant true on the constants of the
component's run, too (that of `FillPlan` with bounds in the place of `Nat`).

`IofRunProofs`. `TypeCorrect`. `SemaphoresAccounted`: for each I/O thread and each file
thread the sum of its start semaphore, its stop semaphore and whether it is at work
equals what its partner has asked for and not collected. None of the barrier properties
is inductive without it: a wait that succeeds proves something about another thread only
because no other token can be there. `Barrier` and `Quiescent` follow from it.
`ClaimsAccounted`: while nobody asked for a stop the counter is the number of claims
made plus late ones, afterwards it is at least `totalio`; `BlockOnce`, `Sequential` and
`StopHolds` follow. It needs `WordAssumption`: the additions of all stops fit the word;
with the default count that is millions of threads away.

The pool, in the same module. `FillAccounted` adds to it that, until a stop, each header
and block claimed is written or in the hands of the thread that claimed it
(`WorkAccount`): a claim alone says nothing about the block's fate, and the counter
nothing about who has it. `Complete` follows with `Quiescent`: nobody has anything in
hand at the report. `PoolImplemented`: a step of `IofRun` is a step of the pool or
changes nothing of it; the claim maps to `Take` because the counter is the length of
what was given, the report needs `Quiescent` and `Complete`. `AbortsOnError`:
what a thread has in `errno` comes from the full target, from a message, or from a real
error, after which the process has ended (`ErrnoAccount`). So a short write that aborts
the fill is one of a thread with a message's value; the property names this case, since
the code has it, and excludes every other.

`IolRoundsProofs`. `TypeCorrect`. `HandShakes`: `start[k] + stop[k]` plus "busy" is 1
while something is pending between the main thread and thread k and 0 otherwise.
`RoundsAccounted`: the I/Os begun in the interval are those counted plus the one under
way; threads in `do_io` belong to the round; a thread that came back has a last I/O
begun after `finish`. `Quiescent`, `Active`, `Exact` and `Loaded` follow.

Status lines, in the same module. `NoUnderflow`: the counters are sums over the threads
that grow while they are added up, so that neither the previous status line nor the one
in the making bounds the sum by itself. `SnapAhead` says that what has been added up is
at most what these threads have counted by now, and that it will come to at least the
previous line with what the other threads have counted already.

The ramp, in the same module. `RampImplemented`, by the same argument as for the pool.
It needs one more invariant, `RoundClocks`: a thread that has not yet entered `do_io` in
a round has a start time of an earlier one, or it would leave at once, and no start time
lies ahead of the clock.

`IobDetailsProofs`. `TypeCorrect`: with `Rests` (no thread adds a record during the last
report of a round) and `Copies` (who copies has a slot of the array and a record of this
round) the type invariant is inductive. `OwnRound` carries the round through the slots,
`NoLineExtra` bounds what has been printed plus what can still be by the claims.
`ExactReport`: while a round has had no status line, a claimed slot holds the record of
its claim or one thread is still copying it there (`Filled`, `Pending`); that no two
threads copy into one slot follows, because the claim of the slot names one of them. At
the last report nobody copies, so that the slots are the claims.

`FillPlanProofs`. Where the options fit (`Fits`) no remainder modulo the word matters, and
the proofs go on without them. `Region`: from monotonicity of product and quotient, every
place is at least `minoff` and before the end of the region, and what crosses the end is
cut off. `EndsByMaxoff`: the whole blocks between the offsets are longer than what is
between them by the difference of the offsets' remainders, so that the region ends behind
`maxoff` (spread by the multiplier) exactly if that is positive, and by a block at most.
The condition `SeekFits` is needed for the header, which the code does not cut off.
`Pieces`: without a seek every I/O is one of the fixed pieces `Header` and `Block` of
the command line, because places are taken modulo a whole number of blocks; pieces of
different numbers are apart. `Fills`: in a fill of as many blocks as the region, `Turn`
says which block of a repetition writes a byte (the first one, which is a shorter block
behind the header, or the header itself); the invariant (`At`) counts, q repetitions and
r blocks into the fill, q writes of each byte and one more where its turn was before r.
`TypeCorrect` bounds the headers by one for each repetition begun.

`IofSecondsProofs`. The invariant is one for each thread (`ThreadOK`), and the rest of
the fill disturbs it only by stopping (`Others`). `StopsSoon` needs `LimitOK` (until the
stop no row ends more than a second after the end of the time) and `OverrunOK` (a thread
that has claimed too late has an I/O under way that will find the time over).
`RowsKeepStep` needs `RowOK` (`nextsec` is the end of the row that `nseconds` names,
until the array is full) and `DenseOK`, which follows a thread through the header and
the block of one claim. `RowsAddUp` needs that rows to come are empty (`SumOK`) and that
`maxsec`, the greatest of the threads' rows, exceeds every row that is in use.

`IolIoProofs`. `OptionsOK`: what each option has been checked for, in whatever order
they come; the size of a type is whole sectors until `EndItype` puts the time of a sleep
in its place. `RegionOK`: `rangeoff` and `iosize` are those of the largest type.
`PassOK`: in an I/O the pieces so far follow each other (`Chain`), each within the part
of the I/O that is done, and what is left is `sz`. `StaysInRegion` comes down to a fact
about remainders: a start is a remainder modulo `rangeoff`, which has been reduced by
the largest I/O, or which the size divides. `StaysAligned` needs that `rangeoff` is
whole sectors even where a subtraction has wrapped, hence that `Word` is. `SleepsInTime`
needs that the ns asked for so far are those of the time slept so far, which they are as
long as no piece's ns pass 32 bits (`PiecesFit`). `BuffersFit`, `TransfersWhole` and
`TypeCorrect` follow from the same invariant; that only `maxiosize=0` leads to a division
by 0 is `OptionsOK` and the check of `init_threads`, which a range of 0 does not pass.

`IolLatencyProofs`. The invariant says that the counters of a bucket are the numbers of
latencies in it that have been seen (`Match`), that sums read for a status line are at
most the counters, and that what a summary has shown is `Exact`: the end of the bucket
with which the running sum reaches the percentile. `Percentiles` turns sums over buckets
into sums over latencies. `SlowHalts` and `FastGoesOn` add that of two ends of buckets
the smaller has at most as many latencies below it, and that the halt compares the very
value shown. `TypeCorrect` holds the property that no difference of two status lines
wraps around.

`Arithmetic`. The sums are the community modules' `SumFunctionOnSet`, whose recursion
goes by `CHOOSE` and says nothing about the order. `SumAdd` (an element more),
`SumAddWhole` and the rest are proved once: that the recursion has exactly
one solution, by induction over finite sets; the induction itself (`FiniteInduction`,
`NaturalInduction`) is that of a minimal counterexample, with a set in the place of a
predicate, since the provers cannot instantiate a theorem with an operator parameter.

Assumptions on the constants, and why the code has them. `UnitsAssumption`,
`DefaultsAssumption` of `IolIo`: units and defaults of `iol_main.c` are whole sectors.
`ValuesAssumption`, `WidthAssumption`: the values of options are numbers, 0 included;
offsets in MB, and a header with one I/O, are shorter than 2^64 bytes; the code shifts and
multiplies without a check, and greater numbers are larger than any device. `RegionFits`, a
condition of `InRegion` and no assumption, says the same of the region spread by
`multiplier`. `ThreadsAssumption` of
`IofSeconds`: finitely many threads. `LatencyAssumption` of `IolLatency`: a latency is a
number of 64 bits, hence of a finite set, and there is at least one round (a ramp
without one does nothing); percentiles are listed in increasing order. `ShapeAssumption`
of `IofRun`: `threads=0`, which iofill does not refuse and which then fills nothing, is
left out. `WordAssumption`: above. `CommandsAssumption` of `FillPlan`: `size` is a
positive number of 32 bits, offsets are numbers of 64 bits, and the fill has a block
(`count` and `nrep` are not 0).

Only model-checked: that iofill, its deadline and ioload terminate (`Terminates` of
three modules), since liveness under fairness is out of the prover's reach, and the four
violations, which are single behaviours.

## What the checks found

Four places where the program does not do what its messages, usage text or manual say:

- `initthreads=0` hangs (`iol_init0`).
- Long I/Os are lost in the presence of status lines (`details_longlat`).
- A region that is too small for its largest I/O is accepted if there is a header, which
  is the default: the subtraction that makes room wraps around, and offsets are then
  anywhere in 64 bits (`iol_range`).
- ioload can halt on a percentile that is not of this round, if a round has no read or
  no write (`iol_halt`). `PercentileRight` and `NoHaltWhenFast` hold because they ask
  only about types that have I/Os.

One place where a model was wrong came out in a proof: `RowsInStep` had no inductive
invariant, because it did not hold for a thread whose very first I/O is a header of more
than two seconds. The header sets `nextsec`, and the block after it is in row 1,
whatever its second. The history variable `dense` left the thread's first header out; it
now counts it, as the comment on the property says. The run, whose I/Os take a second
and a half at most, could not show it.

`PROJECT.json` quotes the lines. Reading the code for the models showed some more,
listed there as notes of hazards: the limit on detail records is one for all threads,
not per thread as the usage text says; a fill with the default count goes on after one
pass over the region; the region ends behind `maxoff` if `minoff` lies further into its
block (the manual's sample, 4 KB to 4096 KB, is written to 4100 KB); with the default
`maxoff` and `multiplier=4` the end of the region wraps around 64 bits, and blocks are cut
off to lengths larger than `size`; a header near the end of the region is not cut off; a
short write is classified by an old `errno`, so that a full target can end with status 1;
`maxlat` of a second or more never halts; `repwrite=1` and `maxiosize=0` make a turn of
ioload endless, or, for a sleep, divide by 0; the "max sleep time" of ioload's output is
the least that a sleep takes; a piece of a sleep of more than 4.29 s, which needs a larger
`maxiosize`, asks for another time.

## Plan

Done: all modules above; a theorem for each invariant and each action property of the
passing runs, and both refinements.

Next: smaller invariants where a proof carries more than it needs; the refinement of
`FillPlan` and `WorkPool` in one module, so that the order of blocks in `FillPlan` is a
theorem and not a stated fact.

## Not modelled

- The pause, write-inject and flush protocol of iofill (`io_stop`, `io_restart`,
  `do_write_inject`, `do_flush_cache`, iof_iotest.c:243-395) and with it all of
  `iob_scsi.c`, `iob_dedupdata` and `iob_details_multi`: no option of the two programs
  reaches them. A model would have no states that the program can be in.
- The branches for SunPro and HP-UX: `src/doc/BUILD:3` has the tools build on Linux only.
- The two tables of constants (`iob_pstdata.c`, `iob_vmdata.c`) are 326534 of the 331834
  lines of code, so that any share of mapped lines of the whole is small.
- The data of writes: random pages behind a random number per sector; no result of the
  programs depends on them.
- Layout, averages and histograms of the reports; parsing of strings and numbers; the
  options of iofill, each of which sets one parameter (constants of `FillPlan` and
  `IofRun`), with `count=0`, `nrep=0` and `threads=0`, which fill nothing, left out.
- `maxrate` of ioload (a sleep between two I/Os), `maxrun=0` of iofill (a deadline in three
  years), negative numbers, options of ioload whose offsets pass 64 bits, and the
  allocation of buffers of 0 bytes with `maxiosize=0`, which is up to the C library.
