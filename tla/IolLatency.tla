------------------------------ MODULE IolLatency ------------------------------
(***************************************************************************)
(* The latencies of ioload: io_finish counts them in buckets, output()     *)
(* adds the buckets up and printbuckets reads the percentiles off them,    *)
(* for a status line or for the summary of a round; the 90th percentile of *)
(* a summary decides whether the test halts.                               *)
(*                                                                         *)
(* The counters of the threads of a file are taken together.  That no I/O  *)
(* is counted while a summary is made is ReportQuiescent of IolRounds; a   *)
(* status line is made while the threads go on counting.                   *)
(***************************************************************************)
EXTENDS Integers, SequencesExt

CONSTANTS
    NFiles,      \* number of files
    NBuckets,    \* NLATBKTS
    LatDiv,      \* LATDIV, the width of a bucket
    Parts,       \* the percentiles: Parts[j] = 10 for 0.1, the 90th one
    HaltAt,      \* the index of the one that decides about halting
    MaxLatency,  \* params.maxlatency
    Verbose,     \* -v: percentiles for each file, too
    Lats,        \* bound: the latencies of I/Os
    MaxIos,      \* bound: I/Os of a round
    NRounds      \* bound: rounds

ASSUME LatencyAssumption ==
    /\ NFiles \in Nat \ {0} /\ NBuckets \in Nat \ {0} /\ LatDiv \in Nat \ {0}
    /\ Parts \in Seq(Nat \ {0, 1}) /\ HaltAt \in DOMAIN Parts
    /\ \A i, j \in DOMAIN Parts : i < j => Parts[i] < Parts[j]
    /\ MaxLatency \in Nat /\ Lats \subseteq Nat /\ IsFiniteSet(Lats) /\ Verbose \in BOOLEAN
    /\ MaxIos \in Nat /\ NRounds \in Nat \ {0}

Files   == 1 .. NFiles
Types   == {"read", "write"}
Buckets == 0 .. NBuckets - 1

VARIABLES
    phase,         \* "round", "status" (within output), "report", "halted", "done"
    round,
    cur,           \* per file: buckets of each type, the iostats cur
    sum,           \* the buckets that a status line has added up so far
    last,          \* the counters of the last status line, buckets and totals
    pctval,        \* the percentiles, a global that stays from call to call
    latency_flag,
    (* history variables *)
    seen,          \* per file and type: how many I/Os of the round had a latency
    shown          \* pctval as the summary has printed it for all files

counters == <<cur, sum, last>>
vars == <<phase, round, counters, pctval, latency_flag, seen, shown>>

Clear == [f \in Files |-> [t \in Types |-> [b \in Buckets |-> 0]]]

NoTotals == [f \in Files |-> [t \in Types |-> 0]]

Nothing == [buckets |-> Clear, totals |-> NoTotals]

NoneSeen == [f \in Files |-> [t \in Types |-> [l \in Lats |-> 0]]]

NoValues == [j \in DOMAIN Parts |-> [t \in Types |-> 0]]

Init ==
    /\ phase = "round" /\ round = 1
    /\ cur = Clear /\ sum = Clear /\ last = Nothing
    /\ pctval = NoValues /\ latency_flag = 0
    /\ seen = NoneSeen /\ shown = NoValues

-----------------------------------------------------------------------------
(***************************************************************************)
(* io_finish: the last bucket takes all the longer latencies.              *)
(***************************************************************************)
Bucket(lat) == IF lat \div LatDiv >= NBuckets THEN NBuckets - 1 ELSE lat \div LatDiv

Ios == SumFunction([f \in Files |->
           SumFunction([t \in Types |-> SumFunction(seen[f][t])])])

Io ==
    /\ phase \in {"round", "status"} /\ Ios < MaxIos
    /\ \E f \in Files, t \in Types, l \in Lats :
          /\ cur' = [cur EXCEPT ![f][t][Bucket(l)] = @ + 1]
          /\ seen' = [seen EXCEPT ![f][t][l] = @ + 1]
    /\ UNCHANGED <<phase, round, sum, last, pctval, latency_flag, shown>>

-----------------------------------------------------------------------------
(***************************************************************************)
(* output: the counters of each file and of systot, all files together.    *)
(***************************************************************************)
Totals(buckets) == [f \in Files |-> [t \in Types |-> SumFunction(buckets[f][t])]]

\* stats_diff
Diff(now, before) ==
    [buckets |-> [f \in Files |-> [t \in Types |-> [b \in Buckets |->
                     now.buckets[f][t][b] - before.buckets[f][t][b]]]],
     totals  |-> [f \in Files |-> [t \in Types |->
                     now.totals[f][t] - before.totals[f][t]]]]

Of(use, f) == [buckets |-> use.buckets[f], totals |-> use.totals[f]]

Systot(use) ==
    [buckets |-> [t \in Types |-> [b \in Buckets |->
                     SumFunction([f \in Files |-> use.buckets[f][t][b]])]],
     totals  |-> [t \in Types |-> SumFunction([f \in Files |-> use.totals[f][t]])]]

-----------------------------------------------------------------------------
(***************************************************************************)
(* printbuckets: a percentile is the end of the first bucket up to which   *)
(* enough I/Os are counted.  If there is none, pctval keeps its value.     *)
(***************************************************************************)
\* The number is rounded down.
RoundedDown(total, part) == (Max({total, 1}) * (part - 1)) \div part

Enough(total, part) == LET n == Max({total, 1}) IN n - (n \div part)

Reached(hist, enough) == {b \in Buckets : SumFunctionOnSet(hist, 0 .. b) >= enough}

Percentile(old, hist, enough) ==
    IF Reached(hist, enough) = {} THEN old
    ELSE (Min(Reached(hist, enough)) + 1) * LatDiv

Printbuckets(values, use) ==
    [j \in DOMAIN Parts |-> [t \in Types |->
        Percentile(values[j][t], use.buckets[t], Enough(use.totals[t], Parts[j]))]]

\* the files one after the other, with -v
PrintFiles(values, use) ==
    IF Verbose
    THEN FoldLeft(LAMBDA v, f : Printbuckets(v, Of(use, f)), values, [f \in Files |-> f])
    ELSE values

Flag(values, flag) ==
    IF values[HaltAt]["read"] > MaxLatency THEN 1
    ELSE IF values[HaltAt]["write"] > MaxLatency THEN 2
    ELSE flag

\* The flag is taken from the last file that has been printed.
OutputTimesFlagLate(use, flag) ==
    LET all == Printbuckets(pctval, Systot(use)) IN
        /\ latency_flag' = Flag(PrintFiles(all, use), flag)
        /\ pctval' = PrintFiles(all, use)
        /\ shown' = all

\* output_times: what is printed for all files, and the values it leaves behind
OutputTimes(use, flag) ==
    LET all == Printbuckets(pctval, Systot(use)) IN
        /\ latency_flag' = Flag(all, flag)
        /\ pctval' = PrintFiles(all, use)
        /\ shown' = all

-----------------------------------------------------------------------------
(***************************************************************************)
(* A status line.  Each counter is read for its bucket and once more for   *)
(* the total, and I/Os that end in between are in one and not in the       *)
(* other.  Here all buckets are read before all totals.                    *)
(***************************************************************************)
StatusSum ==
    /\ phase = "round" /\ phase' = "status"
    /\ sum' = cur
    /\ UNCHANGED <<round, cur, last, pctval, latency_flag, seen, shown>>

StatusLine ==
    /\ phase = "status" /\ phase' = "round"
    /\ LET now == [buckets |-> sum, totals |-> Totals(cur)] IN
          /\ OutputTimes(Diff(now, last), latency_flag)
          /\ last' = now
    /\ sum' = Clear
    /\ UNCHANGED <<round, cur, seen>>

(***************************************************************************)
(* The summary of a round, and the halt.  exit(3) comes before the         *)
(* counters are cleared.                                                   *)
(***************************************************************************)
HaltsOrGoesOn ==
    IF latency_flag' # 0 THEN phase' = "halted" /\ UNCHANGED counters
    ELSE phase' = "report" /\ cur' = Clear /\ last' = Nothing /\ UNCHANGED sum

\* latency_flag is not reset: one of a status line is still there.
SummaryKeepsFlag ==
    /\ phase = "round"
    /\ OutputTimes([buckets |-> cur, totals |-> Totals(cur)], latency_flag)
    /\ HaltsOrGoesOn
    /\ UNCHANGED <<round, seen>>

\* systot.last and the files' last are not cleared.
SummaryKeepsLast ==
    /\ phase = "round"
    /\ OutputTimes([buckets |-> cur, totals |-> Totals(cur)], 0)
    /\ IF latency_flag' # 0 THEN phase' = "halted" /\ UNCHANGED counters
       ELSE phase' = "report" /\ cur' = Clear /\ UNCHANGED <<sum, last>>
    /\ UNCHANGED <<round, seen>>

Summary ==
    /\ phase = "round"
    /\ OutputTimes([buckets |-> cur, totals |-> Totals(cur)], 0)
    /\ HaltsOrGoesOn
    /\ UNCHANGED <<round, seen>>

NextRound ==
    /\ phase = "report"
    /\ IF round < NRounds THEN phase' = "round" /\ round' = round + 1
       ELSE phase' = "done" /\ UNCHANGED round
    /\ seen' = NoneSeen /\ shown' = NoValues
    /\ UNCHANGED <<counters, pctval, latency_flag>>

Ended == phase \in {"halted", "done"} /\ UNCHANGED vars

Next == Io \/ StatusSum \/ StatusLine \/ Summary \/ NextRound \/ Ended

Spec == Init /\ [][Next]_vars

-----------------------------------------------------------------------------
(***************************************************************************)
(* Properties.                                                             *)
(***************************************************************************)
Values == [DOMAIN Parts -> [Types -> 0 .. NBuckets * LatDiv]]

Counts == [Files -> [Types -> [Buckets -> 0 .. MaxIos]]]

\* Counters never count more than the I/Os of a round, and those of the last
\* status line, which the next one subtracts, are never ahead.
TypeOK ==
    /\ phase \in {"round", "status", "report", "halted", "done"}
    /\ round \in 1 .. NRounds
    /\ cur \in Counts /\ sum \in Counts
    /\ last \in [buckets : Counts, totals : [Files -> [Types -> 0 .. MaxIos]]]
    /\ pctval \in Values /\ shown \in Values /\ latency_flag \in 0 .. 2
    /\ seen \in [Files -> [Types -> [Lats -> 0 .. MaxIos]]]
    /\ \A f \in Files, t \in Types, b \in Buckets :
          last.buckets[f][t][b] <= cur[f][t][b]

Summed == phase \in {"report", "halted"}

\* How many I/Os of type t in the round took less than v; all, if v is the end of
\* the last bucket.
Below(t, v) ==
    SumFunction([f \in Files |-> SumFunctionOnSet(seen[f][t],
                     {l \in Lats : l < v \/ v = NBuckets * LatDiv})])

Number(t) == Below(t, NBuckets * LatDiv)

\* A fraction 1 - 1/part of the I/Os of type t took less than v.
Most(t, part, v) == part * Below(t, v) >= (part - 1) * Number(t)

\* The percentiles of a summary are those of the round's own I/Os of all files: so
\* many took less than the value shown, and not so many less than the value one
\* bucket before it.  Status lines, rounds before it and the other type of I/O
\* make no difference.
PercentileRight ==
    Summed =>
        \A j \in DOMAIN Parts, t \in Types : Number(t) # 0 =>
            /\ Most(t, Parts[j], shown[j][t])
            /\ ~Most(t, Parts[j], shown[j][t] - LatDiv)

AtMost(t, v) == Most(t, Parts[HaltAt], v)

\* The test halts after a round in which less than 90% of the reads, or of the
\* writes, took at most maxlat -- if maxlat is below the end of the last bucket.
HaltsWhenSlow ==
    phase = "report" /\ MaxLatency < NBuckets * LatDiv =>
        \A t \in Types : Number(t) # 0 => AtMost(t, MaxLatency + 1)

SlowRound ==
    \E t \in Types : Number(t) # 0 /\ ~AtMost(t, MaxLatency - (MaxLatency % LatDiv))

\* A round of reads and writes that are both fast, within the width of a bucket,
\* does not halt the test, whatever the status lines have shown.
NoHaltWhenFast == phase = "halted" /\ (\A t \in Types : Number(t) # 0) => SlowRound

\* The manual: "The test will stop when the 90th percentile latency exceeds" maxlat.
\* If it halts, one of the two percentiles of the round is above maxlat.
HaltsForLatency == phase = "halted" => SlowRound
=============================================================================
