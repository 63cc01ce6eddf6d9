------------------------------ MODULE IobDetails ------------------------------
(***************************************************************************)
(* The detail records of src/lib/iob_stats.c: one array, shared by all I/O *)
(* threads without a lock, in which they leave a record of every I/O that  *)
(* was slow or failed.  A thread claims a slot by advancing cur_iodet and  *)
(* then copies its record there.  The main thread prints the slots.        *)
(*                                                                         *)
(* iofill prints them once, when all its threads have ended.  ioload does  *)
(* so at the end of every round, when its threads are at rest, and at each *)
(* status line, while they run.  That they are at rest is ReportQuiescent  *)
(* of IolRounds and OutputQuiescent of IofRun.                             *)
(*                                                                         *)
(* The builds for SunPro and HP-UX, which claim a slot in two steps, are   *)
(* left out.  A record stands for all its fields; it is copied in two      *)
(* steps, so that what a reader sees half-way can be told.                 *)
(***************************************************************************)
EXTENDS Naturals, Sequences

CONSTANTS
    Threads,       \* I/O threads
    NIoDet,        \* niodet: iofill's -m detailcnt=, ioload's NIOTRACE
    Programs,      \* the programs considered: "fill" (iofill), "load" (ioload)
    MaxRecords,    \* bound: records per thread and round
    MaxStatus,     \* bound: status outputs per round (ioload)
    MaxRounds      \* bound: rounds (ioload)

ASSUME DetailsAssumption ==
    /\ NIoDet \in Nat
    /\ Programs \subseteq {"fill", "load"}
    /\ MaxRecords \in Nat /\ MaxStatus \in Nat /\ MaxRounds \in Nat \ {0}

Slots   == 0 .. NIoDet - 1
Records == Threads \X (1 .. MaxRounds) \X (1 .. MaxRecords)
zero    == <<>>                       \* a slot after malloc or memset
Halves  == Records \cup {zero}

VARIABLES
    program,                 \* the program that uses the library
    cur_iodet, details,      \* the array; a slot is a pair of halves
    tpc, nextdet, nrec,      \* threads: phase, slot, records made in this round
    opc, kind, i, maxdet,    \* iob_details_output: phase, occasion, loop
    round, nstatus,          \* rounds; status outputs in this round
    claims, lines            \* history: records in the order of their claims,
                             \* slots as they were printed, in this round

tvars == <<tpc, nextdet, nrec, claims>>
ovars == <<program, opc, kind, i, maxdet, round, nstatus, lines>>
vars  == <<cur_iodet, details, tvars, ovars>>

Init ==
    /\ program \in Programs
    /\ cur_iodet = 0
    /\ details = [s \in Slots |-> <<zero, zero>>]
    /\ tpc = [t \in Threads |-> "io"]
    /\ nextdet = [t \in Threads |-> 0]
    /\ nrec = [t \in Threads |-> 0]
    /\ opc = "idle" /\ kind = "final" /\ i = 0 /\ maxdet = 0
    /\ round = 1 /\ nstatus = 0
    /\ claims = <<>> /\ lines = <<>>

-----------------------------------------------------------------------------
(***************************************************************************)
(* iob_details_add, called by thread t.                                    *)
(***************************************************************************)
\* The threads are at rest while the main thread makes its last report of a round.
Resting == round > MaxRounds \/ (opc = "print" /\ kind = "final")

\* The record thread t is adding.
Record(t) == <<t, round, nrec[t]>>

\* The claims of two threads meet: both get the slot, cur_iodet advances once.
ClaimMeets(t) ==
    /\ tpc[t] = "io" /\ ~Resting
    /\ nrec[t] < MaxRecords
    /\ nrec' = [nrec EXCEPT ![t] = @ + 1]
    /\ claims' = Append(claims, <<t, round, nrec'[t]>>)
    /\ \E c \in {cur_iodet} \cup {nextdet[u] : u \in {v \in Threads : tpc[v] = "copy"}} :
          /\ nextdet' = [nextdet EXCEPT ![t] = c]
          /\ cur_iodet' = IF c = cur_iodet THEN c + 1 ELSE cur_iodet
          /\ tpc' = [tpc EXCEPT ![t] = IF c < NIoDet THEN "copy" ELSE "io"]
    /\ UNCHANGED <<details, ovars>>

\* A slow or failed I/O: nextdet = __sync_fetch_and_add(&cur_iodet, 1)
Claim(t) ==
    /\ tpc[t] = "io" /\ ~Resting
    /\ nrec[t] < MaxRecords
    /\ nrec' = [nrec EXCEPT ![t] = @ + 1]
    /\ claims' = Append(claims, <<t, round, nrec'[t]>>)
    /\ nextdet' = [nextdet EXCEPT ![t] = cur_iodet]
    /\ cur_iodet' = cur_iodet + 1
    /\ tpc' = [tpc EXCEPT ![t] = IF cur_iodet < NIoDet THEN "copy" ELSE "io"]
    /\ UNCHANGED <<details, ovars>>

\* details[nextdet] = *idp
CopyHalf(t) ==
    /\ tpc[t] = "copy"
    /\ tpc' = [tpc EXCEPT ![t] = "half"]
    /\ details' = [details EXCEPT ![nextdet[t]] = <<Record(t), @[2]>>]
    /\ UNCHANGED <<cur_iodet, nextdet, nrec, claims, ovars>>

CopyRest(t) ==
    /\ tpc[t] = "half"
    /\ tpc' = [tpc EXCEPT ![t] = "io"]
    /\ details' = [details EXCEPT ![nextdet[t]] = <<@[1], Record(t)>>]
    /\ UNCHANGED <<cur_iodet, nextdet, nrec, claims, ovars>>

Thread(t) == Claim(t) \/ CopyHalf(t) \/ CopyRest(t)

-----------------------------------------------------------------------------
(***************************************************************************)
(* iob_details_output and iob_details_reset, called by the main thread.    *)
(***************************************************************************)
AtRest == \A t \in Threads : tpc[t] = "io"

\* The check of maxdet against niodet is left out.
StartUncapped(k) ==
    /\ opc = "idle" /\ round <= MaxRounds
    /\ \/ k = "status" /\ program = "load" /\ nstatus < MaxStatus
       \/ k = "final" /\ AtRest
    /\ opc' = "print" /\ kind' = k
    /\ i' = 0
    /\ maxdet' = cur_iodet
    /\ UNCHANGED <<program, cur_iodet, details, tvars, round, nstatus, lines>>

\* output_details: maxdet = cur_iodet, but no more than the array holds.  ioload's
\* status lines call it at any time, the other calls come when all is at rest.
StartOutput(k) ==
    /\ opc = "idle" /\ round <= MaxRounds
    /\ \/ k = "status" /\ program = "load" /\ nstatus < MaxStatus
       \/ k = "final" /\ AtRest
    /\ opc' = "print" /\ kind' = k
    /\ i' = 0
    /\ maxdet' = IF cur_iodet > NIoDet THEN NIoDet ELSE cur_iodet
    /\ UNCHANGED <<program, cur_iodet, details, tvars, round, nstatus, lines>>

\* One slot is printed.
PrintLine ==
    /\ opc = "print" /\ i < maxdet
    /\ lines' = Append(lines, details[i])
    /\ i' = i + 1
    /\ UNCHANGED <<program, cur_iodet, details, tvars, opc, kind, maxdet, round, nstatus>>

Printed == opc = "print" /\ i = maxdet

\* iob_details_reset(0) is left out.
StatusKeeps ==
    /\ Printed /\ kind = "status"
    /\ opc' = "idle"
    /\ nstatus' = nstatus + 1
    /\ UNCHANGED <<program, cur_iodet, details, tvars, kind, i, maxdet, round, lines>>

\* A status line: iob_details_reset(0), and the threads go on.
StatusDone ==
    /\ Printed /\ kind = "status"
    /\ opc' = "idle"
    /\ cur_iodet' = 0
    /\ nstatus' = nstatus + 1
    /\ UNCHANGED <<program, details, tvars, kind, i, maxdet, round, lines>>

\* iob_details_reset(0) in the place of iob_details_reset(1)
RoundKeepsSlots ==
    /\ Printed /\ kind = "final" /\ program = "load"
    /\ opc' = "idle"
    /\ cur_iodet' = 0
    /\ round' = round + 1 /\ nstatus' = 0
    /\ nrec' = [t \in Threads |-> 0]
    /\ claims' = <<>> /\ lines' = <<>>
    /\ UNCHANGED <<program, details, tpc, nextdet, kind, i, maxdet>>

\* The end of a round of ioload: iob_details_reset(1), and a round begins.
RoundDone ==
    /\ Printed /\ kind = "final" /\ program = "load"
    /\ opc' = "idle"
    /\ cur_iodet' = 0
    /\ details' = [s \in Slots |-> <<zero, zero>>]
    /\ round' = round + 1 /\ nstatus' = 0
    /\ nrec' = [t \in Threads |-> 0]
    /\ claims' = <<>> /\ lines' = <<>>
    /\ UNCHANGED <<program, tpc, nextdet, kind, i, maxdet>>

Output ==
    \/ \E k \in {"status", "final"} : StartOutput(k)
    \/ PrintLine \/ StatusDone \/ RoundDone

\* iofill ends after its report, ioload after its last round.
Ended ==
    /\ round > MaxRounds \/ (program = "fill" /\ Printed)
    /\ UNCHANGED vars

Next == Output \/ Ended \/ \E t \in Threads : Thread(t)

Spec == Init /\ [][Next]_vars

-----------------------------------------------------------------------------
(***************************************************************************)
(* Properties.                                                             *)
(***************************************************************************)
\* Every variable has the values the code can give it.
TypeOK ==
    /\ program \in Programs
    /\ cur_iodet \in Nat
    /\ details \in [Slots -> Halves \X Halves]
    /\ tpc \in [Threads -> {"io", "copy", "half"}]
    /\ nextdet \in [Threads -> Nat] /\ nrec \in [Threads -> 0 .. MaxRecords]
    /\ opc \in {"idle", "print"} /\ kind \in {"status", "final"}
    /\ maxdet \in 0 .. NIoDet /\ i \in 0 .. maxdet
    /\ round \in 1 .. MaxRounds + 1 /\ nstatus \in Nat
    /\ claims \in Seq(Records) /\ lines \in Seq(Halves \X Halves)

\* A round (or fill) without status lines ends with a report of exactly the first
\* NIoDet I/Os that claimed a slot, in the order of their claims, each of them
\* once and in one piece, whatever the threads did at the same time and whatever
\* earlier rounds have left in the array.
ReportExact ==
    Printed /\ kind = "final" /\ nstatus = 0 =>
        /\ Len(lines) = IF Len(claims) < NIoDet THEN Len(claims) ELSE NIoDet
        /\ \A n \in 1 .. Len(lines) : lines[n] = <<claims[n], claims[n]>>

\* A report, of a status line or of a round, holds nothing of an earlier round,
\* although it may print a slot before its record has been copied there.
RoundOwn ==
    \A n \in 1 .. Len(lines), h \in {1, 2} :
        lines[n][h] # zero => lines[n][h][2] = round

\* The reports of a round together never have more lines than I/Os were claimed
\* for them: what a status line has reported is not reported again.
NoExtraLine == Len(lines) <= Len(claims)

\* What the usage text says of longlat: "report I/Os longer than n microseconds".
\* At the end of a round that has not overrun the array each of them is reported.
LongReported ==
    Printed /\ kind = "final" /\ Len(claims) <= NIoDet =>
        \A n \in 1 .. Len(claims) :
            \E m \in 1 .. Len(lines) : lines[m] = <<claims[n], claims[n]>>
=============================================================================
