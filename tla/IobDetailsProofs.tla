--------------------------- MODULE IobDetailsProofs ---------------------------
(***************************************************************************)
(* Theorems about the shared detail records, for any number of threads,    *)
(* slots, records, status lines and rounds.                                *)
(***************************************************************************)
EXTENDS IobDetails, TLAPS

\* A thread has claimed a slot and has not yet copied its record.
Copying(t) == tpc[t] \in {"copy", "half"}

\* While a round is reported and between the rounds no thread adds a record.
Rests == Resting => AtRest

\* What a thread copies is a record of the round.
Copies ==
    \A t \in Threads : Copying(t) =>
        nextdet[t] \in Slots /\ nrec[t] \in 1 .. MaxRecords /\ round \in 1 .. MaxRounds

\* Nothing is reported after the last round.
Reports == opc = "print" => round \in 1 .. MaxRounds

TypeInv == TypeOK /\ Rests /\ Copies /\ Reports

LEMMA TypeInit == Init => TypeInv
<1> SUFFICES ASSUME Init PROVE TypeInv OBVIOUS
<1>1. <<>> \in Seq(Records) /\ <<>> \in Seq(Halves \X Halves) OBVIOUS
<1>2. <<zero, zero>> \in Halves \X Halves BY DEF Halves
<1>3. 0 \in 0 .. NIoDet /\ 0 \in 0 .. MaxRecords /\ 1 \in 1 .. MaxRounds + 1
  BY DetailsAssumption
<1>4. TypeOK BY <1>1, <1>2, <1>3 DEF Init, TypeOK
<1>5. Rests /\ Copies /\ Reports BY DEF Init, Rests, AtRest, Copies, Copying, Reports
<1> QED BY <1>4, <1>5 DEF TypeInv

\* The records of a round, while threads can make them.
LEMMA RoundType ==
    ASSUME TypeOK, ~Resting
    PROVE  round \in 1 .. MaxRounds
BY DetailsAssumption DEF TypeOK, Resting

LEMMA TypeClaim ==
    ASSUME TypeInv, NEW t \in Threads, Claim(t)
    PROVE  TypeInv'
<1> USE DetailsAssumption DEF TypeInv
<1>1. round \in 1 .. MaxRounds BY RoundType DEF Claim
<1>2. nrec[t] \in 0 .. MaxRecords /\ nrec'[t] = nrec[t] + 1 /\ nrec'[t] \in 1 .. MaxRecords
  BY DEF Claim, TypeOK
<1>3. <<t, round, nrec'[t]>> \in Records BY <1>1, <1>2 DEF Records
<1>4. claims' \in Seq(Records) BY <1>3 DEF Claim, TypeOK
<1>5. nrec' \in [Threads -> 0 .. MaxRecords] BY <1>2 DEF Claim, TypeOK
<1>6. tpc' \in [Threads -> {"io", "copy", "half"}] BY DEF Claim, TypeOK
<1>7. nextdet' \in [Threads -> Nat] /\ cur_iodet' \in Nat BY DEF Claim, TypeOK
<1>8. TypeOK' BY <1>4, <1>5, <1>6, <1>7 DEF Claim, TypeOK, ovars
<1>9. Rests' BY DEF Claim, Rests, Resting, ovars
<1>10. Copies'
  BY <1>1, <1>2 DEF Claim, TypeOK, Copies, Copying, Slots, ovars
<1>11. Reports' BY DEF Claim, Reports, ovars
<1> QED BY <1>8, <1>9, <1>10, <1>11

LEMMA TypeCopy ==
    ASSUME TypeInv, NEW t \in Threads, CopyHalf(t) \/ CopyRest(t)
    PROVE  TypeInv'
<1> USE DEF TypeInv
<1>1. Copying(t) BY DEF CopyHalf, CopyRest, Copying
<1>2. Record(t) \in Halves BY <1>1 DEF Copies, Record, Records, Halves
<1>3. nextdet[t] \in Slots BY <1>1 DEF Copies
<1>4. details[nextdet[t]][1] \in Halves /\ details[nextdet[t]][2] \in Halves
  BY <1>3 DEF TypeOK
<1>5. details' \in [Slots -> Halves \X Halves]
  <2>1. PICK d \in Halves \X Halves : details' = [details EXCEPT ![nextdet[t]] = d]
    BY <1>2, <1>4 DEF CopyHalf, CopyRest
  <2> QED BY <2>1, <1>3 DEF TypeOK
<1>6. TypeOK' BY <1>5 DEF TypeOK, CopyHalf, CopyRest, ovars
<1>7. Rests' BY <1>1 DEF Rests, Resting, AtRest, Copying, CopyHalf, CopyRest, ovars
<1>8. Copies' BY DEF TypeOK, Copies, Copying, CopyHalf, CopyRest, ovars
<1>9. Reports' BY DEF CopyHalf, CopyRest, Reports, ovars
<1> QED BY <1>6, <1>7, <1>8, <1>9

\* What is printed is a slot of the array.
LEMMA PrintSlot ==
    ASSUME TypeOK, PrintLine
    PROVE  i \in Slots
<1>1. i \in Nat /\ maxdet \in Nat /\ i < maxdet /\ maxdet <= NIoDet /\ NIoDet \in Nat
  BY DetailsAssumption DEF PrintLine, TypeOK
<1> QED BY <1>1 DEF Slots

LEMMA TypeOutput ==
    ASSUME TypeInv, Output
    PROVE  TypeInv'
<1> USE DetailsAssumption DEF TypeInv
<1>1. CASE \E k \in {"status", "final"} : StartOutput(k)
  <2>1. PICK k \in {"status", "final"} : StartOutput(k) BY <1>1
  <2>2. TypeOK' BY <2>1 DEF StartOutput, TypeOK, tvars
  <2>3. Rests' BY <2>1 DEF StartOutput, Rests, Resting, AtRest, tvars
  <2>4. Copies' BY <2>1 DEF StartOutput, Copies, Copying, tvars
  <2>5. Reports' BY <2>1 DEF StartOutput, Reports, TypeOK
  <2> QED BY <2>2, <2>3, <2>4, <2>5
<1>2. CASE PrintLine
  <2>1. i \in Nat /\ maxdet \in Nat /\ i < maxdet /\ maxdet <= NIoDet
    BY <1>2 DEF PrintLine, TypeOK
  <2>2. details[i] \in Halves \X Halves BY <2>1 DEF TypeOK, Slots
  <2>3. lines' \in Seq(Halves \X Halves) BY <1>2, <2>2 DEF PrintLine, TypeOK
  <2>4. i' \in 0 .. maxdet BY <1>2, <2>1 DEF PrintLine
  <2>5. TypeOK' BY <1>2, <2>3, <2>4 DEF PrintLine, TypeOK, tvars
  <2>6. Rests' BY <1>2 DEF PrintLine, Rests, Resting, AtRest, tvars
  <2>7. Copies' BY <1>2 DEF PrintLine, Copies, Copying, tvars
  <2>8. Reports' BY <1>2 DEF PrintLine, Reports
  <2> QED BY <2>5, <2>6, <2>7, <2>8
<1>3. CASE StatusDone
  <2>1. TypeOK' BY <1>3 DEF StatusDone, TypeOK, tvars
  <2>2. Rests' BY <1>3 DEF StatusDone, Rests, Resting, AtRest, tvars
  <2>3. Copies' BY <1>3 DEF StatusDone, Copies, Copying, tvars
  <2>4. Reports' BY <1>3 DEF StatusDone, Reports
  <2> QED BY <2>1, <2>2, <2>3, <2>4
<1>4. CASE RoundDone
  <2>1. AtRest BY <1>4 DEF RoundDone, Printed, Rests, Resting
  <2>2. round' \in 1 .. MaxRounds + 1 BY <1>4 DEF RoundDone, Printed, Reports
  <2>3. TypeOK' BY <1>4, <2>2 DEF RoundDone, TypeOK, Halves
  <2>4. Rests' BY <1>4, <2>1 DEF RoundDone, Rests, AtRest
  <2>5. Copies' BY <1>4, <2>1 DEF RoundDone, Copies, Copying, AtRest
  <2>6. Reports' BY <1>4 DEF RoundDone, Reports
  <2> QED BY <2>3, <2>4, <2>5, <2>6
<1> QED BY <1>1, <1>2, <1>3, <1>4 DEF Output

LEMMA StepCases ==
    ASSUME [Next]_vars
    PROVE  \/ \E t \in Threads : Claim(t)
           \/ \E t \in Threads : CopyHalf(t) \/ CopyRest(t)
           \/ Output
           \/ UNCHANGED vars
BY DEF Next, Ended, Thread

LEMMA TypeStep == TypeInv /\ [Next]_vars => TypeInv'
<1> SUFFICES ASSUME TypeInv, [Next]_vars PROVE TypeInv' OBVIOUS
<1>1. CASE UNCHANGED vars
  BY <1>1 DEF TypeInv, TypeOK, Rests, Resting, AtRest, Copies, Copying, Reports,
              vars, tvars, ovars
<1> QED BY <1>1, TypeClaim, TypeCopy, TypeOutput, StepCases

LEMMA TypeInvariant == Spec => []TypeInv
BY TypeInit, TypeStep, PTL DEF Spec

\* No report and no record ever leaves the array, whatever number of I/Os claimed a
\* slot, and no record is added while a round is reported.
THEOREM TypeCorrect == Spec => []TypeOK
BY TypeInvariant, PTL DEF TypeInv

-----------------------------------------------------------------------------
(***************************************************************************)
(* The records of a round are its own.                                     *)
(***************************************************************************)
OfRound(r) == r # zero => r[2] = round

SlotsOwn == \A s \in Slots : OfRound(details[s][1]) /\ OfRound(details[s][2])
LinesOwn == \A n \in 1 .. Len(lines) : OfRound(lines[n][1]) /\ OfRound(lines[n][2])

OwnInv == SlotsOwn /\ LinesOwn

LEMMA OwnCopy ==
    ASSUME TypeInv, OwnInv, NEW t \in Threads, CopyHalf(t) \/ CopyRest(t)
    PROVE  OwnInv'
<1> USE DEF TypeInv, OwnInv
<1>1. nextdet[t] \in Slots BY DEF Copies, Copying, CopyHalf, CopyRest
<1>2. OfRound(Record(t)) BY DEF OfRound, Record
<1>3. UNCHANGED <<round, lines>> BY DEF CopyHalf, CopyRest, ovars
<1>4. ASSUME NEW s \in Slots PROVE OfRound(details'[s][1]) /\ OfRound(details'[s][2])
  <2>1. OfRound(details[s][1]) /\ OfRound(details[s][2]) BY DEF SlotsOwn
  <2>2. CASE s # nextdet[t] BY <2>1, <2>2, <1>1 DEF TypeOK, CopyHalf, CopyRest
  <2>3. CASE s = nextdet[t]
    BY <2>1, <2>3, <1>1, <1>2 DEF TypeOK, CopyHalf, CopyRest
  <2> QED BY <2>2, <2>3
<1>5. SlotsOwn' BY <1>3, <1>4 DEF SlotsOwn, OfRound
<1> QED BY <1>3, <1>5 DEF LinesOwn, OfRound

LEMMA OwnOutput ==
    ASSUME TypeInv, OwnInv, Output
    PROVE  OwnInv'
<1> USE DEF TypeInv, OwnInv, OfRound
<1>1. CASE (\E k \in {"status", "final"} : StartOutput(k)) \/ StatusDone
  BY <1>1 DEF StartOutput, StatusDone, SlotsOwn, LinesOwn
<1>2. CASE PrintLine
  <2>1. i \in Slots BY <1>2, PrintSlot
  <2>2. OfRound(details[i][1]) /\ OfRound(details[i][2]) BY <2>1 DEF SlotsOwn
  <2>3. lines' = Append(lines, details[i]) /\ UNCHANGED <<round, details>>
    BY <1>2 DEF PrintLine
  <2>4. lines \in Seq(Halves \X Halves) /\ details[i] \in Halves \X Halves
    BY <2>1 DEF TypeOK
  <2>5. ASSUME NEW n \in 1 .. Len(lines')
        PROVE  lines'[n] = details[i] \/ (n \in 1 .. Len(lines) /\ lines'[n] = lines[n])
    BY <2>3, <2>4
  <2> QED BY <2>2, <2>3, <2>5 DEF SlotsOwn, LinesOwn
<1>3. CASE RoundDone
  <2>1. \A s \in Slots : details'[s] = <<zero, zero>> BY <1>3 DEF RoundDone
  <2>2. Len(lines') = 0 BY <1>3 DEF RoundDone
  <2> QED BY <2>1, <2>2 DEF SlotsOwn, LinesOwn
<1> QED BY <1>1, <1>2, <1>3 DEF Output

\* A report never shows a record of another round, although it may print a slot whose
\* record has been claimed and not yet copied.
THEOREM OwnRound == Spec => []RoundOwn
<1>1. Init => OwnInv
  <2> SUFFICES ASSUME Init PROVE OwnInv OBVIOUS
  <2>1. Len(lines) = 0 BY DEF Init
  <2> QED BY <2>1 DEF Init, OwnInv, SlotsOwn, LinesOwn, OfRound
<1>2. TypeInv /\ OwnInv /\ [Next]_vars => OwnInv'
  <2> SUFFICES ASSUME TypeInv, OwnInv, [Next]_vars PROVE OwnInv' OBVIOUS
  <2>1. CASE \E t \in Threads : Claim(t)
    BY <2>1 DEF Claim, ovars, OwnInv, SlotsOwn, LinesOwn, OfRound
  <2>2. CASE UNCHANGED vars
    BY <2>2 DEF vars, ovars, OwnInv, SlotsOwn, LinesOwn, OfRound
  <2> QED BY <2>1, <2>2, OwnCopy, OwnOutput, StepCases
<1>3. OwnInv => RoundOwn BY DEF OwnInv, LinesOwn, OfRound, RoundOwn
<1> QED BY <1>1, <1>2, <1>3, TypeInvariant, PTL DEF Spec

-----------------------------------------------------------------------------
(***************************************************************************)
(* No line too many: what has been printed, and what a report under way or *)
(* the next one can print, is no more than what has been claimed.          *)
(***************************************************************************)
LineInv ==
    /\ opc = "idle" => Len(lines) + cur_iodet <= Len(claims)
    /\ opc = "print" => Len(lines) + (maxdet - i) <= Len(claims)

THEOREM NoLineExtra == Spec => []NoExtraLine
<1>1. Init => LineInv BY DEF Init, LineInv
<1>2. TypeInv /\ LineInv /\ [Next]_vars => LineInv'
  <2> SUFFICES ASSUME TypeInv, LineInv, [Next]_vars PROVE LineInv' OBVIOUS
  <2>a. /\ i \in Nat /\ maxdet \in Nat /\ i <= maxdet /\ cur_iodet \in Nat
        /\ Len(lines) \in Nat /\ Len(claims) \in Nat
        /\ claims \in Seq(Records) /\ lines \in Seq(Halves \X Halves)
        /\ opc \in {"idle", "print"} /\ NIoDet \in Nat
    BY DetailsAssumption DEF TypeInv, TypeOK
  <2>1. ASSUME NEW t \in Threads, Claim(t) PROVE LineInv'
    <3>1. Len(claims') = Len(claims) + 1
      <4>1. claims' \in Seq(Records) /\ \E r : claims' = Append(claims, r)
        BY <2>1, TypeClaim DEF Claim, TypeInv, TypeOK
      <4> QED BY <2>a, <4>1
    <3> QED BY <2>1, <2>a, <3>1 DEF Claim, ovars, LineInv
  <2>2. CASE \E t \in Threads : CopyHalf(t) \/ CopyRest(t)
    BY <2>2 DEF CopyHalf, CopyRest, ovars, LineInv
  <2>3. CASE \E k \in {"status", "final"} : StartOutput(k)
    BY <2>3, <2>a DEF StartOutput, tvars, LineInv
  <2>4. CASE PrintLine
    <3>1. i \in Slots BY <2>4, PrintSlot DEF TypeInv
    <3>2. details[i] \in Halves \X Halves BY <3>1 DEF TypeInv, TypeOK
    <3>3. Len(lines') = Len(lines) + 1 BY <2>4, <2>a, <3>2 DEF PrintLine
    <3> QED BY <2>4, <2>a, <3>3 DEF PrintLine, tvars, LineInv
  <2>5. CASE StatusDone BY <2>5, <2>a DEF StatusDone, Printed, tvars, LineInv
  <2>6. CASE RoundDone BY <2>6 DEF RoundDone, LineInv
  <2>7. CASE UNCHANGED vars BY <2>7 DEF vars, tvars, ovars, LineInv
  <2> QED BY <2>1, <2>2, <2>3, <2>4, <2>5, <2>6, <2>7, StepCases DEF Output
<1>3. TypeInv /\ LineInv => NoExtraLine
  BY DEF TypeInv, TypeOK, LineInv, NoExtraLine
<1> QED BY <1>1, <1>2, <1>3, TypeInvariant, PTL DEF Spec

-----------------------------------------------------------------------------
(***************************************************************************)
(* A report of a round without status lines is exact.                      *)
(***************************************************************************)
\* The slots and the claims of a round correspond: a claimed slot holds the record of
\* its claim, or the one thread that has claimed it is still copying the record there.
Pending ==
    \A t \in Threads : Copying(t) =>
        /\ nextdet[t] < cur_iodet
        /\ claims[nextdet[t] + 1] = Record(t)
        /\ tpc[t] = "half" => details[nextdet[t]][1] = Record(t)

Filled ==
    \A s \in Slots : s < cur_iodet =>
        \/ details[s] = <<claims[s + 1], claims[s + 1]>>
        \/ \E t \in Threads : Copying(t) /\ nextdet[t] = s

\* The lines of the last report of the round.
Reported ==
    /\ opc = "idle" => lines = <<>>
    /\ opc = "print" /\ kind = "final" =>
         /\ maxdet = IF cur_iodet > NIoDet THEN NIoDet ELSE cur_iodet
         /\ Len(lines) = i
         /\ \A n \in 1 .. i : lines[n] = <<claims[n], claims[n]>>

ExactInv == nstatus = 0 => cur_iodet = Len(claims) /\ Pending /\ Filled /\ Reported

LEMMA ExactClaim ==
    ASSUME TypeInv, ExactInv, NEW t \in Threads, Claim(t)
    PROVE  ExactInv'
<1> SUFFICES ASSUME nstatus = 0 PROVE (cur_iodet = Len(claims) /\ Pending /\ Filled /\ Reported)'
  BY DEF ExactInv, Claim, ovars
<1> USE DEF TypeInv
<1>1. cur_iodet = Len(claims) /\ Pending /\ Filled /\ Reported BY DEF ExactInv
<1>2. claims \in Seq(Records) /\ cur_iodet \in Nat /\ nextdet \in [Threads -> Nat]
      /\ nrec \in [Threads -> 0 .. MaxRecords] /\ tpc \in [Threads -> {"io", "copy", "half"}]
  BY DEF TypeOK
<1>3. PICK r : claims' = Append(claims, r) /\ r = <<t, round, nrec'[t]>> BY DEF Claim
<1>4. r \in Records
  <2>1. round \in 1 .. MaxRounds BY RoundType DEF Claim
  <2>2. nrec'[t] \in 1 .. MaxRecords BY <1>2, DetailsAssumption DEF Claim
  <2> QED BY <1>3, <2>1, <2>2 DEF Records
<1>5. /\ Len(claims') = Len(claims) + 1
      /\ \A n \in 1 .. Len(claims) : claims'[n] = claims[n]
      /\ claims'[Len(claims) + 1] = r
  BY <1>2, <1>3, <1>4
<1>6. cur_iodet' = cur_iodet + 1 /\ UNCHANGED <<details, ovars>>
      /\ nextdet' = [nextdet EXCEPT ![t] = cur_iodet]
      /\ tpc' = [tpc EXCEPT ![t] = IF cur_iodet < NIoDet THEN "copy" ELSE "io"]
      /\ nrec' = [nrec EXCEPT ![t] = @ + 1] /\ tpc[t] = "io"
  BY DEF Claim
<1>7. ASSUME NEW u \in Threads, u # t
      PROVE  Copying(u)' = Copying(u) /\ nextdet'[u] = nextdet[u] /\ tpc'[u] = tpc[u]
             /\ Record(u)' = Record(u)
  BY <1>2, <1>6, <1>7 DEF Copying, Record, ovars
<1>8. Pending'
  <2> SUFFICES ASSUME NEW u \in Threads, Copying(u)'
               PROVE  /\ nextdet'[u] < cur_iodet'
                      /\ claims'[nextdet'[u] + 1] = Record(u)'
                      /\ tpc'[u] = "half" => details'[nextdet'[u]][1] = Record(u)'
    BY DEF Pending
  <2>1. CASE u = t
    BY <2>1, <1>1, <1>2, <1>3, <1>5, <1>6 DEF Record, ovars
  <2>2. CASE u # t
    <3>1. Copying(u) BY <2>2, <1>7
    <3>2. nextdet[u] < cur_iodet /\ claims[nextdet[u] + 1] = Record(u)
          /\ (tpc[u] = "half" => details[nextdet[u]][1] = Record(u))
      BY <3>1, <1>1 DEF Pending
    <3>3. nextdet[u] + 1 \in 1 .. Len(claims) BY <3>2, <1>1, <1>2
    <3> QED BY <2>2, <1>2, <1>5, <1>6, <1>7, <3>2, <3>3
  <2> QED BY <2>1, <2>2
<1>9. Filled'
  <2> SUFFICES ASSUME NEW s \in Slots, s < cur_iodet'
               PROVE  \/ details'[s] = <<claims'[s + 1], claims'[s + 1]>>
                      \/ \E u \in Threads : Copying(u)' /\ nextdet'[u] = s
    BY DEF Filled
  <2>1. s \in Nat /\ s < NIoDet BY DetailsAssumption DEF Slots
  <2>2. CASE s = cur_iodet BY <2>1, <2>2, <1>2, <1>6 DEF Copying
  <2>3. CASE s # cur_iodet
    <3>1. s < cur_iodet BY <2>1, <2>3, <1>2, <1>6
    <3>2. s + 1 \in 1 .. Len(claims) BY <2>1, <3>1, <1>1, <1>2
    <3>3. CASE details[s] = <<claims[s + 1], claims[s + 1]>> BY <3>2, <3>3, <1>5, <1>6
    <3>4. ASSUME NEW u \in Threads, Copying(u), nextdet[u] = s
          PROVE  Copying(u)' /\ nextdet'[u] = s
      BY <3>4, <1>6, <1>7 DEF Copying
    <3> QED BY <3>1, <3>3, <3>4, <1>1 DEF Filled
  <2> QED BY <2>2, <2>3
<1>10. Reported' BY <1>1, <1>6 DEF Reported, Claim, Resting, ovars
<1>11. cur_iodet' = Len(claims') BY <1>1, <1>5, <1>6
<1> QED BY <1>8, <1>9, <1>10, <1>11

LEMMA ExactCopy ==
    ASSUME TypeInv, ExactInv, NEW t \in Threads, CopyHalf(t) \/ CopyRest(t)
    PROVE  ExactInv'
<1> SUFFICES ASSUME nstatus = 0 PROVE (cur_iodet = Len(claims) /\ Pending /\ Filled /\ Reported)'
  BY DEF ExactInv, CopyHalf, CopyRest, ovars
<1> USE DEF TypeInv
<1>1. cur_iodet = Len(claims) /\ Pending /\ Filled /\ Reported BY DEF ExactInv
<1>2. details \in [Slots -> Halves \X Halves] /\ nextdet \in [Threads -> Nat]
      /\ tpc \in [Threads -> {"io", "copy", "half"}]
  BY DEF TypeOK
<1>3. UNCHANGED <<cur_iodet, nextdet, nrec, claims, ovars>> BY DEF CopyHalf, CopyRest
<1>4. \A u \in Threads : Record(u)' = Record(u) BY <1>3 DEF Record, ovars
<1>5. Copying(t) /\ nextdet[t] \in Slots BY DEF Copies, Copying, CopyHalf, CopyRest
<1>6. nextdet[t] < cur_iodet /\ claims[nextdet[t] + 1] = Record(t)
      /\ (tpc[t] = "half" => details[nextdet[t]][1] = Record(t))
  BY <1>1, <1>5 DEF Pending
<1>7. \A s \in Slots : s # nextdet[t] => details'[s] = details[s]
  BY <1>2 DEF CopyHalf, CopyRest
<1>8. details'[nextdet[t]][1] = Record(t)
  <2>1. CASE CopyHalf(t) BY <2>1, <1>2, <1>5 DEF CopyHalf
  <2>2. CASE CopyRest(t) BY <2>2, <1>2, <1>5, <1>6 DEF CopyRest
  <2> QED BY <2>1, <2>2
<1>9. ASSUME NEW u \in Threads, u # t
      PROVE  Copying(u)' = Copying(u) /\ tpc'[u] = tpc[u]
  BY <1>2, <1>9 DEF Copying, CopyHalf, CopyRest
\* Two threads never copy into the same slot: its claim names one of them.
<1>10. ASSUME NEW u \in Threads, u # t, Copying(u)
       PROVE  nextdet[u] # nextdet[t]
  <2>1. claims[nextdet[u] + 1] = Record(u) BY <1>1, <1>10 DEF Pending
  <2> QED BY <2>1, <1>6, <1>10 DEF Record
<1>11. Pending'
  <2> SUFFICES ASSUME NEW u \in Threads, Copying(u)'
               PROVE  /\ nextdet[u] < cur_iodet
                      /\ claims[nextdet[u] + 1] = Record(u)
                      /\ tpc'[u] = "half" => details'[nextdet[u]][1] = Record(u)
    BY <1>3, <1>4 DEF Pending
  <2>1. CASE u = t BY <2>1, <1>6, <1>8
  <2>2. CASE u # t
    <3>1. Copying(u) /\ tpc'[u] = tpc[u] BY <2>2, <1>9
    <3>2. nextdet[u] \in Slots /\ nextdet[u] # nextdet[t] BY <2>2, <3>1, <1>10 DEF Copies
    <3> QED BY <3>1, <3>2, <1>1, <1>7 DEF Pending
  <2> QED BY <2>1, <2>2
<1>12. Filled'
  <2> SUFFICES ASSUME NEW s \in Slots, s < cur_iodet
               PROVE  \/ details'[s] = <<claims[s + 1], claims[s + 1]>>
                      \/ \E u \in Threads : Copying(u)' /\ nextdet[u] = s
    BY <1>3 DEF Filled
  <2>1. CASE s = nextdet[t] /\ CopyHalf(t)
    BY <2>1, <1>2 DEF CopyHalf, Copying
  <2>2. CASE s = nextdet[t] /\ CopyRest(t)
    <3>1. details'[s] = <<details[s][1], Record(t)>> BY <2>2, <1>2 DEF CopyRest
    <3>2. details[s][1] = Record(t) BY <2>2, <1>6 DEF CopyRest
    <3> QED BY <2>2, <3>1, <3>2, <1>6
  <2>3. CASE s # nextdet[t]
    <3>1. CASE details[s] = <<claims[s + 1], claims[s + 1]>> BY <2>3, <3>1, <1>7
    <3>2. ASSUME NEW u \in Threads, Copying(u), nextdet[u] = s PROVE Copying(u)'
      BY <2>3, <3>2, <1>9
    <3> QED BY <3>1, <3>2, <1>1 DEF Filled
  <2> QED BY <2>1, <2>2, <2>3
<1>13. Reported' BY <1>1, <1>3 DEF Reported, ovars
<1> QED BY <1>1, <1>3, <1>11, <1>12, <1>13

LEMMA ExactOutput ==
    ASSUME TypeInv, ExactInv, Output
    PROVE  ExactInv'
<1> USE DEF TypeInv
<1>1. CASE \E k \in {"status", "final"} : StartOutput(k)
  <2>1. UNCHANGED <<cur_iodet, details, tvars, round, nstatus, lines>> /\ opc = "idle"
    BY <1>1 DEF StartOutput
  <2> SUFFICES ASSUME nstatus = 0
               PROVE  (cur_iodet = Len(claims) /\ Pending /\ Filled /\ Reported)'
    BY <2>1 DEF ExactInv
  <2>2. cur_iodet = Len(claims) /\ Pending /\ Filled /\ lines = <<>>
    BY <2>1 DEF ExactInv, Reported
  <2>3. (cur_iodet = Len(claims) /\ Pending /\ Filled)'
    BY <2>1, <2>2 DEF Pending, Filled, Copying, Record, tvars
  <2>4. i' = 0 /\ opc' = "print" /\ maxdet' = (IF cur_iodet > NIoDet THEN NIoDet ELSE cur_iodet)
    BY <1>1 DEF StartOutput
  <2>5. Reported' BY <2>1, <2>2, <2>4 DEF Reported
  <2> QED BY <2>3, <2>5
<1>2. CASE PrintLine
  <2>1. UNCHANGED <<cur_iodet, details, tvars, opc, kind, maxdet, round, nstatus>>
        /\ lines' = Append(lines, details[i]) /\ i' = i + 1 /\ opc = "print" /\ i < maxdet
    BY <1>2 DEF PrintLine
  <2> SUFFICES ASSUME nstatus = 0
               PROVE  (cur_iodet = Len(claims) /\ Pending /\ Filled /\ Reported)'
    BY <2>1 DEF ExactInv
  <2>2. cur_iodet = Len(claims) /\ Pending /\ Filled /\ Reported BY DEF ExactInv
  <2>3. (cur_iodet = Len(claims) /\ Pending /\ Filled)'
    BY <2>1, <2>2 DEF Pending, Filled, Copying, Record, tvars
  <2>4. ASSUME kind = "final"
        PROVE  Len(lines') = i' /\ \A n \in 1 .. i' : lines'[n] = <<claims[n], claims[n]>>
    <3>1. i \in Slots /\ i \in Nat /\ cur_iodet \in Nat /\ NIoDet \in Nat
          /\ lines \in Seq(Halves \X Halves) /\ details[i] \in Halves \X Halves
      BY <1>2, PrintSlot, DetailsAssumption DEF TypeOK, Slots
    <3>2. maxdet = (IF cur_iodet > NIoDet THEN NIoDet ELSE cur_iodet) /\ Len(lines) = i
          /\ \A n \in 1 .. i : lines[n] = <<claims[n], claims[n]>>
      BY <2>1, <2>2, <2>4 DEF Reported
    <3>3. \A u \in Threads : ~Copying(u)
      BY <2>1, <2>4 DEF Rests, Resting, AtRest, Copying
    <3>4. i < cur_iodet BY <2>1, <3>1, <3>2
    <3>5. details[i] = <<claims[i + 1], claims[i + 1]>> BY <2>2, <3>1, <3>3, <3>4 DEF Filled
    <3>6. Len(lines') = i + 1 /\ lines'[i + 1] = details[i]
          /\ \A n \in 1 .. i : lines'[n] = lines[n]
      BY <2>1, <3>1, <3>2
    <3>7. ASSUME NEW n \in 1 .. i + 1, n \notin 1 .. i PROVE n = i + 1 BY <3>1, <3>7
    <3> QED BY <2>1, <3>2, <3>5, <3>6, <3>7
  <2>5. Reported' BY <2>1, <2>2, <2>4 DEF Reported, tvars
  <2> QED BY <2>3, <2>5
<1>3. CASE StatusDone
  BY <1>3 DEF StatusDone, TypeOK, ExactInv
<1>4. CASE RoundDone
  <2>1. AtRest BY <1>4 DEF RoundDone, Printed, Rests, Resting
  <2>2. cur_iodet' = 0 /\ claims' = <<>> /\ lines' = <<>> /\ opc' = "idle"
        /\ UNCHANGED <<tpc, nextdet>>
    BY <1>4 DEF RoundDone
  <2>3. Pending' BY <2>1, <2>2 DEF Pending, Copying, AtRest
  <2>4. Filled' BY <2>2, DetailsAssumption DEF Filled, Slots
  <2>5. Reported' BY <2>2 DEF Reported
  <2> QED BY <2>2, <2>3, <2>4, <2>5 DEF ExactInv
<1> QED BY <1>1, <1>2, <1>3, <1>4 DEF Output

\* The report of a round, or of a fill, shows exactly the first NIoDet I/Os that claimed
\* a slot, once, in the order of their claims and in one piece.
THEOREM ExactReport == Spec => []ReportExact
<1>1. Init => ExactInv
  BY DetailsAssumption DEF Init, ExactInv, Pending, Filled, Reported, Copying, Slots
<1>2. TypeInv /\ ExactInv /\ [Next]_vars => ExactInv'
  <2> SUFFICES ASSUME TypeInv, ExactInv, [Next]_vars PROVE ExactInv' OBVIOUS
  <2>1. CASE UNCHANGED vars
    BY <2>1 DEF vars, tvars, ovars, ExactInv, Pending, Filled, Reported, Copying, Record
  <2> QED BY <2>1, ExactClaim, ExactCopy, ExactOutput, StepCases
<1>3. TypeInv /\ ExactInv => ReportExact
  <2> SUFFICES ASSUME TypeInv, ExactInv, Printed, kind = "final", nstatus = 0
               PROVE  /\ Len(lines) = IF Len(claims) < NIoDet THEN Len(claims) ELSE NIoDet
                      /\ \A n \in 1 .. Len(lines) : lines[n] = <<claims[n], claims[n]>>
    BY DEF ReportExact
  <2>1. cur_iodet = Len(claims) /\ Reported BY DEF ExactInv
  <2>2. cur_iodet \in Nat /\ NIoDet \in Nat BY DetailsAssumption DEF TypeInv, TypeOK
  <2> QED BY <2>1, <2>2 DEF Reported, Printed
<1> QED BY <1>1, <1>2, <1>3, TypeInvariant, PTL DEF Spec
=============================================================================
