--------------------------- MODULE IolRoundsProofs ---------------------------
(***************************************************************************)
(* Theorems about IolRounds for any number of files and threads, any ramp, *)
(* and any number of I/Os and status lines.                                *)
(***************************************************************************)
EXTENDS IolRoundsInv, Arithmetic

LEMMA WorkersType == NWorkers \in Nat \ {0} /\ 0 \in Workers
<1>1. NFiles \in Nat /\ MaxThreads \in Nat /\ 1 <= NFiles /\ 1 <= MaxThreads
  BY RampAssumption
<1>2. NWorkers \in Nat BY <1>1 DEF NWorkers
<1>3. NWorkers >= 1
  <2>1. NFiles * MaxThreads = (NFiles - 1) * MaxThreads + MaxThreads BY <1>1
  <2>2. (NFiles - 1) * MaxThreads \in Nat BY <1>1
  <2> QED BY <1>1, <2>1, <2>2 DEF NWorkers
<1> QED BY <1>2, <1>3 DEF Workers

-----------------------------------------------------------------------------
(***************************************************************************)
(* Type correctness.                                                       *)
(***************************************************************************)
LEMMA TypeInit == Init => TypeOK
<1> SUFFICES ASSUME Init PROVE TypeOK OBVIOUS
<1>1. InitThreads \in Nat BY RampAssumption
<1>2. 0 \in Workers BY WorkersType
<1>3. mpc \in MainPhases /\ mi \in Workers /\ level \in Nat /\ threads \in Nat
  BY <1>1, <1>2 DEF Init, MainPhases
<1>4. win \in Windows /\ wpc \in [Workers -> WorkPhases] /\ stamp \in [Workers -> Stamps]
  BY DEF Init, Windows, Stamps, WorkPhases
<1> QED BY <1>3, <1>4 DEF Init, TypeOK

LEMMA LoopType ==
    ASSUME TypeOK, NEW here \in MainPhases, NEW next \in MainPhases, Loop(here, next)
    PROVE  mpc' \in MainPhases /\ mi' \in Workers
BY WorkersType DEF TypeOK, Loop, Workers

LEMMA TypeStepMain == TypeOK /\ Main => TypeOK'
<1> SUFFICES ASSUME TypeOK, Main PROVE TypeOK' OBVIOUS
<1> USE DEF TypeOK
<1>1. CASE Create
  <2>1. mpc' \in MainPhases /\ mi' \in Workers
    BY <1>1, LoopType DEF Create, MainPhases
  <2> QED BY <1>1, <2>1 DEF Create, WorkPhases, wvars, stats
<1>2. CASE Ready
  <2>1. mpc' \in MainPhases /\ mi' \in Workers
    BY <1>2, LoopType DEF Ready, MainPhases
  <2> QED BY <1>2, <2>1 DEF Ready, Wait, wvars, stats
<1>3. CASE PostStart
  <2>1. mpc' \in MainPhases /\ mi' \in Workers
    BY <1>3, LoopType DEF PostStart, MainPhases
  <2> QED BY <1>3, <2>1 DEF PostStart, Post, wvars, stats
<1>4. CASE StatusLine
  <2>1. mpc' \in MainPhases /\ mi' \in Workers
    BY <1>4, LoopType DEF StatusLine, MainPhases
  <2> QED BY <1>4, <2>1 DEF StatusLine, wvars, stats
<1>5. CASE Gather
  <2>1. mpc' \in MainPhases /\ mi' \in Workers
    BY <1>5, LoopType DEF Gather, MainPhases
  <2> QED BY <1>5, <2>1 DEF Gather, Wait, wvars, stats
<1>6. CASE PostFinal
  <2>1. mpc' \in MainPhases /\ mi' \in Workers
    BY <1>6, LoopType DEF PostFinal, MainPhases
  <2> QED BY <1>6, <2>1 DEF PostFinal, Post, wvars, stats
<1>7. CASE Setup
  BY <1>7, RampAssumption DEF Setup, MainPhases, Windows, Stamps, wvars, stats
<1>8. CASE LeaveRamp
  BY <1>8, RampAssumption DEF LeaveRamp, MainPhases, wvars, stats
<1>9. CASE Sleep
  BY <1>9, RampAssumption DEF Sleep, MainPhases, wvars, stats
<1>10. CASE LeaveStatus
  BY <1>10, RampAssumption DEF LeaveStatus, MainPhases, wvars, stats
<1>11. CASE Wake
  BY <1>11, RampAssumption DEF Wake, MainPhases, wvars, stats
<1>12. CASE Report
  BY <1>12, RampAssumption DEF Report, MainPhases, wvars, stats
<1>13. CASE Halt
  BY <1>13, RampAssumption DEF Halt, wvars, stats
<1>14. CASE CreateFails
  BY <1>14, RampAssumption DEF CreateFails, wvars, stats
<1>15. CASE OpenFails
  BY <1>15, RampAssumption DEF OpenFails, wvars, stats
<1> QED BY <1>1, <1>2, <1>3, <1>4, <1>5, <1>6, <1>7, <1>8, <1>9, <1>10,
          <1>11, <1>12, <1>13, <1>14, <1>15 DEF Main

LEMMA TypeStepWorker ==
    ASSUME TypeOK, NEW k \in Workers, Worker(k)
    PROVE  TypeOK'
<1> USE DEF TypeOK, Goes, WorkPhases, stats
<1>1. CASE PostReady(k) BY <1>1 DEF PostReady, Post
<1>2. CASE Check(k) BY <1>2 DEF Check
<1>3. CASE WaitStart(k) BY <1>3 DEF WaitStart, Wait
<1>4. CASE Test(k) BY <1>4 DEF Test
<1>5. CASE PostStop(k) BY <1>5 DEF PostStop, Post
<1>6. CASE IoStart(k) BY <1>6 DEF IoStart, Stamps, Windows
<1>7. CASE LeaveDoIo(k) BY <1>7 DEF LeaveDoIo
<1>8. CASE IoDone(k) BY <1>8 DEF IoDone
<1>9. CASE IoAbort(k) BY <1>9 DEF IoAbort, wvars
<1> QED BY <1>1, <1>2, <1>3, <1>4, <1>5, <1>6, <1>7, <1>8, <1>9 DEF Worker

LEMMA TypeStep == TypeOK /\ [Next]_vars => TypeOK'
<1> SUFFICES ASSUME TypeOK, [Next]_vars PROVE TypeOK' OBVIOUS
<1>1. CASE Main BY <1>1, TypeStepMain
<1>2. CASE Tick BY <1>2 DEF Tick, TypeOK, Windows, wvars, stats
<1>3. CASE \E k \in Workers : Worker(k) BY <1>3, TypeStepWorker
<1>4. CASE UNCHANGED vars BY <1>4 DEF vars, TypeOK, wvars, stats
<1> QED BY <1>1, <1>2, <1>3, <1>4 DEF Next, Ended

\* The threads of ioload compute only values of their types; no sequence of
\* rounds, status lines and semaphore operations makes a semaphore negative.
THEOREM TypeCorrect == Spec => []TypeOK
<1>1. Init => TypeOK BY TypeInit
<1>2. TypeOK /\ [Next]_vars => TypeOK' BY TypeStep
<1> QED BY <1>1, <1>2, PTL DEF Spec

-----------------------------------------------------------------------------
(***************************************************************************)
(* The hand-shake between the main thread and each I/O thread.             *)
(***************************************************************************)
LEMMA HandShakeInit == Init => HandShake
BY WorkersType
   DEF Init, HandShake, LoopBound, Token, Created, Pending, Busy, B, Workers

\* A loop of the main thread changes no more than the place it has reached.
LEMMA LoopSteps ==
    ASSUME TypeOK, LoopBound, NEW here, NEW next, Loop(here, next),
           here \in {"create", "ready", "post", "status", "gather", "final"}
    PROVE  /\ mpc = here
           /\ mi' \in Workers /\ LoopBound'
           /\ \/ mpc' = here /\ mi' = mi + 1
              \/ mpc' = next /\ mi' = 0 /\ mi = NWorkers - 1
BY WorkersType DEF TypeOK, Loop, Workers, LoopBound

LEMMA HandShakeMain == TypeOK /\ HandShake /\ Main => HandShake'
<1> SUFFICES ASSUME TypeOK, HandShake, Main PROVE HandShake' OBVIOUS
<1> USE WorkersType DEF TypeOK, wvars, stats
<1>1. CASE Create
  <2>1. /\ mpc = "create" /\ LoopBound'
        /\ \/ mpc' = "create" /\ mi' = mi + 1
           \/ mpc' = "ready" /\ mi' = 0 /\ mi = NWorkers - 1
    BY <1>1, LoopSteps DEF Create, HandShake
  <2>2. ASSUME NEW k \in Workers PROVE Token(k)'
    <3>1. /\ k \in Int /\ mi \in Int /\ 0 <= k /\ k <= NWorkers - 1 /\ NWorkers \in Int
          /\ start[k] \in Nat /\ stop[k] \in Nat
      BY DEF Workers
    <3>2. start'[k] = start[k] /\ stop'[k] = stop[k] /\ wpc'[k] = IF k = mi THEN "init" ELSE wpc[k]
      BY <1>1 DEF Create
    <3>3. Token(k) BY DEF HandShake
    <3>4. CASE k = mi BY <2>1, <3>1, <3>2, <3>3, <3>4 DEF Token, Created, Pending, Busy, B
    <3>5. CASE k < mi BY <2>1, <3>1, <3>2, <3>3, <3>5 DEF Token, Created, Pending, Busy, B
    <3>6. CASE k > mi BY <2>1, <3>1, <3>2, <3>3, <3>6 DEF Token, Created, Pending, Busy, B
    <3> QED BY <3>1, <3>4, <3>5, <3>6
  <2> QED BY <2>1, <2>2 DEF HandShake
<1>2. CASE Ready
  <2>1. /\ mpc = "ready" /\ LoopBound'
        /\ \/ mpc' = "ready" /\ mi' = mi + 1
           \/ mpc' = "setup" /\ mi' = 0 /\ mi = NWorkers - 1
    BY <1>2, LoopSteps DEF Ready, HandShake
  <2>2. ASSUME NEW k \in Workers PROVE Token(k)'
    <3>1. /\ k \in Int /\ mi \in Int /\ 0 <= k /\ k <= NWorkers - 1 /\ NWorkers \in Int
          /\ start[k] \in Nat /\ stop[k] \in Nat
      BY DEF Workers
    <3>2. start'[k] = start[k] /\ (stop'[k] = IF k = mi THEN stop[k] - 1 ELSE stop[k]) /\ wpc'[k] = wpc[k]
      BY <1>2 DEF Ready, Wait
    <3>3. Token(k) BY DEF HandShake
    <3>4. CASE k = mi
      <4>1. Created(k) /\ Created(k)' /\ Pending(k) /\ ~Pending(k)'
        BY <2>1, <3>1, <3>4 DEF Created, Pending
      <4>2. Busy(k)' <=> Busy(k) BY <3>2 DEF Busy
      <4> QED BY <2>1, <3>1, <3>2, <3>3, <3>4, <4>1, <4>2 DEF Token, B
    <3>5. CASE k < mi BY <2>1, <3>1, <3>2, <3>3, <3>5 DEF Token, Created, Pending, Busy, B
    <3>6. CASE k > mi BY <2>1, <3>1, <3>2, <3>3, <3>6 DEF Token, Created, Pending, Busy, B
    <3> QED BY <3>1, <3>4, <3>5, <3>6
  <2> QED BY <2>1, <2>2 DEF HandShake
<1>3. CASE PostStart
  <2>1. /\ mpc = "post" /\ LoopBound'
        /\ \/ mpc' = "post" /\ mi' = mi + 1
           \/ mpc' = "run" /\ mi' = 0 /\ mi = NWorkers - 1
    BY <1>3, LoopSteps DEF PostStart, HandShake
  <2>2. ASSUME NEW k \in Workers PROVE Token(k)'
    <3>1. /\ k \in Int /\ mi \in Int /\ 0 <= k /\ k <= NWorkers - 1 /\ NWorkers \in Int
          /\ start[k] \in Nat /\ stop[k] \in Nat
      BY DEF Workers
    <3>2. start'[k] = start[k] + (IF k = mi THEN 1 ELSE 0) /\ stop'[k] = stop[k] /\ wpc'[k] = wpc[k]
      BY <1>3 DEF PostStart, Post
    <3>3. Token(k) BY DEF HandShake
    <3>4. CASE k = mi BY <2>1, <3>1, <3>2, <3>3, <3>4 DEF Token, Created, Pending, Busy, B
    <3>5. CASE k < mi BY <2>1, <3>1, <3>2, <3>3, <3>5 DEF Token, Created, Pending, Busy, B
    <3>6. CASE k > mi BY <2>1, <3>1, <3>2, <3>3, <3>6 DEF Token, Created, Pending, Busy, B
    <3> QED BY <3>1, <3>4, <3>5, <3>6
  <2> QED BY <2>1, <2>2 DEF HandShake
<1>4. CASE StatusLine
  <2>1. /\ mpc = "status" /\ LoopBound'
        /\ \/ mpc' = "status" /\ mi' = mi + 1
           \/ mpc' = "run" /\ mi' = 0 /\ mi = NWorkers - 1
    BY <1>4, LoopSteps DEF StatusLine, HandShake
  <2>2. ASSUME NEW k \in Workers PROVE Token(k)'
    <3>1. /\ k \in Int /\ mi \in Int /\ 0 <= k /\ k <= NWorkers - 1 /\ NWorkers \in Int
          /\ start[k] \in Nat /\ stop[k] \in Nat
      BY DEF Workers
    <3>2. start'[k] = start[k] /\ stop'[k] = stop[k] /\ wpc'[k] = wpc[k]
      BY <1>4 DEF StatusLine
    <3>3. Token(k) BY DEF HandShake
    <3>4. CASE k = mi BY <2>1, <3>1, <3>2, <3>3, <3>4 DEF Token, Created, Pending, Busy, B
    <3>5. CASE k < mi BY <2>1, <3>1, <3>2, <3>3, <3>5 DEF Token, Created, Pending, Busy, B
    <3>6. CASE k > mi BY <2>1, <3>1, <3>2, <3>3, <3>6 DEF Token, Created, Pending, Busy, B
    <3> QED BY <3>1, <3>4, <3>5, <3>6
  <2> QED BY <2>1, <2>2 DEF HandShake
<1>5. CASE Gather
  <2>1. /\ mpc = "gather" /\ LoopBound'
        /\ \/ mpc' = "gather" /\ mi' = mi + 1
           \/ mpc' = "report" /\ mi' = 0 /\ mi = NWorkers - 1
    BY <1>5, LoopSteps DEF Gather, HandShake
  <2>2. ASSUME NEW k \in Workers PROVE Token(k)'
    <3>1. /\ k \in Int /\ mi \in Int /\ 0 <= k /\ k <= NWorkers - 1 /\ NWorkers \in Int
          /\ start[k] \in Nat /\ stop[k] \in Nat
      BY DEF Workers
    <3>2. start'[k] = start[k] /\ stop'[k] = stop[k] - (IF k = mi THEN 1 ELSE 0) /\ wpc'[k] = wpc[k]
      BY <1>5 DEF Gather, Wait
    <3>3. Token(k) BY DEF HandShake
    <3>4. CASE k = mi BY <2>1, <3>1, <3>2, <3>3, <3>4 DEF Token, Created, Pending, Busy, B
    <3>5. CASE k < mi BY <2>1, <3>1, <3>2, <3>3, <3>5 DEF Token, Created, Pending, Busy, B
    <3>6. CASE k > mi BY <2>1, <3>1, <3>2, <3>3, <3>6 DEF Token, Created, Pending, Busy, B
    <3> QED BY <3>1, <3>4, <3>5, <3>6
  <2> QED BY <2>1, <2>2 DEF HandShake
<1>6. CASE PostFinal
  <2>1. /\ mpc = "final" /\ LoopBound'
        /\ \/ mpc' = "final" /\ mi' = mi + 1
           \/ mpc' = "exit" /\ mi' = 0 /\ mi = NWorkers - 1
    BY <1>6, LoopSteps DEF PostFinal, HandShake
  <2>2. ASSUME NEW k \in Workers PROVE Token(k)'
    <3>1. /\ k \in Int /\ mi \in Int /\ 0 <= k /\ k <= NWorkers - 1 /\ NWorkers \in Int
          /\ start[k] \in Nat /\ stop[k] \in Nat
      BY DEF Workers
    <3>2. start'[k] = start[k] + (IF k = mi THEN 1 ELSE 0) /\ stop'[k] = stop[k] /\ wpc'[k] = wpc[k]
      BY <1>6 DEF PostFinal, Post
    <3>3. Token(k) BY DEF HandShake
    <3>4. CASE k = mi BY <2>1, <3>1, <3>2, <3>3, <3>4 DEF Token, Created, Pending, Busy, B
    <3>5. CASE k < mi BY <2>1, <3>1, <3>2, <3>3, <3>5 DEF Token, Created, Pending, Busy, B
    <3>6. CASE k > mi BY <2>1, <3>1, <3>2, <3>3, <3>6 DEF Token, Created, Pending, Busy, B
    <3> QED BY <3>1, <3>4, <3>5, <3>6
  <2> QED BY <2>1, <2>2 DEF HandShake
<1>7. CASE Setup
  BY <1>7 DEF Setup, HandShake, LoopBound, Token, Created, Pending, Busy, B, Workers
<1>8. CASE LeaveRamp
  BY <1>8 DEF LeaveRamp, HandShake, LoopBound, Token, Created, Pending, Busy, B, Workers
<1>9. CASE Sleep
  BY <1>9 DEF Sleep, HandShake, LoopBound, Token, Created, Pending, Busy, B, Workers
<1>10. CASE LeaveStatus
  BY <1>10 DEF LeaveStatus, HandShake, LoopBound, Token, Created, Pending, Busy, B, Workers
<1>11. CASE Wake
  BY <1>11 DEF Wake, HandShake, LoopBound, Token, Created, Pending, Busy, B, Workers
<1>12. CASE Report
  BY <1>12 DEF Report, HandShake, LoopBound, Token, Created, Pending, Busy, B, Workers
<1>13. CASE Halt
  BY <1>13 DEF Halt, HandShake, LoopBound, Token, Created, Pending, Busy, B, Workers
<1>14. CASE CreateFails
  BY <1>14 DEF CreateFails, HandShake, LoopBound, Token, Created, Pending, Busy, B, Workers
<1>15. CASE OpenFails
  BY <1>15 DEF OpenFails, HandShake, LoopBound, Token, Created, Pending, Busy, B, Workers
<1> QED BY <1>1, <1>2, <1>3, <1>4, <1>5, <1>6, <1>7, <1>8, <1>9, <1>10,
          <1>11, <1>12, <1>13, <1>14, <1>15 DEF Main

LEMMA HandShakeWorker ==
    ASSUME TypeOK, HandShake, NEW k \in Workers, Worker(k)
    PROVE  HandShake'
<1>1. mpc' = mpc /\ mi' = mi
  BY DEF Worker, PostReady, Check, WaitStart, Test, PostStop, IoStart, LeaveDoIo,
         IoDone, IoAbort
<1>2. LoopBound' BY <1>1 DEF HandShake, LoopBound
<1>3. ASSUME NEW q \in Workers, q # k PROVE Token(q)'
  <2>1. wpc'[q] = wpc[q] /\ start'[q] = start[q] /\ stop'[q] = stop[q]
    BY <1>3 DEF TypeOK, Worker, PostReady, Check, WaitStart, Test, PostStop, IoStart,
                LeaveDoIo, IoDone, IoAbort, Goes, Post, Wait, wvars
  <2> QED BY <1>1, <2>1 DEF HandShake, Token, Created, Pending, Busy
<1>4. Token(k)'
  <2> USE <1>1 DEF TypeOK, HandShake, Token, Created, Pending, Busy, B, Goes
  <2>1. CASE PostReady(k) BY <2>1 DEF PostReady, Post
  <2>2. CASE Check(k) BY <2>2 DEF Check
  <2>3. CASE WaitStart(k) BY <2>3 DEF WaitStart, Wait
  <2>4. CASE Test(k) BY <2>4 DEF Test
  <2>5. CASE PostStop(k) BY <2>5 DEF PostStop, Post
  <2>6. CASE IoStart(k) BY <2>6 DEF IoStart
  <2>7. CASE LeaveDoIo(k) BY <2>7 DEF LeaveDoIo
  <2>8. CASE IoDone(k) BY <2>8 DEF IoDone
  <2>9. CASE IoAbort(k) BY <2>9 DEF IoAbort, wvars
  <2> QED BY <2>1, <2>2, <2>3, <2>4, <2>5, <2>6, <2>7, <2>8, <2>9 DEF Worker
<1> QED BY <1>2, <1>3, <1>4 DEF HandShake

LEMMA HandShakeStep == TypeOK /\ HandShake /\ [Next]_vars => HandShake'
<1> SUFFICES ASSUME TypeOK, HandShake, [Next]_vars PROVE HandShake' OBVIOUS
<1>1. CASE Main BY <1>1, HandShakeMain
<1>2. CASE Tick
  BY <1>2 DEF Tick, HandShake, LoopBound, Token, Created, Pending, Busy, wvars
<1>3. CASE \E k \in Workers : Worker(k) BY <1>3, HandShakeWorker
<1>4. CASE UNCHANGED vars
  BY <1>4 DEF vars, HandShake, LoopBound, Token, Created, Pending, Busy, wvars
<1> QED BY <1>1, <1>2, <1>3, <1>4 DEF Next, Ended

\* At most one request or answer is under way between the main thread and an
\* I/O thread, whatever the number of files, threads and rounds.
THEOREM HandShakes == Spec => []HandShake
<1>1. Init => HandShake BY HandShakeInit
<1>2. TypeOK /\ HandShake /\ [Next]_vars => HandShake' BY HandShakeStep
<1> QED BY <1>1, <1>2, TypeCorrect, PTL DEF Spec

\* When the main thread prints the summary of a round and clears the counters,
\* no I/O thread is in do_io or on its way there.
THEOREM Quiescent == Spec => []ReportQuiescent
<1>1. TypeOK /\ HandShake => ReportQuiescent
  <2> SUFFICES ASSUME TypeOK, HandShake, mpc \in {"report", "setup"}, NEW k \in Workers
               PROVE  wpc[k] \notin InDoIo \cup {"test", "post"}
    BY DEF ReportQuiescent
  <2>1. mi = 0 BY DEF HandShake, LoopBound
  <2>2. ~Pending(k) BY <2>1 DEF Pending
  <2>3. start[k] + stop[k] + B(Busy(k)) = 0 BY <2>2 DEF HandShake, Token, B
  <2>4. start[k] \in Nat /\ stop[k] \in Nat BY DEF TypeOK
  <2> QED BY <2>3, <2>4 DEF Busy, InDoIo, B
<1> QED BY <1>1, TypeCorrect, HandShakes, PTL

-----------------------------------------------------------------------------
(***************************************************************************)
(* The account of a round.                                                 *)
(***************************************************************************)
LEMMA AccountInit == Init => RoundAccount
BY DEF Init, RoundAccount, NoneLeft, Tally, Load, InRound, DoneLoad, InDoIo

\* Between two rounds no thread is at work.
LEMMA Idle ==
    ASSUME TypeOK, HandShake, mpc \in {"setup", "report"}, NEW k \in Workers
    PROVE  mi = 0 /\ start[k] = 0 /\ wpc[k] \in {"check", "wait", "exit"}
<1>1. mi = 0 BY DEF HandShake, LoopBound
<1>2. ~Pending(k) /\ Created(k) BY <1>1 DEF Pending, Created
<1>3. start[k] + stop[k] + B(Busy(k)) = 0 /\ wpc[k] # "new"
  BY <1>2 DEF HandShake, Token, B
<1>4. start[k] \in Nat /\ stop[k] \in Nat /\ wpc[k] \in WorkPhases BY DEF TypeOK
<1>5. ~Busy(k) /\ start[k] = 0 BY <1>3, <1>4 DEF B
<1> QED BY <1>1, <1>3, <1>4, <1>5 DEF Busy, WorkPhases

\* A thread is in do_io only in a round.
LEMMA IoInRound ==
    ASSUME TypeOK, HandShake, RoundAccount, NEW k \in Workers, wpc[k] \in InDoIo
    PROVE  InRound /\ threadid(k) < threads /\ start[k] = 0
<1>1. threadid(k) < threads BY DEF RoundAccount, Load
<1>2. threadid(k) \in Nat BY RampAssumption, WorkersType DEF threadid, Workers
<1>3. mpc \notin {"final", "exit"} BY <1>1, <1>2 DEF RoundAccount, NoneLeft
<1>4. mpc # "setup" BY Idle DEF InDoIo
<1>5. mpc \notin {"create", "ready"} BY DEF HandShake, Token, InDoIo
<1>6. start[k] = 0
  <2>1. Busy(k) BY DEF Busy, InDoIo
  <2>2. start[k] \in Nat /\ stop[k] \in Nat BY DEF TypeOK
  <2> QED BY <2>1, <2>2 DEF HandShake, Token, B
<1> QED BY <1>1, <1>3, <1>4, <1>5, <1>6 DEF TypeOK, MainPhases, InRound

LEMMA AccountMain == TypeOK /\ HandShake /\ RoundAccount /\ Main => RoundAccount'
<1> SUFFICES ASSUME TypeOK, HandShake, RoundAccount, Main PROVE RoundAccount' OBVIOUS
<1> USE DEF wvars, stats
<1>0. NoneLeft'
  BY DEF Main, RoundAccount, NoneLeft, Create, Ready, Setup, LeaveRamp, PostStart,
     Sleep, LeaveStatus, Wake, StatusLine, Gather, Report, Halt, PostFinal,
     CreateFails, OpenFails, Loop
<1> SUFFICES ASSUME NEW k \in Workers PROVE Tally(k)' /\ Load(k)'
  BY <1>0 DEF RoundAccount
<1>a. Tally(k) /\ Load(k) BY DEF RoundAccount
<1>b. LoopBound BY DEF HandShake
<1>c. k \in Int /\ mi \in Int /\ 0 <= k /\ k <= NWorkers - 1 /\ start[k] \in Nat
      /\ NWorkers \in Int
  BY WorkersType DEF TypeOK, Workers
<1> USE DEF Tally, Load, InRound, DoneLoad, InDoIo
<1>1. CASE Create
  <2>1. /\ mpc = "create"
        /\ \/ mpc' = "create" /\ mi' = mi + 1
           \/ mpc' = "ready" /\ mi' = 0 /\ mi = NWorkers - 1
    BY <1>1, <1>b, LoopSteps DEF Create
  <2>2. /\ start'[k] = start[k]
        /\ wpc'[k] = IF k = mi THEN "init" ELSE wpc[k]
        /\ UNCHANGED <<threads, stamp, cur, begun>>
    BY <1>1 DEF Create, TypeOK
  <2> QED BY <1>a, <1>c, <2>1, <2>2 DEF B
<1>2. CASE Ready
  <2>1. /\ mpc = "ready"
        /\ \/ mpc' = "ready" /\ mi' = mi + 1
           \/ mpc' = "setup" /\ mi' = 0 /\ mi = NWorkers - 1
    BY <1>2, <1>b, LoopSteps DEF Ready
  <2>2. /\ start'[k] = start[k]
        /\ wpc'[k] = wpc[k]
        /\ UNCHANGED <<threads, stamp, cur, begun>>
    BY <1>2 DEF Ready, Wait, TypeOK
  <2> QED BY <1>a, <1>c, <2>1, <2>2 DEF B
<1>3. CASE PostStart
  <2>1. /\ mpc = "post"
        /\ \/ mpc' = "post" /\ mi' = mi + 1
           \/ mpc' = "run" /\ mi' = 0 /\ mi = NWorkers - 1
    BY <1>3, <1>b, LoopSteps DEF PostStart
  <2>2. /\ start'[k] = start[k] + (IF k = mi THEN 1 ELSE 0)
        /\ wpc'[k] = wpc[k]
        /\ UNCHANGED <<threads, stamp, cur, begun>>
    BY <1>3 DEF PostStart, Post, TypeOK
  <2> QED BY <1>a, <1>c, <2>1, <2>2 DEF B
<1>4. CASE StatusLine
  <2>1. /\ mpc = "status"
        /\ \/ mpc' = "status" /\ mi' = mi + 1
           \/ mpc' = "run" /\ mi' = 0 /\ mi = NWorkers - 1
    BY <1>4, <1>b, LoopSteps DEF StatusLine
  <2>2. /\ start'[k] = start[k]
        /\ wpc'[k] = wpc[k]
        /\ UNCHANGED <<threads, stamp, cur, begun>>
    BY <1>4 DEF StatusLine, TypeOK
  <2> QED BY <1>a, <1>c, <2>1, <2>2 DEF B
<1>5. CASE Gather
  <2>1. /\ mpc = "gather"
        /\ \/ mpc' = "gather" /\ mi' = mi + 1
           \/ mpc' = "report" /\ mi' = 0 /\ mi = NWorkers - 1
    BY <1>5, <1>b, LoopSteps DEF Gather
  <2>2. /\ start'[k] = start[k]
        /\ wpc'[k] = wpc[k]
        /\ UNCHANGED <<threads, stamp, cur, begun>>
    BY <1>5 DEF Gather, Wait, TypeOK
  <2> QED BY <1>a, <1>c, <2>1, <2>2 DEF B
<1>6. CASE PostFinal
  <2>1. /\ mpc = "final"
        /\ \/ mpc' = "final" /\ mi' = mi + 1
           \/ mpc' = "exit" /\ mi' = 0 /\ mi = NWorkers - 1
    BY <1>6, <1>b, LoopSteps DEF PostFinal
  <2>2. /\ start'[k] = start[k] + (IF k = mi THEN 1 ELSE 0)
        /\ wpc'[k] = wpc[k]
        /\ UNCHANGED <<threads, stamp, cur, begun>>
    BY <1>6 DEF PostFinal, Post, TypeOK
  <2> QED BY <1>a, <1>c, <2>1, <2>2 DEF B
<1>7. CASE Setup
  <2>1. mi = 0 /\ start[k] = 0 /\ wpc[k] \in {"check", "wait", "exit"}
    BY <1>7, Idle DEF Setup
  <2> QED BY <1>7, <1>a, <1>c, <2>1 DEF Setup, B
<1>8. CASE LeaveRamp
  <2>1. mi = 0 /\ start[k] = 0 /\ wpc[k] \in {"check", "wait", "exit"}
    BY <1>8, Idle DEF LeaveRamp
  <2> QED BY <1>8, <1>a, <1>c, <2>1 DEF LeaveRamp, B
<1>9. CASE Sleep
  BY <1>9, <1>a, <1>b DEF Sleep, LoopBound
<1>10. CASE LeaveStatus
  BY <1>10, <1>a, <1>b DEF LeaveStatus, LoopBound
<1>11. CASE Wake
  BY <1>11, <1>a, <1>b DEF Wake, LoopBound
<1>12. CASE Report
  <2>1. mi = 0 /\ start[k] = 0 /\ wpc[k] \in {"check", "wait", "exit"}
    BY <1>12, Idle DEF Report
  <2> QED BY <1>12, <1>a, <1>c, <2>1 DEF Report, B
<1>13. CASE Halt
  BY <1>13, <1>a, <1>b DEF Halt, LoopBound
<1>14. CASE CreateFails
  BY <1>14, <1>a, <1>b DEF CreateFails, LoopBound
<1>15. CASE OpenFails
  BY <1>15, <1>a, <1>b DEF OpenFails, LoopBound
<1> QED BY <1>1, <1>2, <1>3, <1>4, <1>5, <1>6, <1>7, <1>8, <1>9, <1>10,
          <1>11, <1>12, <1>13, <1>14, <1>15 DEF Main

LEMMA AccountWorker ==
    ASSUME TypeOK, HandShake, RoundAccount, NEW k \in Workers, Worker(k)
    PROVE  RoundAccount'
<1>1. mpc' = mpc /\ mi' = mi /\ threads' = threads
  BY DEF Worker, PostReady, Check, WaitStart, Test, PostStop, IoStart, LeaveDoIo,
         IoDone, IoAbort
<1>2. NoneLeft' BY <1>1 DEF RoundAccount, NoneLeft
<1>3. ASSUME NEW q \in Workers, q # k PROVE Tally(q)' /\ Load(q)'
  <2>1. /\ wpc'[q] = wpc[q] /\ start'[q] = start[q] /\ stamp'[q] = stamp[q]
        /\ cur'[q] = cur[q] /\ begun'[q] = begun[q]
    BY <1>3 DEF TypeOK, Worker, PostReady, Check, WaitStart, Test, PostStop, IoStart,
                LeaveDoIo, IoDone, IoAbort, Goes, Post, Wait, wvars
  <2> QED BY <1>1, <2>1 DEF RoundAccount, Tally, Load, InRound, DoneLoad
<1>4. Tally(k)' /\ Load(k)'
  <2>a. Tally(k) /\ Load(k) BY DEF RoundAccount
  <2>b. start[k] \in Nat /\ stop[k] \in Nat /\ cur[k] \in Nat /\ begun[k] \in Nat
    BY DEF TypeOK
  <2>c. wpc[k] \in InDoIo => InRound /\ threadid(k) < threads /\ start[k] = 0
    BY IoInRound
  <2>d. start[k] + stop[k] + B(Busy(k)) = B(Pending(k)) BY DEF HandShake, Token
  <2> USE <1>1, <2>a DEF Tally, Load, InRound, DoneLoad, InDoIo, Goes, B
  <2>1. CASE PostReady(k) BY <2>1, <2>b, <2>d DEF PostReady, Busy, TypeOK
  <2>2. CASE Check(k) BY <2>2 DEF Check, TypeOK
  <2>3. CASE WaitStart(k) BY <2>3, <2>b, <2>d DEF WaitStart, Wait, Busy, TypeOK
  <2>4. CASE Test(k) BY <2>4 DEF Test, TypeOK
  <2>5. CASE PostStop(k) BY <2>5 DEF PostStop, TypeOK
  <2>6. CASE IoStart(k) BY <2>6, <2>b, <2>c DEF IoStart, TypeOK
  <2>7. CASE LeaveDoIo(k) BY <2>7, <2>c DEF LeaveDoIo, TypeOK
  <2>8. CASE IoDone(k) BY <2>8, <2>b, <2>c DEF IoDone, Counted, TypeOK
  <2>9. CASE IoAbort(k) BY <2>9 DEF IoAbort, wvars, TypeOK
  <2> QED BY <2>1, <2>2, <2>3, <2>4, <2>5, <2>6, <2>7, <2>8, <2>9 DEF Worker
<1> QED BY <1>2, <1>3, <1>4 DEF RoundAccount

LEMMA AccountStep ==
    TypeOK /\ HandShake /\ RoundAccount /\ [Next]_vars => RoundAccount'
<1> SUFFICES ASSUME TypeOK, HandShake, RoundAccount, [Next]_vars PROVE RoundAccount'
  OBVIOUS
<1>1. CASE Main BY <1>1, AccountMain
<1>2. CASE Tick
  BY <1>2 DEF Tick, RoundAccount, NoneLeft, Tally, Load, InRound, DoneLoad, wvars
<1>3. CASE \E k \in Workers : Worker(k) BY <1>3, AccountWorker
<1>4. CASE UNCHANGED vars
  BY <1>4 DEF vars, RoundAccount, NoneLeft, Tally, Load, InRound, DoneLoad, wvars
<1> QED BY <1>1, <1>2, <1>3, <1>4 DEF Next, Ended

\* What the threads do in a round is accounted for at every moment of every round.
THEOREM RoundsAccounted == Spec => []RoundAccount
<1>1. Init => RoundAccount BY AccountInit
<1>2. TypeOK /\ HandShake /\ RoundAccount /\ [Next]_vars => RoundAccount'
  BY AccountStep
<1> QED BY <1>1, <1>2, TypeCorrect, HandShakes, PTL DEF Spec

\* A thread does I/O only in the rounds whose thread count takes it in.
THEOREM Active == Spec => []OnlyActive
<1>1. RoundAccount => OnlyActive BY DEF RoundAccount, Load, OnlyActive
<1> QED BY <1>1, RoundsAccounted, PTL

\* The summary of a round counts exactly the I/Os begun in its measured interval.
THEOREM Exact == Spec => []SummaryExact
<1>1. TypeOK /\ HandShake /\ RoundAccount => SummaryExact
  <2> SUFFICES ASSUME TypeOK, HandShake, RoundAccount, mpc = "report" PROVE cur = begun
    BY DEF SummaryExact
  <2>1. ASSUME NEW k \in Workers PROVE cur[k] = begun[k]
    <3>1. wpc[k] # "io" BY Idle
    <3>2. begun[k] = cur[k] + B(wpc[k] = "io" /\ stamp[k] = "measure")
      BY DEF RoundAccount, Tally, InRound
    <3>3. cur[k] \in Nat BY DEF TypeOK
    <3> QED BY <3>1, <3>2, <3>3 DEF B
  <2>2. cur \in [Workers -> Nat] /\ begun \in [Workers -> Nat] BY DEF TypeOK
  <2> QED BY <2>1, <2>2
<1> QED BY <1>1, TypeCorrect, HandShakes, RoundsAccounted, PTL

\* At its summary, the threads of the round, and no others, have kept up the load
\* until the round was over.
THEOREM Loaded == Spec => []FullLoad
<1>1. TypeOK /\ HandShake /\ RoundAccount => FullLoad
  <2> SUFFICES ASSUME TypeOK, HandShake, RoundAccount, mpc = "report", NEW k \in Workers
               PROVE  stamp[k] = IF threadid(k) < threads THEN "over" ELSE "past"
    BY DEF FullLoad
  <2>1. DoneLoad(k) BY Idle DEF DoneLoad, InDoIo
  <2> QED BY <2>1 DEF RoundAccount, Load, InRound
<1> QED BY <1>1, TypeCorrect, HandShakes, RoundsAccounted, PTL

-----------------------------------------------------------------------------
(***************************************************************************)
(* Status lines.                                                           *)
(***************************************************************************)
\* The counters never fall behind those of the last status line, and neither does
\* what a status line has added up so far with what it will come to.
SnapAhead ==
    IF mpc = "status"
    THEN /\ snap <= SumFunctionOnSet(cur, 0 .. mi - 1)
         /\ last <= snap + SumFunctionOnSet(cur, mi .. NWorkers - 1)
    ELSE last <= SumFunctionOnSet(cur, Workers)

LEMMA Parts ==
    /\ IsFiniteSet(Workers)
    /\ \A m \in Workers : /\ m \in Nat /\ m <= NWorkers - 1
                          /\ IsFiniteSet(0 .. m - 1) /\ 0 .. m - 1 \subseteq Workers
                          /\ IsFiniteSet(m .. NWorkers - 1) /\ m .. NWorkers - 1 \subseteq Workers
<1>1. NWorkers - 1 \in Int /\ 0 \in Int BY WorkersType
<1>2. IsFiniteSet(Workers) BY <1>1, FS_Interval DEF Workers
<1>3. ASSUME NEW m \in Workers
      PROVE  m \in Nat /\ m <= NWorkers - 1
             /\ 0 .. m - 1 \subseteq Workers /\ m .. NWorkers - 1 \subseteq Workers
  BY <1>1 DEF Workers
<1> QED BY <1>2, <1>3, FS_Subset

\* More is counted, nothing else changes.
LEMMA SnapGrows ==
    ASSUME TypeOK, SnapAhead, UNCHANGED <<snap, last, mpc, mi>>, NEW c \in [Workers -> Nat],
           c = cur', \A q \in Workers : cur[q] <= c[q]
    PROVE  SnapAhead'
<1>1. ASSUME NEW S, IsFiniteSet(S), S \subseteq Workers
      PROVE  /\ SumFunctionOnSet(cur, S) \in Nat /\ SumFunctionOnSet(c, S) \in Nat
             /\ SumFunctionOnSet(cur, S) <= SumFunctionOnSet(c, S)
  <2>1. cur \in [Workers -> Nat] BY DEF TypeOK
  <2>2. \A q \in S : cur[q] \in Nat /\ c[q] \in Nat BY <1>1, <2>1
  <2>3. \A q \in S : cur[q] \in Int /\ c[q] \in Int /\ cur[q] <= c[q] BY <1>1, <2>2
  <2> QED BY <1>1, <2>2, <2>3, SumNat, SumMonotone
<1>2. snap \in Nat /\ last \in Nat /\ mi \in Workers BY DEF TypeOK
<1>3. CASE mpc = "status"
  <2> DEFINE a  == SumFunctionOnSet(cur, 0 .. mi - 1)
             a1 == SumFunctionOnSet(c, 0 .. mi - 1)
             b  == SumFunctionOnSet(cur, mi .. NWorkers - 1)
             b1 == SumFunctionOnSet(c, mi .. NWorkers - 1)
  <2>1. a \in Nat /\ a1 \in Nat /\ a <= a1 BY <1>1, <1>2, Parts
  <2>2. b \in Nat /\ b1 \in Nat /\ b <= b1 BY <1>1, <1>2, Parts
  <2>3. snap <= a /\ last <= snap + b BY <1>3 DEF SnapAhead
  <2> HIDE DEF a, a1, b, b1
  <2>4. snap <= a1 /\ last <= snap + b1 BY <1>2, <2>1, <2>2, <2>3
  <2> QED BY <1>3, <2>4 DEF SnapAhead, a1, b1
<1>4. CASE mpc # "status"
  <2> DEFINE a  == SumFunctionOnSet(cur, Workers)
             a1 == SumFunctionOnSet(c, Workers)
  <2>1. a \in Nat /\ a1 \in Nat /\ a <= a1 BY <1>1, Parts
  <2>2. last <= a BY <1>4 DEF SnapAhead
  <2> HIDE DEF a, a1
  <2>3. last <= a1 BY <1>2, <2>1, <2>2
  <2> QED BY <1>4, <2>3 DEF SnapAhead, a1
<1> QED BY <1>3, <1>4

\* One thread's counters are added up.
LEMMA SnapLine ==
    ASSUME TypeOK, SnapAhead, StatusLine
    PROVE  SnapAhead' /\ (mpc' = "run" => last <= last')
<1>1. /\ mpc = "status" /\ cur' = cur /\ snap' = snap + cur[mi] /\ mi \in Workers
      /\ snap \in Nat /\ last \in Nat /\ cur \in [Workers -> Nat]
  BY DEF StatusLine, Loop, TypeOK, wvars
<1> DEFINE Up(n)   == SumFunctionOnSet(cur, 0 .. n - 1)
           Down(n) == SumFunctionOnSet(cur, n .. NWorkers - 1)
<1>2. cur[mi] \in Nat /\ mi \in Nat /\ mi <= NWorkers - 1 /\ NWorkers \in Nat
  BY <1>1, Parts, WorkersType
<1>3. Up(mi) \in Nat /\ Down(mi) \in Nat
  <2>1. ASSUME NEW S, IsFiniteSet(S), S \subseteq Workers
        PROVE  SumFunctionOnSet(cur, S) \in Nat
    <3>1. \A q \in S : cur[q] \in Nat BY <1>1, <2>1
    <3> QED BY <2>1, <3>1, SumNat
  <2> QED BY <1>1, <2>1, Parts
<1>4. snap <= Up(mi) /\ last <= snap + Down(mi) BY <1>1 DEF SnapAhead
<1>5. Up(mi + 1) = cur[mi] + Up(mi)
  <2> DEFINE S == 0 .. (mi + 1) - 1
  <2>1. S \ {mi} = 0 .. mi - 1 /\ mi \in S BY <1>2
  <2>2. S \subseteq Workers BY <1>2 DEF Workers
  <2>3. \A q \in S : cur[q] \in Int BY <1>1, <2>2
  <2> HIDE DEF S
  <2>4. IsFiniteSet(S) BY <2>2, Parts, FS_Subset
  <2>5. SumFunctionOnSet(cur, S) = cur[mi] + SumFunctionOnSet(cur, S \ {mi})
    BY <2>1, <2>3, <2>4, SumTakeOut
  <2> QED BY <2>1, <2>5 DEF S
<1>6. Down(mi) = cur[mi] + Down(mi + 1)
  <2> DEFINE S == mi .. NWorkers - 1
  <2>1. S \ {mi} = mi + 1 .. NWorkers - 1 /\ mi \in S BY <1>2
  <2>2. S \subseteq Workers BY <1>1, Parts
  <2>3. \A q \in S : cur[q] \in Int BY <1>1, <2>2
  <2> HIDE DEF S
  <2>4. IsFiniteSet(S) BY <2>2, Parts, FS_Subset
  <2>5. SumFunctionOnSet(cur, S) = cur[mi] + SumFunctionOnSet(cur, S \ {mi})
    BY <2>1, <2>3, <2>4, SumTakeOut
  <2> QED BY <2>1, <2>5 DEF S
<1>7. Down(mi + 1) \in Int
  <2> DEFINE S == mi + 1 .. NWorkers - 1
  <2>1. S \subseteq Workers BY <1>2 DEF Workers
  <2>2. \A q \in S : cur[q] \in Int BY <1>1, <2>1
  <2> HIDE DEF S
  <2>3. IsFiniteSet(S) BY <2>1, Parts, FS_Subset
  <2>4. SumFunctionOnSet(cur, S) \in Int BY <2>2, <2>3, SumInt
  <2> QED BY <2>4 DEF S
<1> HIDE DEF Up, Down
<1>8. snap' <= Up(mi + 1) /\ last <= snap' + Down(mi + 1) /\ snap' \in Nat
  BY <1>1, <1>2, <1>3, <1>4, <1>5, <1>6, <1>7
<1>9. CASE mi = NWorkers - 1
  <2>1. mpc' = "run" /\ last' = snap' BY <1>9 DEF StatusLine, Loop
  <2>2. Down(mi + 1) = 0
    <3>1. mi + 1 .. NWorkers - 1 = {} BY <1>2, <1>9
    <3> QED BY <3>1, SumEmpty DEF Down
  <2>3. Up(mi + 1) = SumFunctionOnSet(cur, Workers)
    <3>1. 0 .. (mi + 1) - 1 = Workers BY <1>2, <1>9 DEF Workers
    <3> QED BY <3>1 DEF Up
  <2>4. last <= last' /\ last' <= SumFunctionOnSet(cur, Workers)
    BY <1>1, <1>8, <2>1, <2>2, <2>3
  <2> QED BY <1>1, <2>1, <2>4 DEF SnapAhead
<1>10. CASE mi # NWorkers - 1
  <2>1. mpc' = "status" /\ mi' = mi + 1 /\ last' = last BY <1>10 DEF StatusLine, Loop
  <2> QED BY <1>1, <1>8, <2>1 DEF SnapAhead, Up, Down
<1> QED BY <1>9, <1>10

LEMMA SnapMain == TypeOK /\ HandShake /\ SnapAhead /\ Main => SnapAhead'
<1> SUFFICES ASSUME TypeOK, HandShake, SnapAhead, Main PROVE SnapAhead' OBVIOUS
<1>1. CASE StatusLine BY <1>1, SnapLine
<1>2. CASE Wake
  <2>1. mi = 0 /\ mi' = 0 /\ mpc' = "status" /\ snap' = 0 /\ last' = last /\ cur' = cur
    BY <1>2 DEF Wake, HandShake, LoopBound, wvars
  <2>2. last <= SumFunctionOnSet(cur, Workers) BY <1>2 DEF Wake, SnapAhead
  <2>3. SumFunctionOnSet(cur, 0 .. 0 - 1) = 0
    <3>1. 0 .. 0 - 1 = {} OBVIOUS
    <3> QED BY <3>1, SumEmpty
  <2>4. SumFunctionOnSet(cur, 0 .. NWorkers - 1) \in Nat
    <3>1. \A q \in Workers : cur[q] \in Nat BY DEF TypeOK
    <3> QED BY <3>1, Parts, SumNat DEF Workers
  <2>5. last <= 0 + SumFunctionOnSet(cur, 0 .. NWorkers - 1) BY <2>2, <2>4 DEF Workers
  <2> QED BY <2>1, <2>3, <2>5 DEF SnapAhead
<1>3. CASE Report
  <2>1. mpc' = "setup" /\ last' = 0 /\ cur' = [k \in Workers |-> 0] BY <1>3 DEF Report
  <2>2. \A k \in Workers : cur'[k] = 0 BY <2>1
  <2>3. SumFunctionOnSet(cur', Workers) = 0 BY <2>2, Parts, SumZero
  <2> QED BY <2>1, <2>3 DEF SnapAhead
<1>4. ASSUME mpc # "status", mpc' # "status", last' = last, cur' = cur PROVE SnapAhead'
  BY <1>4 DEF SnapAhead
<1>5. ASSUME UNCHANGED <<mpc, mi, last, snap, cur>> PROVE SnapAhead'
  BY <1>5 DEF SnapAhead
<1> QED
  BY <1>1, <1>2, <1>3, <1>4, <1>5
  DEF Main, Create, Ready, Setup, LeaveRamp, PostStart, Sleep, LeaveStatus, Gather, Halt,
      PostFinal, CreateFails, OpenFails, Loop, wvars, stats

LEMMA SnapStep == TypeOK /\ HandShake /\ SnapAhead /\ [Next]_vars => SnapAhead'
<1> SUFFICES ASSUME TypeOK, HandShake, SnapAhead, [Next]_vars PROVE SnapAhead' OBVIOUS
<1>1. CASE Main BY <1>1, SnapMain
<1>2. ASSUME NEW k \in Workers, Worker(k) PROVE SnapAhead'
  <2>1. cur' \in [Workers -> Nat] BY <1>2, TypeStepWorker DEF TypeOK
  <2>2. UNCHANGED <<snap, last, mpc, mi>>
    BY <1>2 DEF Worker, PostReady, Check, WaitStart, Test, PostStop, IoStart, LeaveDoIo,
                IoDone, IoAbort, stats
  <2>3. cur' = cur \/ cur' = [cur EXCEPT ![k] = @ + 1]
    BY <1>2 DEF Worker, PostReady, Check, WaitStart, Test, PostStop, IoStart, LeaveDoIo,
                IoDone, IoAbort, wvars
  <2>4. cur \in [Workers -> Nat] BY DEF TypeOK
  <2>5. \A q \in Workers : cur[q] <= cur'[q] BY <2>3, <2>4
  <2> QED BY <2>1, <2>2, <2>5, SnapGrows
<1>3. CASE UNCHANGED <<mpc, mi, last, snap, cur>> BY <1>3 DEF SnapAhead
<1> QED
  BY <1>1, <1>2, <1>3 DEF Next, Ended, Tick, vars, wvars, stats

\* The sum of a status line never falls behind that of the one before it.
THEOREM NoUnderflow == Spec => StatusNoUnderflow
<1>1. Init => SnapAhead
  <2> SUFFICES ASSUME Init PROVE SnapAhead OBVIOUS
  <2>1. \A k \in Workers : cur[k] = 0 BY DEF Init
  <2>2. SumFunctionOnSet(cur, Workers) = 0 BY <2>1, Parts, SumZero
  <2> QED BY <2>2 DEF Init, SnapAhead
<1>2. TypeOK /\ HandShake /\ SnapAhead /\ [Next]_vars => SnapAhead' BY SnapStep
<1>3. TypeOK /\ SnapAhead /\ [Next]_vars
        => [mpc = "status" /\ mpc' = "run" => last <= last']_vars
  <2> SUFFICES ASSUME TypeOK, SnapAhead, Next, mpc = "status", mpc' = "run"
               PROVE  last <= last'
    OBVIOUS
  <2>1. StatusLine
    BY DEF Next, Ended, Tick, vars, wvars, stats, Main, Create, Ready, Setup, LeaveRamp,
           PostStart, Sleep, LeaveStatus, Wake, Gather, Report, Halt, PostFinal,
           CreateFails, OpenFails, Loop, Worker, PostReady, Check, WaitStart, Test,
           PostStop, IoStart, LeaveDoIo, IoDone, IoAbort
  <2> QED BY <2>1, SnapLine
<1> QED
  BY <1>1, <1>2, <1>3, TypeCorrect, HandShakes, PTL DEF Spec, StatusNoUnderflow

-----------------------------------------------------------------------------
(***************************************************************************)
(* The main thread and the I/O threads of ioload implement the ramp of     *)
(* LoadRamp.                                                               *)
(***************************************************************************)
\* The load that the threads see is that of the round; a thread that has not come
\* to it has no time of this round; no time lies ahead of the clock.
RoundClock(k) ==
    /\ InRound => threads = level
    /\ InRound /\ ~DoneLoad(k) /\ wpc[k] \notin InDoIo => stamp[k] = "past"
    /\ stamp[k] = "over" => win = "over"

RoundClocks == \A k \in Workers : RoundClock(k)

RoundInv == TypeOK /\ HandShake /\ RoundAccount /\ RoundClocks

LEMMA ClockInit == Init => RoundClocks
BY DEF Init, RoundClocks, RoundClock, InRound

LEMMA ClockMain == TypeOK /\ HandShake /\ RoundClocks /\ Main => RoundClocks'
<1> SUFFICES ASSUME TypeOK, HandShake, RoundClocks, Main, NEW k \in Workers
             PROVE  RoundClock(k)'
  BY DEF RoundClocks
<1>a. RoundClock(k) BY DEF RoundClocks
<1>b. LoopBound BY DEF HandShake
<1>c. mi \in Nat /\ k \in Int /\ start[k] \in Nat BY DEF TypeOK, Workers
<1> USE <1>a, <1>c DEF RoundClock, InRound, DoneLoad, wvars, stats
<1>1. CASE Create
  <2>1. /\ mpc = "create"
        /\ \/ mpc' = "create"
           \/ mpc' = "ready"
    BY <1>1, <1>b, LoopSteps DEF Create
  <2> QED BY <1>1, <2>1 DEF Create
<1>2. CASE Ready
  <2>1. mpc = "ready" /\ mpc' \in {"ready", "setup"}
    BY <1>2, <1>b, LoopSteps DEF Ready
  <2> QED BY <1>2, <2>1 DEF Ready
<1>3. CASE PostStart
  <2>1. /\ mpc = "post"
        /\ \/ mpc' = "post" /\ mi' = mi + 1
           \/ mpc' = "run" /\ mi' = 0 /\ mi = NWorkers - 1
    BY <1>3, <1>b, LoopSteps DEF PostStart
  <2>2. /\ start'[k] = start[k] + (IF k = mi THEN 1 ELSE 0)
        /\ UNCHANGED <<level, threads, win, wpc, stamp>>
    BY <1>3 DEF PostStart, Post, TypeOK
  <2>3. k \in 0 .. NWorkers - 1 BY DEF Workers
  <2> QED BY <2>1, <2>2, <2>3, WorkersType
<1>4. CASE StatusLine
  <2>1. mpc = "status" /\ mpc' \in {"status", "run"}
    BY <1>4, <1>b, LoopSteps DEF StatusLine
  <2> QED BY <1>4, <2>1 DEF StatusLine
<1>5. CASE Gather
  <2>1. mpc = "gather" /\ mpc' \in {"gather", "report"}
    BY <1>5, <1>b, LoopSteps DEF Gather
  <2> QED BY <1>5, <2>1 DEF Gather
<1>6. CASE PostFinal
  <2>1. mpc = "final" /\ mpc' \in {"final", "exit"}
    BY <1>6, <1>b, LoopSteps DEF PostFinal
  <2> QED BY <1>6, <2>1 DEF PostFinal
<1>7. CASE Setup BY <1>7 DEF Setup
<1>8. CASE LeaveRamp BY <1>8 DEF LeaveRamp
<1>9. CASE Sleep BY <1>9 DEF Sleep
<1>10. CASE LeaveStatus BY <1>10 DEF LeaveStatus
<1>11. CASE Wake BY <1>11 DEF Wake
<1>12. CASE Report BY <1>12 DEF Report
<1>13. CASE Halt BY <1>13 DEF Halt
<1>14. CASE CreateFails BY <1>14 DEF CreateFails
<1>15. CASE OpenFails BY <1>15 DEF OpenFails
<1> QED BY <1>1, <1>2, <1>3, <1>4, <1>5, <1>6, <1>7, <1>8, <1>9, <1>10,
          <1>11, <1>12, <1>13, <1>14, <1>15 DEF Main

\* A step of one I/O thread leaves the others and the main thread alone.
LEMMA WorkerFrame ==
    ASSUME TypeOK, NEW k \in Workers, Worker(k)
    PROVE  /\ UNCHANGED <<mpc, mi, level, threads, win>>
           /\ \A q \in Workers \ {k} :
                 /\ wpc'[q] = wpc[q] /\ start'[q] = start[q] /\ stamp'[q] = stamp[q]
                 /\ cur'[q] = cur[q] /\ begun'[q] = begun[q]
BY DEF TypeOK, Worker, PostReady, Check, WaitStart, Test, PostStop, IoStart,
       LeaveDoIo, IoDone, IoAbort, Goes, Post, Wait, wvars

LEMMA ClockWorker ==
    ASSUME TypeOK, HandShake, RoundAccount, RoundClocks, NEW k \in Workers, Worker(k)
    PROVE  RoundClocks'
<1>1. ASSUME NEW q \in Workers, q # k PROVE RoundClock(q)'
  BY <1>1, WorkerFrame DEF RoundClocks, RoundClock, InRound, DoneLoad
<1>2. RoundClock(k)'
  <2>a. RoundClock(k) BY DEF RoundClocks
  <2>b. UNCHANGED <<mpc, mi, level, threads, win>> BY WorkerFrame
  <2>c. start[k] \in Nat BY DEF TypeOK
  <2>d. wpc[k] \in InDoIo => start[k] = 0 BY IoInRound
  <2>e. InRound /\ wpc[k] \in InDoIo =>
            mpc \in {"run", "sleep", "status", "gather", "report"} \/ (mpc = "post" /\ k < mi)
    <3>1. SUFFICES ASSUME mpc = "post", wpc[k] \in InDoIo PROVE k < mi BY DEF InRound
    <3>2. Busy(k) BY <3>1 DEF Busy, InDoIo
    <3>3. start[k] \in Nat /\ stop[k] \in Nat BY DEF TypeOK
    <3>4. Pending(k) BY <3>2, <3>3 DEF HandShake, Token, B
    <3> QED BY <3>1, <3>4 DEF Pending
  <2> USE <2>a, <2>b DEF RoundClock, InRound, DoneLoad, InDoIo, Goes
  <2>1. CASE PostReady(k) BY <2>1 DEF PostReady, TypeOK
  <2>2. CASE Check(k) BY <2>2 DEF Check, TypeOK
  <2>3. CASE WaitStart(k) BY <2>3, <2>c DEF WaitStart, Wait, TypeOK
  <2>4. CASE Test(k) BY <2>4 DEF Test, TypeOK
  <2>5. CASE PostStop(k) BY <2>5 DEF PostStop, TypeOK
  <2>6. CASE IoStart(k) BY <2>6 DEF IoStart, TypeOK
  <2>7. CASE LeaveDoIo(k) BY <2>7, <2>d, <2>e DEF LeaveDoIo, TypeOK
  <2>8. CASE IoDone(k) BY <2>8 DEF IoDone, TypeOK
  <2>9. CASE IoAbort(k) BY <2>9 DEF IoAbort, wvars, TypeOK
  <2> QED BY <2>1, <2>2, <2>3, <2>4, <2>5, <2>6, <2>7, <2>8, <2>9 DEF Worker
<1> QED BY <1>1, <1>2 DEF RoundClocks

LEMMA ClockStep ==
    TypeOK /\ HandShake /\ RoundAccount /\ RoundClocks /\ [Next]_vars => RoundClocks'
<1> SUFFICES ASSUME TypeOK, HandShake, RoundAccount, RoundClocks, [Next]_vars
             PROVE  RoundClocks'
  OBVIOUS
<1>1. CASE Main BY <1>1, ClockMain
<1>2. CASE Tick
  BY <1>2 DEF Tick, RoundClocks, RoundClock, InRound, DoneLoad, wvars
<1>3. CASE \E k \in Workers : Worker(k) BY <1>3, ClockWorker
<1>4. CASE UNCHANGED vars
  BY <1>4 DEF vars, RoundClocks, RoundClock, InRound, DoneLoad, wvars
<1> QED BY <1>1, <1>2, <1>3, <1>4 DEF Next, Ended

LEMMA RoundInvariant == Spec => []RoundInv
<1>1. Init => RoundClocks BY ClockInit
<1>2. TypeOK /\ HandShake /\ RoundAccount /\ RoundClocks /\ [Next]_vars => RoundClocks'
  BY ClockStep
<1> QED BY <1>1, <1>2, TypeCorrect, HandShakes, RoundsAccounted, PTL DEF Spec, RoundInv

-----------------------------------------------------------------------------
(***************************************************************************)
(* The steps of the ramp.                                                  *)
(***************************************************************************)
\* A step that matters to no round.
Quiet ==
    /\ UNCHANGED <<level, win, stamp, cur, begun>> /\ Phase' = Phase
    /\ \A k \in Workers : wpc'[k] \in InDoIo <=> wpc[k] \in InDoIo

LEMMA QuietRamp == Quiet => UNCHANGED Ramp!vars
<1> SUFFICES ASSUME Quiet PROVE UNCHANGED Ramp!vars OBVIOUS
<1>1. Working' = Working BY DEF Quiet, Working
<1>2. Joined' = Joined BY DEF Quiet, Joined
<1> QED BY <1>1, <1>2 DEF Quiet, Ramp!vars

LEMMA RampInit == Init => Ramp!Init
<1> SUFFICES ASSUME Init PROVE Ramp!Init OBVIOUS
<1>1. Working = {} /\ Joined = {} BY DEF Init, Working, Joined, InDoIo
<1>2. Phase = "between" BY DEF Init, Phase, InRound
<1> QED BY <1>1, <1>2 DEF Init, Ramp!Init, Ramp!Nothing

\* The main thread ends the run, in the ordinary way or because of an error.
LEMMA RampEnds ==
    ASSUME UNCHANGED <<level, win, wvars>>, Phase # "ended", Phase' = "ended"
    PROVE  Ramp!End
<1>1. Working' = Working /\ Joined' = Joined BY DEF Working, Joined, wvars
<1> QED BY <1>1 DEF Ramp!End, wvars

LEMMA RampSetup ==
    ASSUME RoundInv, exited = "no", Setup
    PROVE  Ramp!Begin
<1>1. \A k \in Workers : wpc[k] \notin InDoIo
  BY Idle DEF Setup, RoundInv, InDoIo
<1>2. Working' = Working BY DEF Setup, Working
<1>3. Joined' = {} BY <1>1 DEF Setup, Joined
<1>4. Phase = "between" /\ Phase' = "running" BY DEF Setup, Phase, InRound
<1> QED BY <1>2, <1>3, <1>4 DEF Setup, Ramp!Begin, Ramp!Nothing

LEMMA ThreadidType == ASSUME NEW k \in Workers PROVE threadid(k) \in Nat
BY RampAssumption, WorkersType DEF threadid, Workers

LEMMA RampReport ==
    ASSUME RoundInv, exited = "no", Report
    PROVE  Ramp!Summary
<1> USE DEF RoundInv
<1>1. \A k \in Workers : wpc[k] \notin InDoIo BY Idle DEF Report, InDoIo
<1>2. Working = {} /\ Working' = {} BY <1>1 DEF Report, Working
<1>3. threads = level /\ InRound
  BY WorkersType DEF Report, RoundClocks, RoundClock, InRound
<1>4. Joined = {k \in Workers : threadid(k) < level}
  <2>1. ASSUME NEW k \in Workers PROVE stamp[k] # "past" <=> threadid(k) < level
    <3>1. DoneLoad(k) BY Idle DEF Report, DoneLoad, InDoIo
    <3> QED BY <1>3, <3>1 DEF RoundAccount, Load
  <2> QED BY <1>1, <2>1 DEF Joined
<1>5. Joined' = Joined BY DEF Report, Joined
<1>6. cur = begun
  <2>1. ASSUME NEW k \in Workers PROVE cur[k] = begun[k]
    BY <1>1, <1>3 DEF RoundAccount, Tally, TypeOK, B, InDoIo
  <2> QED BY <2>1 DEF TypeOK
<1>7. Phase = "running" /\ Phase' = "between" BY DEF Report, Phase, InRound
<1>8. {k \in Workers : [q \in Workers |-> threadid(q)][k] < level}
        = {k \in Workers : threadid(k) < level}
  OBVIOUS
<1> QED BY <1>2, <1>4, <1>5, <1>6, <1>7, <1>8 DEF Report, Ramp!Summary, Ramp!Nothing

LEMMA RampMain ==
    ASSUME RoundInv, exited = "no", Main
    PROVE  Ramp!Next \/ UNCHANGED Ramp!vars
<1> USE DEF RoundInv
<1>1. CASE Create
  <2>1. wpc[mi] = "new"
    <3>1. mpc = "create" BY <1>1 DEF Create, Loop
    <3>2. mi \in Workers /\ mi \in Int BY DEF TypeOK, Workers
    <3>3. ~Created(mi) BY <3>1, <3>2 DEF Created
    <3> QED BY <3>2, <3>3 DEF HandShake, Token
  <2>2. \A k \in Workers : wpc'[k] \in InDoIo <=> wpc[k] \in InDoIo
    BY <1>1, <2>1 DEF Create, TypeOK, InDoIo
  <2>3. Phase' = Phase BY <1>1 DEF Create, Loop, Phase, InRound
  <2> QED BY <1>1, <2>2, <2>3, QuietRamp DEF Create, Quiet
<1>2. CASE Setup BY <1>2, RampSetup DEF Ramp!Next
<1>3. CASE Report BY <1>3, RampReport DEF Ramp!Next
<1>4. CASE LeaveRamp \/ Halt \/ CreateFails \/ OpenFails
  <2>1. Phase # "ended" /\ Phase' = "ended"
    BY <1>4 DEF LeaveRamp, Halt, CreateFails, OpenFails, Phase, InRound
  <2> QED BY <1>4, <2>1, RampEnds DEF LeaveRamp, Halt, CreateFails, OpenFails, Ramp!Next
<1>5. CASE Ready \/ PostStart \/ Sleep \/ LeaveStatus \/ Wake \/ StatusLine \/ Gather
           \/ PostFinal
  <2>1. Phase' = Phase
    BY <1>5 DEF Ready, PostStart, Sleep, LeaveStatus, Wake, StatusLine, Gather,
       PostFinal, Loop, Phase, InRound
  <2>2. UNCHANGED <<level, win, wvars>>
    BY <1>5 DEF Ready, PostStart, Sleep, LeaveStatus, Wake, StatusLine, Gather, PostFinal
  <2> QED BY <2>1, <2>2, QuietRamp DEF Quiet, wvars
<1> QED BY <1>1, <1>2, <1>3, <1>4, <1>5 DEF Main

-----------------------------------------------------------------------------
\* Steps of an I/O thread outside do_io, and those in it that count nothing.
LEMMA QuietWorker ==
    ASSUME TypeOK, NEW k \in Workers, Worker(k), UNCHANGED <<exited, win, stamp, cur, begun>>,
           wpc'[k] \in InDoIo <=> wpc[k] \in InDoIo
    PROVE  UNCHANGED Ramp!vars
<1>1. UNCHANGED <<mpc, level>> BY WorkerFrame
<1>2. Phase' = Phase BY <1>1 DEF Phase, InRound
<1>3. \A q \in Workers : wpc'[q] \in InDoIo <=> wpc[q] \in InDoIo BY WorkerFrame
<1> QED BY <1>1, <1>2, <1>3, QuietRamp DEF Quiet

LEMMA RampTest ==
    ASSUME RoundInv, exited = "no", NEW k \in Workers, Test(k)
    PROVE  Ramp!Next \/ UNCHANGED Ramp!vars
<1> USE DEF RoundInv
<1>a. Worker(k) BY DEF Worker
<1>1. CASE ~(threadid(k) < threads)
  BY <1>1, <1>a, QuietWorker DEF Test, Goes, InDoIo, TypeOK
<1>2. CASE threadid(k) < threads
  <2>1. InRound
    <3>1. Busy(k) BY DEF Test, Busy
    <3>2. Pending(k) BY <3>1 DEF HandShake, Token, TypeOK, B
    <3>3. mpc \notin {"final", "exit"}
      BY <1>2, ThreadidType DEF RoundAccount, NoneLeft
    <3>4. mpc \notin {"create", "ready"} BY DEF Test, HandShake, Token
    <3> QED BY <3>2, <3>3, <3>4 DEF Pending, InRound
  <2>2. stamp[k] = "past"
    BY <2>1 DEF Test, RoundClocks, RoundClock, DoneLoad, InDoIo
  <2>3. threadid(k) < level BY <1>2, <2>1 DEF RoundClocks, RoundClock
  <2>4. wpc' = [wpc EXCEPT ![k] = "next"] BY <1>2 DEF Test, Goes
  <2>5. wpc[k] \notin InDoIo BY DEF Test, InDoIo
  <2>6. k \notin Joined BY <2>2, <2>5 DEF Joined
  <2>7. Working' = Working \cup {k} BY <2>4 DEF Working, InDoIo, TypeOK
  <2>8. Joined' = Joined \cup {k} BY <2>4 DEF Joined, InDoIo, TypeOK, Test
  <2>9. Phase = "running" /\ Phase' = "running" BY <2>1 DEF Phase, InRound, Test
  <2>10. [q \in Workers |-> threadid(q)][k] < level BY <2>3
  <2>11. Ramp!Join(k)
    BY <2>6, <2>7, <2>8, <2>9, <2>10 DEF Ramp!Join, Test
  <2> QED BY <2>11 DEF Ramp!Next
<1> QED BY <1>1, <1>2

LEMMA RampIoStart ==
    ASSUME RoundInv, exited = "no", NEW k \in Workers, IoStart(k)
    PROVE  Ramp!Next \/ UNCHANGED Ramp!vars
<1> USE DEF RoundInv
<1>1. wpc[k] \in InDoIo /\ wpc' = [wpc EXCEPT ![k] = "io"]
  BY DEF IoStart, Goes, InDoIo
<1>2. Working' = Working BY <1>1 DEF Working, InDoIo, TypeOK
<1>3. Joined' = Joined BY <1>1 DEF Joined, InDoIo, TypeOK, IoStart
<1>4. Phase' = Phase BY DEF Phase, InRound, IoStart
<1>5. CASE win # "measure"
  <2>1. begun' = begun BY <1>5 DEF IoStart, TypeOK
  <2> QED BY <1>2, <1>3, <1>4, <2>1 DEF IoStart, Ramp!vars
<1>6. CASE win = "measure"
  <2>1. begun' = [begun EXCEPT ![k] = @ + 1] BY <1>6 DEF IoStart
  <2>2. k \in Working BY <1>1 DEF Working
  <2>3. Ramp!Work(k) BY <1>2, <1>3, <1>4, <1>6, <2>1, <2>2 DEF IoStart, Ramp!Work
  <2> QED BY <2>3 DEF Ramp!Next
<1> QED BY <1>5, <1>6

LEMMA RampIoDone ==
    ASSUME RoundInv, exited = "no", NEW k \in Workers, IoDone(k)
    PROVE  Ramp!Next \/ UNCHANGED Ramp!vars
<1> USE DEF RoundInv
<1>a. Worker(k) BY DEF Worker
<1>1. wpc[k] = "io" /\ wpc'[k] \in InDoIo BY DEF IoDone, Goes, InDoIo, TypeOK
<1>2. CASE ~Counted(k) BY <1>1, <1>2, <1>a, QuietWorker DEF IoDone, InDoIo
<1>3. CASE Counted(k)
  <2>1. cur' = [cur EXCEPT ![k] = @ + 1] BY <1>3 DEF IoDone
  <2>2. InRound BY <1>1, IoInRound DEF InDoIo
  <2>3. cur[k] < begun[k]
    BY <1>1, <1>3, <2>2 DEF RoundAccount, Tally, Counted, TypeOK, B
  <2>4. \A q \in Workers : wpc'[q] \in InDoIo <=> wpc[q] \in InDoIo
    BY <1>1, <1>a, WorkerFrame DEF InDoIo
  <2>5. Working' = Working BY <2>4 DEF Working
  <2>6. Joined' = Joined BY <2>4 DEF Joined, IoDone
  <2>7. k \in Working BY <1>1 DEF Working, InDoIo
  <2>8. Phase' = Phase BY DEF Phase, InRound, IoDone
  <2>9. Ramp!Count(k)
    BY <2>1, <2>3, <2>5, <2>6, <2>7, <2>8 DEF IoDone, Ramp!Count
  <2> QED BY <2>9 DEF Ramp!Next
<1> QED BY <1>2, <1>3

LEMMA RampLeave ==
    ASSUME RoundInv, exited = "no", NEW k \in Workers, LeaveDoIo(k)
    PROVE  Ramp!Leave(k)
<1> USE DEF RoundInv
<1>1. wpc[k] = "next" /\ stamp[k] = "over" /\ wpc' = [wpc EXCEPT ![k] = "post"]
  BY DEF LeaveDoIo, Goes
<1>2. win = "over" BY <1>1 DEF RoundClocks, RoundClock
<1>3. InRound BY <1>1, IoInRound DEF InDoIo
<1>4. cur[k] = begun[k] BY <1>1, <1>3 DEF RoundAccount, Tally, TypeOK, B
<1>5. k \in Working BY <1>1 DEF Working, InDoIo
<1>6. Working' = Working \ {k} BY <1>1 DEF Working, InDoIo, TypeOK
<1>7. Joined' = Joined BY <1>1 DEF Joined, InDoIo, TypeOK, LeaveDoIo
<1>8. Phase' = Phase BY DEF Phase, InRound, LeaveDoIo
<1> QED BY <1>2, <1>4, <1>5, <1>6, <1>7, <1>8 DEF LeaveDoIo, Ramp!Leave

LEMMA RampWorker ==
    ASSUME RoundInv, exited = "no", NEW k \in Workers, Worker(k)
    PROVE  Ramp!Next \/ UNCHANGED Ramp!vars
<1>1. CASE PostReady(k) \/ Check(k) \/ WaitStart(k) \/ PostStop(k)
  BY <1>1, QuietWorker DEF RoundInv, TypeOK, InDoIo, Goes, PostReady, Check, WaitStart,
     PostStop
<1>2. CASE Test(k) BY <1>2, RampTest
<1>3. CASE IoStart(k) BY <1>3, RampIoStart
<1>4. CASE IoDone(k) BY <1>4, RampIoDone
<1>5. CASE LeaveDoIo(k) BY <1>5, RampLeave DEF Ramp!Next
<1>6. CASE IoAbort(k)
  <2>1. InRound BY <1>6, IoInRound DEF RoundInv, IoAbort, InDoIo
  <2>2. Phase # "ended" /\ Phase' = "ended" BY <1>6, <2>1 DEF IoAbort, Phase, InRound
  <2> QED BY <1>6, <2>2, RampEnds DEF IoAbort, Ramp!Next
<1> QED BY <1>1, <1>2, <1>3, <1>4, <1>5, <1>6 DEF Worker

LEMMA RampTick ==
    ASSUME Tick
    PROVE  Ramp!Next \/ UNCHANGED Ramp!vars
<1>1. Working' = Working /\ Joined' = Joined BY DEF Tick, Working, Joined, wvars
<1>2. Phase' = Phase BY DEF Tick, Phase, InRound
<1>3. CASE (win = "over")' = (win = "over")
  BY <1>1, <1>2, <1>3 DEF Tick, Ramp!vars, wvars
<1>4. CASE (win = "over")' # (win = "over")
  <2>1. (win = "over") = FALSE /\ (win = "over")' = TRUE BY <1>4 DEF Tick
  <2>2. Ramp!TimeOver BY <1>1, <1>2, <2>1 DEF Tick, Ramp!TimeOver, wvars
  <2> QED BY <2>2 DEF Ramp!Next
<1> QED BY <1>3, <1>4

\* Whatever the threads of ioload do with their semaphores, clocks and counters, it is
\* a ramp of rounds in which exactly the threads of the round work, once each and until
\* it is over, and whose summaries count exactly what they began in its measured part.
THEOREM RampImplemented == Spec => ImplementsRamp
<1>1. Init => Ramp!Init BY RampInit
<1>2. RoundInv /\ [Next]_vars => [Ramp!Next]_(Ramp!vars)
  <2> SUFFICES ASSUME RoundInv, [Next]_vars PROVE Ramp!Next \/ UNCHANGED Ramp!vars
    OBVIOUS
  <2>1. CASE Running /\ Main BY <2>1, RampMain DEF Running
  <2>2. CASE Running /\ Tick BY <2>2, RampTick
  <2>3. CASE Running /\ \E k \in Workers : Worker(k) BY <2>3, RampWorker DEF Running
  <2>4. CASE UNCHANGED vars
    <3>1. Phase' = Phase BY <2>4 DEF vars, Phase, InRound
    <3> QED BY <2>4, <3>1, QuietRamp DEF vars, Quiet, wvars
  <2> QED BY <2>1, <2>2, <2>3, <2>4 DEF Next, Ended
<1> QED BY <1>1, <1>2, RoundInvariant, PTL DEF Spec, ImplementsRamp, Ramp!Spec
=============================================================================
