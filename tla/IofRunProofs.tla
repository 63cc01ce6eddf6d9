---------------------------- MODULE IofRunProofs ----------------------------
(***************************************************************************)
(* Theorems about IofRun for any number of files, threads and blocks.      *)
(***************************************************************************)
EXTENDS IofRunInv, FiniteSetTheorems, TLAPS

\* The modular addition of the counter stays within its width.
LEMMA AddType ==
    ASSUME NEW a \in 0 .. Word - 1, NEW b \in Nat
    PROVE  Add(a, b) \in 0 .. Word - 1
<1>1. Word \in Nat \ {0} BY WordAssumption
<1>2. a + b \in Int OBVIOUS
<1> QED BY <1>1, <1>2 DEF Add

LEMMA TotalIoType == TotalIo \in 0 .. Word - 1
<1>1. Word \in Nat \ {0} /\ TotalIo + NThreads * (2 * TotalIo + 1) < Word
  BY WordAssumption
<1>2. NIo * NRep \in Nat
  BY ShapeAssumption
<1> QED BY <1>1, <1>2 DEF TotalIo

LEMMA AddExact ==
    ASSUME NEW a \in Nat, NEW b \in Nat, a + b < Word
    PROVE  Add(a, b) = a + b
<1>1. Word \in Nat \ {0} BY WordAssumption
<1> QED BY <1>1 DEF Add

LEMMA ProductMonotone ==
    ASSUME NEW a \in Nat, NEW b \in Nat, NEW c \in Nat, b <= c
    PROVE  a * b \in Nat /\ a * b <= a * c
<1>1. PICK d \in Nat : c = b + d
  <2>1. c - b \in Nat /\ c = b + (c - b) OBVIOUS
  <2> QED BY <2>1
<1>2. a * c = a * b + a * d BY <1>1
<1>3. a * d \in Nat /\ a * b \in Nat OBVIOUS
<1> QED BY <1>2, <1>3

-----------------------------------------------------------------------------
(***************************************************************************)
(* Type correctness.                                                       *)
(***************************************************************************)
LEMMA TypeInit == Init => TypeOK
<1> SUFFICES ASSUME Init PROVE TypeOK OBVIOUS
<1>1. 0 \in Files /\ 0 \in Threads
  BY ShapeAssumption DEF Files, Threads
<1>2. 0 \in 0 .. Word - 1 BY WordAssumption
<1> QED BY <1>1, <1>2 DEF Init, TypeOK, MainPhases, FilePhases, ThreadPhases

\* The loops of runtest and file_thread stay within their lists.
LEMMA MainLoopType ==
    ASSUME TypeOK, NEW here \in MainPhases, NEW next \in MainPhases,
           MainLoop(here, next)
    PROVE  mpc' \in MainPhases /\ mi' \in Files
BY ShapeAssumption DEF TypeOK, MainLoop, Leaves, After, Files

LEMMA FileLoopType ==
    ASSUME TypeOK, NEW f \in Files,
           NEW here \in FilePhases, NEW next \in FilePhases,
           FileLoop(f, here, next)
    PROVE  fpc' \in [Files -> FilePhases] /\ fi' \in [Files -> Threads]
BY ShapeAssumption DEF TypeOK, FileLoop, Leaves, After, Threads

LEMMA ThrPairs ==
    ASSUME NEW p \in Thr
    PROVE  p[1] \in Files /\ p[2] \in Threads /\ p = <<p[1], p[2]>>
BY DEF Thr

LEMMA TypeStepMain == TypeOK /\ Main => TypeOK'
<1> SUFFICES ASSUME TypeOK, Main PROVE TypeOK' OBVIOUS
<1>1. CASE MainCreate
  <2>1. mpc' \in MainPhases /\ mi' \in Files
    BY <1>1, MainLoopType DEF MainCreate, MainPhases
  <2>2. fpc' \in [Files -> FilePhases]
    BY <1>1 DEF MainCreate, TypeOK, FilePhases
  <2> QED BY <1>1, <2>1, <2>2 DEF MainCreate, TypeOK, sems, io, hist
<1>2. CASE MainGather
  <2>1. mpc' \in MainPhases /\ mi' \in Files
    BY <1>2, MainLoopType DEF MainGather, MainPhases
  <2>2. fstop' \in [Files -> Nat]
    BY <1>2 DEF MainGather, TypeOK, Wait
  <2> QED BY <1>2, <2>1, <2>2 DEF MainGather, TypeOK, io, hist
<1>3. CASE MainGo
  <2>1. mpc' \in MainPhases /\ mi' \in Files
    BY <1>3, MainLoopType DEF MainGo, MainPhases
  <2>2. fstart' \in [Files -> Nat]
    BY <1>3 DEF MainGo, TypeOK, Post
  <2> QED BY <1>3, <2>1, <2>2 DEF MainGo, TypeOK, io, hist
<1>4. CASE MainFinish
  <2>1. mpc' \in MainPhases /\ mi' \in Files
    BY <1>4, MainLoopType DEF MainFinish, MainPhases
  <2>2. fstop' \in [Files -> Nat]
    BY <1>4 DEF MainFinish, TypeOK, Wait
  <2> QED BY <1>4, <2>1, <2>2 DEF MainFinish, TypeOK, io, hist
<1>5. CASE MainExit
  BY <1>5 DEF MainExit, TypeOK, sems, io, hist, MainPhases
<1>6. CASE OutputFails
  BY <1>6 DEF OutputFails, TypeOK, sems, io
<1> QED BY <1>1, <1>2, <1>3, <1>4, <1>5, <1>6 DEF Main

LEMMA TypeStepFile ==
    ASSUME TypeOK, NEW f \in Files, File(f)
    PROVE  TypeOK'
<1>0. At(f) \in Thr
  BY DEF TypeOK, At, Thr
<1>1. CASE FileCreate(f)
  <2>1. fpc' \in [Files -> FilePhases] /\ fi' \in [Files -> Threads]
    BY <1>1, FileLoopType DEF FileCreate, FilePhases
  <2>2. tpc' \in [Thr -> ThreadPhases]
    BY <1>0, <1>1 DEF FileCreate, TypeOK, ThreadPhases
  <2> QED BY <1>1, <2>1, <2>2 DEF FileCreate, TypeOK, sems, io, hist
<1>2. CASE FileGather(f)
  <2>1. fpc' \in [Files -> FilePhases] /\ fi' \in [Files -> Threads]
    BY <1>2, FileLoopType DEF FileGather, FilePhases
  <2>2. tstop' \in [Thr -> Nat]
    BY <1>0, <1>2 DEF FileGather, TypeOK, Wait
  <2> QED BY <1>2, <2>1, <2>2 DEF FileGather, TypeOK, sems, io, hist
<1>3. CASE FileReady(f)
  <2>1. fpc' \in [Files -> FilePhases] /\ fi' \in [Files -> Threads]
    BY <1>3 DEF FileReady, FileGoes, TypeOK, FilePhases
  <2>2. fstop' \in [Files -> Nat]
    BY <1>0, <1>3 DEF FileReady, TypeOK, Post
  <2> QED BY <1>3, <2>1, <2>2 DEF FileReady, TypeOK, sems, io, hist
<1>4. CASE FileStart(f)
  <2>1. fpc' \in [Files -> FilePhases] /\ fi' \in [Files -> Threads]
    BY <1>4 DEF FileStart, FileGoes, TypeOK, FilePhases
  <2>2. fstart' \in [Files -> Nat]
    BY <1>0, <1>4 DEF FileStart, TypeOK, Wait
  <2> QED BY <1>4, <2>1, <2>2 DEF FileStart, TypeOK, sems, io, hist
<1>5. CASE FileGo(f)
  <2>1. fpc' \in [Files -> FilePhases] /\ fi' \in [Files -> Threads]
    BY <1>5, FileLoopType DEF FileGo, FilePhases
  <2>2. tstart' \in [Thr -> Nat]
    BY <1>0, <1>5 DEF FileGo, TypeOK, Post
  <2> QED BY <1>5, <2>1, <2>2 DEF FileGo, TypeOK, sems, io, hist
<1>6. CASE FileFinish(f)
  <2>1. fpc' \in [Files -> FilePhases] /\ fi' \in [Files -> Threads]
    BY <1>6, FileLoopType DEF FileFinish, FilePhases
  <2>2. tstop' \in [Thr -> Nat]
    BY <1>0, <1>6 DEF FileFinish, TypeOK, Wait
  <2> QED BY <1>6, <2>1, <2>2 DEF FileFinish, TypeOK, sems, io, hist
<1>7. CASE FileDone(f)
  <2>1. fpc' \in [Files -> FilePhases] /\ fi' \in [Files -> Threads]
    BY <1>7 DEF FileDone, FileGoes, TypeOK, FilePhases
  <2>2. fstop' \in [Files -> Nat]
    BY <1>0, <1>7 DEF FileDone, TypeOK, Post
  <2> QED BY <1>7, <2>1, <2>2 DEF FileDone, TypeOK, sems, io, hist
<1> QED BY <1>1, <1>2, <1>3, <1>4, <1>5, <1>6, <1>7 DEF File

LEMMA TakeType ==
    ASSUME TypeOK, NEW p \in Thr, NEW b \in Nat,
           Take(p, b)
    PROVE  /\ tpc' \in [Thr -> ThreadPhases]
           /\ bno' \in [Thr -> Nat]
           /\ claims' \in [Files -> [Blocks -> Nat]]
<1>1. CASE b < TotalIo
  <2>1. b \in Blocks BY <1>1, TotalIoType DEF Blocks
  <2>2. tpc' \in [Thr -> ThreadPhases] /\ bno' \in [Thr -> Nat]
    BY <1>1 DEF Take, TypeOK, Goes, ThreadPhases
  <2>3. claims' = [claims EXCEPT ![p[1]][b] = @ + 1]
    BY <1>1 DEF Take
  <2>4. claims' \in [Files -> [Blocks -> Nat]]
    BY <2>1, <2>3, ThrPairs DEF TypeOK
  <2> QED BY <2>2, <2>4
<1>2. CASE ~(b < TotalIo)
  BY <1>2, ThrPairs DEF Take, TypeOK, Goes, ThreadPhases
<1> QED BY <1>1, <1>2

LEMMA AskStopType ==
    ASSUME TypeOK, NEW p \in Thr, tpc[p] \in Kinds, AskStop(p)
    PROVE  /\ thread_bno' \in [Files -> 0 .. Word - 1]
           /\ signals' \in [Files -> SUBSET (Threads \X Kinds)]
<1>1. TotalIo \in Nat BY TotalIoType, WordAssumption
<1>2. Add(thread_bno[p[1]], TotalIo) \in 0 .. Word - 1
  BY <1>1, AddType, ThrPairs DEF TypeOK
<1>3. <<p[2], tpc[p]>> \in Threads \X Kinds BY ThrPairs
<1> QED BY <1>2, <1>3, ThrPairs DEF AskStop, TypeOK

ErrnoValues == {"zero", "nospc", "other", "message"}

LEMMA IoReturnsType ==
    ASSUME TypeOK, NEW p \in Thr, NEW err \in ErrnoValues,
           IoReturns(p, err) \/ IoReturnsFull(p, err)
    PROVE  /\ tpc' \in [Thr -> ThreadPhases]
           /\ errno' \in [Thr -> ErrnoValues]
<1>1. tpc' = [tpc EXCEPT ![p] = IF tpc[p] = "hdr" THEN "io" ELSE "claim"]
  BY DEF IoReturns, IoReturnsFull, Goes
<1>2. \E v \in ErrnoValues : errno' = [errno EXCEPT ![p] = v]
  BY DEF IoReturns, IoReturnsFull, Prints, ErrnoValues
<1> QED BY <1>1, <1>2 DEF TypeOK, ThreadPhases, ErrnoValues

LEMMA TypeStepThread ==
    ASSUME TypeOK, NEW p \in Thr, Thread(p)
    PROVE  TypeOK'
<1>0. p[1] \in Files /\ p[2] \in Threads BY ThrPairs
<1>1. CASE ThreadInit(p)
  BY <1>1 DEF ThreadInit, Goes, Post, TypeOK, ThreadPhases, io, hist
<1>2. CASE ThreadStart(p)
  BY <1>2 DEF ThreadStart, Goes, Wait, TypeOK, ThreadPhases, io, hist
<1>3. ASSUME NEW b \in Nat, Take(p, b),
             thread_bno' = [thread_bno EXCEPT ![p[1]] = Add(@, 1)],
             UNCHANGED <<mpc, mi, fpc, fi, sems, errno, nextsec, expired, exited,
                         signals, written, failed>>
      PROVE  TypeOK'
  <2>1. Add(thread_bno[p[1]], 1) \in 0 .. Word - 1
    BY <1>0, AddType DEF TypeOK
  <2>2. thread_bno' \in [Files -> 0 .. Word - 1]
    BY <1>0, <1>3, <2>1 DEF TypeOK
  <2>3. /\ tpc' \in [Thr -> ThreadPhases] /\ bno' \in [Thr -> Nat]
        /\ claims' \in [Files -> [Blocks -> Nat]]
    BY <1>3, TakeType
  <2> QED BY <1>3, <2>2, <2>3 DEF TypeOK, sems
<1>4. CASE Claim(p)
  <2>1. thread_bno[p[1]] \in Nat BY <1>0, WordAssumption DEF TypeOK
  <2> QED BY <1>3, <1>4, <2>1 DEF Claim
<1>7. CASE IoOk(p)
  <2>1. errno[p] \in ErrnoValues BY DEF TypeOK, ErrnoValues
  <2>2. /\ tpc' \in [Thr -> ThreadPhases]
        /\ errno' \in [Thr -> ErrnoValues]
    BY <1>7, <2>1, IoReturnsType DEF IoOk
  <2>3. /\ thread_bno' \in [Files -> 0 .. Word - 1]
        /\ signals' \in [Files -> SUBSET (Threads \X Kinds)]
    BY <1>7, AskStopType DEF IoOk, InIo, TypeOK
  <2>4. Unit(p) \in Nat \X Kinds BY <1>7 DEF IoOk, InIo, Unit, TypeOK
  <2>5. written' \in [Files -> SUBSET (Nat \X Kinds)]
    BY <1>0, <1>7, <2>4 DEF IoOk, TypeOK
  <2>6. nextsec' \in [Thr -> BOOLEAN] BY <1>7 DEF IoOk, TypeOK
  <2> QED BY <1>7, <2>2, <2>3, <2>5, <2>6 DEF IoOk, InIo, TypeOK, sems, ErrnoValues
<1>8. CASE IoFull(p)
  <2>1. /\ tpc' \in [Thr -> ThreadPhases]
        /\ errno' \in [Thr -> ErrnoValues]
    BY <1>8, IoReturnsType DEF IoFull, ErrnoValues
  <2>2. /\ thread_bno' \in [Files -> 0 .. Word - 1]
        /\ signals' \in [Files -> SUBSET (Threads \X Kinds)]
    BY <1>8, AskStopType DEF IoFull, InIo
  <2> QED BY <1>8, <2>1, <2>2 DEF IoFull, InIo, TypeOK, sems, ErrnoValues
<1>9. CASE IoShort(p)
  <2>1. CASE errno[p] \in {"zero", "nospc"}
    <3>1. /\ tpc' \in [Thr -> ThreadPhases]
          /\ errno' \in [Thr -> ErrnoValues]
      BY <1>9, <2>1, IoReturnsType DEF IoShort, ErrnoValues
    <3>2. /\ thread_bno' \in [Files -> 0 .. Word - 1]
          /\ signals' \in [Files -> SUBSET (Threads \X Kinds)]
      BY <1>9, <2>1, AskStopType DEF IoShort, InIo
    <3> QED BY <1>9, <2>1, <3>1, <3>2 DEF IoShort, InIo, TypeOK, sems, ErrnoValues
  <2>2. CASE errno[p] \notin {"zero", "nospc"}
    BY <1>9, <2>2 DEF IoShort, Abort, InIo, TypeOK, sems
  <2> QED BY <2>1, <2>2
<1>10. CASE IoFails(p)
  BY <1>10 DEF IoFails, Abort, InIo, TypeOK, sems
<1>11. CASE ThreadDone(p)
  BY <1>11 DEF ThreadDone, Goes, Post, TypeOK, ThreadPhases, io, hist
<1> QED BY <1>1, <1>2, <1>4, <1>7, <1>8, <1>9, <1>10, <1>11 DEF Thread

LEMMA TypeStep == TypeOK /\ [Next]_vars => TypeOK'
<1> SUFFICES ASSUME TypeOK, [Next]_vars PROVE TypeOK' OBVIOUS
<1>1. CASE Main BY <1>1, TypeStepMain
<1>2. CASE CreateFails
  BY <1>2 DEF CreateFails, TypeOK, sems, io
<1>3. CASE \E f \in Files : File(f) BY <1>3, TypeStepFile
<1>4. CASE \E f \in Files : Expire(f)
  BY <1>4 DEF Expire, TypeOK, sems, io, hist
<1>5. CASE \E p \in Thr : Thread(p) BY <1>5, TypeStepThread
<1>6. CASE UNCHANGED vars
  BY <1>6 DEF vars, TypeOK, sems, io, hist
<1> QED BY <1>1, <1>2, <1>3, <1>4, <1>5, <1>6 DEF Next, Ended

\* Every value the threads of iofill compute has its type in every run: in
\* particular no sequence of semaphore operations and stops makes a semaphore
\* negative or lets the block counter leave its width.
THEOREM TypeCorrect == Spec => []TypeOK
<1>1. Init => TypeOK BY TypeInit
<1>2. TypeOK /\ [Next]_vars => TypeOK' BY TypeStep
<1> QED BY <1>1, <1>2, PTL DEF Spec

-----------------------------------------------------------------------------
(***************************************************************************)
(* The accounts of the semaphores.                                         *)
(***************************************************************************)
LEMMA AccountInit == Init => SemaphoreAccount
<1> SUFFICES ASSUME Init PROVE SemaphoreAccount OBVIOUS
<1>1. ThreadAccount
  <2> SUFFICES ASSUME NEW f \in Files, NEW t \in Threads
               PROVE  ThreadBalance(f, t)
    BY DEF ThreadAccount
  <2>1. /\ tpc[<<f, t>>] = "new" /\ tstop[<<f, t>>] = 0 /\ tstart[<<f, t>>] = 0
        /\ fpc[f] = "new"
    BY DEF Init, Thr
  <2> QED BY <2>1 DEF ThreadBalance, Created, Gathered, Started, Finished,
                      FilePast, B, Starting, Waiting
<1>2. FileAccount
  BY ShapeAssumption DEF Init, FileAccount, FileBalance, MainCreated, MainGathered,
     MainStarted, MainFinished, MainPast, B, Files
<1>3. MainAccount BY DEF Init, MainAccount
<1> QED BY <1>1, <1>2, <1>3 DEF SemaphoreAccount

\* A step of a loop of runtest puts one semaphore operation behind the main
\* thread, the one on the file that the loop has reached, and no other.
LEMMA MainLoopStep ==
    ASSUME TypeOK, MainAccount, NEW f \in Files
    PROVE  /\ MainLoop("create", "gather") =>
                /\ MainAccount' /\ ~MainCreated(mi)
                /\ MainCreated(f)' <=> MainCreated(f) \/ f = mi
                /\ ~MainGathered(f) /\ ~MainStarted(f) /\ ~MainFinished(f)
                /\ ~MainGathered(f)' /\ ~MainStarted(f)' /\ ~MainFinished(f)'
           /\ MainLoop("gather", "go") =>
                /\ MainAccount' /\ ~MainGathered(mi)
                /\ MainGathered(f)' <=> MainGathered(f) \/ f = mi
                /\ MainCreated(f) /\ ~MainStarted(f) /\ ~MainFinished(f)
                /\ MainCreated(f)' /\ ~MainStarted(f)' /\ ~MainFinished(f)'
           /\ MainLoop("go", "finish") =>
                /\ MainAccount' /\ ~MainStarted(mi)
                /\ MainStarted(f)' <=> MainStarted(f) \/ f = mi
                /\ MainCreated(f) /\ MainGathered(f) /\ ~MainFinished(f)
                /\ MainCreated(f)' /\ MainGathered(f)' /\ ~MainFinished(f)'
           /\ MainLoop("finish", "output") =>
                /\ MainAccount' /\ ~MainFinished(mi)
                /\ MainFinished(f)' <=> MainFinished(f) \/ f = mi
                /\ MainCreated(f) /\ MainGathered(f) /\ MainStarted(f)
                /\ MainCreated(f)' /\ MainGathered(f)' /\ MainStarted(f)'
<1> USE ShapeAssumption DEF MainLoop, Leaves, After, Files, TypeOK, MainAccount,
        MainCreated, MainGathered, MainStarted, MainFinished, MainPast
<1>0. f < mi \/ f = mi \/ f > mi OBVIOUS
<1>1. CASE MainLoop("create", "gather")
  <2>1. CASE mi = NFiles - 1 BY <1>0, <1>1, <2>1
  <2>2. CASE mi # NFiles - 1 BY <1>0, <1>1, <2>2
  <2> QED BY <2>1, <2>2
<1>2. CASE MainLoop("gather", "go")
  <2>1. CASE mi = NFiles - 1 BY <1>0, <1>2, <2>1
  <2>2. CASE mi # NFiles - 1 BY <1>0, <1>2, <2>2
  <2> QED BY <2>1, <2>2
<1>3. CASE MainLoop("go", "finish")
  <2>1. CASE mi = NFiles - 1 BY <1>0, <1>3, <2>1
  <2>2. CASE mi # NFiles - 1 BY <1>0, <1>3, <2>2
  <2> QED BY <2>1, <2>2
<1>4. CASE MainLoop("finish", "output")
  <2>1. CASE mi = NFiles - 1 BY <1>0, <1>4, <2>1
  <2>2. CASE mi # NFiles - 1 BY <1>0, <1>4, <2>2
  <2> QED BY <2>1, <2>2
<1> QED BY <1>1, <1>2, <1>3, <1>4

\* The same for the loops of file_thread.
LEMMA FileLoopStep ==
    ASSUME TypeOK, FileAccount, NEW f \in Files, NEW t \in Threads
    PROVE  /\ FileLoop(f, "create", "gather") =>
                /\ ~Created(f, fi[f])
                /\ Created(f, t)' <=> Created(f, t) \/ t = fi[f]
                /\ ~Gathered(f, t) /\ ~Started(f, t) /\ ~Finished(f, t)
                /\ ~Gathered(f, t)' /\ ~Started(f, t)' /\ ~Finished(f, t)'
           /\ FileLoop(f, "gather", "ready") =>
                /\ ~Gathered(f, fi[f])
                /\ Gathered(f, t)' <=> Gathered(f, t) \/ t = fi[f]
                /\ Created(f, t) /\ ~Started(f, t) /\ ~Finished(f, t)
                /\ Created(f, t)' /\ ~Started(f, t)' /\ ~Finished(f, t)'
           /\ FileLoop(f, "go", "finish") =>
                /\ ~Started(f, fi[f])
                /\ Started(f, t)' <=> Started(f, t) \/ t = fi[f]
                /\ Created(f, t) /\ Gathered(f, t) /\ ~Finished(f, t)
                /\ Created(f, t)' /\ Gathered(f, t)' /\ ~Finished(f, t)'
           /\ FileLoop(f, "finish", "done") =>
                /\ ~Finished(f, fi[f])
                /\ Finished(f, t)' <=> Finished(f, t) \/ t = fi[f]
                /\ Created(f, t) /\ Gathered(f, t) /\ Started(f, t)
                /\ Created(f, t)' /\ Gathered(f, t)' /\ Started(f, t)'
<1>0. t < fi[f] \/ t = fi[f] \/ t > fi[f]
  <2>1. fi[f] \in Threads BY DEF TypeOK
  <2> QED BY <2>1 DEF Threads
<1> USE ShapeAssumption DEF FileLoop, Leaves, After, Threads, TypeOK,
        Created, Gathered, Started, Finished, FilePast
<1>1. CASE FileLoop(f, "create", "gather")
  <2>1. CASE fi[f] = NThreads - 1 BY <1>0, <1>1, <2>1
  <2>2. CASE fi[f] # NThreads - 1 BY <1>0, <1>1, <2>2
  <2> QED BY <2>1, <2>2
<1>2. CASE FileLoop(f, "gather", "ready")
  <2>1. CASE fi[f] = NThreads - 1 BY <1>0, <1>2, <2>1
  <2>2. CASE fi[f] # NThreads - 1 BY <1>0, <1>2, <2>2
  <2> QED BY <2>1, <2>2
<1>3. CASE FileLoop(f, "go", "finish")
  <2>1. CASE fi[f] = NThreads - 1 BY <1>0, <1>3, <2>1
  <2>2. CASE fi[f] # NThreads - 1 BY <1>0, <1>3, <2>2
  <2> QED BY <2>1, <2>2
<1>4. CASE FileLoop(f, "finish", "done")
  <2>1. CASE fi[f] = NThreads - 1 BY <1>0, <1>4, <2>1
  <2>2. CASE fi[f] # NThreads - 1 BY <1>0, <1>4, <2>2
  <2> QED BY <2>1, <2>2
<1> QED BY <1>1, <1>2, <1>3, <1>4

\* A balance depends on nothing but the phases and semaphores it speaks of.
LEMMA ThreadFrame ==
    ASSUME NEW f \in Files, NEW t \in Threads, ThreadBalance(f, t),
           fpc'[f] = fpc[f], fi'[f] = fi[f], tpc'[<<f, t>>] = tpc[<<f, t>>],
           tstop'[<<f, t>>] = tstop[<<f, t>>], tstart'[<<f, t>>] = tstart[<<f, t>>]
    PROVE  ThreadBalance(f, t)'
BY DEF ThreadBalance, Created, Gathered, Started, Finished, FilePast

LEMMA FileFrame ==
    ASSUME NEW f \in Files, FileBalance(f), UNCHANGED <<mpc, mi>>,
           fpc'[f] = fpc[f], fi'[f] = fi[f], fstop'[f] = fstop[f],
           fstart'[f] = fstart[f]
    PROVE  FileBalance(f)'
BY DEF FileBalance, MainCreated, MainGathered, MainStarted, MainFinished, MainPast

LEMMA AccountStepMain == TypeOK /\ SemaphoreAccount /\ Main => SemaphoreAccount'
<1> SUFFICES ASSUME TypeOK, SemaphoreAccount, Main PROVE SemaphoreAccount'
  OBVIOUS
<1>0. /\ MainAccount /\ mi \in Files
      /\ \A f \in Files : FileBalance(f)
      /\ \A f \in Files, t \in Threads : ThreadBalance(f, t)
  BY DEF SemaphoreAccount, ThreadAccount, FileAccount, TypeOK
<1>a. ASSUME UNCHANGED <<fpc, fi, tpc, tstop, tstart>> PROVE ThreadAccount'
  BY <1>0, <1>a, ThreadFrame DEF ThreadAccount
<1>1. CASE MainCreate
  <2>1. MainLoop("create", "gather") BY <1>1 DEF MainCreate
  <2>2. ASSUME NEW f \in Files PROVE FileBalance(f)'
    <3>1. fpc'[f] = IF f = mi THEN "create" ELSE fpc[f]
      BY <1>0, <1>1 DEF MainCreate, TypeOK
    <3>2. UNCHANGED <<fi, fstop, fstart>> BY <1>1 DEF MainCreate, sems
    <3>3. FileBalance(f) BY <1>0
    <3> QED BY <1>0, <2>1, <3>1, <3>2, <3>3, MainLoopStep DEF FileBalance, B
  <2>3. ASSUME NEW f \in Files, NEW t \in Threads PROVE ThreadBalance(f, t)'
    <3>1. UNCHANGED <<fi, tpc, tstop, tstart>> BY <1>1 DEF MainCreate, sems
    <3>2. CASE f = mi
      <4>1. fpc[f] = "new" /\ fi[f] = 0
        BY <1>0, <2>1, <3>2, MainLoopStep DEF FileBalance
      <4>2. fpc'[f] = "create" BY <1>0, <1>1, <3>2 DEF MainCreate, TypeOK
      <4>3. ~(t < 0) BY DEF Threads
      <4>4. ThreadBalance(f, t) BY <1>0
      <4> QED BY <3>1, <4>1, <4>2, <4>3, <4>4 DEF ThreadBalance, Created,
                 Gathered, Started, Finished, FilePast
    <3>3. CASE f # mi
      <4>1. fpc'[f] = fpc[f] BY <1>0, <1>1, <3>3 DEF MainCreate, TypeOK
      <4> QED BY <1>0, <3>1, <4>1, ThreadFrame
    <3> QED BY <3>2, <3>3
  <2> QED BY <1>0, <2>1, <2>2, <2>3, MainLoopStep
          DEF SemaphoreAccount, ThreadAccount, FileAccount
<1>2. CASE MainGather
  <2>1. MainLoop("gather", "go") BY <1>2 DEF MainGather
  <2>2. ASSUME NEW f \in Files PROVE FileBalance(f)'
    <3>1. fstop'[f] = IF f = mi THEN fstop[f] - 1 ELSE fstop[f]
      BY <1>0, <1>2 DEF MainGather, TypeOK, Wait
    <3>2. UNCHANGED <<fpc, fi, fstart>> BY <1>2 DEF MainGather
    <3>3. FileBalance(f) BY <1>0
    <3> QED BY <1>0, <2>1, <3>1, <3>2, <3>3, MainLoopStep DEF FileBalance, B
  <2>3. ThreadAccount' BY <1>a, <1>2 DEF MainGather
  <2> QED BY <1>0, <2>1, <2>2, <2>3, MainLoopStep DEF SemaphoreAccount, FileAccount
<1>3. CASE MainGo
  <2>1. MainLoop("go", "finish") BY <1>3 DEF MainGo
  <2>2. ASSUME NEW f \in Files PROVE FileBalance(f)'
    <3>1. fstart'[f] = IF f = mi THEN fstart[f] + 1 ELSE fstart[f]
      BY <1>0, <1>3 DEF MainGo, TypeOK, Post
    <3>2. UNCHANGED <<fpc, fi, fstop>> BY <1>3 DEF MainGo
    <3>3. FileBalance(f) BY <1>0
    <3> QED BY <1>0, <2>1, <3>1, <3>2, <3>3, MainLoopStep DEF FileBalance, B
  <2>3. ThreadAccount' BY <1>a, <1>3 DEF MainGo
  <2> QED BY <1>0, <2>1, <2>2, <2>3, MainLoopStep DEF SemaphoreAccount, FileAccount
<1>4. CASE MainFinish
  <2>1. MainLoop("finish", "output") BY <1>4 DEF MainFinish
  <2>2. ASSUME NEW f \in Files PROVE FileBalance(f)'
    <3>1. fstop'[f] = IF f = mi THEN fstop[f] - 1 ELSE fstop[f]
      BY <1>0, <1>4 DEF MainFinish, TypeOK, Wait
    <3>2. UNCHANGED <<fpc, fi, fstart>> BY <1>4 DEF MainFinish
    <3>3. FileBalance(f) BY <1>0
    <3> QED BY <1>0, <2>1, <3>1, <3>2, <3>3, MainLoopStep DEF FileBalance, B
  <2>3. ThreadAccount' BY <1>a, <1>4 DEF MainFinish
  <2> QED BY <1>0, <2>1, <2>2, <2>3, MainLoopStep DEF SemaphoreAccount, FileAccount
<1>5. CASE MainExit
  <2>1. mpc = "output" /\ mpc' = "exit" /\ UNCHANGED <<mi, fpc, fi, tpc, sems>>
    BY <1>5 DEF MainExit
  <2>2. ThreadAccount' BY <1>a, <2>1 DEF sems
  <2>3. MainAccount' BY <1>0, <2>1 DEF MainAccount
  <2>4. FileAccount'
    BY <1>0, <2>1 DEF FileAccount, FileBalance, MainCreated, MainGathered,
       MainStarted, MainFinished, MainPast, sems
  <2> QED BY <2>2, <2>3, <2>4 DEF SemaphoreAccount
<1>6. CASE OutputFails
  <2>1. UNCHANGED <<mpc, mi, fpc, fi, tpc, sems>> BY <1>6 DEF OutputFails
  <2> QED BY <1>0, <1>a, <2>1, FileFrame DEF SemaphoreAccount, FileAccount, MainAccount, sems
<1> QED BY <1>1, <1>2, <1>3, <1>4, <1>5, <1>6 DEF Main

LEMMA AccountStepFile ==
    ASSUME TypeOK, SemaphoreAccount, NEW f \in Files, File(f)
    PROVE  SemaphoreAccount'
<1>0. /\ MainAccount /\ fi[f] \in Threads /\ At(f) \in Thr
      /\ \A g \in Files : FileBalance(g)
      /\ \A g \in Files, t \in Threads : ThreadBalance(g, t)
      /\ UNCHANGED <<mpc, mi>>
  BY DEF SemaphoreAccount, ThreadAccount, FileAccount, TypeOK, At, Thr, File,
     FileCreate, FileGather, FileReady, FileStart, FileGo, FileFinish, FileDone
<1>1. MainAccount' BY <1>0 DEF MainAccount
\* what a step of file thread f has to show about f itself
<1>2. ASSUME FileBalance(f)', \A t \in Threads : ThreadBalance(f, t)',
             \A g \in Files \ {f} :
                /\ fpc'[g] = fpc[g] /\ fi'[g] = fi[g]
                /\ fstop'[g] = fstop[g] /\ fstart'[g] = fstart[g],
             \A g \in Files \ {f}, t \in Threads :
                /\ tpc'[<<g, t>>] = tpc[<<g, t>>]
                /\ tstop'[<<g, t>>] = tstop[<<g, t>>]
                /\ tstart'[<<g, t>>] = tstart[<<g, t>>]
      PROVE  SemaphoreAccount'
  <2>1. ASSUME NEW g \in Files PROVE FileBalance(g)'
    BY <1>0, <1>2, <2>1, FileFrame
  <2>2. ASSUME NEW g \in Files, NEW t \in Threads PROVE ThreadBalance(g, t)'
    <3>1. CASE g = f BY <1>2, <2>2, <3>1
    <3>2. CASE g # f
      <4>1. /\ g \in Files \ {f} /\ ThreadBalance(g, t)
            /\ tpc'[<<g, t>>] = tpc[<<g, t>>] /\ tstop'[<<g, t>>] = tstop[<<g, t>>]
            /\ tstart'[<<g, t>>] = tstart[<<g, t>>]
        BY <1>0, <1>2, <2>2, <3>2
      <4> QED BY <1>2, <4>1, ThreadFrame
    <3> QED BY <3>1, <3>2
  <2> QED BY <1>1, <2>1, <2>2 DEF SemaphoreAccount, ThreadAccount, FileAccount
<1>3. CASE FileCreate(f)
  <2>1. FileLoop(f, "create", "gather") BY <1>3 DEF FileCreate
  <2>2. /\ UNCHANGED <<tstop, tstart, fstart, fstop>>
        /\ \A g \in Files, t \in Threads :
              tpc'[<<g, t>>] = IF g = f /\ t = fi[f] THEN "init"
                                ELSE tpc[<<g, t>>]
    BY <1>0, <1>3 DEF FileCreate, TypeOK, At, Thr, Wait, Post, sems
  <2>3. \A g \in Files \ {f} : fpc'[g] = fpc[g] /\ fi'[g] = fi[g]
    BY <2>1 DEF FileLoop, TypeOK
  <2>4. FileBalance(f)'
    <3>1. CASE fi[f] = NThreads - 1
      <4>1. fpc'[f] = "gather" /\ fi'[f] = 0
        BY <2>1, <3>1 DEF FileLoop, TypeOK, Leaves, After
      <4> QED BY <1>0, <2>1, <2>2, <4>1 DEF FileLoop, FileBalance, MainCreated,
                 MainGathered, MainStarted, MainFinished, MainPast, B
    <3>2. CASE fi[f] # NThreads - 1
      <4>1. fpc'[f] = "create" BY <2>1, <3>2 DEF FileLoop, TypeOK, Leaves
      <4> QED BY <1>0, <2>1, <2>2, <4>1 DEF FileLoop, FileBalance, MainCreated,
                 MainGathered, MainStarted, MainFinished, MainPast, B
    <3> QED BY <3>1, <3>2
  <2>5. ASSUME NEW t \in Threads PROVE ThreadBalance(f, t)'
    <3>1. ThreadBalance(f, t) /\ ThreadBalance(f, fi[f]) BY <1>0
    <3> QED BY <1>0, <2>1, <2>2, <3>1, FileLoopStep
            DEF SemaphoreAccount, ThreadBalance, B, Starting, Waiting
  <2> QED BY <1>2, <2>2, <2>3, <2>4, <2>5
<1>4. CASE FileGather(f)
  <2>1. FileLoop(f, "gather", "ready") BY <1>4 DEF FileGather
  <2>2. /\ UNCHANGED <<tpc, tstart, fstart, fstop>>
        /\ \A g \in Files, t \in Threads :
              tstop'[<<g, t>>] = IF g = f /\ t = fi[f] THEN tstop[<<f, t>>] - 1
                                ELSE tstop[<<g, t>>]
    BY <1>0, <1>4 DEF FileGather, TypeOK, At, Thr, Wait, Post, sems
  <2>3. \A g \in Files \ {f} : fpc'[g] = fpc[g] /\ fi'[g] = fi[g]
    BY <2>1 DEF FileLoop, TypeOK
  <2>4. FileBalance(f)'
    <3>1. CASE fi[f] = NThreads - 1
      <4>1. fpc'[f] = "ready" /\ fi'[f] = 0
        BY <2>1, <3>1 DEF FileLoop, TypeOK, Leaves, After
      <4> QED BY <1>0, <2>1, <2>2, <4>1 DEF FileLoop, FileBalance, MainCreated,
                 MainGathered, MainStarted, MainFinished, MainPast, B
    <3>2. CASE fi[f] # NThreads - 1
      <4>1. fpc'[f] = "gather" BY <2>1, <3>2 DEF FileLoop, TypeOK, Leaves
      <4> QED BY <1>0, <2>1, <2>2, <4>1 DEF FileLoop, FileBalance, MainCreated,
                 MainGathered, MainStarted, MainFinished, MainPast, B
    <3> QED BY <3>1, <3>2
  <2>5. ASSUME NEW t \in Threads PROVE ThreadBalance(f, t)'
    <3>1. ThreadBalance(f, t) /\ ThreadBalance(f, fi[f]) BY <1>0
    <3> QED BY <1>0, <2>1, <2>2, <3>1, FileLoopStep
            DEF SemaphoreAccount, ThreadBalance, B, Starting, Waiting
  <2> QED BY <1>2, <2>2, <2>3, <2>4, <2>5
<1>5. CASE FileGo(f)
  <2>1. FileLoop(f, "go", "finish") BY <1>5 DEF FileGo
  <2>2. /\ UNCHANGED <<tpc, tstop, fstart, fstop>>
        /\ \A g \in Files, t \in Threads :
              tstart'[<<g, t>>] = IF g = f /\ t = fi[f] THEN tstart[<<f, t>>] + 1
                                ELSE tstart[<<g, t>>]
    BY <1>0, <1>5 DEF FileGo, TypeOK, At, Thr, Wait, Post, sems
  <2>3. \A g \in Files \ {f} : fpc'[g] = fpc[g] /\ fi'[g] = fi[g]
    BY <2>1 DEF FileLoop, TypeOK
  <2>4. FileBalance(f)'
    <3>1. CASE fi[f] = NThreads - 1
      <4>1. fpc'[f] = "finish" /\ fi'[f] = 0
        BY <2>1, <3>1 DEF FileLoop, TypeOK, Leaves, After
      <4> QED BY <1>0, <2>1, <2>2, <4>1 DEF FileLoop, FileBalance, MainCreated,
                 MainGathered, MainStarted, MainFinished, MainPast, B
    <3>2. CASE fi[f] # NThreads - 1
      <4>1. fpc'[f] = "go" BY <2>1, <3>2 DEF FileLoop, TypeOK, Leaves
      <4> QED BY <1>0, <2>1, <2>2, <4>1 DEF FileLoop, FileBalance, MainCreated,
                 MainGathered, MainStarted, MainFinished, MainPast, B
    <3> QED BY <3>1, <3>2
  <2>5. ASSUME NEW t \in Threads PROVE ThreadBalance(f, t)'
    <3>1. ThreadBalance(f, t) /\ ThreadBalance(f, fi[f]) BY <1>0
    <3> QED BY <1>0, <2>1, <2>2, <3>1, FileLoopStep
            DEF SemaphoreAccount, ThreadBalance, B, Starting, Waiting
  <2> QED BY <1>2, <2>2, <2>3, <2>4, <2>5
<1>6. CASE FileFinish(f)
  <2>1. FileLoop(f, "finish", "done") BY <1>6 DEF FileFinish
  <2>2. /\ UNCHANGED <<tpc, tstart, fstart, fstop>>
        /\ \A g \in Files, t \in Threads :
              tstop'[<<g, t>>] = IF g = f /\ t = fi[f] THEN tstop[<<f, t>>] - 1
                                ELSE tstop[<<g, t>>]
    BY <1>0, <1>6 DEF FileFinish, TypeOK, At, Thr, Wait, Post, sems
  <2>3. \A g \in Files \ {f} : fpc'[g] = fpc[g] /\ fi'[g] = fi[g]
    BY <2>1 DEF FileLoop, TypeOK
  <2>4. FileBalance(f)'
    <3>1. CASE fi[f] = NThreads - 1
      <4>1. fpc'[f] = "done" /\ fi'[f] = 0
        BY <2>1, <3>1 DEF FileLoop, TypeOK, Leaves, After
      <4> QED BY <1>0, <2>1, <2>2, <4>1 DEF FileLoop, FileBalance, MainCreated,
                 MainGathered, MainStarted, MainFinished, MainPast, B
    <3>2. CASE fi[f] # NThreads - 1
      <4>1. fpc'[f] = "finish" BY <2>1, <3>2 DEF FileLoop, TypeOK, Leaves
      <4> QED BY <1>0, <2>1, <2>2, <4>1 DEF FileLoop, FileBalance, MainCreated,
                 MainGathered, MainStarted, MainFinished, MainPast, B
    <3> QED BY <3>1, <3>2
  <2>5. ASSUME NEW t \in Threads PROVE ThreadBalance(f, t)'
    <3>1. ThreadBalance(f, t) /\ ThreadBalance(f, fi[f]) BY <1>0
    <3> QED BY <1>0, <2>1, <2>2, <3>1, FileLoopStep
            DEF SemaphoreAccount, ThreadBalance, B, Starting, Waiting
  <2> QED BY <1>2, <2>2, <2>3, <2>4, <2>5
<1>7. CASE FileReady(f)
  <2>1. /\ fpc[f] = "ready" /\ fpc'[f] = "wait" /\ fstop'[f] = fstop[f] + 1
        /\ \A g \in Files \ {f} : fpc'[g] = fpc[g] /\ fstop'[g] = fstop[g]
        /\ UNCHANGED <<fi, tpc, tstop, tstart, fstart>>
    BY <1>7 DEF FileReady, FileGoes, TypeOK, Wait, Post
  <2>2. FileBalance(f)'
    BY <1>0, <2>1 DEF FileBalance, MainCreated, MainGathered, MainStarted,
       MainFinished, MainPast, B
  <2>3. ASSUME NEW t \in Threads PROVE ThreadBalance(f, t)'
    <3>1. ThreadBalance(f, t) BY <1>0
    <3> QED BY <2>1, <3>1 DEF ThreadBalance, Created, Gathered, Started,
               Finished, FilePast
  <2> QED BY <1>2, <2>1, <2>2, <2>3
<1>8. CASE FileStart(f)
  <2>1. /\ fpc[f] = "wait" /\ fpc'[f] = "go" /\ fstart'[f] = fstart[f] - 1
        /\ \A g \in Files \ {f} : fpc'[g] = fpc[g] /\ fstart'[g] = fstart[g]
        /\ UNCHANGED <<fi, tpc, tstop, tstart, fstop>>
    BY <1>8 DEF FileStart, FileGoes, TypeOK, Wait, Post
  <2>2. FileBalance(f)'
    BY <1>0, <2>1 DEF FileBalance, MainCreated, MainGathered, MainStarted,
       MainFinished, MainPast, B
  <2>3. ASSUME NEW t \in Threads PROVE ThreadBalance(f, t)'
    <3>1. ThreadBalance(f, t) BY <1>0
    <3>2. fi[f] = 0 /\ ~(t < 0) BY <1>0, <2>1 DEF FileBalance, Threads
    <3> QED BY <2>1, <3>1, <3>2 DEF ThreadBalance, Created, Gathered, Started,
               Finished, FilePast
  <2> QED BY <1>2, <2>1, <2>2, <2>3
<1>9. CASE FileDone(f)
  <2>1. /\ fpc[f] = "done" /\ fpc'[f] = "exit" /\ fstop'[f] = fstop[f] + 1
        /\ \A g \in Files \ {f} : fpc'[g] = fpc[g] /\ fstop'[g] = fstop[g]
        /\ UNCHANGED <<fi, tpc, tstop, tstart, fstart>>
    BY <1>9 DEF FileDone, FileGoes, TypeOK, Wait, Post
  <2>2. FileBalance(f)'
    BY <1>0, <2>1 DEF FileBalance, MainCreated, MainGathered, MainStarted,
       MainFinished, MainPast, B
  <2>3. ASSUME NEW t \in Threads PROVE ThreadBalance(f, t)'
    <3>1. ThreadBalance(f, t) BY <1>0
    <3> QED BY <2>1, <3>1 DEF ThreadBalance, Created, Gathered, Started,
               Finished, FilePast
  <2> QED BY <1>2, <2>1, <2>2, <2>3
<1> QED BY <1>3, <1>4, <1>5, <1>6, <1>7, <1>8, <1>9 DEF File

\* Only its semaphores and its phase tie an I/O thread to the others.
LEMMA AccountStepThread ==
    ASSUME TypeOK, SemaphoreAccount, NEW p \in Thr, Thread(p)
    PROVE  SemaphoreAccount'
<1>0. /\ MainAccount
      /\ \A f \in Files : FileBalance(f)
      /\ \A f \in Files, t \in Threads : ThreadBalance(f, t)
      /\ p[1] \in Files /\ p[2] \in Threads /\ p = <<p[1], p[2]>>
  BY ThrPairs DEF SemaphoreAccount, ThreadAccount, FileAccount
<1>1. ASSUME UNCHANGED <<mpc, mi, fpc, fi, fstart, fstop>>,
             ThreadBalance(p[1], p[2])',
             \A q \in Thr \ {p} : /\ tpc'[q] = tpc[q]
                                  /\ tstop'[q] = tstop[q]
                                  /\ tstart'[q] = tstart[q]
      PROVE  SemaphoreAccount'
  <2>1. MainAccount' BY <1>0, <1>1 DEF MainAccount
  <2>2. FileAccount' BY <1>0, <1>1, FileFrame DEF FileAccount
  <2>3. ASSUME NEW f \in Files, NEW t \in Threads PROVE ThreadBalance(f, t)'
    <3>1. CASE <<f, t>> = p BY <1>1, <3>1
    <3>2. CASE <<f, t>> # p
      <4>1. <<f, t>> \in Thr \ {p} BY <3>2 DEF Thr
      <4> QED BY <1>0, <1>1, <4>1, ThreadFrame
    <3> QED BY <3>1, <3>2
  <2> QED BY <2>1, <2>2, <2>3 DEF SemaphoreAccount, ThreadAccount
\* from one phase to another between the start and the last claim
<1>2. ASSUME NEW next \in {"claim", "hdr", "io", "done"}, Goes(p, next),
             tpc[p] \in {"claim", "hdr", "io"},
             UNCHANGED <<mpc, mi, fpc, fi, sems>>
      PROVE  SemaphoreAccount'
  <2>1. tpc'[p] = next /\ \A q \in Thr \ {p} : tpc'[q] = tpc[q]
    BY <1>2 DEF Goes, TypeOK
  <2>2. ThreadBalance(p[1], p[2])'
    <3>1. ThreadBalance(p[1], p[2]) BY <1>0
    <3> QED BY <1>0, <1>2, <2>1, <3>1 DEF ThreadBalance, Created, Gathered, Started,
               Finished, FilePast, Starting, Waiting, B, sems
  <2> QED BY <1>1, <1>2, <2>1, <2>2 DEF sems
<1>3. CASE ThreadInit(p)
  <2>1. /\ tpc[p] = "init" /\ tpc'[p] = "wait" /\ tstop'[p] = tstop[p] + 1
        /\ \A q \in Thr \ {p} : tpc'[q] = tpc[q] /\ tstop'[q] = tstop[q]
        /\ UNCHANGED <<mpc, mi, fpc, fi, tstart, fstart, fstop>>
    BY <1>3 DEF ThreadInit, Goes, Post, TypeOK
  <2>2. ThreadBalance(p[1], p[2])'
    <3>1. ThreadBalance(p[1], p[2]) BY <1>0
    <3> QED BY <1>0, <2>1, <3>1 DEF ThreadBalance, Created, Gathered, Started,
               Finished, FilePast, Starting, Waiting, B
  <2> QED BY <1>1, <2>1, <2>2
<1>4. CASE ThreadStart(p)
  <2>1. /\ tpc[p] = "wait" /\ tpc'[p] = "claim" /\ tstart'[p] = tstart[p] - 1
        /\ \A q \in Thr \ {p} : tpc'[q] = tpc[q] /\ tstart'[q] = tstart[q]
        /\ UNCHANGED <<mpc, mi, fpc, fi, tstop, fstart, fstop>>
    BY <1>4 DEF ThreadStart, Goes, Wait, TypeOK
  <2>2. ThreadBalance(p[1], p[2])'
    <3>1. ThreadBalance(p[1], p[2]) BY <1>0
    <3> QED BY <1>0, <2>1, <3>1 DEF ThreadBalance, Created, Gathered, Started,
               Finished, FilePast, Starting, Waiting, B
  <2> QED BY <1>1, <2>1, <2>2
<1>5. CASE Claim(p) BY <1>2, <1>5 DEF Claim, Take
<1>8. CASE IoOk(p) BY <1>2, <1>8 DEF IoOk, InIo, IoReturns, Kinds
<1>9. CASE IoFull(p) BY <1>2, <1>9 DEF IoFull, InIo, IoReturnsFull, Kinds
<1>10. CASE UNCHANGED <<mpc, mi, fpc, fi, tpc, sems>>
  BY <1>0, <1>1, <1>10, ThreadFrame DEF sems
<1>11. CASE IoShort(p)
  BY <1>2, <1>10, <1>11 DEF IoShort, InIo, IoReturnsFull, Abort, Kinds
<1>12. CASE IoFails(p) BY <1>10, <1>12 DEF IoFails, InIo, Abort
<1>13. CASE ThreadDone(p)
  <2>1. /\ tpc[p] = "done" /\ tpc'[p] = "exit" /\ tstop'[p] = tstop[p] + 1
        /\ \A q \in Thr \ {p} : tpc'[q] = tpc[q] /\ tstop'[q] = tstop[q]
        /\ UNCHANGED <<mpc, mi, fpc, fi, tstart, fstart, fstop>>
    BY <1>13 DEF ThreadDone, Goes, Post, TypeOK
  <2>2. ThreadBalance(p[1], p[2])'
    <3>1. ThreadBalance(p[1], p[2]) BY <1>0
    <3> QED BY <1>0, <2>1, <3>1 DEF ThreadBalance, Created, Gathered, Started,
               Finished, FilePast, Starting, Waiting, B
  <2> QED BY <1>1, <2>1, <2>2
<1> QED BY <1>3, <1>4, <1>5, <1>8, <1>9, <1>11, <1>12, <1>13 DEF Thread

LEMMA AccountStep == TypeOK /\ SemaphoreAccount /\ [Next]_vars => SemaphoreAccount'
<1> SUFFICES ASSUME TypeOK, SemaphoreAccount, [Next]_vars PROVE SemaphoreAccount'
  OBVIOUS
<1>1. CASE Main BY <1>1, AccountStepMain
<1>2. CASE \E f \in Files : File(f) BY <1>2, AccountStepFile
<1>3. CASE \E p \in Thr : Thread(p) BY <1>3, AccountStepThread
<1>4. CASE UNCHANGED <<mpc, mi, fpc, fi, tpc, sems>>
  <2>1. FileAccount' BY <1>4, FileFrame DEF SemaphoreAccount, FileAccount, sems
  <2>2. ThreadAccount' BY <1>4, ThreadFrame DEF SemaphoreAccount, ThreadAccount, sems
  <2> QED BY <1>4, <2>1, <2>2 DEF SemaphoreAccount, MainAccount
<1>5. CASE CreateFails BY <1>4, <1>5 DEF CreateFails
<1>6. CASE \E f \in Files : Expire(f) BY <1>4, <1>6 DEF Expire
<1>7. CASE UNCHANGED vars BY <1>4, <1>7 DEF vars
<1> QED BY <1>1, <1>2, <1>3, <1>5, <1>6, <1>7 DEF Next, Ended

\* No post or wait of runtest, file_thread and io_thread goes astray: in every
\* state each semaphore holds exactly the posts less the waits the phases imply.
THEOREM SemaphoresAccounted == Spec => []SemaphoreAccount
<1>1. Init => SemaphoreAccount BY AccountInit
<1>2. TypeOK /\ SemaphoreAccount /\ [Next]_vars => SemaphoreAccount'
  BY AccountStep
<1> QED BY <1>1, <1>2, TypeCorrect, PTL DEF Spec

-----------------------------------------------------------------------------
(***************************************************************************)
(* The barriers follow from the accounts: a semaphore is not negative, so  *)
(* who has got past a wait finds the matching post in somebody's past.     *)
(***************************************************************************)
LEMMA Rendezvous ==
    ASSUME TypeOK, SemaphoreAccount, NEW f \in Files, NEW t \in Threads
    PROVE  /\ Gathered(f, t) => tpc[<<f, t>>] \notin Starting
           /\ Finished(f, t) => tpc[<<f, t>>] = "exit"
           /\ tpc[<<f, t>>] \notin Waiting => Started(f, t)
           /\ MainGathered(f) => fpc[f] \in {"wait", "go", "finish", "done", "exit"}
           /\ MainFinished(f) => fpc[f] = "exit"
           /\ fpc[f] \in {"go", "finish", "done", "exit"} => MainStarted(f)
<1>1. /\ tstop[<<f, t>>] >= 0 /\ tstart[<<f, t>>] >= 0
      /\ fstop[f] >= 0 /\ fstart[f] >= 0
  BY DEF TypeOK, Thr
<1>2. ThreadBalance(f, t) /\ FileBalance(f)
  BY DEF SemaphoreAccount, ThreadAccount, FileAccount
<1>3. Finished(f, t) => Gathered(f, t)
  BY DEF Finished, Gathered, FilePast
<1>4. MainFinished(f) => MainGathered(f)
  BY DEF MainFinished, MainGathered, MainPast
<1>5. /\ Gathered(f, t) => tpc[<<f, t>>] \notin Starting
      /\ Finished(f, t) => tpc[<<f, t>>] = "exit"
      /\ tpc[<<f, t>>] \notin Waiting => Started(f, t)
  BY <1>1, <1>2, <1>3 DEF ThreadBalance, B, Starting
<1>6. /\ MainGathered(f) => fpc[f] \in {"wait", "go", "finish", "done", "exit"}
      /\ MainFinished(f) => fpc[f] = "exit"
      /\ fpc[f] \in {"go", "finish", "done", "exit"} => MainStarted(f)
  BY <1>1, <1>2, <1>4 DEF FileBalance, B
<1> QED BY <1>5, <1>6

\* No I/O of any file starts before every I/O thread of every file is ready, for
\* any number of files and threads (the two-stage start of runtest).
THEOREM Barrier == Spec => []StartBarrier
<1>1. TypeOK /\ SemaphoreAccount => StartBarrier
  <2> SUFFICES ASSUME TypeOK, SemaphoreAccount, NEW p \in Thr, NEW q \in Thr,
                      tpc[p] \notin Waiting
               PROVE  tpc[q] \notin Starting
    BY DEF StartBarrier
  <2>1. /\ p[1] \in Files /\ p[2] \in Threads /\ p = <<p[1], p[2]>>
        /\ q[1] \in Files /\ q[2] \in Threads /\ q = <<q[1], q[2]>>
    BY ThrPairs
  <2>2. Started(p[1], p[2]) BY <2>1, Rendezvous
  <2>3. MainStarted(p[1]) BY <2>1, <2>2, Rendezvous DEF Started, FilePast
  <2>4. MainGathered(q[1]) BY <2>3 DEF MainStarted, MainGathered, MainPast
  <2>5. Gathered(q[1], q[2]) BY <2>1, <2>4, Rendezvous DEF Gathered, FilePast
  <2> QED BY <2>1, <2>5, Rendezvous
<1> QED BY <1>1, TypeCorrect, SemaphoresAccounted, PTL

\* When output() reads the counters of the I/O threads, every I/O thread of every
\* file has ended, for any number of files and threads.
THEOREM Quiescent == Spec => []OutputQuiescent
<1>1. TypeOK /\ SemaphoreAccount => OutputQuiescent
  <2> SUFFICES ASSUME TypeOK, SemaphoreAccount, mpc \in {"output", "exit"},
                      NEW p \in Thr
               PROVE  tpc[p] = "exit"
    BY DEF OutputQuiescent
  <2>1. p[1] \in Files /\ p[2] \in Threads /\ p = <<p[1], p[2]>>
    BY ThrPairs
  <2>2. MainFinished(p[1]) BY DEF MainFinished, MainPast
  <2>3. Finished(p[1], p[2]) BY <2>1, <2>2, Rendezvous DEF Finished, FilePast
  <2> QED BY <2>1, <2>3, Rendezvous
<1> QED BY <1>1, TypeCorrect, SemaphoresAccounted, PTL

-----------------------------------------------------------------------------
(***************************************************************************)
(* The accounts of the block counter, for the build with atomic claims.    *)
(***************************************************************************)
LEMMA LateFinite ==
    ASSUME NEW f \in Files
    PROVE  /\ IsFiniteSet(Late(f)) /\ Cardinality(Late(f)) \in 0 .. NThreads
           /\ IsFiniteSet(Late(f)') /\ Cardinality(Late(f)') \in 0 .. NThreads
<1>1. IsFiniteSet(Threads) /\ Cardinality(Threads) = NThreads
  BY FS_Interval, ShapeAssumption DEF Threads
<1>2. Late(f) \in SUBSET Threads /\ Late(f)' \in SUBSET Threads
  BY DEF Late
<1>3. \A S \in SUBSET Threads : /\ IsFiniteSet(S)
                                /\ Cardinality(S) <= NThreads
                                /\ Cardinality(S) \in Nat
  BY <1>1, FS_Subset, FS_CardinalityType
<1> QED BY <1>2, <1>3, ShapeAssumption

LEMMA SignalsFinite ==
    ASSUME NEW S \in SUBSET (Threads \X Kinds)
    PROVE  IsFiniteSet(S) /\ Cardinality(S) \in 0 .. 2 * NThreads
<1>1. IsFiniteSet(Threads) /\ Cardinality(Threads) = NThreads
  BY FS_Interval, ShapeAssumption DEF Threads
<1>2. IsFiniteSet(Kinds) /\ Cardinality(Kinds) = 2
  <2>1. IsFiniteSet({"io"}) /\ Cardinality({"io"}) = 1 BY FS_Singleton
  <2>2. Kinds = {"io"} \cup {"hdr"} BY DEF Kinds
  <2>3. "hdr" \notin {"io"} OBVIOUS
  <2> QED BY <2>1, <2>2, <2>3, FS_AddElement
<1>3. /\ IsFiniteSet(Threads \X Kinds)
      /\ Cardinality(Threads \X Kinds) = NThreads * 2
  BY <1>1, <1>2, FS_Product
<1>4. /\ IsFiniteSet(S) /\ Cardinality(S) \in Nat
      /\ Cardinality(S) <= Cardinality(Threads \X Kinds)
  BY <1>3, FS_Subset, FS_CardinalityType
<1> QED BY <1>3, <1>4, ShapeAssumption

\* The counter never wraps: claims, late claims and stops together stay below Word.
LEMMA CounterFits ==
    ASSUME NEW n \in 0 .. TotalIo, NEW l \in 0 .. NThreads,
           NEW s \in 0 .. 2 * NThreads
    PROVE  /\ TotalIo * s \in Nat
           /\ n + l + TotalIo * s \in Nat
           /\ n + l + TotalIo * s < Word
<1>0. TotalIo \in Nat /\ NThreads \in Nat /\ Word \in Nat
  BY TotalIoType, ShapeAssumption, WordAssumption
<1>1. TotalIo * s \in Nat /\ TotalIo * s <= TotalIo * (2 * NThreads)
  BY <1>0, ProductMonotone
<1>2. TotalIo + NThreads * (2 * TotalIo + 1) < Word BY WordAssumption
<1>3. NThreads * (2 * TotalIo + 1) = TotalIo * (2 * NThreads) + NThreads
  BY <1>0
<1>4. TotalIo * (2 * NThreads) \in Nat BY <1>0
<1> HIDE DEF TotalIo
<1> QED BY <1>0, <1>1, <1>2, <1>3, <1>4

LEMMA ClaimInit == Init => ClaimAccount
<1> SUFFICES ASSUME Init, NEW f \in Files PROVE ClaimBalance(f)
  BY DEF ClaimAccount
<1>0. TotalIo \in Nat BY TotalIoType, WordAssumption
<1>1. \A t \in Threads : tpc[<<f, t>>] = "new" BY DEF Init, Thr
<1>2. Late(f) = {} BY <1>1 DEF Late
<1>3. /\ thread_bno[f] = 0 /\ signals[f] = {}
      /\ \A b \in Blocks : claims[f][b] = 0
  BY DEF Init
<1>4. CounterIs(f, 0)
  BY <1>0, <1>2, <1>3, FS_EmptySet DEF CounterIs, B, Blocks
<1>5. SignalOnce(f) BY <1>3 DEF SignalOnce
<1> QED BY <1>0, <1>1, <1>4, <1>5 DEF ClaimBalance

\* A balance is not disturbed by a step that leaves the counter and the claims
\* of the file alone and takes no thread into a late claim.
LEMMA ClaimFrame ==
    ASSUME NEW f \in Files, ClaimBalance(f), SignalOnce(f)',
           thread_bno'[f] = thread_bno[f], claims'[f] = claims[f],
           signals'[f] = signals[f], Late(f)' = Late(f)
    PROVE  ClaimBalance(f)'
<1>1. PICK n \in 0 .. TotalIo : CounterIs(f, n) BY DEF ClaimBalance
<1>2. CounterIs(f, n)' BY <1>1 DEF CounterIs, B
<1> QED BY <1>2 DEF ClaimBalance

\* A file whose threads do nothing keeps its balance.
LEMMA ClaimOtherFile ==
    ASSUME NEW f \in Files, ClaimBalance(f),
           thread_bno'[f] = thread_bno[f], claims'[f] = claims[f],
           signals'[f] = signals[f],
           \A t \in Threads : tpc'[<<f, t>>] = tpc[<<f, t>>]
    PROVE  ClaimBalance(f)'
<1>1. Late(f)' = Late(f) BY DEF Late
<1>2. SignalOnce(f)' BY DEF ClaimBalance, SignalOnce
<1> QED BY <1>1, <1>2, ClaimFrame

\* What a claim finds: a number below TotalIo only while nobody
\* has asked for a stop and no block has been skipped.
LEMMA ClaimFinds ==
    ASSUME TypeOK, NEW f \in Files, NEW n \in 0 .. TotalIo, CounterIs(f, n)
    PROVE  IF thread_bno[f] < TotalIo
           THEN thread_bno[f] = n /\ signals[f] = {} /\ Late(f) = {}
           ELSE n = TotalIo \/ signals[f] # {}
<1>0. TotalIo \in Nat BY TotalIoType, WordAssumption
<1> DEFINE l == Cardinality(Late(f))
           s == Cardinality(signals[f])
<1>1. IsFiniteSet(Late(f)) /\ l \in 0 .. NThreads BY LateFinite
<1>2. IsFiniteSet(signals[f]) /\ s \in 0 .. 2 * NThreads
  BY SignalsFinite DEF TypeOK
<1>3. thread_bno[f] = n + l + TotalIo * s BY DEF CounterIs
<1>4. (l = 0 <=> Late(f) = {}) /\ (s = 0 <=> signals[f] = {})
  BY <1>1, <1>2, FS_EmptySet
<1>5. CASE s = 0
  <2>1. TotalIo * s = 0 BY <1>0, <1>5
  <2>2. Late(f) # {} => n = TotalIo BY <1>4, <1>5 DEF CounterIs
  <2>3. thread_bno[f] = n + l BY <1>0, <1>1, <1>3, <2>1
  <2> QED BY <1>0, <1>1, <1>4, <1>5, <2>2, <2>3
<1>6. CASE s # 0
  <2>1. s \in Nat /\ 1 <= s BY <1>2, <1>6, ShapeAssumption
  <2>2. TotalIo * 1 <= TotalIo * s /\ TotalIo * s \in Nat
    BY <1>0, <2>1, ProductMonotone
  <2>3. thread_bno[f] >= TotalIo
    <3> HIDE DEF TotalIo, l, s
    <3> QED BY <1>0, <1>1, <1>3, <2>2, ShapeAssumption
  <2> QED BY <1>0, <1>3, <1>4, <1>6, <2>3, <1>1, <2>2
<1> QED BY <1>5, <1>6

LEMMA ClaimStepClaim ==
    ASSUME TypeOK, ClaimAccount, NEW p \in Thr, Claim(p)
    PROVE  ClaimBalance(p[1])'
<1> DEFINE f == p[1]
<1>0. /\ f \in Files /\ p[2] \in Threads /\ p = <<f, p[2]>>
      /\ ClaimBalance(f) /\ TotalIo \in Nat /\ thread_bno[f] \in Nat
  BY ThrPairs, TotalIoType, WordAssumption DEF ClaimAccount, TypeOK
<1>1. PICK n \in 0 .. TotalIo : CounterIs(f, n) BY <1>0 DEF ClaimBalance
<1>2. /\ Take(p, thread_bno[f]) /\ signals' = signals
      /\ tpc[p] = "claim"
      /\ thread_bno'[f] = Add(thread_bno[f], 1)
  BY <1>0 DEF Claim, TypeOK
<1>3. CASE thread_bno[f] < TotalIo
  <2>1. thread_bno[f] = n /\ signals[f] = {} /\ Late(f) = {} /\ n < TotalIo
    BY <1>0, <1>1, <1>3, ClaimFinds
  <2>2. /\ claims' = [claims EXCEPT ![f][n] = @ + 1]
        /\ \E next \in Kinds : tpc' = [tpc EXCEPT ![p] = next]
    BY <1>2, <1>3, <2>1 DEF Take, Goes, Kinds
  <2>3. \A b \in Blocks : claims'[f][b] = B(b < n + 1)
    <3>1. n \in Blocks BY <1>0, <2>1 DEF Blocks
    <3>2. \A b \in Blocks : claims[f][b] = B(b < n) BY <1>1 DEF CounterIs
    <3>3. \A b \in Blocks : claims'[f][b] = IF b = n THEN claims[f][b] + 1
                                                    ELSE claims[f][b]
      BY <1>0, <2>2, <3>1 DEF TypeOK
    <3>4. \A b \in Blocks : (b < n + 1) <=> (b < n \/ b = n)
      BY <1>0 DEF Blocks
    <3> QED BY <3>2, <3>3, <3>4 DEF B, Blocks
  <2>4. Late(f)' = {} BY <1>0, <2>1, <2>2 DEF Late, TypeOK, Kinds
  <2>5. thread_bno'[f] = n + 1
    <3>1. n + 1 < Word
      <4>1. 1 <= NThreads /\ 1 \in 0 .. NThreads /\ 0 \in 0 .. 2 * NThreads
        BY ShapeAssumption
      <4>2. TotalIo * 0 = 0 BY <1>0
      <4> QED BY <1>0, <4>1, <4>2, CounterFits
    <3> QED BY <1>0, <1>2, <2>1, <3>1, AddExact
  <2>6. CounterIs(f, n + 1)'
    <3>1. signals'[f] = {} BY <1>2, <2>1
    <3>2. TotalIo * 0 = 0 BY <1>0
    <3>3. thread_bno'[f] = n + 1 + 0 + TotalIo * 0 BY <2>5, <3>2
    <3> QED BY <2>3, <2>4, <3>1, <3>3, FS_EmptySet DEF CounterIs, B
  <2>7. SignalOnce(f)' BY <1>2, <2>1 DEF SignalOnce
  <2>9. n + 1 \in 0 .. TotalIo BY <1>0, <2>1
  <2> QED BY <2>6, <2>7, <2>9 DEF ClaimBalance
<1>4. CASE ~(thread_bno[f] < TotalIo)
  <2>1. n = TotalIo \/ signals[f] # {} BY <1>0, <1>1, <1>4, ClaimFinds
  <2>2. tpc' = [tpc EXCEPT ![p] = "done"] /\ claims' = claims
    BY <1>2, <1>4 DEF Take, Goes
  <2>3. Late(f)' = Late(f) \cup {p[2]} /\ p[2] \notin Late(f)
    <3>1. \A t \in Threads :
             tpc'[<<f, t>>] = IF t = p[2] THEN "done" ELSE tpc[<<f, t>>]
      <4>1. \A t \in Threads : <<f, t>> \in Thr /\ (<<f, t>> = p <=> t = p[2])
        BY <1>0 DEF Thr
      <4> QED BY <2>2, <4>1 DEF TypeOK
    <3>2. tpc[<<f, p[2]>>] = "claim" BY <1>0, <1>2
    <3> QED BY <1>0, <3>1, <3>2 DEF Late
  <2>4. Cardinality(Late(f)') = Cardinality(Late(f)) + 1
    BY <1>0, <2>3, LateFinite, FS_AddElement
  <2> DEFINE l == Cardinality(Late(f))
             s == Cardinality(signals[f])
  <2>5. s \in 0 .. 2 * NThreads BY <1>0, SignalsFinite DEF TypeOK
  <2>6. l \in 0 .. NThreads /\ l + 1 \in 0 .. NThreads
    BY <1>0, <2>4, LateFinite
  <2>7. TotalIo * s \in Nat /\ n + (l + 1) + TotalIo * s < Word
    BY <2>5, <2>6, CounterFits
  <2>8. thread_bno[f] = n + l + TotalIo * s BY <1>1 DEF CounterIs
  <2>9. thread_bno'[f] = n + (l + 1) + TotalIo * s
    <3>1. thread_bno[f] + 1 = n + (l + 1) + TotalIo * s
      <4> HIDE DEF l, s, TotalIo
      <4> QED BY <2>6, <2>7, <2>8, <1>0, ShapeAssumption
    <3> QED BY <1>0, <1>2, <2>7, <3>1, AddExact
  <2>10. CounterIs(f, n)'
    <3>1. signals'[f] = signals[f] /\ claims'[f] = claims[f] BY <1>2, <2>2
    <3>2. \A b \in Blocks : claims'[f][b] = B(b < n)
      BY <1>1, <3>1 DEF CounterIs
    <3>3. thread_bno'[f] = n + Cardinality(Late(f)') + TotalIo * Cardinality(signals'[f])
      BY <2>4, <2>9, <3>1
    <3> QED BY <2>1, <3>1, <3>2, <3>3 DEF CounterIs, B
  <2>11. SignalOnce(f)'
    BY <1>0, <1>2, <2>2 DEF ClaimBalance, SignalOnce, TypeOK, Thr, Kinds
  <2> QED BY <2>10, <2>11 DEF ClaimBalance
<1> QED BY <1>3, <1>4

\* An I/O that asks the other threads of its file to stop, and returns.
LEMMA ClaimStepStop ==
    ASSUME TypeOK, ClaimAccount, NEW p \in Thr,
           NEW err, InIo(p), IoReturns(p, err) \/ IoReturnsFull(p, err), AskStop(p)
    PROVE  ClaimBalance(p[1])'
<1> DEFINE f == p[1]
           l == Cardinality(Late(f))
           s == Cardinality(signals[f])
<1>0. /\ f \in Files /\ p[2] \in Threads /\ p = <<f, p[2]>>
      /\ ClaimBalance(f) /\ TotalIo \in Nat
  BY ThrPairs, TotalIoType, WordAssumption DEF ClaimAccount
<1>1. PICK n \in 0 .. TotalIo : CounterIs(f, n) BY <1>0 DEF ClaimBalance
<1>2. /\ tpc[p] \in Kinds /\ claims' = claims
      /\ signals'[f] = signals[f] \cup {<<p[2], tpc[p]>>}
      /\ thread_bno'[f] = Add(thread_bno[f], TotalIo)
  BY <1>0 DEF InIo, AskStop, TypeOK
<1>3. \A t \in Threads :
         tpc'[<<f, t>>] = IF t # p[2] THEN tpc[<<f, t>>]
                          ELSE IF tpc[p] = "hdr" THEN "io" ELSE "claim"
  <2>1. \A t \in Threads : <<f, t>> \in Thr /\ (<<f, t>> = p <=> t = p[2])
    BY <1>0 DEF Thr
  <2> QED BY <2>1 DEF IoReturns, IoReturnsFull, Goes, TypeOK
<1>4. tpc[<<f, p[2]>>] \in {"hdr", "io"} BY <1>0, <1>2 DEF Kinds
<1>5. Late(f)' = Late(f) BY <1>3, <1>4 DEF Late
<1>6. <<p[2], tpc[p]>> \notin signals[f]
  BY <1>0, <1>2 DEF ClaimBalance, SignalOnce, Kinds
<1>7. /\ signals[f] \in SUBSET (Threads \X Kinds)
      /\ signals'[f] \in SUBSET (Threads \X Kinds)
  BY <1>0, <1>2 DEF TypeOK
<1>8. Cardinality(signals'[f]) = s + 1
  BY <1>2, <1>6, <1>7, SignalsFinite, FS_AddElement
<1>9. s \in 0 .. 2 * NThreads /\ s + 1 \in 0 .. 2 * NThreads
  BY <1>7, <1>8, SignalsFinite
<1>10. l \in 0 .. NThreads BY <1>0, LateFinite
<1>11. thread_bno[f] = n + l + TotalIo * s BY <1>1 DEF CounterIs
<1>12. /\ TotalIo * s \in Nat
       /\ n + l + TotalIo * (s + 1) \in Nat /\ n + l + TotalIo * (s + 1) < Word
  BY <1>9, <1>10, CounterFits
<1>13. TotalIo * (s + 1) = TotalIo * s + TotalIo
  <2>1. s \in Nat BY <1>9, ShapeAssumption
  <2> HIDE DEF s, TotalIo
  <2> QED BY <1>0, <2>1
<1>14. thread_bno'[f] = n + l + TotalIo * (s + 1)
  <2>1. thread_bno[f] \in Nat /\ thread_bno[f] + TotalIo = n + l + TotalIo * (s + 1)
    <3> HIDE DEF l, s, TotalIo
    <3> QED BY <1>0, <1>10, <1>11, <1>12, <1>13, ShapeAssumption
  <2> QED BY <1>0, <1>2, <1>12, <2>1, AddExact
<1>15. CounterIs(f, n)'
  <2>1. \A b \in Blocks : claims'[f][b] = B(b < n) BY <1>1, <1>2 DEF CounterIs
  <2>2. signals'[f] # {} BY <1>2
  <2>3. thread_bno'[f] = n + Cardinality(Late(f)') + TotalIo * Cardinality(signals'[f])
    BY <1>5, <1>8, <1>14
  <2> QED BY <2>1, <2>2, <2>3 DEF CounterIs, B
<1>16. SignalOnce(f)'
  BY <1>0, <1>2, <1>3, <1>4 DEF ClaimBalance, SignalOnce, Kinds
<1> QED BY <1>15, <1>16 DEF ClaimBalance

\* A step of thread p from one phase to another, neither of them a claim.
LEMMA ClaimStepGoes ==
    ASSUME TypeOK, ClaimAccount, NEW p \in Thr, NEW next, Goes(p, next),
           <<tpc[p], next>> \in {<<"init", "wait">>, <<"wait", "claim">>,
              <<"hdr", "io">>, <<"io", "claim">>, <<"done", "exit">>},
           UNCHANGED <<thread_bno, claims, signals>>
    PROVE  ClaimBalance(p[1])'
<1> DEFINE f == p[1]
<1>0. /\ f \in Files /\ p[2] \in Threads /\ p = <<f, p[2]>> /\ ClaimBalance(f)
  BY ThrPairs DEF ClaimAccount
<1>1. \A t \in Threads :
         tpc'[<<f, t>>] = IF t # p[2] THEN tpc[<<f, t>>] ELSE next
  <2>1. \A t \in Threads : <<f, t>> \in Thr /\ (<<f, t>> = p <=> t = p[2])
    BY <1>0 DEF Thr
  <2> QED BY <2>1 DEF Goes, TypeOK
<1>2. tpc[<<f, p[2]>>] = tpc[p] BY <1>0
<1>3. Late(f)' = Late(f) BY <1>1, <1>2 DEF Late
<1>4. SignalOnce(f)'
  BY <1>0, <1>1, <1>2 DEF ClaimBalance, SignalOnce, Kinds
<1> QED BY <1>0, <1>3, <1>4, ClaimFrame

LEMMA ClaimStepThread ==
    ASSUME TypeOK, ClaimAccount, NEW p \in Thr, Thread(p)
    PROVE  ClaimAccount'
<1>0. /\ p[1] \in Files /\ p[2] \in Threads /\ p = <<p[1], p[2]>>
      /\ \A f \in Files : ClaimBalance(f)
  BY ThrPairs DEF ClaimAccount
\* the other files
<1>1. ASSUME NEW f \in Files, f # p[1] PROVE ClaimBalance(f)'
  <2>1. /\ thread_bno'[f] = thread_bno[f] /\ claims'[f] = claims[f]
        /\ signals'[f] = signals[f]
    BY <1>0, <1>1 DEF Thread, ThreadInit, ThreadStart, Claim, Take,
       IoOk, IoFull, IoShort, IoFails, ThreadDone, InIo, AskStop, Abort, io, hist, TypeOK
  <2>2. \A q \in Thr \ {p} : tpc'[q] = tpc[q]
    BY DEF Thread, ThreadInit, ThreadStart, Claim, Take,
       IoOk, IoFull, IoShort, IoFails, ThreadDone, InIo, IoReturns,
       IoReturnsFull, Abort, Goes, TypeOK
  <2>3. \A t \in Threads : <<f, t>> \in Thr \ {p} BY <1>0, <1>1 DEF Thr
  <2> QED BY <1>0, <2>1, <2>2, <2>3, ClaimOtherFile
<1>2. ASSUME UNCHANGED <<tpc, thread_bno, claims, signals>>
      PROVE  ClaimBalance(p[1])'
  BY <1>0, <1>2, ClaimOtherFile
<1>3. ClaimBalance(p[1])'
  <2>1. CASE ThreadInit(p)
    BY <2>1, ClaimStepGoes DEF ThreadInit, io, hist
  <2>2. CASE ThreadStart(p)
    BY <2>2, ClaimStepGoes DEF ThreadStart, io, hist
  <2>3. CASE Claim(p) BY <2>3, ClaimStepClaim
  <2>6. ASSUME InIo(p), NEW err, IoReturns(p, err), UNCHANGED <<thread_bno, signals>>
        PROVE  ClaimBalance(p[1])'
    BY <2>6, ClaimStepGoes DEF InIo, IoReturns, Kinds
  <2>7. CASE IoOk(p)
    <3>1. CASE UNCHANGED <<thread_bno, signals>> BY <2>6, <2>7, <3>1 DEF IoOk
    <3>2. CASE AskStop(p) BY <2>7, <3>2, ClaimStepStop DEF IoOk
    <3> QED BY <2>7, <3>1, <3>2 DEF IoOk
  <2>8. CASE IoFull(p) BY <2>8, ClaimStepStop DEF IoFull
  <2>9. CASE IoShort(p)
    <3>1. CASE errno[p] \in {"zero", "nospc"}
      BY <2>9, <3>1, ClaimStepStop DEF IoShort
    <3>2. CASE errno[p] \notin {"zero", "nospc"}
      BY <1>2, <2>9, <3>2 DEF IoShort, Abort, InIo
    <3> QED BY <3>1, <3>2
  <2>10. CASE IoFails(p) BY <1>2, <2>10 DEF IoFails, Abort, InIo
  <2>11. CASE ThreadDone(p)
    BY <2>11, ClaimStepGoes DEF ThreadDone, io, hist
  <2> QED BY <2>1, <2>2, <2>3, <2>7, <2>8, <2>9, <2>10, <2>11
          DEF Thread
<1> QED BY <1>1, <1>3 DEF ClaimAccount

LEMMA ClaimStep ==
    ASSUME TypeOK, SemaphoreAccount, ClaimAccount, [Next]_vars
    PROVE  ClaimAccount'
<1>1. CASE \E p \in Thr : Thread(p) BY <1>1, ClaimStepThread
<1>2. CASE UNCHANGED <<tpc, thread_bno, claims, signals>>
  BY <1>2, ClaimOtherFile DEF ClaimAccount
<1>3. CASE Main
  BY <1>2, <1>3 DEF Main, MainCreate, MainGather, MainGo, MainFinish, MainExit, OutputFails, io, hist
<1>4. CASE CreateFails BY <1>2, <1>4 DEF CreateFails, io
<1>5. CASE \E f \in Files : Expire(f) BY <1>2, <1>5 DEF Expire, io, hist
<1>6. CASE UNCHANGED vars BY <1>2, <1>6 DEF vars, io, hist
<1>7. ASSUME NEW g \in Files, File(g) PROVE ClaimAccount'
  <2>1. CASE FileCreate(g)
    \* the thread created was "new" and becomes "init"
    <3> SUFFICES ASSUME NEW f \in Files PROVE ClaimBalance(f)'
      BY DEF ClaimAccount
    <3>1. At(g) \in Thr /\ ClaimBalance(f) /\ fi[g] \in Threads
      BY DEF ClaimAccount, At, Thr, TypeOK
    <3>2. tpc[At(g)] = "new"
      <4>1. ~Created(g, fi[g])
        BY <2>1, <3>1, FileLoopStep DEF FileCreate, SemaphoreAccount
      <4> QED BY <3>1, <4>1 DEF SemaphoreAccount, ThreadAccount, ThreadBalance, At
    <3>3. tpc' = [tpc EXCEPT ![At(g)] = "init"]
          /\ UNCHANGED <<thread_bno, claims, signals>>
      BY <2>1 DEF FileCreate, io, hist
    <3>4. \A q \in Thr : tpc'[q] = IF q = At(g) THEN "init" ELSE tpc[q]
      BY <3>3 DEF TypeOK
    <3>5. \A t \in Threads : <<f, t>> \in Thr BY DEF Thr
    <3>6. Late(f)' = Late(f) BY <3>2, <3>4, <3>5 DEF Late
    <3>7. SignalOnce(f)'
      <4>1. \A t \in Threads :
               tpc'[<<f, t>>] \in Kinds => tpc'[<<f, t>>] = tpc[<<f, t>>]
        BY <3>4, <3>5 DEF Kinds
      <4>2. SignalOnce(f) /\ signals'[f] = signals[f]
        BY <3>1, <3>3 DEF ClaimBalance
      <4> QED BY <4>1, <4>2 DEF SignalOnce, Kinds
    <3> QED BY <3>1, <3>3, <3>6, <3>7, ClaimFrame
  <2>2. CASE ~FileCreate(g)
    BY <1>2, <1>7, <2>2 DEF File, FileGather, FileReady, FileStart, FileGo,
       FileFinish, FileDone, io, hist
  <2> QED BY <2>1, <2>2
<1> QED BY <1>1, <1>3, <1>4, <1>5, <1>6, <1>7 DEF Next, Ended

\* With atomic claims, thread_bno always equals the blocks claimed, the late
\* claims and TotalIo for every stop: it never wraps and never skips a block.
THEOREM ClaimsAccounted ==
    Spec => []ClaimAccount
<1>1. Init => ClaimAccount BY ClaimInit
<1>2. TypeOK /\ SemaphoreAccount /\ ClaimAccount /\ [Next]_vars => ClaimAccount'
  BY ClaimStep
<1> QED BY <1>1, <1>2, TypeCorrect, SemaphoresAccounted, PTL DEF Spec

\* No block of a file is written by two I/O threads, for any number of threads,
\* blocks and stops.
THEOREM BlockOnce ==
    Spec => []EachBlockOnce
<1>1. ClaimAccount => EachBlockOnce
  BY DEF ClaimAccount, ClaimBalance, CounterIs, EachBlockOnce, B
<1> QED BY <1>1, ClaimsAccounted, PTL

\* The blocks claimed are always a prefix of the file, for any number of threads.
THEOREM Sequential ==
    Spec => []SequentialFill
<1>1. ClaimAccount => SequentialFill
  <2> SUFFICES ASSUME ClaimAccount, NEW f \in Files, NEW b \in Blocks,
                      claims[f][b] > 0, NEW c \in 0 .. b
               PROVE  claims[f][c] > 0
    BY DEF SequentialFill
  <2>1. PICK n \in 0 .. TotalIo : CounterIs(f, n) BY DEF ClaimAccount, ClaimBalance
  <2>2. b < n BY <2>1 DEF CounterIs, B
  <2>3. c \in Blocks /\ c < n BY <2>2, TotalIoType DEF Blocks
  <2> QED BY <2>1, <2>3 DEF CounterIs, B
<1> QED BY <1>1, ClaimsAccounted, PTL

\* After a stop has been asked for in a file, nobody claims a block of it.
THEOREM StopHolds ==
    Spec => StopIsFinal
<1>1. TypeOK /\ ClaimAccount /\ [Next]_vars =>
        [\A f \in Files : signals[f] # {} => claims'[f] = claims[f]]_vars
  <2> SUFFICES ASSUME TypeOK, ClaimAccount, Next, NEW f \in Files, signals[f] # {}
               PROVE  claims'[f] = claims[f]
    OBVIOUS
  <2>1. PICK n \in 0 .. TotalIo : CounterIs(f, n) BY DEF ClaimAccount, ClaimBalance
  <2>2. ~(thread_bno[f] < TotalIo) BY <2>1, ClaimFinds
  <2>3. ASSUME NEW p \in Thr, Thread(p) PROVE claims'[f] = claims[f]
    <3>1. CASE Claim(p) BY <2>2, <3>1, ThrPairs DEF Claim, Take, TypeOK
    <3>2. CASE ~Claim(p)
      BY <2>3, <3>2 DEF Thread, ThreadInit, ThreadStart, IoOk, IoFull,
         IoShort, IoFails, ThreadDone, InIo, hist
    <3> QED BY <3>1, <3>2
  <2>4. CASE \E p \in Thr : Thread(p) BY <2>3, <2>4
  <2>5. CASE \/ Main \/ CreateFails \/ Ended
             \/ \E g \in Files : File(g) \/ Expire(g)
    BY <2>5 DEF Main, MainCreate, MainGather, MainGo, MainFinish, MainExit, OutputFails,
       CreateFails, Ended, vars, hist, Expire, File, FileCreate, FileGather,
       FileReady, FileStart, FileGo, FileFinish, FileDone
  <2> QED BY <2>4, <2>5 DEF Next
<1> QED BY <1>1, TypeCorrect, ClaimsAccounted, PTL DEF Spec, StopIsFinal

-----------------------------------------------------------------------------
(***************************************************************************)
(* What becomes of the blocks of a fill: no claimed block is forgotten, a  *)
(* fill that nobody stops is complete when the results are printed, and a  *)
(* run of iofill implements the pool of work of WorkPool.                  *)
(***************************************************************************)
\* Steps that matter to no block: nobody claims, starts or ends an I/O.
Idle ==
    /\ UNCHANGED <<bno, claims, signals, written>>
    /\ \A q \in Thr : \/ tpc'[q] = tpc[q]
                      \/ tpc[q] \notin Kinds /\ tpc'[q] \notin Kinds

\* An I/O that met the full target.
Stopped(p) ==
    /\ InIo(p)
    /\ \E err : IoReturnsFull(p, err)
    /\ AskStop(p)
    /\ UNCHANGED written

Claimed(p) == Claim(p) /\ thread_bno[p[1]] < TotalIo

Busy(p) == Claimed(p) \/ IoOk(p) \/ Stopped(p)

LEMMA PhaseChange ==
    ASSUME TypeOK, NEW p \in Thr, NEW next, tpc[p] \notin Kinds, next \notin Kinds,
           Goes(p, next), UNCHANGED <<bno, claims, signals, written>>
    PROVE  Idle
BY DEF Idle, Goes, TypeOK

LEMMA IdleThread ==
    ASSUME TypeOK, NEW p \in Thr, Thread(p)
    PROVE  Idle \/ Busy(p)
<1>1. CASE ThreadInit(p)
  BY <1>1, PhaseChange DEF ThreadInit, Kinds, io, hist
<1>2. CASE ThreadStart(p)
  BY <1>2, PhaseChange DEF ThreadStart, Kinds, io, hist
<1>3. CASE Claim(p)
  <2>1. CASE thread_bno[p[1]] < TotalIo BY <1>3, <2>1 DEF Busy, Claimed
  <2>2. CASE ~(thread_bno[p[1]] < TotalIo)
    BY <1>3, <2>2, PhaseChange DEF Claim, Take, Kinds
  <2> QED BY <2>1, <2>2
<1>4. CASE IoOk(p) BY <1>4 DEF Busy
<1>5. CASE IoFull(p) BY <1>5 DEF IoFull, Busy, Stopped
<1>6. CASE IoShort(p)
  <2>1. CASE errno[p] \in {"zero", "nospc"}
    BY <1>6, <2>1 DEF IoShort, Busy, Stopped
  <2>2. CASE errno[p] \notin {"zero", "nospc"}
    BY <1>6, <2>2 DEF IoShort, Abort, InIo, Idle
  <2> QED BY <2>1, <2>2
<1>7. CASE IoFails(p) BY <1>7 DEF IoFails, Abort, InIo, Idle
<1>8. CASE ThreadDone(p)
  BY <1>8, PhaseChange DEF ThreadDone, Kinds, io, hist
<1> QED BY <1>1, <1>2, <1>3, <1>4, <1>5, <1>6, <1>7, <1>8 DEF Thread

LEMMA IdleFile ==
    ASSUME TypeOK, SemaphoreAccount, NEW g \in Files, File(g)
    PROVE  Idle
<1>1. CASE FileCreate(g)
  <2>1. At(g) \in Thr /\ fi[g] \in Threads BY DEF At, Thr, TypeOK
  <2>2. ~Created(g, fi[g])
    BY <1>1, <2>1, FileLoopStep DEF FileCreate, SemaphoreAccount
  <2>3. tpc[At(g)] = "new"
    BY <2>1, <2>2 DEF SemaphoreAccount, ThreadAccount, ThreadBalance, At
  <2> QED BY <1>1, <2>1, <2>3 DEF FileCreate, Idle, TypeOK, Kinds, io, hist
<1>2. CASE ~FileCreate(g)
  BY <1>2 DEF File, FileGather, FileReady, FileStart, FileGo,
     FileFinish, FileDone, io, hist, Idle
<1> QED BY <1>1, <1>2

LEMMA StepCases ==
    ASSUME TypeOK, SemaphoreAccount, [Next]_vars
    PROVE  Idle \/ \E p \in Thr : Busy(p)
<1>1. CASE Main
  BY <1>1 DEF Main, MainCreate, MainGather, MainGo, MainFinish, MainExit, OutputFails, io, hist, Idle
<1>2. CASE CreateFails BY <1>2 DEF CreateFails, io, Idle
<1>3. CASE \E f \in Files : File(f) BY <1>3, IdleFile
<1>4. CASE \E f \in Files : Expire(f) BY <1>4 DEF Expire, io, hist, Idle
<1>5. CASE \E p \in Thr : Thread(p) BY <1>5, IdleThread
<1>6. CASE UNCHANGED vars BY <1>6 DEF vars, io, hist, Idle
<1> QED BY <1>1, <1>2, <1>3, <1>4, <1>5, <1>6 DEF Next, Ended

-----------------------------------------------------------------------------
LEMMA UnitsOf ==
    /\ \A u \in Units : u[1] \in Blocks /\ u = <<u[1], u[2]>> /\ u[2] \in Kinds
    /\ \A b \in Blocks : <<b, "io">> \in Units
    /\ \A b \in Blocks : <<b, "hdr">> \in Units <=> StartsRep(b)
<1>1. \A u \in HeaderUnits : \E b \in Blocks : StartsRep(b) /\ u = <<b, "hdr">>
  BY DEF HeaderUnits
<1>2. \A u \in BlockUnits : \E b \in Blocks : u = <<b, "io">> BY DEF BlockUnits
<1>3. \A b \in Blocks : <<b, "io">> \in Units BY DEF Units, BlockUnits
<1>4. \A b \in Blocks : StartsRep(b) => <<b, "hdr">> \in Units
  BY DEF Units, HeaderUnits
<1>5. ASSUME NEW b \in Blocks, <<b, "hdr">> \in Units PROVE StartsRep(b)
  BY <1>1, <1>2, <1>5 DEF Units
<1> QED BY <1>1, <1>2, <1>3, <1>4, <1>5 DEF Units, Kinds

LEMMA WorkInit == Init => WorkAccount
<1> SUFFICES ASSUME Init, NEW f \in Files PROVE FileWork(f) BY DEF WorkAccount
<1>1. \A t \in Threads : <<f, t>> \in Thr BY DEF Thr
<1>2. \A t \in Threads : tpc[<<f, t>>] \notin Kinds BY <1>1 DEF Init, Kinds
<1>3. \A u \in Units : ~(claims[f][u[1]] > 0) BY UnitsOf DEF Init
<1>4. written[f] = {} BY DEF Init
<1> QED BY <1>2, <1>3, <1>4 DEF FileWork

\* A file whose claims, stops and results stay as they are.
LEMMA WorkFrame ==
    ASSUME NEW f \in Files, FileWork(f), claims'[f] = claims[f],
           signals'[f] = signals[f], written'[f] = written[f],
           \A t \in Threads :
              \/ tpc'[<<f, t>>] = tpc[<<f, t>>] /\ bno'[<<f, t>>] = bno[<<f, t>>]
              \/ tpc[<<f, t>>] \notin Kinds /\ tpc'[<<f, t>>] \notin Kinds
    PROVE  FileWork(f)'
<1>1. \A u, t : t \in Threads /\ InHand(f, t, u) => InHand(f, t, u)'
  BY DEF InHand, Kinds
<1> QED BY <1>1 DEF FileWork

LEMMA WorkIdle ==
    ASSUME WorkAccount, Idle
    PROVE  WorkAccount'
<1> SUFFICES ASSUME NEW f \in Files PROVE FileWork(f)' BY DEF WorkAccount
<1>1. \A t \in Threads : <<f, t>> \in Thr BY DEF Thr
<1> QED BY <1>1, WorkFrame DEF Idle, WorkAccount

\* What a step of a busy thread leaves alone.
LEMMA BusyOthers ==
    ASSUME TypeOK, NEW p \in Thr, Busy(p)
    PROVE  /\ \A q \in Thr \ {p} : tpc'[q] = tpc[q] /\ bno'[q] = bno[q]
           /\ \A f \in Files \ {p[1]} : /\ claims'[f] = claims[f]
                                        /\ signals'[f] = signals[f]
                                        /\ written'[f] = written[f]
<1>0. p[1] \in Files BY ThrPairs
<1> QED BY <1>0 DEF Busy, Claimed, Claim, Take, Stopped, IoOk, InIo, IoReturns,
        IoReturnsFull, AskStop, Goes, TypeOK

LEMMA WorkClaimed ==
    ASSUME NEW p \in Thr, TypeOK, FileWork(p[1]), Claimed(p)
    PROVE  FileWork(p[1])'
<1> DEFINE f == p[1]  b == thread_bno[f]  t0 == p[2]
<1>0. f \in Files /\ t0 \in Threads /\ p = <<f, t0>> BY ThrPairs
<1>1. b \in Blocks BY <1>0, TotalIoType, WordAssumption DEF Claimed, Blocks, TypeOK
<1>2. /\ tpc[<<f, t0>>] = "claim"
      /\ bno'[<<f, t0>>] = b
      /\ tpc'[<<f, t0>>] = IF StartsRep(b) THEN "hdr" ELSE "io"
      /\ claims'[f] = [claims[f] EXCEPT ![b] = @ + 1]
      /\ signals' = signals /\ written' = written
  <2>1. /\ tpc[p] = "claim" /\ signals' = signals /\ written' = written
        /\ bno' = [bno EXCEPT ![p] = b]
        /\ tpc' = [tpc EXCEPT ![p] = IF StartsRep(b) THEN "hdr" ELSE "io"]
        /\ claims' = [claims EXCEPT ![f][b] = @ + 1]
    BY DEF Claimed, Claim, Take, Goes
  <2>2. tpc[<<f, t0>>] = "claim" BY <1>0, <2>1
  <2>3. bno'[p] = b /\ tpc'[p] = IF StartsRep(b) THEN "hdr" ELSE "io"
    BY <2>1 DEF TypeOK
  <2>4. claims'[f] = [claims[f] EXCEPT ![b] = @ + 1]
    BY <1>0, <2>1 DEF TypeOK
  <2> QED BY <1>0, <2>1, <2>2, <2>3, <2>4
<1>3. \A t \in Threads \ {t0} : /\ tpc'[<<f, t>>] = tpc[<<f, t>>]
                                /\ bno'[<<f, t>>] = bno[<<f, t>>]
  <2>1. \A t \in Threads \ {t0} : <<f, t>> \in Thr \ {p} BY <1>0 DEF Thr
  <2> QED BY <2>1, BusyOthers DEF Busy
<1>4. ASSUME NEW t \in Threads, tpc'[<<f, t>>] \in Kinds
      PROVE  bno'[<<f, t>>] \in Blocks /\ <<bno'[<<f, t>>], tpc'[<<f, t>>]>> \in Units
  <2>1. CASE t = t0 BY <1>1, <1>2, <2>1, UnitsOf
  <2>2. CASE t # t0 BY <1>3, <1>4, <2>2 DEF FileWork
  <2> QED BY <2>1, <2>2
<1>5. ASSUME signals'[f] = {}, NEW u \in Units, claims'[f][u[1]] > 0
      PROVE  u \in written'[f] \/ \E t \in Threads : InHand(f, t, u)'
  <2>0. u[1] \in Blocks /\ u = <<u[1], u[2]>> /\ u[2] \in Kinds BY UnitsOf
  <2>1. CASE u[1] = b
    <3>1. InHand(f, t0, u)'
      BY <1>1, <1>2, <2>0, <2>1, UnitsOf DEF InHand, Kinds
    <3> QED BY <1>0, <3>1
  <2>2. CASE u[1] # b
    <3>1. claims[f][u[1]] > 0 BY <1>0, <1>2, <1>5, <2>0, <2>2 DEF TypeOK
    <3>2. u \in written[f] \/ \E t \in Threads : InHand(f, t, u)
      BY <1>2, <1>5, <3>1 DEF FileWork
    <3>3. ASSUME NEW t \in Threads, InHand(f, t, u) PROVE InHand(f, t, u)'
      BY <1>2, <1>3, <3>3 DEF InHand
    <3> QED BY <1>2, <3>2, <3>3
  <2> QED BY <2>1, <2>2
<1>6. written'[f] \subseteq Units BY <1>2 DEF FileWork
<1> QED BY <1>4, <1>5, <1>6 DEF FileWork

\* An I/O that ends without an error.
LEMMA WorkOk ==
    ASSUME NEW p \in Thr, TypeOK, FileWork(p[1]), IoOk(p)
    PROVE  FileWork(p[1])'
<1> DEFINE f == p[1]  t0 == p[2]
<1>0. f \in Files /\ t0 \in Threads /\ p = <<f, t0>> BY ThrPairs
<1>1. /\ tpc[<<f, t0>>] \in Kinds
      /\ bno' = bno /\ claims' = claims
      /\ tpc'[<<f, t0>>] = IF tpc[<<f, t0>>] = "hdr" THEN "io" ELSE "claim"
      /\ written'[f] = written[f] \cup {<<bno[<<f, t0>>], tpc[<<f, t0>>]>>}
  BY <1>0 DEF IoOk, InIo, IoReturns, Goes, Unit, TypeOK
<1>2. signals'[f] = {} => signals[f] = {}
  BY <1>0 DEF IoOk, AskStop, TypeOK
<1>3. \A t \in Threads \ {t0} : tpc'[<<f, t>>] = tpc[<<f, t>>]
  <2>1. \A t \in Threads \ {t0} : <<f, t>> \in Thr \ {p} BY <1>0 DEF Thr
  <2> QED BY <2>1, BusyOthers DEF Busy
<1>4. /\ bno[<<f, t0>>] \in Blocks
      /\ <<bno[<<f, t0>>], tpc[<<f, t0>>]>> \in Units
  BY <1>0, <1>1 DEF FileWork
<1>5. ASSUME NEW t \in Threads, tpc'[<<f, t>>] \in Kinds
      PROVE  bno'[<<f, t>>] \in Blocks /\ <<bno'[<<f, t>>], tpc'[<<f, t>>]>> \in Units
  <2>1. CASE t = t0 BY <1>1, <1>4, <1>5, <2>1, UnitsOf DEF Kinds
  <2>2. CASE t # t0 BY <1>1, <1>3, <1>5, <2>2 DEF FileWork
  <2> QED BY <2>1, <2>2
<1>6. ASSUME signals'[f] = {}, NEW u \in Units, claims'[f][u[1]] > 0
      PROVE  u \in written'[f] \/ \E t \in Threads : InHand(f, t, u)'
  <2>1. u = <<u[1], u[2]>> /\ u[2] \in Kinds BY UnitsOf
  <2>2. u \in written[f] \/ \E t \in Threads : InHand(f, t, u)
    BY <1>1, <1>2, <1>6 DEF FileWork
  <2>3. ASSUME NEW t \in Threads, InHand(f, t, u)
        PROVE  u \in written'[f] \/ InHand(f, t, u)'
    <3>1. CASE t # t0 BY <1>1, <1>3, <2>3, <3>1 DEF InHand
    <3>2. CASE t = t0 /\ tpc[<<f, t0>>] = "hdr"
      BY <1>1, <2>1, <2>3, <3>2 DEF InHand, Kinds
    <3>3. CASE t = t0 /\ tpc[<<f, t0>>] = "io"
      BY <1>1, <2>1, <2>3, <3>3 DEF InHand
    <3> QED BY <2>3, <3>1, <3>2, <3>3 DEF InHand
  <2> QED BY <1>1, <2>2, <2>3
<1>7. written'[f] \subseteq Units BY <1>1, <1>4 DEF FileWork
<1> QED BY <1>5, <1>6, <1>7 DEF FileWork

LEMMA WorkStopped ==
    ASSUME NEW p \in Thr, TypeOK, FileWork(p[1]), Stopped(p)
    PROVE  FileWork(p[1])'
<1> DEFINE f == p[1]  t0 == p[2]
<1>0. f \in Files /\ t0 \in Threads /\ p = <<f, t0>> BY ThrPairs
<1>1. /\ tpc[<<f, t0>>] \in Kinds
      /\ bno' = bno /\ written' = written
      /\ tpc'[<<f, t0>>] = IF tpc[<<f, t0>>] = "hdr" THEN "io" ELSE "claim"
      /\ signals'[f] # {}
  BY <1>0 DEF Stopped, InIo, IoReturnsFull, AskStop, Goes, TypeOK
<1>2. \A t \in Threads \ {t0} : tpc'[<<f, t>>] = tpc[<<f, t>>]
  <2>1. \A t \in Threads \ {t0} : <<f, t>> \in Thr \ {p} BY <1>0 DEF Thr
  <2> QED BY <2>1, BusyOthers DEF Busy
<1>3. ASSUME NEW t \in Threads, tpc'[<<f, t>>] \in Kinds
      PROVE  bno'[<<f, t>>] \in Blocks /\ <<bno'[<<f, t>>], tpc'[<<f, t>>]>> \in Units
  <2>1. CASE t = t0
    <3>1. bno[<<f, t0>>] \in Blocks BY <1>0, <1>1 DEF FileWork
    <3> QED BY <1>1, <1>3, <2>1, <3>1, UnitsOf DEF Kinds
  <2>2. CASE t # t0 BY <1>1, <1>2, <1>3, <2>2 DEF FileWork
  <2> QED BY <2>1, <2>2
<1>4. written'[f] \subseteq Units BY <1>1 DEF FileWork
<1> QED BY <1>1, <1>3, <1>4 DEF FileWork

LEMMA WorkStep ==
    ASSUME TypeOK, SemaphoreAccount, WorkAccount, [Next]_vars
    PROVE  WorkAccount'
<1>1. CASE Idle BY <1>1, WorkIdle
<1>2. ASSUME NEW p \in Thr, Busy(p) PROVE WorkAccount'
  <2> SUFFICES ASSUME NEW f \in Files PROVE FileWork(f)' BY DEF WorkAccount
  <2>1. p[1] \in Files /\ FileWork(f) /\ FileWork(p[1])
    BY ThrPairs DEF WorkAccount
  <2>2. CASE f = p[1]
    BY <1>2, <2>1, <2>2, WorkClaimed, WorkOk, WorkStopped DEF Busy
  <2>3. CASE f # p[1]
    <3>1. \A t \in Threads : <<f, t>> \in Thr \ {p} BY <2>3 DEF Thr
    <3> QED BY <1>2, <2>1, <2>3, <3>1, BusyOthers, WorkFrame
  <2> QED BY <2>2, <2>3
<1> QED BY <1>1, <1>2, StepCases

\* Every claim and every stop is in the counter of its file, and until a stop is
\* asked for every claimed block, with the header before it, is written or in the
\* hands of a thread of io_thread.
THEOREM FillAccounted == Spec => []FillAccount
<1>1. Init => WorkAccount BY WorkInit
<1>2. TypeOK /\ SemaphoreAccount /\ WorkAccount /\ [Next]_vars => WorkAccount'
  BY WorkStep
<1>3. ClaimAccount /\ WorkAccount => FillAccount BY DEF FillAccount
<1> QED BY <1>1, <1>2, <1>3, TypeCorrect, SemaphoresAccounted, ClaimsAccounted,
           PTL DEF Spec

-----------------------------------------------------------------------------
LEMMA CompleteFromAccounts ==
    ASSUME TypeOK, ClaimAccount, WorkAccount, OutputQuiescent
    PROVE  CompleteFill
<1> SUFFICES ASSUME mpc = "output", NEW f \in Files, signals[f] = {}
             PROVE  written[f] = Units
  BY DEF CompleteFill, Units
<1>1. \A t \in Threads : tpc[<<f, t>>] = "exit"
  BY DEF OutputQuiescent, Thr
<1>2. PICK n \in 0 .. TotalIo : CounterIs(f, n) BY DEF ClaimAccount, ClaimBalance
<1>3. n = TotalIo
  <2>1. 0 \in Threads BY ShapeAssumption DEF Threads
  <2>2. 0 \in Late(f) BY <1>1, <2>1 DEF Late
  <2> QED BY <1>2, <2>2 DEF CounterIs
<1>4. \A b \in Blocks : claims[f][b] > 0
  BY <1>2, <1>3, TotalIoType, WordAssumption DEF CounterIs, B, Blocks
<1>5. FileWork(f) BY DEF WorkAccount
<1>6. ASSUME NEW u \in Units PROVE u \in written[f]
  <2>1. u \in written[f] \/ \E t \in Threads : InHand(f, t, u)
    BY <1>4, <1>5, UnitsOf DEF FileWork
  <2> QED BY <1>1, <2>1 DEF InHand
<1> QED BY <1>5, <1>6 DEF FileWork

\* When the results are printed, a file whose fill nobody stopped is complete:
\* every block and the header of every repetition has been written.
THEOREM Complete == Spec => []CompleteFill
<1>1. TypeOK /\ OutputQuiescent /\ FillAccount => CompleteFill
  BY CompleteFromAccounts DEF FillAccount
<1> QED BY <1>1, TypeCorrect, Quiescent, FillAccounted, PTL

-----------------------------------------------------------------------------
(***************************************************************************)
(* The refinement: every step of iofill is a step of the pool or changes   *)
(* nothing that the pool shows.                                            *)
(***************************************************************************)
Reported == mpc \in {"output", "exit"}

LEMMA PoolInit == Init => Pool!Init
<1> SUFFICES ASSUME Init PROVE Pool!Init OBVIOUS
<1>1. Given = [f \in Files |-> {}] BY DEF Init, Given
<1>2. Held = [p \in Thr |-> {}] BY DEF Init, Held, Kinds
<1>3. Done = [f \in Files |-> {}] BY DEF Init, Done
<1>4. Closed = [f \in Files |-> FALSE] BY DEF Init, Closed
<1>5. (mpc \in {"output", "exit"}) = FALSE BY DEF Init
<1> QED BY <1>1, <1>2, <1>3, <1>4, <1>5 DEF Pool!Init

LEMMA IdlePool ==
    ASSUME Idle
    PROVE  UNCHANGED <<Given, Held, Done, Closed>>
<1>1. Held' = Held BY DEF Idle, Held
<1> QED BY <1>1 DEF Idle, Given, Done, Closed

\* The step of runtest that begins the report.
LEMMA ReportStep ==
    ASSUME TypeOK, OutputQuiescent', CompleteFill', Idle, mpc' = "output",
           ~Reported
    PROVE  Pool!Report
<1>1. UNCHANGED <<Given, Held, Done, Closed>> BY IdlePool
<1>2. \A p \in Thr : Held[p] = {}
  <2>1. \A p \in Thr : tpc'[p] = "exit" BY DEF OutputQuiescent
  <2>2. \A p \in Thr : Held'[p] = {} BY <2>1 DEF Held, Kinds
  <2> QED BY <1>1, <2>2
<1>3. ASSUME NEW f \in Files PROVE Closed[f] \/ Done[f] = Blocks
  <2>1. signals[f] = {} => written'[f] = Units
    BY DEF CompleteFill, Idle, Units
  <2>2. signals[f] = {} => Done[f] = Blocks
    BY <2>1, UnitsOf DEF Done, Idle
  <2> QED BY <2>2 DEF Closed
<1>4. (mpc \in {"output", "exit"})' = TRUE OBVIOUS
<1> QED BY <1>1, <1>2, <1>3, <1>4 DEF Pool!Report

LEMMA IdleReport ==
    ASSUME TypeOK, [Next]_vars
    PROVE  Reported' # Reported => mpc' = "output" /\ ~Reported
<1>1. CASE Main
  BY <1>1 DEF Main, MainCreate, MainGather, MainGo, MainFinish, MainExit, OutputFails, MainLoop,
     Leaves, Reported
<1>2. CASE UNCHANGED mpc BY <1>2 DEF Reported
<1>3. CASE \/ CreateFails \/ \E f \in Files : File(f) \/ Expire(f)
           \/ \E p \in Thr : Thread(p)
  BY <1>2, <1>3 DEF CreateFails, File, FileCreate, FileGather, FileReady, FileStart,
     FileGo, FileFinish, FileDone, Expire, Thread, ThreadInit, ThreadStart, Claim,
     IoOk, IoFull, IoShort, IoFails, ThreadDone, InIo
<1> QED BY <1>1, <1>2, <1>3 DEF Next, Ended, vars

LEMMA BusyReport ==
    ASSUME NEW p \in Thr, Busy(p)
    PROVE  mpc' = mpc
BY DEF Busy, Claimed, Claim, Stopped, IoOk, InIo

\* What the end or the beginning of an I/O of thread p changes of Held.
LEMMA HeldChange ==
    ASSUME TypeOK, NEW p \in Thr, Busy(p), NEW S,
           S = IF tpc'[p] \in Kinds THEN {bno'[p]} ELSE {}
    PROVE  Held' = [Held EXCEPT ![p] = S]
<1>1. \A q \in Thr \ {p} : tpc'[q] = tpc[q] /\ bno'[q] = bno[q] BY BusyOthers
<1> QED BY <1>1 DEF Held

LEMMA ClosedChange ==
    ASSUME TypeOK, NEW p \in Thr, AskStop(p)
    PROVE  Closed' = [Closed EXCEPT ![p[1]] = TRUE]
<1>1. p[1] \in Files BY ThrPairs
<1>2. /\ signals'[p[1]] # {}
      /\ \A f \in Files \ {p[1]} : signals'[f] = signals[f]
  BY <1>1 DEF AskStop, TypeOK
<1> QED BY <1>1, <1>2 DEF Closed

LEMMA ClaimedPool ==
    ASSUME TypeOK, ClaimAccount, NEW p \in Thr, Claimed(p)
    PROVE  \E b \in Blocks : Pool!Take(p, b)
<1> DEFINE f == p[1]  b == thread_bno[f]
<1>0. f \in Files BY ThrPairs
<1>1. b \in Blocks BY <1>0, TotalIoType, WordAssumption DEF Claimed, Blocks, TypeOK
<1>2. PICK n \in 0 .. TotalIo : CounterIs(f, n)
  BY <1>0 DEF ClaimAccount, ClaimBalance
<1>3. b = n /\ signals[f] = {} BY <1>0, <1>2, ClaimFinds DEF Claimed
<1>4. Given[f] = 0 .. b - 1
  <2>1. \A c \in Blocks : claims[f][c] > 0 <=> c < n BY <1>2 DEF CounterIs, B
  <2>2. Given[f] = {c \in Blocks : c < b} BY <1>0, <1>3, <2>1 DEF Given
  <2>3. TotalIo \in Nat /\ b \in Nat /\ b < TotalIo
    BY <1>1, TotalIoType, WordAssumption DEF Blocks
  <2>4. {c \in Blocks : c < b} = 0 .. b - 1 BY <2>3 DEF Blocks
  <2> QED BY <2>2, <2>4
<1>5. /\ tpc[p] = "claim" /\ signals' = signals /\ written' = written
      /\ bno' = [bno EXCEPT ![p] = b]
      /\ tpc' = [tpc EXCEPT ![p] = IF StartsRep(b) THEN "hdr" ELSE "io"]
      /\ claims' = [claims EXCEPT ![f][b] = @ + 1]
  BY DEF Claimed, Claim, Take, Goes
<1>6. Held[p] = {} BY <1>5 DEF Held, Kinds
<1>7. Held' = [Held EXCEPT ![p] = {b}]
  <2>1. bno'[p] = b /\ tpc'[p] \in Kinds BY <1>5 DEF TypeOK, Kinds
  <2> QED BY <2>1, HeldChange DEF Busy
<1>8. Given' = [Given EXCEPT ![f] = @ \cup {b}]
  <2>1. \A g \in Files \ {f} : claims'[g] = claims[g] BY <1>5 DEF TypeOK
  <2>2. claims'[f] = [claims[f] EXCEPT ![b] = @ + 1] BY <1>0, <1>5 DEF TypeOK
  <2>3. claims[f] \in [Blocks -> Nat] BY <1>0 DEF TypeOK
  <2>4. {c \in Blocks : claims'[f][c] > 0} = {c \in Blocks : claims[f][c] > 0} \cup {b}
    BY <1>1, <2>2, <2>3
  <2>5. Given'[f] = Given[f] \cup {b} BY <1>0, <2>4 DEF Given
  <2>6. \A g \in Files \ {f} : Given'[g] = Given[g] BY <2>1 DEF Given
  <2> QED BY <1>0, <2>5, <2>6 DEF Given
<1>9. UNCHANGED <<Done, Closed>> BY <1>5 DEF Done, Closed
<1>10. (mpc \in {"output", "exit"})' = (mpc \in {"output", "exit"})
  BY BusyReport DEF Busy
<1>11. ~Closed[f] BY <1>0, <1>3 DEF Closed
<1> QED BY <1>1, <1>4, <1>6, <1>7, <1>8, <1>9, <1>10, <1>11 DEF Pool!Take

LEMMA OkPool ==
    ASSUME TypeOK, WorkAccount, NEW p \in Thr, IoOk(p)
    PROVE  Pool!CloseEarly(p) \/ Pool!Finish(p) \/ UNCHANGED Pool!vars
<1> DEFINE f == p[1]
<1>0. f \in Files BY ThrPairs
<1>1. /\ tpc[p] \in Kinds /\ bno' = bno /\ claims' = claims
      /\ tpc'[p] = IF tpc[p] = "hdr" THEN "io" ELSE "claim"
      /\ written' = [written EXCEPT ![f] = @ \cup {<<bno[p], tpc[p]>>}]
  BY DEF IoOk, InIo, IoReturns, Goes, Unit, TypeOK
<1>2. Held[p] = {bno[p]} BY <1>1 DEF Held
<1>3. Given' = Given BY <1>1 DEF Given
<1>4. (mpc \in {"output", "exit"})' = (mpc \in {"output", "exit"})
  BY BusyReport DEF Busy
<1>5. UNCHANGED Closed \/ Closed' = [Closed EXCEPT ![f] = TRUE]
  BY ClosedChange DEF IoOk, Closed
<1>6. written'[f] = written[f] \cup {<<bno[p], tpc[p]>>}
      /\ \A g \in Files \ {f} : written'[g] = written[g]
  BY <1>0, <1>1 DEF TypeOK
<1>7. CASE tpc[p] = "hdr"
  <2>1. Held' = [Held EXCEPT ![p] = {bno[p]}]
    BY <1>1, <1>7, HeldChange DEF Busy, Kinds
  <2>2. Held' = Held BY <1>2, <2>1 DEF Held
  <2>3. Done' = Done BY <1>6, <1>7 DEF Done
  <2> QED BY <1>2, <1>3, <1>4, <1>5, <2>2, <2>3
          DEF Pool!CloseEarly, Pool!Close, Pool!vars
<1>8. CASE tpc[p] = "io"
  <2>1. Held' = [Held EXCEPT ![p] = {}]
    BY <1>1, <1>8, HeldChange DEF Busy, Kinds
  <2>2. Done' = [Done EXCEPT ![f] = @ \cup {bno[p]}]
    <3>1. bno[p] \in Blocks
      <4>1. FileWork(f) /\ p[2] \in Threads /\ p = <<f, p[2]>>
        BY <1>0, ThrPairs DEF WorkAccount
      <4> QED BY <1>1, <4>1 DEF FileWork
    <3>2. Done'[f] = Done[f] \cup {bno[p]} BY <1>0, <1>6, <1>8, <3>1 DEF Done
    <3>3. \A g \in Files \ {f} : Done'[g] = Done[g] BY <1>6 DEF Done
    <3> QED BY <1>0, <3>2, <3>3 DEF Done
  <2> QED BY <1>2, <1>3, <1>4, <1>5, <2>1, <2>2
          DEF Pool!Finish, Pool!Close
<1> QED BY <1>1, <1>7, <1>8 DEF Kinds

LEMMA StoppedPool ==
    ASSUME TypeOK, NEW p \in Thr, Stopped(p)
    PROVE  Pool!CloseEarly(p) \/ Pool!GiveUp(p)
<1> DEFINE f == p[1]
<1>1. /\ tpc[p] \in Kinds /\ bno' = bno /\ claims' = claims /\ written' = written
      /\ tpc'[p] = IF tpc[p] = "hdr" THEN "io" ELSE "claim"
  BY DEF Stopped, InIo, IoReturnsFull, Goes, TypeOK
<1>2. Held[p] = {bno[p]} BY <1>1 DEF Held
<1>3. Given' = Given /\ Done' = Done BY <1>1 DEF Given, Done
<1>4. (mpc \in {"output", "exit"})' = (mpc \in {"output", "exit"})
  BY BusyReport DEF Busy
<1>5. Closed' = [Closed EXCEPT ![f] = TRUE] BY ClosedChange DEF Stopped
<1>6. CASE tpc[p] = "hdr"
  <2>1. Held' = [Held EXCEPT ![p] = {bno[p]}]
    BY <1>1, <1>6, HeldChange DEF Busy, Kinds
  <2>2. Held' = Held BY <1>2, <2>1 DEF Held
  <2> QED BY <1>2, <1>3, <1>4, <1>5, <2>2 DEF Pool!CloseEarly, Pool!Close
<1>7. CASE tpc[p] = "io"
  <2>1. Held' = [Held EXCEPT ![p] = {}]
    BY <1>1, <1>7, HeldChange DEF Busy, Kinds
  <2> QED BY <1>2, <1>3, <1>4, <1>5, <2>1 DEF Pool!GiveUp, Pool!Close
<1> QED BY <1>1, <1>6, <1>7 DEF Kinds

\* For any number of files, threads, blocks and repetitions, a run of iofill is a
\* run of the pool: blocks are given in order, once, to one thread each, none after
\* a stop, and the report waits for all of them.
THEOREM PoolImplemented == Spec => ImplementsPool
<1>1. TypeOK /\ SemaphoreAccount /\ FillAccount /\ OutputQuiescent' /\ CompleteFill'
        /\ [Next]_vars => [Pool!Next]_(Pool!vars)
  <2> SUFFICES ASSUME TypeOK, SemaphoreAccount, FillAccount, OutputQuiescent',
                      CompleteFill', [Next]_vars
               PROVE  Pool!Next \/ UNCHANGED Pool!vars
    OBVIOUS
  <2>1. CASE Idle
    <3>1. CASE Reported' = Reported
      BY <2>1, <3>1, IdlePool DEF Pool!vars, Reported
    <3>2. CASE Reported' # Reported
      BY <2>1, <3>2, IdleReport, ReportStep DEF Pool!Next
    <3> QED BY <3>1, <3>2
  <2>2. ASSUME NEW p \in Thr, Busy(p) PROVE Pool!Next \/ UNCHANGED Pool!vars
    BY <2>2, ClaimedPool, OkPool, StoppedPool DEF Busy, Pool!Next, FillAccount
  <2> QED BY <2>1, <2>2, StepCases
<1>2. Init => Pool!Init BY PoolInit
<1> QED BY <1>1, <1>2, TypeCorrect, SemaphoresAccounted, FillAccounted, Quiescent,
           Complete, PTL DEF Spec, ImplementsPool, Pool!Spec

-----------------------------------------------------------------------------
\* A thread whose next I/O may find the errno of a message.
Blurred == \E p \in Thr : tpc[p] \in Kinds /\ errno[p] = "message"

\* What errno may hold: an error other than a full target only after one.
ErrnoAccount ==
    /\ exited = "error" => failed \/ Blurred
    /\ \A p \in Thr : errno[p] = "other" => failed

\* The errno of a thread after an I/O that did not fail for an unknown reason.
LEMMA ErrnoReturns ==
    ASSUME TypeOK, ErrnoAccount, NEW p \in Thr, Running,
           UNCHANGED <<exited, failed>>,
           \/ IoReturns(p, errno[p])
           \/ \E err \in {errno[p], "nospc"} : IoReturnsFull(p, err)
    PROVE  ErrnoAccount'
<1>1. \E v \in {errno[p], "nospc", "message"} : errno' = [errno EXCEPT ![p] = v]
  BY DEF IoReturns, IoReturnsFull, Prints
<1>2. \A q \in Thr : errno'[q] = "other" => errno[q] = "other"
  BY <1>1 DEF TypeOK
<1> QED BY <1>2 DEF ErrnoAccount, Running

LEMMA ErrnoThread ==
    ASSUME TypeOK, ErrnoAccount, Running, NEW p \in Thr, Thread(p)
    PROVE  ErrnoAccount'
<1>1. CASE IoOk(p) BY <1>1, ErrnoReturns DEF IoOk
<1>2. CASE IoFull(p) BY <1>2, ErrnoReturns DEF IoFull
<1>3. CASE IoShort(p)
  <2>1. CASE errno[p] \in {"zero", "nospc"}
    BY <1>3, <2>1, ErrnoReturns DEF IoShort
  <2>2. CASE errno[p] \in {"other", "message"}
    <3>1. /\ tpc[p] \in Kinds
          /\ UNCHANGED <<tpc, errno, failed>>
      BY <1>3, <2>2 DEF IoShort, Abort, InIo
    <3>2. errno[p] = "message" => Blurred' BY <3>1 DEF Blurred
    <3> QED BY <2>2, <3>1, <3>2 DEF ErrnoAccount
  <2> QED BY <2>1, <2>2 DEF TypeOK
<1>4. CASE IoFails(p) BY <1>4 DEF IoFails, ErrnoAccount
<1>5. CASE UNCHANGED <<exited, errno, failed>>
  BY <1>5 DEF ErrnoAccount, Running
<1> QED BY <1>1, <1>2, <1>3, <1>4, <1>5
        DEF Thread, ThreadInit, ThreadStart, Claim, ThreadDone, io, hist

\* Exit status 1 is kept for real errors: a full target, also one that is met by a
\* short write after an I/O that failed for it, never aborts the run, whatever the
\* number of files, threads and blocks.  What may is a short write of a thread in
\* whose errno a message (status line, or "target is full") has left a value.
THEOREM AbortsOnError == Spec => []AbortOnlyOnError
<1>1. Init => ErrnoAccount BY DEF Init, ErrnoAccount
<1>2. TypeOK /\ ErrnoAccount /\ [Next]_vars => ErrnoAccount'
  <2> SUFFICES ASSUME TypeOK, ErrnoAccount, [Next]_vars PROVE ErrnoAccount' OBVIOUS
  <2>1. CASE Running /\ \E p \in Thr : Thread(p) BY <2>1, ErrnoThread
  <2>2. CASE UNCHANGED <<exited, errno, failed>> /\ Running
    BY <2>2 DEF ErrnoAccount, Running
  <2>3. CASE CreateFails \/ OutputFails
    BY <2>3 DEF CreateFails, OutputFails, ErrnoAccount, io
  <2>4. CASE Running /\ Main /\ ~OutputFails
    <3>1. exited' # "error" /\ UNCHANGED <<errno, failed>>
      BY <2>4 DEF Running, Main, MainCreate, MainGather, MainGo, MainFinish, MainExit,
         io, hist
    <3> QED BY <3>1 DEF ErrnoAccount
  <2>5. CASE Running /\ \E f \in Files : File(f) \/ Expire(f)
    BY <2>2, <2>5 DEF File, FileCreate, FileGather, FileReady, FileStart, FileGo,
       FileFinish, FileDone, Expire, io, hist
  <2>6. CASE UNCHANGED vars BY <2>6 DEF vars, ErrnoAccount, Blurred, io, hist
  <2> QED BY <2>1, <2>3, <2>4, <2>5, <2>6 DEF Next, Ended
<1>3. ErrnoAccount => AbortOnlyOnError
  BY DEF ErrnoAccount, Blurred, AbortOnlyOnError
<1> QED BY <1>1, <1>2, <1>3, TypeCorrect, PTL DEF Spec
=============================================================================
