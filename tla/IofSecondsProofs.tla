--------------------------- MODULE IofSecondsProofs ---------------------------
(***************************************************************************)
(* Theorems about the deadline and the rows of a fill, for any number of   *)
(* threads, any lengths of I/Os and any number of rows.                    *)
(***************************************************************************)
EXTENDS IofSeconds, Arithmetic

\* Until the fill is stopped, the row of an I/O has not been passed by more than a
\* second when the time is over.
LimitOK(t) ==
    ~stopped /\ counted[t] > 0 => nextsec[t] <= Later(endtime, first[t]) + Sec

\* After a late claim the thread does an I/O that will find the time over.
OverrunOK(t) ==
    \/ overrun[t] = 0
    \/ /\ overrun[t] = 1
       /\ stopped \/ /\ pc[t] \in Kinds /\ counted[t] > 0
                     /\ start[t] > nextsec[t] /\ start[t] > endtime

\* nextsec is where the row ends, until the array is full.
RowOK(t) ==
    /\ counted[t] = 0 => nextsec[t] = 0 /\ nseconds[t] = 0
    /\ counted[t] > 0 =>
         /\ nextsec[t] >= InRow(t, nseconds[t] + 1)
         /\ nseconds[t] < NSEC - 1 => nextsec[t] = InRow(t, nseconds[t] + 1)
         /\ nseconds[t] > 0 => start[t] > InRow(t, nseconds[t])

\* A thread whose I/Os are short has not left its row behind.
DenseOK(t) ==
    dense[t] /\ counted[t] > 0 /\ ~stopped =>
        /\ pc[t] = "claim" => start[t] <= nextsec[t]
        /\ pc[t] \in Kinds => start[t] <= nextsec[t] + Sec

\* The rows hold what has been counted, and those to come are empty.
SumOK(t) ==
    /\ \A i \in Rows : i > nseconds[t] => seconds[t][i] = 0
    /\ counted[t] = SumFunctionOnSet(seconds[t], Rows)

ThreadOK(t) ==
    /\ start[t] <= clock
    /\ pc[t] = "wait" => counted[t] = 0
    /\ LimitOK(t) /\ OverrunOK(t) /\ RowOK(t) /\ DenseOK(t) /\ SumOK(t)

IInv == TypeOK /\ \A t \in Threads : ThreadOK(t)

-----------------------------------------------------------------------------
\* Ticks and rows, as numbers.
LEMMA Ticks ==
    /\ Sec \in Nat /\ Sec >= 1 /\ NSEC \in Nat /\ NSEC >= 1 /\ MaxClock \in Nat
    /\ endtime \in Nat /\ MaxLat \in Nat /\ NHeaders \in Nat
    /\ Rows \subseteq Nat /\ 0 \in Rows /\ IsFiniteSet(Rows)
<1>1. /\ Sec \in Nat /\ Sec >= 1 /\ NSEC \in Nat /\ NSEC >= 1 /\ MaxClock \in Nat
      /\ MaxLat \in Nat /\ NHeaders \in Nat
  BY TimeAssumption
<1>2. endtime \in Nat
  <2>1. Never \in Nat BY <1>1 DEF Never
  <2> QED BY <2>1, TimeAssumption DEF endtime
<1>3. Rows \subseteq Nat /\ 0 \in Rows BY <1>1 DEF Rows
<1>4. IsFiniteSet(Rows) BY <1>1, FS_Interval DEF Rows
<1> QED BY <1>1, <1>2, <1>3, <1>4

\* The variables of one thread.
LEMMA ThreadTypes ==
    ASSUME TypeOK, NEW t \in Threads
    PROVE  /\ clock \in Nat /\ start[t] \in Nat /\ nextsec[t] \in Nat
           /\ nseconds[t] \in Rows /\ nseconds[t] \in Nat
           /\ counted[t] \in Nat /\ first[t] \in Nat
           /\ dense[t] \in BOOLEAN /\ overrun[t] \in Nat
           /\ seconds[t] \in [Rows -> Nat]
           /\ pc[t] \in {"wait", "claim", "hdr", "io", "gone"}
<1>1. /\ pc \in [Threads -> {"wait", "claim", "hdr", "io", "gone"}]
      /\ start \in [Threads -> 0 .. MaxClock] /\ first \in [Threads -> 0 .. MaxClock]
      /\ nextsec \in [Threads -> Nat] /\ nseconds \in [Threads -> Rows]
      /\ counted \in [Threads -> Nat] /\ overrun \in [Threads -> Nat]
      /\ dense \in [Threads -> BOOLEAN] /\ clock \in 0 .. MaxClock
  BY DEF TypeOK
<1>2. seconds[t] \in [Rows -> Nat] BY DEF TypeOK
<1>3. pc[t] \in {"wait", "claim", "hdr", "io", "gone"} /\ dense[t] \in BOOLEAN BY <1>1
<1>4. start[t] \in 0 .. MaxClock /\ first[t] \in 0 .. MaxClock /\ nextsec[t] \in Nat
      /\ nseconds[t] \in Rows /\ counted[t] \in Nat /\ overrun[t] \in Nat
  BY <1>1
<1>5. nseconds[t] \in Nat BY <1>4, Ticks
<1>6. clock \in Nat /\ start[t] \in Nat /\ first[t] \in Nat BY <1>1, <1>4, Ticks
<1> QED BY <1>2, <1>3, <1>4, <1>5, <1>6

\* The end of one more row.
LEMMA NextRow ==
    ASSUME TypeOK, NEW t \in Threads, NEW n \in Nat
    PROVE  /\ InRow(t, n) \in Nat /\ InRow(t, n + 1) \in Nat
           /\ InRow(t, n + 1) = InRow(t, n) + Sec /\ InRow(t, 0) = first[t]
<1>1. first[t] \in Nat /\ Sec \in Nat BY ThreadTypes, Ticks
<1>2. n * Sec \in Nat /\ (n + 1) * Sec = n * Sec + Sec /\ 0 * Sec = 0 BY <1>1
<1> QED BY <1>1, <1>2 DEF InRow

\* No thread has done anything, no row holds anything.
LEMMA InvInit == Init => IInv
<1> SUFFICES ASSUME Init PROVE IInv OBVIOUS
<1> USE Ticks
<1>1. TypeOK
  <2>1. clock \in 0 .. MaxClock /\ headers \in 0 .. NHeaders BY DEF Init
  <2>e. stopped \in BOOLEAN /\ reported \in BOOLEAN /\ aborted \in BOOLEAN BY DEF Init
  <2>a. 0 \in 0 .. MaxClock /\ 0 \in Rows /\ 0 \in Nat OBVIOUS
  <2>b. /\ pc \in [Threads -> {"wait", "claim", "hdr", "io", "gone"}]
        /\ dense \in [Threads -> BOOLEAN]
    BY DEF Init
  <2>c. start \in [Threads -> 0 .. MaxClock] /\ first \in [Threads -> 0 .. MaxClock]
    BY <2>a DEF Init
  <2>d. /\ nextsec \in [Threads -> Nat] /\ nseconds \in [Threads -> Rows]
        /\ counted \in [Threads -> Nat] /\ overrun \in [Threads -> Nat]
    BY <2>a DEF Init
  <2>2. /\ pc \in [Threads -> {"wait", "claim", "hdr", "io", "gone"}]
        /\ start \in [Threads -> 0 .. MaxClock] /\ first \in [Threads -> 0 .. MaxClock]
        /\ nextsec \in [Threads -> Nat] /\ nseconds \in [Threads -> Rows]
        /\ counted \in [Threads -> Nat] /\ overrun \in [Threads -> Nat]
        /\ dense \in [Threads -> BOOLEAN]
    BY <2>b, <2>c, <2>d
  <2>3. seconds \in [Threads -> [Rows -> Nat]] BY DEF Init
  <2> QED BY <2>1, <2>e, <2>2, <2>3 DEF TypeOK
<1>2. ASSUME NEW t \in Threads PROVE ThreadOK(t)
  <2>1. /\ clock = 0 /\ start[t] = 0 /\ counted[t] = 0 /\ overrun[t] = 0
        /\ nextsec[t] = 0 /\ nseconds[t] = 0 /\ seconds[t] = [i \in Rows |-> 0]
    BY DEF Init
  <2>2. \A i \in Rows : seconds[t][i] = 0 BY <2>1
  <2>3. SumFunctionOnSet(seconds[t], Rows) = 0 BY <2>2, SumZero
  <2> QED BY <2>1, <2>2, <2>3 DEF ThreadOK, LimitOK, OverrunOK, RowOK, DenseOK, SumOK
<1> QED BY <1>1, <1>2 DEF IInv

-----------------------------------------------------------------------------
(***************************************************************************)
(* A step of one thread; the others only see that the fill is stopped.     *)
(***************************************************************************)
\* What thread t leaves alone.
Others(t) == \A u \in Threads : u # t =>
    /\ pc'[u] = pc[u] /\ start'[u] = start[u] /\ nextsec'[u] = nextsec[u]
    /\ nseconds'[u] = nseconds[u] /\ seconds'[u] = seconds[u]
    /\ counted'[u] = counted[u] /\ first'[u] = first[u]
    /\ dense'[u] = dense[u] /\ overrun'[u] = overrun[u]

\* A thread's part of the invariant stays true when another one stops the fill.
LEMMA OthersKeep ==
    ASSUME IInv, NEW t \in Threads, Others(t), clock' = clock, stopped => stopped',
           TypeOK', ThreadOK(t)'
    PROVE  IInv'
<1>1. ASSUME NEW u \in Threads, u # t PROVE ThreadOK(u)'
  <2>1. ThreadOK(u) BY DEF IInv
  <2>2. /\ pc'[u] = pc[u] /\ start'[u] = start[u] /\ nextsec'[u] = nextsec[u]
        /\ nseconds'[u] = nseconds[u] /\ seconds'[u] = seconds[u]
        /\ counted'[u] = counted[u] /\ first'[u] = first[u]
        /\ dense'[u] = dense[u] /\ overrun'[u] = overrun[u]
    BY <1>1 DEF Others
  <2>3. LimitOK(u)' BY <2>1, <2>2 DEF ThreadOK, LimitOK
  <2>4. OverrunOK(u)' BY <2>1, <2>2 DEF ThreadOK, OverrunOK
  <2>5. RowOK(u)' BY <2>1, <2>2 DEF ThreadOK, RowOK, InRow
  <2>6. DenseOK(u)' BY <2>1, <2>2 DEF ThreadOK, DenseOK
  <2>7. SumOK(u)' BY <2>1, <2>2 DEF ThreadOK, SumOK
  <2> QED BY <2>1, <2>2, <2>3, <2>4, <2>5, <2>6, <2>7 DEF ThreadOK
<1> QED BY <1>1 DEF IInv

\* The I/O of phase k begins: what io_start changes.
LEMMA BeginsStep ==
    ASSUME TypeOK, NEW t \in Threads, NEW k \in Kinds, Begins(t, k)
    PROVE  /\ pc' \in [Threads -> {"wait", "claim", "hdr", "io", "gone"}]
           /\ start' \in [Threads -> 0 .. MaxClock] /\ dense' \in [Threads -> BOOLEAN]
           /\ pc'[t] = k /\ start'[t] = clock
           /\ dense'[t] => dense[t] /\ (NotFirst(t) => clock - start[t] <= Sec)
           /\ \A u \in Threads : u # t =>
                 pc'[u] = pc[u] /\ start'[u] = start[u] /\ dense'[u] = dense[u]
<1>1. /\ pc' = [pc EXCEPT ![t] = k] /\ start' = [start EXCEPT ![t] = clock]
      /\ dense' = [dense EXCEPT ![t] = @ /\ (NotFirst(t) => clock - start[t] <= Sec)]
  BY DEF Begins, Goes
<1>2. k \in {"wait", "claim", "hdr", "io", "gone"} BY DEF Kinds
<1>3. /\ pc \in [Threads -> {"wait", "claim", "hdr", "io", "gone"}]
      /\ start \in [Threads -> 0 .. MaxClock] /\ dense \in [Threads -> BOOLEAN]
      /\ clock \in 0 .. MaxClock
  BY DEF TypeOK
<1>4. pc' \in [Threads -> {"wait", "claim", "hdr", "io", "gone"}] /\ pc'[t] = k
  BY <1>1, <1>2, <1>3
<1>5. start' \in [Threads -> 0 .. MaxClock] /\ start'[t] = clock BY <1>1, <1>3
<1> DEFINE soon == NotFirst(t) => clock - start[t] <= Sec
<1>6. dense' = [dense EXCEPT ![t] = dense[t] /\ soon] /\ soon \in BOOLEAN BY <1>1, <1>3
<1> HIDE DEF soon
<1>7. dense' \in [Threads -> BOOLEAN] /\ dense'[t] = (dense[t] /\ soon)
  BY <1>3, <1>6
<1>8. \A u \in Threads : u # t =>
         pc'[u] = pc[u] /\ start'[u] = start[u] /\ dense'[u] = dense[u]
  BY <1>1, <1>3
<1> QED BY <1>4, <1>5, <1>7, <1>8 DEF soon

\* A late claim is the first one, and its I/O begins after the row and after the end.
LEMMA ClaimStep ==
    ASSUME IInv, NEW t \in Threads, Claim(t)
    PROVE  IInv'
<1>1. /\ pc[t] = "claim" /\ ~stopped /\ stopped' \in BOOLEAN
      /\ overrun' = [overrun EXCEPT ![t] = IF Overdue(t) THEN @ + 1 ELSE @]
      /\ UNCHANGED <<clock, rows, reported, aborted>>
      /\ UNCHANGED <<nextsec, nseconds, seconds, counted, first>>
  BY DEF Claim, rows
<1>2. PICK k \in Kinds : Begins(t, k) BY DEF Claim, Kinds
<1>3. headers' \in 0 .. NHeaders
  <2>1. headers \in 0 .. NHeaders BY DEF IInv, TypeOK
  <2> QED BY <2>1, Ticks DEF Claim
<1>a. TypeOK BY DEF IInv
<1>4. /\ pc' \in [Threads -> {"wait", "claim", "hdr", "io", "gone"}]
      /\ start' \in [Threads -> 0 .. MaxClock] /\ dense' \in [Threads -> BOOLEAN]
      /\ pc'[t] = k /\ start'[t] = clock
      /\ dense'[t] => dense[t] /\ (NotFirst(t) => clock - start[t] <= Sec)
      /\ \A u \in Threads : u # t =>
            pc'[u] = pc[u] /\ start'[u] = start[u] /\ dense'[u] = dense[u]
  BY <1>a, <1>2, BeginsStep
<1>5. overrun \in [Threads -> Nat] BY DEF IInv, TypeOK
<1>6. overrun' \in [Threads -> Nat]
      /\ overrun'[t] = (IF Overdue(t) THEN overrun[t] + 1 ELSE overrun[t])
      /\ \A u \in Threads : u # t => overrun'[u] = overrun[u]
  BY <1>1, <1>5
<1>7. TypeOK' BY <1>1, <1>3, <1>4, <1>6 DEF IInv, TypeOK
<1>8. Others(t) BY <1>1, <1>4, <1>6 DEF Others
<1>9. ThreadOK(t) BY DEF IInv
<1>10. /\ clock \in Nat /\ start[t] \in Nat /\ nextsec[t] \in Nat /\ first[t] \in Nat
       /\ nseconds[t] \in Nat /\ counted[t] \in Nat
       /\ Sec \in Nat /\ Sec >= 1 /\ endtime \in Nat
  BY <1>a, ThreadTypes, Ticks
<1>11. ThreadOK(t)'
  <2>1. LimitOK(t)' BY <1>1, <1>9 DEF ThreadOK, LimitOK
  <2>2. OverrunOK(t)'
    <3>1. overrun[t] = 0 BY <1>1, <1>9 DEF ThreadOK, OverrunOK, Kinds
    <3>2. CASE ~Overdue(t) BY <1>6, <3>1, <3>2 DEF OverrunOK
    <3>3. CASE Overdue(t)
      <4>1. nextsec[t] # 0 /\ clock > Later(endtime, first[t]) + Sec BY <3>3 DEF Overdue
      <4>2. counted[t] > 0 BY <1>9, <1>10, <4>1 DEF ThreadOK, RowOK
      <4>3. nextsec[t] <= Later(endtime, first[t]) + Sec
        BY <1>1, <1>9, <4>2 DEF ThreadOK, LimitOK
      <4>4. Later(endtime, first[t]) \in Nat /\ endtime <= Later(endtime, first[t])
        BY <1>10 DEF Later
      <4>5. clock > nextsec[t] /\ clock > endtime BY <1>10, <4>1, <4>3, <4>4
      <4>6. overrun'[t] = 1 BY <1>6, <3>1, <3>3
      <4> QED BY <1>1, <1>4, <4>2, <4>5, <4>6 DEF OverrunOK
    <3> QED BY <3>2, <3>3
  <2>3. RowOK(t)'
    <3>1. InRow(t, nseconds[t]) \in Nat BY <1>a, <1>10, NextRow
    <3>2. start[t] <= clock /\ RowOK(t) BY <1>9 DEF ThreadOK
    <3>3. nseconds[t] > 0 /\ counted[t] > 0 => clock > InRow(t, nseconds[t])
      BY <1>10, <3>1, <3>2 DEF RowOK
    <3> QED BY <1>1, <1>4, <3>2, <3>3 DEF RowOK, InRow
  <2>4. DenseOK(t)'
    <3> SUFFICES ASSUME dense'[t], counted[t] > 0
                 PROVE  clock <= nextsec[t] + Sec
      BY <1>1, <1>4 DEF DenseOK, Kinds
    <3>1. nextsec[t] # 0
      <4>1. InRow(t, nseconds[t] + 1) \in Nat /\ InRow(t, nseconds[t]) \in Nat
            /\ InRow(t, nseconds[t] + 1) = InRow(t, nseconds[t]) + Sec
        BY <1>a, <1>10, NextRow
      <4>2. nextsec[t] >= InRow(t, nseconds[t] + 1) BY <1>9 DEF ThreadOK, RowOK
      <4> QED BY <1>10, <4>1, <4>2
    <3>2. clock - start[t] <= Sec /\ dense[t] BY <1>4, <3>1 DEF NotFirst
    <3>3. start[t] <= nextsec[t] BY <1>1, <1>9, <3>2 DEF ThreadOK, DenseOK
    <3> QED BY <1>10, <3>2, <3>3
  <2>5. SumOK(t)' BY <1>1, <1>9 DEF ThreadOK, SumOK
  <2>6. start'[t] <= clock' BY <1>1, <1>4, <1>10
  <2>7. pc'[t] # "wait" BY <1>4 DEF Kinds
  <2> QED BY <2>1, <2>2, <2>3, <2>4, <2>5, <2>6, <2>7 DEF ThreadOK
<1> QED BY <1>1, <1>7, <1>8, <1>11, OthersKeep

\* What the end of an I/O changes, whether it was counted or not.
LEMMA EndsStep ==
    ASSUME TypeOK, NEW t \in Threads, Ends(t)
    PROVE  /\ pc[t] \in Kinds /\ clock > start[t]
           /\ UNCHANGED <<clock, headers, reported, aborted, overrun>>
           /\ pc' \in [Threads -> {"wait", "claim", "hdr", "io", "gone"}]
           /\ start' \in [Threads -> 0 .. MaxClock] /\ dense' \in [Threads -> BOOLEAN]
           /\ \/ pc'[t] = "claim" /\ start'[t] = start[t] /\ dense'[t] = dense[t]
              \/ /\ pc'[t] = "io" /\ start'[t] = clock
                 /\ dense'[t] => dense[t] /\ clock - start[t] <= Sec
           /\ \A u \in Threads : u # t =>
                 pc'[u] = pc[u] /\ start'[u] = start[u] /\ dense'[u] = dense[u]
<1>1. CASE pc[t] = "hdr"
  <2>1. Begins(t, "io") /\ "io" \in Kinds BY <1>1 DEF Ends, Kinds
  <2>2. /\ pc' \in [Threads -> {"wait", "claim", "hdr", "io", "gone"}]
        /\ start' \in [Threads -> 0 .. MaxClock] /\ dense' \in [Threads -> BOOLEAN]
        /\ pc'[t] = "io" /\ start'[t] = clock
        /\ dense'[t] => dense[t] /\ (NotFirst(t) => clock - start[t] <= Sec)
        /\ \A u \in Threads : u # t =>
              pc'[u] = pc[u] /\ start'[u] = start[u] /\ dense'[u] = dense[u]
    BY <2>1, BeginsStep
  <2> QED BY <1>1, <2>2 DEF Ends, NotFirst
<1>2. CASE pc[t] # "hdr"
  <2>1. pc' = [pc EXCEPT ![t] = "claim"] /\ UNCHANGED <<start, dense>>
    BY <1>2 DEF Ends, Goes
  <2>2. /\ pc \in [Threads -> {"wait", "claim", "hdr", "io", "gone"}]
        /\ start \in [Threads -> 0 .. MaxClock] /\ dense \in [Threads -> BOOLEAN]
    BY DEF TypeOK
  <2>3. /\ pc' \in [Threads -> {"wait", "claim", "hdr", "io", "gone"}]
        /\ pc'[t] = "claim" /\ \A u \in Threads : u # t => pc'[u] = pc[u]
    BY <2>1, <2>2
  <2> QED BY <2>1, <2>2, <2>3 DEF Ends
<1> QED BY <1>1, <1>2

\* The full target: the fill is stopped and nothing is counted.
LEMMA IoFullStep ==
    ASSUME IInv, NEW t \in Threads, IoFull(t)
    PROVE  IInv'
<1>a. TypeOK /\ ThreadOK(t) BY DEF IInv
<1>1. /\ stopped' = TRUE /\ Ends(t)
      /\ UNCHANGED <<nextsec, nseconds, seconds, counted, first>>
  BY DEF IoFull, rows
<1>2. /\ pc[t] \in Kinds /\ clock > start[t]
      /\ UNCHANGED <<clock, headers, reported, aborted, overrun>>
      /\ pc' \in [Threads -> {"wait", "claim", "hdr", "io", "gone"}]
      /\ start' \in [Threads -> 0 .. MaxClock] /\ dense' \in [Threads -> BOOLEAN]
      /\ (pc'[t] = "claim" /\ start'[t] = start[t]) \/ (pc'[t] = "io" /\ start'[t] = clock)
      /\ \A u \in Threads : u # t =>
            pc'[u] = pc[u] /\ start'[u] = start[u] /\ dense'[u] = dense[u]
  BY <1>a, <1>1, EndsStep
<1>3. TypeOK' BY <1>a, <1>1, <1>2 DEF TypeOK
<1>4. Others(t) BY <1>1, <1>2 DEF Others
<1>5. /\ clock \in Nat /\ start[t] \in Nat /\ nseconds[t] \in Nat
      /\ InRow(t, nseconds[t]) \in Nat
  BY <1>a, ThreadTypes, NextRow
<1>6. RowOK(t)'
  <2>1. start'[t] >= start[t] BY <1>2, <1>5
  <2>2. nseconds[t] > 0 /\ counted[t] > 0 => start'[t] > InRow(t, nseconds[t])
    BY <1>a, <1>2, <1>5 DEF ThreadOK, RowOK
  <2> QED BY <1>a, <1>1, <2>2 DEF ThreadOK, RowOK, InRow
<1>7. ThreadOK(t)'
  <2>1. LimitOK(t)' /\ DenseOK(t)' BY <1>1 DEF LimitOK, DenseOK
  <2>2. OverrunOK(t)' BY <1>a, <1>1, <1>2 DEF ThreadOK, OverrunOK
  <2>3. SumOK(t)' BY <1>a, <1>1 DEF ThreadOK, SumOK
  <2>4. start'[t] <= clock' /\ pc'[t] # "wait" BY <1>2, <1>5
  <2> QED BY <1>6, <2>1, <2>2, <2>3, <2>4 DEF ThreadOK
<1> QED BY <1>1, <1>2, <1>3, <1>4, <1>7, OthersKeep

\* An I/O without error: it is counted in its row.
LEMMA IoOkStep ==
    ASSUME IInv, NEW t \in Threads, IoOk(t)
    PROVE  IInv'
<1>a. TypeOK /\ ThreadOK(t) BY DEF IInv
<1>1. /\ Ends(t)
      /\ nextsec' = [nextsec EXCEPT ![t] = Nextsec(t)]
      /\ nseconds' = [nseconds EXCEPT ![t] = Row(t)]
      /\ seconds' = [seconds EXCEPT ![t][Row(t)] = @ + 1]
      /\ counted' = [counted EXCEPT ![t] = @ + 1]
      /\ first' = [first EXCEPT ![t] = IF nextsec[t] = 0 THEN start[t] ELSE @]
      /\ stopped' = (stopped \/ TimeOver(t))
  BY DEF IoOk
<1>2. /\ pc[t] \in Kinds /\ clock > start[t]
      /\ UNCHANGED <<clock, headers, reported, aborted, overrun>>
      /\ pc' \in [Threads -> {"wait", "claim", "hdr", "io", "gone"}]
      /\ start' \in [Threads -> 0 .. MaxClock] /\ dense' \in [Threads -> BOOLEAN]
      /\ \/ pc'[t] = "claim" /\ start'[t] = start[t] /\ dense'[t] = dense[t]
         \/ /\ pc'[t] = "io" /\ start'[t] = clock
            /\ dense'[t] => dense[t] /\ clock - start[t] <= Sec
      /\ \A u \in Threads : u # t =>
            pc'[u] = pc[u] /\ start'[u] = start[u] /\ dense'[u] = dense[u]
  BY <1>a, <1>1, EndsStep
<1>3. /\ clock \in Nat /\ start[t] \in Nat /\ nextsec[t] \in Nat /\ first[t] \in Nat
      /\ nseconds[t] \in Rows /\ nseconds[t] \in Nat /\ counted[t] \in Nat
      /\ Sec \in Nat /\ Sec >= 1 /\ endtime \in Nat /\ NSEC \in Nat /\ NSEC >= 1
      /\ seconds[t] \in [Rows -> Nat] /\ nseconds[t] < NSEC
  BY <1>a, ThreadTypes, Ticks DEF Rows
<1>4. Nextsec(t) \in Nat BY <1>3 DEF Nextsec
<1>5. /\ Row(t) \in Rows /\ Row(t) \in Nat
      /\ Row(t) = nseconds[t] \/ (NewRow(t) /\ Row(t) = nseconds[t] + 1)
      /\ Row(t) < NSEC - 1 /\ NewRow(t) => Row(t) = nseconds[t] + 1
  BY <1>3 DEF Row, Rows
<1> DEFINE row == [seconds[t] EXCEPT ![Row(t)] = seconds[t][Row(t)] + 1]
           fst == IF nextsec[t] = 0 THEN start[t] ELSE first[t]
<1>6. row \in [Rows -> Nat] BY <1>3, <1>5
<1>7. /\ nextsec \in [Threads -> Nat] /\ nseconds \in [Threads -> Rows]
      /\ seconds \in [Threads -> [Rows -> Nat]] /\ counted \in [Threads -> Nat]
      /\ first \in [Threads -> 0 .. MaxClock]
      /\ start[t] \in 0 .. MaxClock
  BY <1>a DEF TypeOK
<1>8. /\ nextsec' \in [Threads -> Nat] /\ nextsec'[t] = Nextsec(t)
      /\ nseconds' \in [Threads -> Rows] /\ nseconds'[t] = Row(t)
      /\ counted' \in [Threads -> Nat] /\ counted'[t] = counted[t] + 1
      /\ \A u \in Threads : u # t => /\ nextsec'[u] = nextsec[u]
                                     /\ nseconds'[u] = nseconds[u]
                                     /\ counted'[u] = counted[u]
  BY <1>1, <1>3, <1>4, <1>5, <1>7
<1>9. /\ first' \in [Threads -> 0 .. MaxClock] /\ first'[t] = fst
      /\ \A u \in Threads : u # t => first'[u] = first[u]
  <2>1. fst \in 0 .. MaxClock BY <1>7
  <2>2. first' = [first EXCEPT ![t] = fst] BY <1>1
  <2> HIDE DEF fst
  <2> QED BY <1>7, <2>1, <2>2
<1>10. /\ seconds' \in [Threads -> [Rows -> Nat]] /\ seconds'[t] = row
       /\ \A u \in Threads : u # t => seconds'[u] = seconds[u]
  <2>1. seconds' = [seconds EXCEPT ![t] = row] BY <1>1
  <2> HIDE DEF row
  <2> QED BY <1>6, <1>7, <2>1
<1>11. stopped' \in BOOLEAN /\ (stopped => stopped') BY <1>a, <1>1 DEF TypeOK, TimeOver
<1>12. TypeOK' BY <1>a, <1>2, <1>8, <1>9, <1>10, <1>11 DEF TypeOK
<1>13. Others(t) BY <1>2, <1>8, <1>9, <1>10 DEF Others
<1>14. counted[t] > 0 <=> nextsec[t] # 0
  <2>1. InRow(t, nseconds[t] + 1) >= 1
    <3>1. InRow(t, nseconds[t] + 1) = InRow(t, nseconds[t]) + Sec
          /\ InRow(t, nseconds[t]) \in Nat
      BY <1>a, <1>3, NextRow
    <3> QED BY <1>3, <3>1
  <2>2. RowOK(t) BY <1>a DEF ThreadOK
  <2>3. InRow(t, nseconds[t] + 1) \in Nat BY <1>a, <1>3, NextRow
  <2> QED BY <1>3, <2>1, <2>2, <2>3 DEF RowOK
<1>15. /\ InRow(t, nseconds[t]) \in Nat
       /\ InRow(t, nseconds[t] + 1) = InRow(t, nseconds[t]) + Sec
       /\ InRow(t, nseconds[t] + 1) \in Nat
       /\ InRow(t, nseconds[t] + 2) = InRow(t, nseconds[t] + 1) + Sec
  <2>1. nseconds[t] + 1 \in Nat /\ nseconds[t] + 1 + 1 = nseconds[t] + 2 BY <1>3
  <2> QED BY <1>a, <1>3, <2>1, NextRow
<1>16. RowOK(t)'
  <2>1. counted'[t] > 0 BY <1>3, <1>8
  <2>2. start'[t] >= start[t] /\ start'[t] \in Nat BY <1>2, <1>3
  <2>3. CASE nextsec[t] = 0
    <3>1. ~NewRow(t) /\ counted[t] = 0 BY <1>3, <1>14, <2>3 DEF NewRow
    <3>2. nseconds[t] = 0 BY <1>a, <3>1 DEF ThreadOK, RowOK
    <3>3. Row(t) = 0 /\ Nextsec(t) = start[t] + Sec /\ fst = start[t]
      BY <1>5, <2>3, <3>1, <3>2 DEF Nextsec
    <3>4. start[t] + (0 + 1) * Sec = start[t] + Sec BY <1>3
    <3> HIDE DEF fst
    <3>5. InRow(t, nseconds[t] + 1)' = nextsec'[t] BY <1>8, <1>9, <3>3, <3>4 DEF InRow
    <3> QED BY <1>3, <1>8, <2>1, <3>3, <3>5 DEF RowOK
  <2>4. CASE nextsec[t] # 0
    <3>1. counted[t] > 0 /\ RowOK(t) BY <1>a, <1>14, <2>4 DEF ThreadOK
    <3>2. first'[t] = first[t] BY <1>9, <2>4
    <3>3. \A n \in Nat : InRow(t, n)' = InRow(t, n) BY <3>2 DEF InRow
    <3>4. CASE ~NewRow(t)
      <4>1. Row(t) = nseconds[t] /\ Nextsec(t) = nextsec[t]
        BY <1>5, <2>4, <3>4 DEF Nextsec
      <4>2. InRow(t, nseconds[t])' = InRow(t, nseconds[t])
            /\ InRow(t, nseconds[t] + 1)' = InRow(t, nseconds[t] + 1)
        BY <1>8, <3>2, <4>1 DEF InRow
      <4> QED BY <1>3, <1>8, <1>15, <2>1, <2>2, <3>1, <4>1, <4>2 DEF RowOK
    <3>5. CASE NewRow(t) /\ nseconds[t] < NSEC - 1
      <4>1. Row(t) = nseconds[t] + 1 /\ Nextsec(t) = nextsec[t] + Sec
        BY <2>4, <3>5 DEF Nextsec, Row
      <4>2. nseconds'[t] + 1 = nseconds[t] + 2 BY <1>3, <1>8, <4>1
      <4>3. InRow(t, nseconds[t])' = InRow(t, nseconds[t] + 1)
            /\ InRow(t, nseconds[t] + 1)' = InRow(t, nseconds[t] + 2)
        BY <1>8, <3>2, <4>1, <4>2 DEF InRow
      <4>4. nextsec[t] = InRow(t, nseconds[t] + 1) /\ start[t] > nextsec[t]
        BY <3>1, <3>5 DEF RowOK, NewRow
      <4>5. nextsec'[t] = InRow(t, nseconds[t] + 1)' BY <1>8, <1>15, <4>1, <4>3, <4>4
      <4>6. start'[t] > InRow(t, nseconds[t])' BY <1>3, <1>15, <2>2, <4>3, <4>4
      <4>7. nextsec'[t] \in Nat BY <1>4, <1>8
      <4> QED BY <2>1, <4>5, <4>6, <4>7 DEF RowOK
    <3>6. CASE NewRow(t) /\ ~(nseconds[t] < NSEC - 1)
      <4>1. Row(t) = nseconds[t] /\ Nextsec(t) = nextsec[t] + Sec
        BY <2>4, <3>6 DEF Nextsec, Row
      <4>2. InRow(t, nseconds[t])' = InRow(t, nseconds[t])
            /\ InRow(t, nseconds[t] + 1)' = InRow(t, nseconds[t] + 1)
        BY <1>8, <3>2, <4>1 DEF InRow
      <4>3. nextsec'[t] >= InRow(t, nseconds[t] + 1)
        BY <1>3, <1>8, <1>15, <3>1, <4>1 DEF RowOK
      <4>4. nseconds[t] > 0 => start'[t] > InRow(t, nseconds[t])
        BY <1>3, <1>15, <2>2, <3>1 DEF RowOK
      <4>5. ~(nseconds'[t] < NSEC - 1) /\ nseconds'[t] = nseconds[t]
        BY <1>8, <3>6, <4>1
      <4> QED BY <2>1, <4>2, <4>3, <4>4, <4>5 DEF RowOK
    <3> QED BY <3>4, <3>5, <3>6
  <2> QED BY <2>3, <2>4
<1>17. LimitOK(t)'
  <2> SUFFICES ASSUME ~stopped' PROVE Nextsec(t) <= Later(endtime, fst) + Sec
    BY <1>8, <1>9 DEF LimitOK, Later
  <2>1. ~stopped /\ ~TimeOver(t) BY <1>1
  <2>2. CASE nextsec[t] = 0
    <3>1. Nextsec(t) = start[t] + Sec /\ fst = start[t] BY <2>2 DEF Nextsec
    <3>2. Later(endtime, start[t]) \in Nat /\ start[t] <= Later(endtime, start[t])
      BY <1>3 DEF Later
    <3> HIDE DEF fst
    <3> QED BY <1>3, <3>1, <3>2
  <2>3. CASE nextsec[t] # 0
    <3>1. fst = first[t] /\ nextsec[t] <= Later(endtime, first[t]) + Sec
      BY <1>a, <1>14, <2>1, <2>3 DEF ThreadOK, LimitOK
    <3>2. Later(endtime, first[t]) \in Nat /\ endtime <= Later(endtime, first[t])
      BY <1>3 DEF Later
    <3> HIDE DEF fst
    <3>3. CASE ~NewRow(t) BY <2>3, <3>1, <3>3 DEF Nextsec
    <3>4. CASE NewRow(t)
      <4>1. start[t] <= endtime /\ start[t] > nextsec[t]
        BY <1>3, <2>1, <3>4 DEF TimeOver, NewRow
      <4>2. Nextsec(t) = nextsec[t] + Sec BY <2>3, <3>4 DEF Nextsec
      <4> QED BY <1>3, <3>1, <3>2, <4>1, <4>2
    <3> QED BY <3>3, <3>4
  <2> QED BY <2>2, <2>3
<1>18. OverrunOK(t)'
  <2>1. CASE overrun[t] = 0 BY <1>2, <2>1 DEF OverrunOK
  <2>2. CASE overrun[t] = 1 /\ stopped BY <1>2, <1>11, <2>2 DEF OverrunOK
  <2>3. CASE overrun[t] = 1 /\ counted[t] > 0 /\ start[t] > nextsec[t]
             /\ start[t] > endtime
    <3>1. TimeOver(t) BY <1>14, <2>3 DEF TimeOver, NewRow
    <3> QED BY <1>1, <1>2, <2>3, <3>1 DEF OverrunOK
  <2> QED BY <1>a, <2>1, <2>2, <2>3 DEF ThreadOK, OverrunOK
<1>19. DenseOK(t)'
  <2> SUFFICES ASSUME dense'[t], ~stopped'
               PROVE  /\ pc'[t] = "claim" => start'[t] <= Nextsec(t)
                      /\ pc'[t] \in Kinds => start'[t] <= Nextsec(t) + Sec
    BY <1>8 DEF DenseOK
  <2>1. dense[t] /\ ~stopped BY <1>1, <1>2
  <2>2. start[t] <= Nextsec(t)
    <3>1. CASE nextsec[t] = 0 BY <1>3, <3>1 DEF Nextsec
    <3>2. CASE nextsec[t] # 0 /\ ~NewRow(t) BY <1>3, <3>2 DEF Nextsec, NewRow
    <3>3. CASE nextsec[t] # 0 /\ NewRow(t)
      <4>1. start[t] <= nextsec[t] + Sec
        BY <1>a, <1>2, <1>14, <2>1, <3>3 DEF ThreadOK, DenseOK
      <4> QED BY <3>3, <4>1 DEF Nextsec
    <3> QED BY <3>1, <3>2, <3>3
  <2>3. CASE pc'[t] = "claim" /\ start'[t] = start[t]
    BY <1>3, <1>4, <2>2, <2>3 DEF Kinds
  <2>4. CASE pc'[t] = "io" /\ start'[t] = clock /\ clock - start[t] <= Sec
    BY <1>3, <1>4, <2>2, <2>4 DEF Kinds
  <2> QED BY <1>2, <2>3, <2>4
<1>20. SumOK(t)'
  <2>1. seconds'[t] = row /\ nseconds'[t] = Row(t) /\ counted'[t] = counted[t] + 1
    BY <1>8, <1>10
  <2>2. SumOK(t) BY <1>a DEF ThreadOK
  <2>3. ASSUME NEW i \in Rows, i > Row(t) PROVE row[i] = 0
    <3>1. i > nseconds[t] /\ i # Row(t) BY <1>3, <1>5, <2>3, Ticks
    <3> QED BY <1>3, <2>2, <3>1 DEF SumOK
  <2>4. SumFunctionOnSet(row, Rows) =
          (SumFunctionOnSet(seconds[t], Rows) - seconds[t][Row(t)]) + row[Row(t)]
    <3> DEFINE f == seconds[t]
    <3>1. f \in [Rows -> Nat] /\ \A i \in Rows : f[i] \in Int BY <1>3
    <3>2. \A i \in Rows : row[i] \in Int BY <1>6
    <3>3. \A i \in Rows : i # Row(t) => row[i] = f[i] BY <3>1
    <3> HIDE DEF row, f
    <3>a. IsFiniteSet(Rows) /\ Row(t) \in Rows BY <1>5, Ticks
    <3>4. SumFunctionOnSet(row, Rows) =
            (SumFunctionOnSet(f, Rows) - f[Row(t)]) + row[Row(t)]
      BY <3>1, <3>2, <3>3, <3>a, SumChange
    <3> QED BY <3>4 DEF f
  <2>5. row[Row(t)] = seconds[t][Row(t)] + 1 /\ seconds[t][Row(t)] \in Nat
    BY <1>3, <1>5
  <2>6. counted[t] = SumFunctionOnSet(seconds[t], Rows) BY <2>2 DEF SumOK
  <2> HIDE DEF row
  <2>7. SumFunctionOnSet(row, Rows) = counted[t] + 1 BY <1>3, <2>4, <2>5, <2>6
  <2> QED BY <2>1, <2>3, <2>7 DEF SumOK
<1>21. start'[t] <= clock' /\ pc'[t] # "wait" BY <1>2, <1>3
<1>22. ThreadOK(t)' BY <1>16, <1>17, <1>18, <1>19, <1>20, <1>21 DEF ThreadOK
<1> QED BY <1>2, <1>11, <1>12, <1>13, <1>22, OthersKeep

\* A thread begins or leaves: only pc changes.
LEMMA GoesStep ==
    ASSUME IInv, NEW t \in Threads, NEW k \in {"claim", "gone"}, Goes(t, k),
           k = "claim" => pc[t] = "wait", k = "gone" => stopped,
           UNCHANGED <<clock, start, rows, headers, stopped, reported, aborted, dense, overrun>>
    PROVE  IInv'
<1>a. TypeOK /\ ThreadOK(t) BY DEF IInv
<1>1. pc' = [pc EXCEPT ![t] = k]
      /\ UNCHANGED <<nextsec, nseconds, seconds, counted, first>>
  BY DEF Goes, rows
<1>2. pc \in [Threads -> {"wait", "claim", "hdr", "io", "gone"}] BY <1>a DEF TypeOK
<1>3. /\ pc' \in [Threads -> {"wait", "claim", "hdr", "io", "gone"}] /\ pc'[t] = k
      /\ \A u \in Threads : u # t => pc'[u] = pc[u]
  BY <1>1, <1>2
<1>4. TypeOK' BY <1>a, <1>1, <1>3 DEF TypeOK
<1>5. Others(t) BY <1>1, <1>3 DEF Others
<1>6. LimitOK(t)' /\ SumOK(t)' BY <1>a, <1>1 DEF ThreadOK, LimitOK, SumOK
<1>7. RowOK(t)' BY <1>a, <1>1 DEF ThreadOK, RowOK, InRow
<1>8. k = "claim" => counted[t] = 0 /\ (overrun[t] = 0 \/ stopped)
  BY <1>a DEF ThreadOK, OverrunOK, Kinds
<1>9. OverrunOK(t)' BY <1>a, <1>1, <1>3, <1>8 DEF ThreadOK, OverrunOK
<1>10. DenseOK(t)'
  <2>1. counted[t] \in Nat BY <1>a, ThreadTypes
  <2> QED BY <1>a, <1>1, <1>3, <2>1 DEF ThreadOK, DenseOK, Kinds
<1>11. ThreadOK(t)' BY <1>a, <1>1, <1>3, <1>6, <1>7, <1>9, <1>10 DEF ThreadOK
<1> QED BY <1>4, <1>5, <1>11, OthersKeep

\* Nothing of a thread changes.
LEMMA AllKeep ==
    ASSUME IInv, TypeOK', clock <= clock',
           UNCHANGED <<pc, start, rows, headers, stopped, dense, overrun>>
    PROVE  IInv'
<1>1. UNCHANGED <<nextsec, nseconds, seconds, counted, first>> BY DEF rows
<1>2. ASSUME NEW t \in Threads PROVE ThreadOK(t)'
  <2>1. ThreadOK(t) BY DEF IInv
  <2>2. start'[t] <= clock'
    <3>1. start[t] \in Nat /\ clock \in Nat BY ThreadTypes DEF IInv
    <3>2. clock' \in Nat BY Ticks DEF TypeOK
    <3> QED BY <2>1, <3>1, <3>2 DEF ThreadOK
  <2>3. LimitOK(t)' /\ SumOK(t)' /\ DenseOK(t)' /\ OverrunOK(t)'
    BY <1>1, <2>1 DEF ThreadOK, LimitOK, SumOK, DenseOK, OverrunOK
  <2>4. RowOK(t)' BY <1>1, <2>1 DEF ThreadOK, RowOK, InRow
  <2> QED BY <1>1, <2>1, <2>2, <2>3, <2>4 DEF ThreadOK
<1> QED BY <1>2 DEF IInv

\* The report or an exit: nothing else changes.
LEMMA ReportStep ==
    ASSUME IInv, clock' = clock, reported' \in BOOLEAN, aborted' \in BOOLEAN,
           UNCHANGED <<pc, start, rows, headers, stopped, dense, overrun>>
    PROVE  IInv'
<1>1. TypeOK' BY DEF IInv, TypeOK, rows
<1>2. clock <= clock'
  <2>1. clock \in Nat BY Ticks DEF IInv, TypeOK
  <2> QED BY <2>1
<1> QED BY <1>1, <1>2, AllKeep

\* Every step keeps the invariant.
LEMMA InvStep == IInv /\ [Next]_vars => IInv'
<1> SUFFICES ASSUME IInv, [Next]_vars PROVE IInv' OBVIOUS
<1>1. ASSUME NEW t \in Threads, Thread(t) PROVE IInv'
  <2>1. CASE ThreadStart(t) BY <2>1, GoesStep DEF ThreadStart
  <2>2. CASE Claim(t) BY <2>2, ClaimStep
  <2>3. CASE NoBlock(t) BY <2>3, GoesStep DEF NoBlock
  <2>4. CASE IoOk(t) BY <2>4, IoOkStep
  <2>5. CASE IoFull(t) BY <2>5, IoFullStep
  <2>6. CASE IoFails(t)
    <3>1. reported' \in BOOLEAN /\ aborted' \in BOOLEAN
      BY <2>6 DEF IoFails, IInv, TypeOK
    <3> QED BY <2>6, <3>1, ReportStep DEF IoFails
  <2> QED BY <1>1, <2>1, <2>2, <2>3, <2>4, <2>5, <2>6 DEF Thread
<1>2. CASE Tick
  <2>1. clock \in 0 .. MaxClock BY DEF IInv, TypeOK
  <2>2. clock < MaxClock /\ clock' = clock + 1
        /\ UNCHANGED <<pc, start, rows, headers, stopped, reported, aborted, dense, overrun>>
    BY <1>2 DEF Tick
  <2>3. clock' \in 0 .. MaxClock /\ clock <= clock' BY <2>1, <2>2, Ticks
  <2>4. TypeOK' BY <2>2, <2>3 DEF IInv, TypeOK, rows
  <2> QED BY <2>2, <2>3, <2>4, AllKeep
<1>3. reported \in BOOLEAN /\ aborted \in BOOLEAN BY DEF IInv, TypeOK
<1>4. CASE Output BY <1>3, <1>4, ReportStep DEF Output
<1>5. CASE OutputFails BY <1>3, <1>5, ReportStep DEF OutputFails
<1>6. CASE UNCHANGED vars BY <1>3, <1>6, ReportStep DEF vars
<1> QED BY <1>1, <1>2, <1>4, <1>5, <1>6 DEF Next, Report, Ended

\* The inductive invariant holds in every state.
THEOREM Invariant == Spec => []IInv
<1>1. Init => IInv BY InvInit
<1>2. IInv /\ [Next]_vars => IInv' BY InvStep
<1> QED BY <1>1, <1>2, PTL DEF Spec

-----------------------------------------------------------------------------
(***************************************************************************)
(* The properties.                                                         *)
(***************************************************************************)
\* nseconds is always an index of the array seconds.
THEOREM TypeCorrect == Spec => []TypeOK
<1>1. IInv => TypeOK BY DEF IInv
<1> QED BY <1>1, Invariant, PTL

\* A thread claims at most one block later than a second after the end, however long
\* the I/Os take and whichever of them are headers.
THEOREM StopsSoon == Spec => []StopsInTime
<1>1. IInv => StopsInTime
  <2> SUFFICES ASSUME IInv, NEW t \in Threads PROVE overrun[t] <= 1 BY DEF StopsInTime
  <2> QED BY DEF IInv, ThreadOK, OverrunOK
<1> QED BY <1>1, Invariant, PTL

\* While no I/O takes longer than a second, row i holds the I/Os of second i.
THEOREM RowsKeepStep == Spec => []RowsInStep
<1>1. IInv => RowsInStep
  <2> SUFFICES ASSUME IInv, NEW t \in Threads, pc[t] = "claim", counted[t] > 0, ~stopped
               PROVE  /\ nseconds[t] > 0 => start[t] > InRow(t, nseconds[t])
                      /\ dense[t] /\ nseconds[t] < NSEC - 1 =>
                            start[t] <= InRow(t, nseconds[t] + 1)
    BY DEF RowsInStep
  <2>1. RowOK(t) /\ DenseOK(t) BY DEF IInv, ThreadOK
  <2> QED BY <2>1 DEF RowOK, DenseOK
<1> QED BY <1>1, Invariant, PTL

\* output_seconds finds the thread with the most rows.
LEMMA Maxrow ==
    ASSUME TypeOK
    PROVE  maxrow \in Rows /\ \A t \in Threads : nseconds[t] <= maxrow
<1> DEFINE S == {nseconds[t] : t \in Threads}
           f == [t \in Threads |-> nseconds[t]]
<1>1. S \subseteq Rows BY DEF TypeOK
<1>2. f \in Surjection(Threads, S) BY DEF Surjection
<1>4. \A n \in S : \E t \in Threads : nseconds[t] = n OBVIOUS
<1>5. \A t \in Threads : nseconds[t] \in S OBVIOUS
<1> HIDE DEF S, f
<1>6. IsFiniteSet(S) BY <1>2, ThreadsAssumption, FS_Surjection
<1>7. S \subseteq Int BY <1>1, Ticks
<1>8. \E n \in Rows : /\ n = 0 \/ \E t \in Threads : nseconds[t] = n
                      /\ \A t \in Threads : nseconds[t] <= n
  <2>1. CASE S = {}
    <3>1. 0 \in Rows BY Ticks
    <3> QED BY <1>5, <2>1, <3>1
  <2>2. CASE S # {}
    <3>1. Max(S) \in S /\ \A x \in S : x <= Max(S) BY <1>6, <1>7, <2>2, MaxIs
    <3> QED BY <1>1, <1>4, <1>5, <3>1
  <2> QED BY <2>1, <2>2
<1> QED BY <1>8 DEF maxrow

\* The printed rows of every thread add up to the I/Os it has counted.
THEOREM RowsAddUp == Spec => []RowsExact
<1>1. IInv => RowsExact
  <2> SUFFICES ASSUME IInv, NEW t \in Threads
               PROVE  SumFunctionOnSet(seconds[t], 0 .. maxsec - 1) = counted[t]
    BY DEF RowsExact
  <2>1. maxrow \in Rows /\ nseconds[t] <= maxrow BY Maxrow DEF IInv
  <2>2. maxrow \in Nat /\ maxrow < NSEC /\ NSEC \in Nat BY <2>1, Ticks DEF Rows
  <2>3. maxsec = maxrow + 1 BY <2>2 DEF maxsec
  <2>4. 0 .. maxsec - 1 \subseteq Rows BY <2>2, <2>3 DEF Rows
  <2>5. seconds[t] \in [Rows -> Nat] /\ nseconds[t] \in Nat BY ThreadTypes DEF IInv
  <2>6. SumOK(t) BY DEF IInv, ThreadOK
  <2>7. \A i \in Rows \ (0 .. maxsec - 1) : seconds[t][i] = 0
    BY <2>1, <2>2, <2>3, <2>5, <2>6, Ticks DEF SumOK
  <2> DEFINE f == seconds[t]
             printed == 0 .. maxsec - 1
  <2>8. \A i \in Rows : f[i] \in Nat BY <2>5
  <2>9. printed \subseteq Rows /\ \A i \in Rows \ printed : f[i] = 0 BY <2>4, <2>7
  <2> HIDE DEF f, printed
  <2>10. SumFunctionOnSet(f, printed) = SumFunctionOnSet(f, Rows)
    BY <2>8, <2>9, Ticks, SumPart
  <2> QED BY <2>6, <2>10 DEF SumOK, f, printed
<1> QED BY <1>1, Invariant, PTL
==============================================================================
