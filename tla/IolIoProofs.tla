----------------------------- MODULE IolIoProofs -----------------------------
(***************************************************************************)
(* Theorems about the offsets and sizes of ioload, for every command line, *)
(* every random number, and sectors, units and a width of offsets of any   *)
(* size that suits UnitsAssumption.                                        *)
(***************************************************************************)
EXTENDS IolIo, Arithmetic

HeaderValues == {n * Kb : n \in Headers} \cup {Params.headersz}
SizeValues   == Sizes \cup Sleeptms \cup {DefaultSleep, Defitype.size}

\* A type of I/O as getitypeopts leaves it: reads and writes are of whole sectors.
TypeFits(t) ==
    /\ t.size \in SizeValues \ {0}
    /\ t.optype # "sleep" => t.size % Sector = 0

\* What the options have been checked for.  A size that has not been refused is one
\* of whole sectors until EndItype; then that of a sleep is its time.
OptionsOK ==
    /\ params.minoff % Sector = 0 /\ params.maxoff % Sector = 0
    /\ params.headersz % Sector = 0 /\ params.headersz \in HeaderValues
    /\ sleeptm \in Sleeptms \cup {0}
    /\ stage # "exit" => /\ InOrder(params)
                         /\ \A i \in DOMAIN itlist : TypeFits(itlist[i])
    /\ stage = "itype" => itlist # <<>> /\ Newest.size % Sector = 0

\* What init_threads has computed.
RegionOK ==
    Running =>
        /\ itlist # <<>> /\ maxsize \in SizeValues \ {0}
        /\ \A i \in DOMAIN itlist : itlist[i].size <= maxsize
        /\ iosize = Iosize(maxsize, params)
        /\ rangeoff = Rangeoff(params, maxsize)

\* The I/O lies in the region, as far as RegionFits says that it can.
StartOK ==
    /\ offset % Sector = 0
    /\ RegionFits => params.minoff <= offset /\ offset + ip.size <= RegionEnd

Done == ip.size - sz

PieceOK(piece) ==
    /\ piece.size <= iosize
    /\ offset + ip.size <= Word =>
         offset <= piece.off /\ piece.off + piece.size <= offset + Done
    /\ params.maxiosize % Sector = 0 =>
         piece.off % Sector = 0 /\ piece.size % Sector = 0

\* The pieces follow each other from offset to baseoff.
Chain ==
    /\ pass = <<>> => sz = ip.size
    /\ pass # <<>> =>
         /\ pass[1].off = offset
         /\ (pass[Len(pass)].off + pass[Len(pass)].size) % Word = baseoff
    /\ \A n \in 1 .. Len(pass) - 1 :
          pass[n + 1].off = (pass[n].off + pass[n].size) % Word

TransferOK ==
    /\ 0 <= sz
    /\ params.maxiosize % Sector = 0 => sz % Sector = 0
    /\ baseoff = (offset + Done) % Word
    /\ StartOK
    /\ \A n \in DOMAIN pass : PieceOK(pass[n])
    /\ Chain

SleepOK == sz + SleepTick > 0 /\ (PiecesFit => asked = Done * NsPerUs)

PassOK ==
    stage = "pass" =>
        /\ \E i \in DOMAIN itlist : ip = itlist[i]
        /\ sz <= ip.size
        /\ IF ip.optype = "sleep" THEN SleepOK ELSE TransferOK

IInv == TypeOK /\ OptionsOK /\ RegionOK /\ PassOK

-----------------------------------------------------------------------------
\* The units, as numbers.
LEMMA Units ==
    /\ Sector \in Nat /\ Sector >= 1 /\ SleepTick \in Nat /\ SleepTick >= 1
    /\ Word \in Nat /\ Word >= 1 /\ Word % Sector = 0
    /\ Kb \in Nat /\ Kb % Sector = 0 /\ Mb \in Nat /\ Mb % Sector = 0
    /\ UsPerSec \in Nat \ {0} /\ NsPerUs \in Nat \ {0} /\ Uint \in Nat \ {0}
BY UnitsAssumption

\* An offset in megabytes, or a header in kilobytes, is of whole sectors.
LEMMA InSectors ==
    ASSUME NEW n \in Nat
    PROVE  /\ n * Mb \in Nat /\ (n * Mb) % Sector = 0
           /\ n * Kb \in Nat /\ (n * Kb) % Sector = 0
<1>1. n \in Int /\ Mb \in Int /\ Kb \in Int /\ Sector \in Nat \ {0} BY Units
<1>2. (Mb * n) % Sector = 0 /\ (Kb * n) % Sector = 0 BY <1>1, Units, MultipleProduct
<1>3. n * Mb = Mb * n /\ n * Kb = Kb * n BY <1>1
<1>4. n * Mb \in Nat /\ n * Kb \in Nat BY Units
<1> QED BY <1>2, <1>3, <1>4

\* A header and an I/O that options can ask for, as WidthAssumption has them.
LEMMA SizeType ==
    /\ SizeValues \subseteq Nat
    /\ \A h \in HeaderValues, s \in SizeValues : h + s < Word
BY ValuesAssumption, UnitsAssumption, DefaultsAssumption, WidthAssumption
   DEF SizeValues, HeaderValues

\* The default type is a read of whole sectors.
LEMMA DefaultFits == TypeFits(Defitype) /\ Defitype.size % Sector = 0
BY DefaultsAssumption DEF TypeFits, SizeValues

\* main starts with the defaults.
LEMMA InvInit == Init => IInv
<1> SUFFICES ASSUME Init PROVE IInv OBVIOUS
<1>1. 0 \in 0 .. Word - 1 /\ <<>> \in Seq([optype : Optypes, size : Nat])
      /\ <<>> \in Seq([off : 0 .. Word - 1, size : Nat \ {0}])
  BY Units
<1>2. TypeOK BY <1>1, DefaultsAssumption DEF Init, TypeOK, Running
<1>3. OptionsOK
  BY DefaultsAssumption DEF Init, OptionsOK, InOrder, HeaderValues
<1> QED BY <1>2, <1>3 DEF Init, IInv, RegionOK, PassOK, Running

-----------------------------------------------------------------------------
(***************************************************************************)
(* The options.                                                            *)
(***************************************************************************)
ParamsType == [minoff : 0 .. Word - 1, maxoff : 0 .. Word - 1, headersz : Nat,
               multiplier : Nat, maxiosize : Nat]

\* One of params' fields gets a value, or main ends with a message.
LEMMA ParamStep ==
    ASSUME IInv, NEW p \in ParamsType, NEW ok \in BOOLEAN, SetParam(p, ok),
           p.minoff % Sector = 0, p.maxoff % Sector = 0,
           p.headersz % Sector = 0, p.headersz \in HeaderValues,
           ok => InOrder(p)
    PROVE  IInv'
<1> USE DEF IInv
<1>2. /\ params' = p /\ stage = "main" /\ stage' = IF ok THEN "main" ELSE "exit"
      /\ UNCHANGED <<itlist, sleeptm, region, doing>>
  BY DEF SetParam, Option
<1>3. ~Running' /\ stage' \in {"main", "exit"} BY <1>2 DEF Running
<1>4. TypeOK' BY <1>2, <1>3 DEF TypeOK, region, doing, ParamsType
<1>5. OptionsOK' BY <1>2 DEF OptionsOK
<1> QED BY <1>3, <1>4, <1>5 DEF RegionOK, PassOK

\* An option of getmodopts keeps the invariant.
LEMMA ModoptsStep ==
    ASSUME IInv, Getmodopts
    PROVE  IInv'
<1>1. /\ stage = "main" /\ params \in ParamsType
      /\ params.minoff % Sector = 0 /\ params.maxoff % Sector = 0
      /\ params.headersz % Sector = 0 /\ params.headersz \in HeaderValues
      /\ InOrder(params)
  <2>1. stage = "main"
    BY DEF Getmodopts, SetMinoff, SetMaxoff, SetHeader, SetMultiplier, SetMaxiosize,
           SetParam, Option
  <2> QED BY <2>1 DEF IInv, TypeOK, OptionsOK, ParamsType
<1>2. ASSUME NEW n \in Minoffs \cup Maxoffs
      PROVE  n * Mb \in 0 .. Word - 1 /\ (n * Mb) % Sector = 0
  <2>1. n \in Nat /\ n * Mb < Word BY ValuesAssumption
  <2> HIDE DEF IInv
  <2>2. n * Mb \in Nat /\ (n * Mb) % Sector = 0 BY <2>1, InSectors
  <2> QED BY <2>1, <2>2, Units
<1>3. CASE SetMinoff
  <2>1. PICK n \in Minoffs : SetParam([params EXCEPT !.minoff = n * Mb],
                                      InOrder([params EXCEPT !.minoff = n * Mb]))
    BY <1>3 DEF SetMinoff
  <2> DEFINE p == [params EXCEPT !.minoff = n * Mb]
  <2>2. /\ p \in ParamsType /\ p.minoff = n * Mb /\ p.maxoff = params.maxoff
        /\ p.headersz = params.headersz
    BY <1>1, <1>2 DEF ParamsType
  <2>3. InOrder(p) \in BOOLEAN BY DEF InOrder
  <2>4. SetParam(p, InOrder(p)) BY <2>1
  <2> HIDE DEF p
  <2> QED BY <1>1, <1>2, <2>2, <2>3, <2>4, ParamStep
<1>4. CASE SetMaxoff
  <2>1. PICK n \in Maxoffs : SetParam([params EXCEPT !.maxoff = n * Mb],
                                      InOrder([params EXCEPT !.maxoff = n * Mb]))
    BY <1>4 DEF SetMaxoff
  <2> DEFINE p == [params EXCEPT !.maxoff = n * Mb]
  <2>2. /\ p \in ParamsType /\ p.maxoff = n * Mb /\ p.minoff = params.minoff
        /\ p.headersz = params.headersz
    BY <1>1, <1>2 DEF ParamsType
  <2>3. InOrder(p) \in BOOLEAN BY DEF InOrder
  <2>4. SetParam(p, InOrder(p)) BY <2>1
  <2> HIDE DEF p
  <2> QED BY <1>1, <1>2, <2>2, <2>3, <2>4, ParamStep
<1>5. CASE SetHeader
  <2>1. PICK n \in Headers : SetParam([params EXCEPT !.headersz = n * Kb], TRUE)
    BY <1>5 DEF SetHeader
  <2>2. n \in Nat /\ n * Kb \in HeaderValues BY ValuesAssumption DEF HeaderValues
  <2>3. n * Kb \in Nat /\ (n * Kb) % Sector = 0 BY <2>2, InSectors
  <2> DEFINE p == [params EXCEPT !.headersz = n * Kb]
  <2>4. /\ p \in ParamsType /\ p.maxoff = params.maxoff /\ p.minoff = params.minoff
        /\ p.headersz = n * Kb
    BY <1>1, <2>3 DEF ParamsType
  <2>5. InOrder(p) BY <1>1, <2>4 DEF InOrder
  <2>6. SetParam(p, TRUE) BY <2>1
  <2> HIDE DEF p
  <2> QED BY <1>1, <2>2, <2>3, <2>4, <2>5, <2>6, ParamStep
<1>6. ASSUME NEW p \in ParamsType, SetParam(p, TRUE), p.maxoff = params.maxoff,
             p.minoff = params.minoff, p.headersz = params.headersz
      PROVE  IInv'
  <2>1. InOrder(p) BY <1>1, <1>6 DEF InOrder
  <2> QED BY <1>1, <1>6, <2>1, ParamStep
<1>7. CASE SetMultiplier
  <2>1. PICK n \in Multipliers : SetParam([params EXCEPT !.multiplier = n], TRUE)
    BY <1>7 DEF SetMultiplier
  <2>2. n \in Nat BY ValuesAssumption
  <2> DEFINE p == [params EXCEPT !.multiplier = n]
  <2>3. /\ p \in ParamsType /\ p.maxoff = params.maxoff /\ p.minoff = params.minoff
        /\ p.headersz = params.headersz
    BY <1>1, <2>2 DEF ParamsType
  <2>4. SetParam(p, TRUE) BY <2>1
  <2> HIDE DEF p
  <2> QED BY <1>6, <2>3, <2>4
<1>8. CASE SetMaxiosize
  <2>1. PICK n \in Maxiosizes : SetParam([params EXCEPT !.maxiosize = n], TRUE)
    BY <1>8 DEF SetMaxiosize
  <2>2. n \in Nat BY ValuesAssumption
  <2> DEFINE p == [params EXCEPT !.maxiosize = n]
  <2>3. /\ p \in ParamsType /\ p.maxoff = params.maxoff /\ p.minoff = params.minoff
        /\ p.headersz = params.headersz
    BY <1>1, <2>2 DEF ParamsType
  <2>4. SetParam(p, TRUE) BY <2>1
  <2> HIDE DEF p
  <2> QED BY <1>6, <2>3, <2>4
<1> QED BY <1>3, <1>4, <1>5, <1>7, <1>8 DEF Getmodopts

\* The newest type gets a size or an operation, or its size is refused.
LEMMA ItypeSet ==
    ASSUME IInv, NEW type \in [optype : Optypes, size : Nat], NEW ok \in BOOLEAN,
           SetItype(type, ok),
           ok => type.size % Sector = 0 /\ type.size \in SizeValues \ {0}
    PROVE  IInv'
<1> USE DEF IInv
<1>1. /\ stage = "itype" /\ stage' = IF ok THEN "itype" ELSE "exit"
      /\ itlist' = [itlist EXCEPT ![Len(itlist)] = type]
      /\ UNCHANGED <<params, sleeptm, region, doing>>
  BY DEF SetItype, Option
<1>2. itlist # <<>> /\ itlist \in Seq([optype : Optypes, size : Nat])
  BY <1>1 DEF OptionsOK, TypeOK
<1>3. /\ itlist' \in Seq([optype : Optypes, size : Nat]) /\ Len(itlist') = Len(itlist)
      /\ itlist'[Len(itlist)] = type /\ itlist' # <<>>
      /\ \A i \in 1 .. Len(itlist) : i # Len(itlist) => itlist'[i] = itlist[i]
  BY <1>1, <1>2
<1>4. ~Running' /\ stage' \in {"itype", "exit"} BY <1>1 DEF Running
<1>5. TypeOK' BY <1>1, <1>3, <1>4 DEF TypeOK, region, doing
<1>6. ASSUME ok PROVE \A i \in DOMAIN itlist' : TypeFits(itlist'[i])
  <2>1. DOMAIN itlist' = 1 .. Len(itlist) /\ DOMAIN itlist = 1 .. Len(itlist)
    BY <1>2, <1>3
  <2>2. TypeFits(type) BY <1>6 DEF TypeFits
  <2>3. \A i \in DOMAIN itlist : TypeFits(itlist[i]) BY <1>1 DEF OptionsOK
  <2> QED BY <1>3, <2>1, <2>2, <2>3
<1>7. OptionsOK' BY <1>1, <1>3, <1>6 DEF OptionsOK, Newest
<1> QED BY <1>4, <1>5, <1>7 DEF RegionOK, PassOK

\* So does one of getitypeopts.
LEMMA ItypeoptsStep ==
    ASSUME IInv, Getitypeopts
    PROVE  IInv'
<1> USE DEF IInv
<1>1. CASE NewItype
  <2>1. /\ stage = "main" /\ stage' = "itype" /\ itlist' = Append(itlist, Defitype)
        /\ sleeptm' = 0 /\ UNCHANGED <<params, region, doing>>
    BY <1>1 DEF NewItype, Option
  <2>2. itlist \in Seq([optype : Optypes, size : Nat])
        /\ Defitype \in [optype : Optypes, size : Nat]
    BY DefaultsAssumption DEF TypeOK, Optypes
  <2>3. /\ itlist' \in Seq([optype : Optypes, size : Nat])
        /\ Len(itlist') = Len(itlist) + 1 /\ itlist'[Len(itlist')] = Defitype
        /\ itlist' # <<>> /\ DOMAIN itlist' = 1 .. Len(itlist) + 1
        /\ \A i \in 1 .. Len(itlist) : itlist'[i] = itlist[i]
    BY <2>1, <2>2
  <2>4. ~Running' BY <2>1 DEF Running
  <2>5. TypeOK' BY <2>1, <2>3, <2>4 DEF TypeOK, region, doing
  <2>6. \A i \in DOMAIN itlist' : TypeFits(itlist'[i])
    <3>1. \A i \in 1 .. Len(itlist) : TypeFits(itlist[i])
      BY <2>1, <2>2 DEF OptionsOK
    <3> QED BY <2>2, <2>3, <3>1, DefaultFits
  <2>7. OptionsOK' BY <2>1, <2>3, <2>6, DefaultFits DEF OptionsOK, Newest
  <2> QED BY <2>1, <2>4, <2>5, <2>7 DEF RegionOK, PassOK
<1>a. ASSUME stage = "itype"
      PROVE  /\ Newest \in [optype : Optypes, size : Nat]
             /\ Newest.size % Sector = 0 /\ TypeFits(Newest)
  <2>1. itlist \in Seq([optype : Optypes, size : Nat]) /\ itlist # <<>>
    BY <1>a DEF TypeOK, OptionsOK
  <2>2. Len(itlist) \in 1 .. Len(itlist) /\ DOMAIN itlist = 1 .. Len(itlist) BY <2>1
  <2>3. Newest \in [optype : Optypes, size : Nat]
    <3> DEFINE T == [optype : Optypes, size : Nat]
    <3>1. itlist \in Seq(T) BY <2>1
    <3> HIDE DEF T
    <3>2. itlist[Len(itlist)] \in T BY <2>2, <3>1
    <3> QED BY <3>2 DEF Newest, T
  <2>4. TypeFits(Newest) BY <1>a, <2>2 DEF OptionsOK, Newest
  <2>5. Newest.size % Sector = 0 BY <1>a DEF OptionsOK
  <2> QED BY <2>3, <2>4, <2>5
<1>2. CASE SetSize
  <2>1. PICK n \in Sizes :
          SetItype([Newest EXCEPT !.size = n], n >= Sector /\ n % Sector = 0)
    BY <1>2 DEF SetSize
  <2>2. Newest \in [optype : Optypes, size : Nat] BY <1>2, <1>a DEF SetSize
  <2>3. n \in Nat /\ n \in SizeValues BY ValuesAssumption DEF SizeValues
  <2> DEFINE type == [Newest EXCEPT !.size = n]
             ok == n >= Sector /\ n % Sector = 0
  <2>4. type \in [optype : Optypes, size : Nat] /\ type.size = n BY <2>2, <2>3
  <2>5. ok => n # 0 BY Units
  <2>6. ok \in BOOLEAN /\ (ok => n % Sector = 0) OBVIOUS
  <2>7. SetItype(type, ok) BY <2>1
  <2> HIDE DEF type, ok
  <2> QED BY <2>3, <2>4, <2>5, <2>6, <2>7, ItypeSet
<1>3. CASE SetOp
  <2>1. PICK o \in Optypes : SetItype([Newest EXCEPT !.optype = o], TRUE)
    BY <1>3 DEF SetOp
  <2>2. /\ Newest \in [optype : Optypes, size : Nat]
        /\ Newest.size % Sector = 0 /\ TypeFits(Newest)
    BY <1>3, <1>a DEF SetOp
  <2> DEFINE type == [Newest EXCEPT !.optype = o]
  <2>3. type \in [optype : Optypes, size : Nat] /\ type.size = Newest.size BY <2>2
  <2>4. SetItype(type, TRUE) BY <2>1
  <2> HIDE DEF type
  <2>5. type.size % Sector = 0 /\ type.size \in SizeValues \ {0} BY <2>2, <2>3 DEF TypeFits
  <2> QED BY <2>3, <2>4, <2>5, ItypeSet
<1>4. CASE SetSleeptm
  <2>1. PICK n \in Sleeptms : Option("itype", n >= SleepTick, "itype") /\ sleeptm' = n
    BY <1>4 DEF SetSleeptm
  <2>2. /\ stage = "itype" /\ stage' \in {"itype", "exit"}
        /\ UNCHANGED <<params, itlist, region, doing>>
    BY <1>4, <2>1 DEF SetSleeptm, Option
  <2>3. ~Running' BY <2>2 DEF Running
  <2>4. TypeOK' BY <2>2, <2>3 DEF TypeOK, region, doing
  <2>5. OptionsOK' BY <2>1, <2>2 DEF OptionsOK, Newest
  <2> QED BY <2>2, <2>3, <2>4, <2>5 DEF RegionOK, PassOK
<1>5. CASE EndItype
  <2> DEFINE time == IF sleeptm # 0 THEN sleeptm ELSE DefaultSleep
  <2>1. /\ stage = "itype" /\ stage' = "main"
        /\ itlist' = IF Newest.optype = "sleep"
                     THEN [itlist EXCEPT ![Len(itlist)].size = time] ELSE itlist
        /\ UNCHANGED <<params, sleeptm, region, doing>>
    BY <1>5 DEF EndItype, Option
  <2>2. itlist \in Seq([optype : Optypes, size : Nat]) /\ itlist # <<>>
        /\ sleeptm \in Sleeptms \cup {0}
    BY <2>1 DEF TypeOK, OptionsOK
  <2>3. time \in SizeValues \ {0} /\ time \in Nat
    <3>1. DefaultSleep # 0 BY UnitsAssumption
    <3> QED BY <2>2, <3>1, SizeType DEF SizeValues
  <2>4. ~Running' BY <2>1 DEF Running
  <2> HIDE DEF time
  <2>5. CASE Newest.optype = "sleep"
    <3>1. /\ itlist' \in Seq([optype : Optypes, size : Nat])
          /\ DOMAIN itlist' = 1 .. Len(itlist)
          /\ itlist'[Len(itlist)].optype = "sleep" /\ itlist'[Len(itlist)].size = time
          /\ \A i \in 1 .. Len(itlist) : i # Len(itlist) => itlist'[i] = itlist[i]
      <4> DEFINE e == [Newest EXCEPT !.size = time]
      <4>1. Newest \in [optype : Optypes, size : Nat] BY <2>1, <1>a
      <4>2. e \in [optype : Optypes, size : Nat] /\ e.optype = "sleep" /\ e.size = time
        BY <2>3, <2>5, <4>1
      <4>3. itlist' = [itlist EXCEPT ![Len(itlist)] = e] BY <2>1, <2>5 DEF Newest
      <4> HIDE DEF e
      <4> QED BY <2>2, <4>2, <4>3
    <3>2. TypeOK' BY <2>1, <2>4, <3>1 DEF TypeOK, region, doing
    <3>3. \A i \in 1 .. Len(itlist) : TypeFits(itlist[i]) BY <2>1, <2>2 DEF OptionsOK
    <3>4. TypeFits(itlist'[Len(itlist)]) BY <2>3, <3>1 DEF TypeFits
    <3>5. \A i \in DOMAIN itlist' : TypeFits(itlist'[i]) BY <3>1, <3>3, <3>4
    <3>6. OptionsOK' BY <2>1, <3>5 DEF OptionsOK
    <3> QED BY <2>1, <2>4, <3>2, <3>6 DEF RegionOK, PassOK
  <2>6. CASE Newest.optype # "sleep"
    <3>1. itlist' = itlist BY <2>1, <2>6
    <3>2. TypeOK' BY <2>1, <2>4, <3>1 DEF TypeOK, region, doing
    <3>3. OptionsOK' BY <2>1, <3>1 DEF OptionsOK
    <3> QED BY <2>1, <2>4, <3>2, <3>3 DEF RegionOK, PassOK
  <2> QED BY <2>5, <2>6
<1> QED BY <1>1, <1>2, <1>3, <1>4, <1>5 DEF Getitypeopts

-----------------------------------------------------------------------------
(***************************************************************************)
(* init_threads.                                                           *)
(***************************************************************************)
TypeRecords == [optype : Optypes, size : Nat]

\* The list of types that init_threads goes through, and the largest of their sizes.
LEMMA TypesFit ==
    ASSUME IInv, stage = "main"
    PROVE  /\ Types \in Seq(TypeRecords) /\ Types # <<>>
           /\ \A i \in DOMAIN Types : TypeFits(Types[i])
           /\ Largest(Types) \in SizeValues \ {0}
           /\ \A i \in DOMAIN Types : Types[i].size <= Largest(Types)
<1>1. Types \in Seq(TypeRecords) /\ Types # <<>>
  <2>1. itlist \in Seq(TypeRecords) BY DEF IInv, TypeOK, TypeRecords
  <2>2. Defitype \in TypeRecords BY DefaultsAssumption DEF TypeRecords, Optypes
  <2> QED BY <2>1, <2>2 DEF Types
<1>2. \A i \in DOMAIN Types : TypeFits(Types[i])
  <2>1. CASE itlist = <<>>
    <3>1. Types = <<Defitype>> BY <2>1 DEF Types
    <3>2. DOMAIN Types = {1} /\ Types[1] = Defitype BY <3>1
    <3> QED BY <3>2, DefaultFits
  <2>2. CASE itlist # <<>> BY <2>2 DEF IInv, OptionsOK, Types
  <2> QED BY <2>1, <2>2
<1> DEFINE S == {Types[i].size : i \in DOMAIN Types}
<1>3. S \subseteq SizeValues \ {0} BY <1>2 DEF TypeFits
<1>4. S \subseteq Int
  <2> HIDE DEF S
  <2>1. SizeValues \subseteq Nat BY SizeType
  <2> QED BY <1>3, <2>1
<1>5. S # {}
  <2>1. Types[1].size \in S BY <1>1
  <2> QED BY <2>1
<1>6. IsFiniteSet(S)
  <2>1. IsFiniteSet(DOMAIN Types)
    <3>1. DOMAIN Types = 1 .. Len(Types) /\ Len(Types) \in Nat BY <1>1
    <3> QED BY <3>1, FS_Interval
  <2> DEFINE f == [i \in DOMAIN Types |-> Types[i].size]
  <2>2. f \in Surjection(DOMAIN Types, S) BY DEF Surjection
  <2> HIDE DEF f, S
  <2> QED BY <2>1, <2>2, FS_Surjection
<1>7. Largest(Types) = Max(S) BY DEF Largest
<1>8. \A i \in DOMAIN Types : Types[i].size \in S OBVIOUS
<1> HIDE DEF S
<1>9. Max(S) \in S /\ \A x \in S : x <= Max(S) BY <1>4, <1>5, <1>6, MaxIs
<1> QED BY <1>1, <1>2, <1>3, <1>7, <1>8, <1>9

\* A header below the largest size is its own remainder.
LEMMA HeaderStays ==
    ASSUME NEW h \in Nat, NEW m \in Nat \ {0}
    PROVE  Reduced(h, m) = h
BY RemainderSmall DEF Reduced

\* A difference of 64 bits, and when it is the difference.
LEMMA SubType ==
    ASSUME NEW a \in Int, NEW b \in Int
    PROVE  Sub(a, b) \in 0 .. Word - 1 /\ (0 <= a - b /\ a - b < Word => Sub(a, b) = a - b)
<1>1. Word \in Nat \ {0} /\ a - b \in Int BY Units
<1>2. (a - b) % Word \in 0 .. Word - 1 BY <1>1, Remainder
<1>3. 0 <= a - b /\ a - b < Word => (a - b) % Word = a - b BY <1>1, RemainderSmall
<1> QED BY <1>2, <1>3 DEF Sub

\* The range is of 64 bits and of whole sectors, wrapped around or not.
LEMMA RangeType ==
    ASSUME NEW p \in ParamsType, NEW m \in Nat
    PROVE  /\ Maxblks(p, m) \in Int
           /\ Rangeoff(p, m) \in 0 .. Word - 1 /\ Rangeoff(p, m) % Sector = 0
<1>1. Word \in Nat \ {0} /\ Sector \in Nat \ {0} /\ Word % Sector = 0 BY Units
<1>2. p.maxoff \in Int /\ p.minoff \in Int /\ m \in Int BY DEF ParamsType
<1>3. Sub(p.maxoff, m) \in Int
  <2>1. Sub(p.maxoff, m) \in 0 .. Word - 1 BY <1>2, SubType
  <2> QED BY <2>1, Units
<1>4. Maxblks(p, m) \in Int BY <1>1, <1>2, <1>3, Remainder DEF Maxblks
<1>5. p.minoff \div Sector \in Int BY <1>1, <1>2, Remainder
<1> DEFINE blks == Sub(Maxblks(p, m), p.minoff \div Sector)
<1>6. blks \in Int BY <1>4, <1>5, SubType
<1>7. Rangeoff(p, m) = (blks * Sector) % Word BY DEF Rangeoff
<1> HIDE DEF blks
<1>8. blks * Sector \in Int BY <1>1, <1>6
<1>9. (blks * Sector) % Sector = 0 BY <1>1, <1>6, Multiple
<1>10. (blks * Sector) % Word \in 0 .. Word - 1 BY <1>1, <1>8, Remainder
<1>11. ((blks * Sector) % Word) % Sector = 0 BY <1>1, <1>8, <1>9, MultipleRemainder
<1> QED BY <1>4, <1>7, <1>10, <1>11

\* init_threads leaves the header alone, and a range that has passed its check is not 0.
LEMMA InitStep ==
    ASSUME IInv, InitThreads
    PROVE  IInv'
<1> DEFINE max == Largest(Types)
           range == Rangeoff(params, max)
<1>1. stage = "main" /\ itlist' = Types /\ UNCHANGED <<sleeptm, doing>>
  BY DEF InitThreads
<1>2. /\ Types \in Seq(TypeRecords) /\ Types # <<>>
      /\ \A i \in DOMAIN Types : TypeFits(Types[i])
      /\ max \in SizeValues \ {0}
      /\ \A i \in DOMAIN Types : Types[i].size <= max
  BY <1>1, TypesFit
<1>3. max \in Nat \ {0} BY <1>2, SizeType
<1>4. /\ params \in ParamsType /\ params.headersz \in Nat
      /\ params.headersz \in HeaderValues /\ InOrder(params)
  BY <1>1 DEF IInv, TypeOK, OptionsOK, ParamsType
<1>5. Reduced(params.headersz, max) = params.headersz
  <2> HIDE DEF max
  <2> QED BY <1>3, <1>4, HeaderStays
<1>6. [params EXCEPT !.headersz = params.headersz] = params BY <1>4 DEF ParamsType
<1>7. /\ params' = params /\ maxsize' = max /\ rangeoff' = range
      /\ iosize' = Iosize(max, params)
      /\ stage' = IF TooSmall(range, max, params.headersz) THEN "exit" ELSE "pick"
  BY <1>5, <1>6 DEF InitThreads
<1>8. range \in 0 .. Word - 1
  <2> HIDE DEF max
  <2> QED BY <1>3, <1>4, RangeType
<1> HIDE DEF max, range
<1>9. Iosize(max, params) \in Nat BY <1>3, <1>4 DEF Iosize, ParamsType
<1>10. ASSUME stage' = "pick" PROVE range # 0
  <2>1. ~(range < (max + params.headersz) % Word) BY <1>7, <1>10 DEF TooSmall
  <2>2. params.headersz + max < Word BY <1>2, <1>4, SizeType
  <2>3. max + params.headersz \in 0 .. Word - 1 BY <1>3, <1>4, <2>2, Units
  <2>4. (max + params.headersz) % Word = max + params.headersz
    BY <2>3, Units, RemainderSmall
  <2> QED BY <1>3, <1>4, <1>8, <2>1, <2>4
<1>11. stage' \in {"exit", "pick"} BY <1>7
<1>12. Running' => stage' = "pick" BY <1>11 DEF Running
<1>13. \A i \in DOMAIN Types : Types[i].size # 0 BY <1>2 DEF TypeFits
<1>14. TypeOK'
  <2>1. itlist' \in Seq([optype : Optypes, size : Nat]) BY <1>1, <1>2 DEF TypeRecords
  <2>2. params' \in [minoff : 0 .. Word - 1, maxoff : 0 .. Word - 1, headersz : Nat,
                     multiplier : Nat, maxiosize : Nat]
    BY <1>4, <1>7 DEF ParamsType
  <2>3. /\ maxsize' \in Nat /\ iosize' \in Nat /\ rangeoff' \in 0 .. Word - 1
    BY <1>3, <1>7, <1>8, <1>9
  <2>4. /\ offset' \in 0 .. Word - 1 /\ baseoff' \in 0 .. Word - 1 /\ sz' \in Int
        /\ pass' \in Seq([off : 0 .. Word - 1, size : Nat \ {0}]) /\ asked' \in Nat
    BY <1>1 DEF IInv, TypeOK, doing
  <2>5. Running' => rangeoff' # 0 /\ \A i \in DOMAIN itlist' : itlist'[i].size # 0
    BY <1>1, <1>7, <1>10, <1>12, <1>13
  <2> QED BY <1>11, <2>1, <2>2, <2>3, <2>4, <2>5 DEF TypeOK
<1>15. OptionsOK'
  BY <1>1, <1>2, <1>7, <1>11 DEF IInv, OptionsOK, Newest
<1>16. RegionOK' BY <1>1, <1>2, <1>7 DEF RegionOK, Iosize, Rangeoff, Maxblks, Sub, range
<1>17. PassOK' BY <1>11 DEF PassOK
<1> QED BY <1>14, <1>15, <1>16, <1>17 DEF IInv

-----------------------------------------------------------------------------
(***************************************************************************)
(* do_io chooses a place.                                                  *)
(***************************************************************************)
\* What a running thread relies on.
LEMMA WhenRunning ==
    ASSUME IInv, Running
    PROVE  /\ params \in ParamsType /\ InOrder(params)
           /\ params.minoff \in Nat /\ params.maxoff \in Nat
           /\ params.maxoff < Word /\ params.headersz \in Nat
           /\ params.multiplier \in Nat /\ params.maxiosize \in Nat
           /\ params.minoff % Sector = 0 /\ params.maxoff % Sector = 0
           /\ params.headersz % Sector = 0
           /\ maxsize \in Nat \ {0} /\ rangeoff \in Nat \ {0} /\ rangeoff < Word
           /\ rangeoff = Rangeoff(params, maxsize) /\ rangeoff % Sector = 0
           /\ \A i \in DOMAIN itlist :
                 /\ itlist[i].size \in Nat \ {0} /\ itlist[i].size <= maxsize
                 /\ itlist[i].optype # "sleep" => itlist[i].size % Sector = 0
<1>1. stage # "exit" BY DEF Running
<1>2. params \in ParamsType BY DEF IInv, TypeOK, ParamsType
<1>3. /\ params.minoff \in Nat /\ params.maxoff \in Nat
      /\ params.maxoff < Word /\ params.headersz \in Nat
      /\ params.multiplier \in Nat /\ params.maxiosize \in Nat
  BY <1>2, Units DEF ParamsType
<1>4. /\ InOrder(params)
      /\ params.minoff % Sector = 0 /\ params.maxoff % Sector = 0
      /\ params.headersz % Sector = 0
  BY <1>1 DEF IInv, OptionsOK
<1>5. maxsize \in Nat \ {0} /\ rangeoff = Rangeoff(params, maxsize)
  <2>1. maxsize \in SizeValues \ {0} BY DEF IInv, RegionOK
  <2> QED BY <2>1, SizeType DEF IInv, RegionOK
<1>6. rangeoff \in Nat \ {0} /\ rangeoff < Word BY Units DEF IInv, TypeOK
<1>7. rangeoff % Sector = 0 BY <1>2, <1>5, RangeType
<1>8. ASSUME NEW i \in DOMAIN itlist
      PROVE  /\ itlist[i].size \in Nat \ {0} /\ itlist[i].size <= maxsize
             /\ itlist[i].optype # "sleep" => itlist[i].size % Sector = 0
  <2>1. TypeFits(itlist[i]) BY <1>1 DEF IInv, OptionsOK
  <2>2. itlist[i].size <= maxsize BY DEF IInv, RegionOK
  <2> QED BY <2>1, <2>2, SizeType DEF TypeFits
<1> QED BY <1>2, <1>3, <1>4, <1>5, <1>6, <1>7, <1>8

\* A random number minus its remainder is a multiple, and no larger.
LEMMA WholeSizes ==
    ASSUME NEW r \in Nat, NEW m \in Nat \ {0}
    PROVE  r - (r % m) \in 0 .. r /\ (r - (r % m)) % m = 0
<1> DEFINE q == r \div m
<1>1. q \in Int /\ r % m \in 0 .. m - 1 /\ r = q * m + (r % m) BY Remainder
<1> HIDE DEF q
<1>2. r - (r % m) = q * m BY <1>1
<1>3. (q * m) % m = 0 BY <1>1, Multiple
<1>4. q >= 0
  <2> SUFFICES ASSUME q <= -1 PROVE FALSE BY <1>1
  <2>1. 0 - q \in Nat /\ 1 \in Nat /\ 1 <= 0 - q BY <1>1
  <2>2. 1 * m <= (0 - q) * m BY <2>1, ProductMonotone
  <2>3. (0 - q) * m = 0 - (q * m) BY <1>1
  <2> QED BY <1>1, <2>2, <2>3
<1>5. q * m \in Nat
  <2>1. q \in Nat BY <1>1, <1>4
  <2> QED BY <2>1
<1> QED BY <1>1, <1>2, <1>3, <1>5

\* The byte in the range, before the multiplier spreads it.
Byte(t, r) == (r - (r % t.size) + params.headersz) % Word
Start(t, r) == Byte(t, r) % rangeoff

\* A transfer starts at a sector's border.
LEMMA StartType ==
    ASSUME IInv, Running, NEW i \in DOMAIN itlist, NEW r \in 0 .. Word - 1
    PROVE  /\ r - (r % itlist[i].size) \in 0 .. r
           /\ (r - (r % itlist[i].size)) % itlist[i].size = 0
           /\ Byte(itlist[i], r) \in Nat /\ Start(itlist[i], r) \in 0 .. rangeoff - 1
           /\ itlist[i].optype # "sleep" => Start(itlist[i], r) % Sector = 0
<1> DEFINE t == itlist[i]
           w == r - (r % t.size)
<1>1. /\ t.size \in Nat \ {0} /\ (t.optype # "sleep" => t.size % Sector = 0)
      /\ params.headersz \in Nat /\ params.headersz % Sector = 0
      /\ rangeoff \in Nat \ {0} /\ rangeoff % Sector = 0
  BY WhenRunning
<1>2. r \in Nat /\ Word \in Nat \ {0} /\ Sector \in Nat \ {0} /\ Word % Sector = 0
  BY Units
<1> HIDE DEF t
<1>3. w \in 0 .. r /\ w % t.size = 0 BY <1>1, <1>2, WholeSizes
<1>4. Byte(t, r) = (w + params.headersz) % Word BY DEF Byte
<1> HIDE DEF w
<1>5. w \in Int /\ w + params.headersz \in Int BY <1>1, <1>2, <1>3
<1>6. Byte(t, r) \in 0 .. Word - 1 BY <1>2, <1>4, <1>5, Remainder
<1>7. Byte(t, r) \in Nat /\ Byte(t, r) \in Int BY <1>2, <1>6
<1>8. Start(t, r) \in 0 .. rangeoff - 1 BY <1>1, <1>7, Remainder DEF Start
<1>9. ASSUME t.optype # "sleep" PROVE Start(t, r) % Sector = 0
  <2>1. t.size % Sector = 0 BY <1>1, <1>9
  <2>2. PICK k \in Int : w = k * t.size BY <1>1, <1>3, <1>5, MultipleOf
  <2>3. w % Sector = 0
    <3>a. t.size \in Int BY <1>1
    <3>1. (t.size * k) % Sector = 0 BY <3>a, <1>2, <2>1, <2>2, MultipleProduct
    <3>2. t.size * k = k * t.size BY <1>1
    <3> QED BY <2>2, <3>1, <3>2
  <2>4. params.headersz \in Int BY <1>1
  <2>5. (w + params.headersz) % Sector = 0 BY <1>1, <1>2, <1>5, <2>3, <2>4, MultipleSum
  <2>6. Byte(t, r) % Sector = 0 BY <1>2, <1>4, <1>5, <2>5, MultipleRemainder
  <2> QED BY <1>1, <1>2, <1>7, <2>6, MultipleRemainder DEF Start
<1> QED BY <1>3, <1>7, <1>8, <1>9 DEF t, w

\* The range ends where the region does, with a header a largest I/O before it.
LEMMA RangeFits ==
    ASSUME IInv, Running,
           params.headersz # 0 => params.minoff + maxsize <= params.maxoff
    PROVE  rangeoff + (IF params.headersz # 0 THEN maxsize ELSE 0)
               <= params.maxoff - params.minoff
<1> DEFINE top == IF params.headersz # 0 THEN params.maxoff - maxsize ELSE params.maxoff
           lo == params.minoff \div Sector
           hi == top \div Sector
<1>1. /\ params.minoff \in Nat /\ params.maxoff \in Nat /\ params.maxoff < Word
      /\ InOrder(params) /\ params.minoff % Sector = 0
      /\ maxsize \in Nat \ {0} /\ rangeoff = Rangeoff(params, maxsize)
  BY WhenRunning
<1>2. Sector \in Nat \ {0} /\ Sector >= 1 /\ Word \in Nat \ {0} BY Units
<1>3. params.minoff <= top /\ top <= params.maxoff /\ top \in Nat
  BY <1>1 DEF InOrder
<1>4. Maxblks(params, maxsize) = hi
  <2>1. CASE params.headersz # 0
    <3>1. params.maxoff \in Int /\ maxsize \in Int BY <1>1
    <3>2. 0 <= params.maxoff - maxsize /\ params.maxoff - maxsize < Word
      BY <1>1, <1>2, <1>3, <2>1
    <3>3. Sub(params.maxoff, maxsize) = params.maxoff - maxsize BY <3>1, <3>2, SubType
    <3> QED BY <2>1, <3>3 DEF Maxblks
  <2>2. CASE params.headersz = 0 BY <2>2 DEF Maxblks
  <2> QED BY <2>1, <2>2
<1>5. params.minoff = lo * Sector /\ lo \in Int
  <2>1. params.minoff \in Int BY <1>1
  <2>2. params.minoff = lo * Sector + (params.minoff % Sector) /\ lo \in Int
    BY <1>2, <2>1, Remainder
  <2>3. lo * Sector \in Int BY <1>2, <2>2
  <2> QED BY <1>1, <2>2, <2>3
<1>6. hi \in Int /\ hi * Sector \in Int /\ hi * Sector <= top /\ top < hi * Sector + Sector
  <2> HIDE DEF top
  <2>1. top \in Int BY <1>3
  <2>2. hi \in Int /\ top = hi * Sector + (top % Sector) /\ top % Sector \in 0 .. Sector - 1
    BY <1>2, <2>1, Remainder
  <2> HIDE DEF hi
  <2>3. hi * Sector \in Int BY <1>2, <2>2
  <2> QED BY <1>2, <2>2, <2>3
<1>7. Rangeoff(params, maxsize) = (Sub(hi, lo) * Sector) % Word BY <1>4 DEF Rangeoff
<1> HIDE DEF hi, lo
<1>8. hi - lo \in Int /\ (hi - lo) * Sector = hi * Sector - lo * Sector BY <1>2, <1>5, <1>6
<1> DEFINE d == hi - lo
<1>9. d >= 0
  <2> SUFFICES ASSUME d <= -1 PROVE FALSE BY <1>8
  <2>1. 0 - d \in Nat /\ 1 \in Nat /\ 1 <= 0 - d BY <1>8
  <2>2. 1 * Sector <= (0 - d) * Sector BY <1>2, <2>1, ProductMonotone
  <2>3. (0 - d) * Sector = 0 - (d * Sector) BY <1>2, <1>8
  <2>4. d * Sector = hi * Sector - lo * Sector BY <1>8
  <2>5. params.minoff < hi * Sector + Sector BY <1>1, <1>2, <1>3, <1>6
  <2> HIDE DEF d, top
  <2>6. d * Sector \in Int BY <1>1, <1>5, <1>6, <2>4
  <2> QED BY <1>1, <1>2, <1>5, <1>6, <2>2, <2>3, <2>4, <2>5, <2>6
<1>10. d * Sector = hi * Sector - params.minoff BY <1>5, <1>8
<1>11. d \in Nat /\ d * Sector \in Nat
  <2>1. d \in Nat BY <1>8, <1>9
  <2> HIDE DEF d
  <2> QED BY <1>2, <2>1
<1>12. d * Sector <= top - params.minoff BY <1>1, <1>3, <1>6, <1>10
<1>13. d * Sector < Word BY <1>1, <1>2, <1>3, <1>11, <1>12
<1>14. d <= d * Sector
  <2> HIDE DEF d
  <2>1. 1 \in Nat /\ 1 * d <= Sector * d BY <1>2, <1>11, ProductMonotone
  <2>2. Sector * d = d * Sector BY <1>2, <1>11
  <2> QED BY <1>11, <2>1, <2>2
<1>15. Sub(hi, lo) = d
  <2>1. 0 <= hi - lo /\ hi - lo < Word BY <1>2, <1>11, <1>13, <1>14
  <2> QED BY <1>5, <1>6, <2>1, SubType
<1> HIDE DEF d
<1>16. rangeoff = d * Sector
  <2>1. d * Sector \in 0 .. Word - 1 BY <1>2, <1>11, <1>13
  <2>2. (d * Sector) % Word = d * Sector BY <1>2, <2>1, RemainderSmall
  <2> QED BY <1>1, <1>7, <1>15, <2>2
<1> QED BY <1>1, <1>3, <1>11, <1>12, <1>16

\* With a header the largest I/O ends in the region; without one the starts are
\* multiples of a size that divides the range.
LEMMA StartFits ==
    ASSUME IInv, Running, NEW i \in DOMAIN itlist, NEW r \in 0 .. Word - 1,
           params.headersz # 0 => params.minoff + maxsize <= params.maxoff,
           params.headersz = 0 => rangeoff % itlist[i].size = 0
    PROVE  Start(itlist[i], r) + itlist[i].size <= params.maxoff - params.minoff
<1> DEFINE t == itlist[i]
           b == Start(t, r)
<1>1. /\ t.size \in Nat \ {0} /\ t.size <= maxsize /\ maxsize \in Nat \ {0}
      /\ rangeoff \in Nat \ {0} /\ params.minoff \in Nat /\ params.maxoff \in Nat
      /\ InOrder(params)
  BY WhenRunning
<1>2. rangeoff + (IF params.headersz # 0 THEN maxsize ELSE 0)
          <= params.maxoff - params.minoff
  BY RangeFits
<1>3. /\ b \in 0 .. rangeoff - 1 /\ Byte(t, r) \in Nat
      /\ r - (r % t.size) \in 0 .. r /\ (r - (r % t.size)) % t.size = 0
  BY StartType
<1> SUFFICES b + t.size <= params.maxoff - params.minoff OBVIOUS
<1>4. CASE params.headersz # 0
  <2> HIDE DEF b, t
  <2> QED BY <1>1, <1>2, <1>3, <1>4
<1>5. CASE params.headersz = 0
  <2>1. rangeoff % t.size = 0 BY <1>5
  <2> DEFINE w == r - (r % t.size)
  <2>2. Word \in Nat \ {0} /\ r \in Nat /\ r < Word BY Units
  <2>3. Byte(t, r) = (w + 0) % Word BY <1>5 DEF Byte
  <2>4. b = Byte(t, r) % rangeoff BY DEF Start
  <2>5. w \in 0 .. r /\ w % t.size = 0 BY <1>3
  <2> HIDE DEF w, b, t
  <2>6. w \in 0 .. Word - 1 /\ w + 0 = w BY <2>2, <2>5
  <2>7. Byte(t, r) = w BY <2>2, <2>3, <2>6, RemainderSmall
  <2>8. w \in Int BY <2>5
  <2>9. b % t.size = 0 BY <1>1, <2>1, <2>4, <2>5, <2>7, <2>8, MultipleRemainder
  <2>10. b \in Nat /\ b < rangeoff /\ rangeoff \in Nat BY <1>1, <1>3
  <2>11. b + t.size <= rangeoff BY <1>1, <2>1, <2>9, <2>10, MultipleBelow
  <2> QED BY <1>1, <1>2, <1>5, <2>10, <2>11
<1> QED BY <1>4, <1>5

\* The same of the offset, spread by the multiplier and moved by minoff.
LEMMA PlaceFits ==
    ASSUME IInv, Running, NEW i \in DOMAIN itlist, NEW r \in 0 .. Word - 1
    PROVE  LET off == Place(itlist[i], r)
           IN  /\ off \in 0 .. Word - 1
               /\ itlist[i].optype # "sleep" => off % Sector = 0
               /\ (/\ RegionEnd <= Word
                   /\ params.headersz # 0 => params.minoff + maxsize <= params.maxoff
                   /\ params.headersz = 0 => rangeoff % itlist[i].size = 0)
                  => params.minoff <= off /\ off + itlist[i].size <= RegionEnd
<1> DEFINE t == itlist[i]
           b == Start(t, r)
           m == params.multiplier
           lo == params.minoff
           d == params.maxoff - params.minoff
           off == Place(t, r)
<1>1. /\ t.size \in Nat \ {0} /\ lo \in Nat /\ m \in Nat /\ lo % Sector = 0
      /\ rangeoff \in Nat \ {0}
      /\ d \in Nat
  BY WhenRunning DEF InOrder
<1>2. b \in 0 .. rangeoff - 1 /\ (t.optype # "sleep" => b % Sector = 0) BY StartType
<1>3. off = (b * m + lo) % Word BY DEF Place, Start, Byte
<1>4. Word \in Nat \ {0} /\ Sector \in Nat \ {0} /\ Word % Sector = 0 BY Units
<1>5. /\ params.headersz # 0 => params.minoff + maxsize <= params.maxoff
      /\ params.headersz = 0 => rangeoff % t.size = 0
      => b + t.size <= d
  BY StartFits
<1>6. RegionEnd = lo + d * Spread /\ Spread = IF m = 0 THEN 1 ELSE m
  BY DEF RegionEnd, Spread
<1> HIDE DEF t, b, m, lo, d, off
<1>7. b \in Nat /\ b \in Int /\ m \in Int /\ lo \in Int /\ b * m \in Nat BY <1>1, <1>2
<1>8. b * m + lo \in Nat /\ b * m + lo \in Int /\ b * m \in Int BY <1>1, <1>7
<1>9. off \in 0 .. Word - 1 BY <1>3, <1>4, <1>8, Remainder
<1>10. ASSUME t.optype # "sleep" PROVE off % Sector = 0
  <2>1. b % Sector = 0 BY <1>2, <1>10
  <2>2. (b * m) % Sector = 0 BY <1>4, <1>7, <2>1, MultipleProduct
  <2>3. (b * m + lo) % Sector = 0 BY <1>1, <1>4, <1>7, <1>8, <2>2, MultipleSum
  <2> QED BY <1>3, <1>4, <1>8, <2>3, MultipleRemainder
<1>11. ASSUME RegionEnd <= Word, b + t.size <= d
       PROVE  lo <= off /\ off + t.size <= RegionEnd
  <2>1. b * m + t.size <= d * Spread /\ d * Spread \in Nat
    <3>1. CASE m = 0
      <4>1. b * m = 0 /\ d * Spread = d BY <1>1, <1>6, <1>7, <3>1
      <4> QED BY <1>1, <1>7, <1>11, <4>1
    <3>2. CASE m # 0
      <4>1. b + t.size \in Nat /\ d \in Nat /\ m \in Nat BY <1>1, <1>7
      <4>2. (b + t.size) * m <= d * m /\ (b + t.size) * m \in Nat /\ d * m \in Nat
        BY <1>11, <4>1, ProductMonotone
      <4>3. (b + t.size) * m = b * m + t.size * m BY <1>1, <1>7
      <4>4. t.size <= t.size * m /\ t.size * m \in Nat
        <5>1. 1 \in Nat /\ 1 <= m /\ t.size \in Nat BY <1>1, <3>2
        <5>2. 1 * t.size <= m * t.size BY <4>1, <5>1, ProductMonotone
        <5>3. m * t.size = t.size * m /\ t.size * m \in Nat BY <4>1, <5>1
        <5> QED BY <5>1, <5>2, <5>3
      <4>5. d * Spread = d * m BY <1>6, <3>2
      <4> QED BY <1>1, <1>7, <4>2, <4>3, <4>4, <4>5
    <3> QED BY <3>1, <3>2
  <2>2. b * m + lo + t.size <= RegionEnd BY <1>1, <1>6, <1>7, <2>1
  <2>3. RegionEnd \in Nat BY <1>1, <1>6, <2>1
  <2>4. b * m + lo \in 0 .. Word - 1 BY <1>1, <1>4, <1>8, <1>11, <2>2, <2>3
  <2>5. off = b * m + lo BY <1>3, <1>4, <2>4, RemainderSmall
  <2> QED BY <1>1, <1>7, <2>2, <2>3, <2>5
<1> QED BY <1>5, <1>9, <1>10, <1>11 DEF t, off, lo

\* The invariant holds of a new I/O.
LEMMA PickStep ==
    ASSUME IInv, Pick
    PROVE  IInv'
<1>1. /\ stage = "pick" /\ stage' = "pass" /\ Running
      /\ UNCHANGED <<params, itlist, sleeptm, maxsize, iosize, rangeoff>>
  BY DEF Pick, options, region, Running
<1>2. PICK i \in DOMAIN itlist, r \in 0 .. Word - 1 :
        ip' = itlist[i] /\ Begin(itlist[i], Place(itlist[i], r))
  BY DEF Pick
<1> DEFINE t == itlist[i]
           off == Place(t, r)
<1>3. /\ ip' = t /\ offset' = off /\ baseoff' = off /\ sz' = t.size /\ pass' = <<>>
      /\ asked' = 0
  BY <1>2 DEF Begin
<1>4. /\ off \in 0 .. Word - 1
      /\ t.optype # "sleep" => off % Sector = 0
      /\ RegionFits' => params.minoff <= off /\ off + t.size <= RegionEnd
      /\ RegionEnd' = RegionEnd
  BY <1>1, <1>3, PlaceFits DEF RegionFits, RegionEnd, Spread
<1>5. /\ t.size \in Nat \ {0}
      /\ (t.optype # "sleep" => t.size % Sector = 0)
  BY <1>1, WhenRunning
<1> HIDE DEF off
<1>6. TypeOK'
  <2>1. stage' \in {"main", "itype", "pick", "pass", "exit", "trap"} BY <1>1
  <2>2. pass' \in Seq([off : 0 .. Word - 1, size : Nat \ {0}]) BY <1>3
  <2>3. sz' \in Int BY <1>3, <1>5
  <2>4. Running' => Running BY <1>1
  <2>5. asked' \in Nat BY <1>3
  <2> QED BY <1>1, <1>3, <1>4, <2>1, <2>2, <2>3, <2>4, <2>5 DEF IInv, TypeOK
<1>7. OptionsOK' BY <1>1 DEF IInv, OptionsOK
<1>8. RegionOK' BY <1>1 DEF IInv, RegionOK
<1>9. Done' = 0 BY <1>3, <1>5 DEF Done
<1>10. PassOK'
  <2>1. sz' <= ip'.size BY <1>3, <1>5
  <2>2. CASE t.optype = "sleep"
    <3>1. sz' + SleepTick > 0 BY <1>3, <1>5, Units
    <3>2. asked' = Done' * NsPerUs BY <1>3, <1>9, Units
    <3>3. SleepOK' BY <1>9, <3>1, <3>2 DEF SleepOK
    <3> QED BY <1>1, <1>3, <2>1, <2>2, <3>3 DEF PassOK
  <2>3. CASE t.optype # "sleep"
    <3>1. 0 <= sz' /\ sz' % Sector = 0 BY <1>3, <1>5, <2>3
    <3>2. baseoff' = (offset' + Done') % Word
      <4>1. off + 0 = off BY <1>4, Units
      <4>2. off % Word = off BY <1>4, Units, RemainderSmall
      <4> QED BY <1>3, <1>9, <4>1, <4>2
    <3>3. StartOK' BY <1>1, <1>3, <1>4, <2>3 DEF StartOK
    <3>4. Chain' BY <1>3 DEF Chain
    <3>5. TransferOK' BY <1>3, <3>1, <3>2, <3>3, <3>4 DEF TransferOK
    <3> QED BY <1>1, <1>3, <2>1, <2>3, <3>5 DEF PassOK
  <2> QED BY <2>2, <2>3
<1> QED BY <1>6, <1>7, <1>8, <1>10 DEF IInv

-----------------------------------------------------------------------------
(***************************************************************************)
(* do_io does one piece.                                                   *)
(***************************************************************************)
\* What the next piece may be: of at most iosize for a transfer, and a whole number
\* of ticks that passes the end by less than one for a sleep.
LEMMA TakenFits ==
    ASSUME IInv, stage = "pass", sz > 0, Piece > 0, NEW n \in Taken
    PROVE  /\ n \in Nat \ {0}
           /\ ip.optype # "sleep" => n = Piece /\ n <= sz /\ n <= iosize
           /\ ip.optype = "sleep" => n < sz + SleepTick /\ n < Piece + SleepTick
           /\ Piece \in Nat /\ Piece <= ip.size /\ Piece <= params.maxiosize
<1>1. Running BY DEF Running
<1>2. params.maxiosize \in Nat /\ maxsize \in Nat \ {0} BY <1>1, WhenRunning
<1>3. ip.size <= maxsize /\ ip.size \in Nat
  <2>1. PICK i \in DOMAIN itlist : ip = itlist[i] BY DEF IInv, PassOK
  <2> QED BY <1>1, <2>1, WhenRunning
<1>4. sz \in Nat \ {0} /\ sz <= ip.size
  <2>1. sz \in Int BY DEF IInv, TypeOK
  <2> QED BY <2>1 DEF IInv, PassOK
<1>5. Piece \in Nat \ {0} /\ Piece <= sz /\ Piece <= params.maxiosize
  BY <1>2, <1>4 DEF Piece
<1>6. CASE ip.optype # "sleep"
  <2>1. n = Piece BY <1>6 DEF Taken
  <2>2. iosize = Iosize(maxsize, params) BY <1>1 DEF IInv, RegionOK
  <2>3. Piece <= iosize BY <1>2, <1>3, <1>4, <1>5, <2>2 DEF Iosize
  <2> QED BY <1>3, <1>4, <1>5, <1>6, <2>1, <2>3
<1>7. CASE ip.optype = "sleep"
  <2>1. PICK slu \in SleepTick .. Piece - 1 + SleepTick : n = slu - (slu % SleepTick)
    BY <1>7 DEF Taken, Asleep
  <2>2. SleepTick \in Nat \ {0} BY Units
  <2> DEFINE q == slu \div SleepTick
  <2>3. /\ slu \in Int /\ q \in Int /\ slu % SleepTick \in 0 .. SleepTick - 1
        /\ slu = q * SleepTick + (slu % SleepTick)
    BY <2>2, <1>5, Remainder
  <2>4. n \in Int /\ n > slu - SleepTick /\ n <= slu BY <2>1, <2>2, <2>3
  <2>5. n \in Nat \ {0} BY <2>1, <2>2, <2>4
  <2> QED BY <1>3, <1>4, <1>5, <1>7, <2>1, <2>2, <2>4, <2>5
<1> QED BY <1>6, <1>7

\* nanosleep is given a time, which is that of n us if the ns fit in 32 bits.
LEMMA NanosIs ==
    ASSUME NEW n \in Nat
    PROVE  Nanos(n) \in Nat /\ (n * NsPerUs < Uint => Nanos(n) = n * NsPerUs)
<1> DEFINE second == UsPerSec * NsPerUs
           q == n \div UsPerSec
           rest == n % UsPerSec
<1>1. UsPerSec \in Nat \ {0} /\ NsPerUs \in Nat \ {0} /\ Uint \in Nat \ {0} /\ n \in Int
  BY Units
<1>2. q \in Int /\ rest \in 0 .. UsPerSec - 1 /\ n = q * UsPerSec + rest
  BY <1>1, Remainder
<1>3. Nanos(n) = q * second + (((n * NsPerUs) % Uint) % second) BY DEF Nanos
<1>4. second \in Nat \ {0}
  <2>1. UsPerSec \in Nat /\ NsPerUs \in Nat /\ 1 <= UsPerSec /\ 1 \in Nat BY <1>1
  <2>2. 1 * NsPerUs <= UsPerSec * NsPerUs BY <2>1, ProductMonotone
  <2>3. UsPerSec * NsPerUs \in Nat BY <2>1
  <2> QED BY <1>1, <2>2, <2>3
<1>5. second = UsPerSec * NsPerUs OBVIOUS
<1> HIDE DEF second, q, rest
<1>6. q \in Nat
  <2> SUFFICES ASSUME q <= -1 PROVE FALSE BY <1>2
  <2>1. 0 - q \in Nat /\ 1 \in Nat /\ 1 <= 0 - q /\ UsPerSec \in Nat BY <1>1, <1>2
  <2>2. 1 * UsPerSec <= (0 - q) * UsPerSec BY <2>1, ProductMonotone
  <2>3. (0 - q) * UsPerSec = 0 - (q * UsPerSec) BY <1>1, <1>2
  <2>4. q * UsPerSec \in Int BY <1>1, <1>2
  <2> QED BY <1>1, <1>2, <2>2, <2>3, <2>4
<1>7. q * second \in Nat BY <1>4, <1>6
<1>8. n * NsPerUs \in Nat BY <1>1
<1>9. Nanos(n) \in Nat
  <2>1. (n * NsPerUs) % Uint \in Int BY <1>1, <1>8, Remainder
  <2>2. ((n * NsPerUs) % Uint) % second \in Nat BY <1>4, <2>1, Remainder
  <2> QED BY <1>3, <1>7, <2>2
<1>10. ASSUME n * NsPerUs < Uint PROVE Nanos(n) = n * NsPerUs
  <2>1. n * NsPerUs \in 0 .. Uint - 1 BY <1>1, <1>8, <1>10
  <2>2. (n * NsPerUs) % Uint = n * NsPerUs BY <1>1, <2>1, RemainderSmall
  <2>3. n * NsPerUs = q * second + rest * NsPerUs
    <3>1. (q * UsPerSec + rest) * NsPerUs = (q * UsPerSec) * NsPerUs + rest * NsPerUs
      BY <1>1, <1>2
    <3>2. (q * UsPerSec) * NsPerUs = q * (UsPerSec * NsPerUs) BY <1>1, <1>2
    <3> QED BY <1>2, <1>5, <3>1, <3>2
  <2>4. rest * NsPerUs \in 0 .. second - 1
    <3>1. rest + 1 \in Nat /\ UsPerSec \in Nat /\ NsPerUs \in Nat /\ rest + 1 <= UsPerSec
      BY <1>1, <1>2
    <3>2. (rest + 1) * NsPerUs <= UsPerSec * NsPerUs BY <3>1, ProductMonotone
    <3>3. (rest + 1) * NsPerUs = rest * NsPerUs + NsPerUs /\ rest * NsPerUs \in Nat
      BY <1>1, <1>2
    <3> QED BY <1>1, <1>4, <1>5, <3>2, <3>3
  <2>5. (n * NsPerUs) % second = rest * NsPerUs
    <3> DEFINE ns == rest * NsPerUs
    <3>1. ns \in 0 .. second - 1 /\ q \in Int BY <1>2, <2>4
    <3> HIDE DEF ns
    <3>2. (q * second + ns) % second = ns BY <1>4, <3>1, RemainderUnique
    <3> QED BY <2>3, <3>2 DEF ns
  <2> QED BY <1>3, <2>2, <2>3, <2>5
<1> QED BY <1>9, <1>10

\* Everything that a piece leaves alone.
LEMMA PieceFrame ==
    ASSUME IInv, stage = "pass",
           UNCHANGED <<options, region, ip>>, stage' = "pass",
           offset' \in 0 .. Word - 1, baseoff' \in 0 .. Word - 1, sz' \in Int,
           pass' \in Seq([off : 0 .. Word - 1, size : Nat \ {0}]), asked' \in Nat, PassOK'
    PROVE  IInv'
<1>1. UNCHANGED <<params, itlist, sleeptm, maxsize, iosize, rangeoff>>
  BY DEF options, region
<1>2. Running' => Running BY DEF Running
<1>3. TypeOK' BY <1>1, <1>2 DEF IInv, TypeOK
<1>4. OptionsOK' BY <1>1 DEF IInv, OptionsOK
<1>5. RegionOK' BY <1>1, <1>2 DEF IInv, RegionOK
<1> QED BY <1>3, <1>4, <1>5 DEF IInv

\* A piece goes on where the last one ended.
LEMMA DoPieceStep ==
    ASSUME IInv, DoPiece
    PROVE  IInv'
<1>1. /\ stage = "pass" /\ sz > 0 /\ Piece > 0 /\ stage' = "pass"
      /\ UNCHANGED <<options, region, ip, offset>>
      /\ UNCHANGED <<params, itlist, sleeptm, maxsize, iosize, rangeoff>>
  BY DEF DoPiece, options, region
<1>2. PICK n \in Taken :
        /\ pass' = Append(pass, [off |-> baseoff, size |-> n])
        /\ asked' = asked + Asks(n)
        /\ sz' = sz - n /\ baseoff' = (baseoff + n) % Word
  BY DEF DoPiece
<1>3. /\ n \in Nat \ {0}
      /\ ip.optype # "sleep" => n = Piece /\ n <= sz /\ n <= iosize
      /\ ip.optype = "sleep" => n < sz + SleepTick /\ n < Piece + SleepTick
      /\ Piece \in Nat /\ Piece <= ip.size /\ Piece <= params.maxiosize
  BY <1>1, TakenFits
<1>4. /\ sz \in Int /\ baseoff \in 0 .. Word - 1 /\ offset \in 0 .. Word - 1
      /\ pass \in Seq([off : 0 .. Word - 1, size : Nat \ {0}])
      /\ Word \in Nat \ {0} /\ baseoff \in Int /\ offset \in Int
  BY Units DEF IInv, TypeOK
<1>5. sz' \in Int /\ baseoff' \in 0 .. Word - 1
  <2>1. baseoff + n \in Int BY <1>3, <1>4
  <2>2. (baseoff + n) % Word \in 0 .. Word - 1 BY <1>4, <2>1, Remainder
  <2>3. sz - n \in Int BY <1>3, <1>4
  <2> QED BY <1>2, <2>2, <2>3
<1> DEFINE new == [off |-> baseoff, size |-> n]
           PieceT == [off : 0 .. Word - 1, size : Nat \ {0}]
<1>6. new \in PieceT /\ new.off = baseoff /\ new.size = n BY <1>3, <1>4
<1>7. /\ pass' \in Seq(PieceT) /\ Len(pass') = Len(pass) + 1 /\ Len(pass) \in Nat
      /\ DOMAIN pass' = 1 .. Len(pass) + 1 /\ DOMAIN pass = 1 .. Len(pass)
      /\ pass'[Len(pass) + 1] = new
      /\ \A k \in 1 .. Len(pass) : pass'[k] = pass[k] /\ pass[k] \in PieceT
  <2>1. pass' = Append(pass, new) /\ pass \in Seq(PieceT) BY <1>2, <1>4
  <2> HIDE DEF new, PieceT
  <2> QED BY <1>6, <2>1
<1>8. /\ ip.size \in Nat \ {0} /\ ip.size <= maxsize
      /\ ip.optype # "sleep" => ip.size % Sector = 0
      /\ params.maxiosize \in Nat
  <2>1. Running BY <1>1 DEF Running
  <2>2. PICK i \in DOMAIN itlist : ip = itlist[i] BY <1>1 DEF IInv, PassOK
  <2> QED BY <2>1, <2>2, WhenRunning
<1>9. sz <= ip.size /\ \E i \in DOMAIN itlist' : ip' = itlist'[i]
  BY <1>1 DEF IInv, PassOK
<1>10. Done \in Nat /\ Done' = Done + n
  <2>1. Done' = ip.size - (sz - n) BY <1>1, <1>2 DEF Done
  <2>2. n \in Int /\ sz \in Int /\ ip.size \in Int /\ sz <= ip.size
    BY <1>3, <1>4, <1>8, <1>9
  <2>3. Done = ip.size - sz BY DEF Done
  <2> HIDE DEF Done
  <2> QED BY <2>1, <2>2, <2>3
<1>a. asked \in Nat /\ Asks(n) \in Nat /\ asked' \in Nat
  <2>1. asked \in Nat BY DEF IInv, TypeOK
  <2>2. Asks(n) \in Nat BY <1>3, NanosIs DEF Asks
  <2> QED BY <1>2, <2>1, <2>2
<1>11. sz' <= ip'.size BY <1>1, <1>2, <1>3, <1>4, <1>8, <1>9
<1>12. CASE ip.optype = "sleep"
  <2>1. SleepOK BY <1>1, <1>12 DEF IInv, PassOK
  <2>2. sz' + SleepTick > 0 BY <1>2, <1>3, <1>4, <1>12, Units
  <2>3. PiecesFit' <=> PiecesFit BY <1>1 DEF PiecesFit
  <2>4. ASSUME PiecesFit PROVE asked' = Done' * NsPerUs
    <3> DEFINE longest == IF ip.size > params.maxiosize THEN params.maxiosize ELSE ip.size
    <3>1. (longest + SleepTick) * NsPerUs <= Uint BY <2>4 DEF PiecesFit
    <3>2. longest \in Nat /\ n + 1 <= longest + SleepTick BY <1>3, <1>8, <1>12, Units
    <3>3. n + 1 \in Nat /\ longest + SleepTick \in Nat /\ NsPerUs \in Nat \ {0}
      BY <1>3, <3>2, Units
    <3> HIDE DEF longest
    <3>4. (n + 1) * NsPerUs <= (longest + SleepTick) * NsPerUs
          /\ (n + 1) * NsPerUs \in Nat /\ (longest + SleepTick) * NsPerUs \in Nat
      BY <3>2, <3>3, ProductMonotone
    <3>5. (n + 1) * NsPerUs = n * NsPerUs + NsPerUs /\ n * NsPerUs \in Nat BY <1>3, <3>3
    <3>6. n * NsPerUs < Uint BY <3>1, <3>3, <3>4, <3>5, Units
    <3>7. Asks(n) = n * NsPerUs BY <1>3, <1>12, <3>6, NanosIs DEF Asks
    <3>8. asked = Done * NsPerUs BY <2>1, <2>4 DEF SleepOK
    <3>9. (Done + n) * NsPerUs = Done * NsPerUs + n * NsPerUs BY <1>3, <1>10, <3>3
    <3> QED BY <1>2, <1>10, <3>7, <3>8, <3>9
  <2>5. SleepOK' BY <2>2, <2>3, <2>4 DEF SleepOK
  <2>6. PassOK' BY <1>1, <1>9, <1>11, <1>12, <2>5 DEF PassOK
  <2> QED BY <1>1, <1>4, <1>5, <1>7, <1>a, <2>6, PieceFrame
<1>13. CASE ip.optype # "sleep"
  <2>1. TransferOK BY <1>1, <1>13 DEF IInv, PassOK
  <2>2. Sector \in Nat \ {0} /\ Word % Sector = 0 BY Units
  <2>3. 0 <= sz' BY <1>2, <1>3, <1>4, <1>13
  <2>4. ASSUME params.maxiosize % Sector = 0
        PROVE  n % Sector = 0 /\ sz' % Sector = 0 /\ baseoff % Sector = 0
    <3>1. sz % Sector = 0 BY <2>1, <2>4 DEF TransferOK
    <3>2. n % Sector = 0 BY <1>3, <1>13, <2>4, <3>1 DEF Piece
    <3>3. n \in Int BY <1>3
    <3>4. sz' % Sector = 0 BY <1>2, <1>4, <2>2, <3>1, <3>2, <3>3, MultipleSum
    <3>5. ip.size % Sector = 0 /\ ip.size \in Int BY <1>8, <1>13
    <3>6. Done % Sector = 0 BY <1>4, <2>2, <3>1, <3>5, MultipleSum DEF Done
    <3>7. Done \in Int /\ offset + Done \in Int BY <1>4, <1>10
    <3>8. offset % Sector = 0 BY <2>1 DEF TransferOK, StartOK
    <3>9. (offset + Done) % Sector = 0 BY <1>4, <2>2, <3>6, <3>7, <3>8, MultipleSum
    <3>10. ((offset + Done) % Word) % Sector = 0
      BY <1>4, <2>2, <3>7, <3>9, MultipleRemainder
    <3> QED BY <2>1, <3>2, <3>4, <3>10 DEF TransferOK
  <2>5. baseoff' = (offset' + Done') % Word
    <3>1. baseoff = (offset + Done) % Word BY <2>1 DEF TransferOK
    <3>2. offset + Done \in Int /\ n \in Int BY <1>3, <1>4, <1>10
    <3>3. (((offset + Done) % Word) + n) % Word = (offset + Done + n) % Word
      BY <1>4, <3>2, RemainderOfSum
    <3>4. offset' + Done' = offset + Done + n BY <1>1, <1>3, <1>4, <1>10
    <3> QED BY <1>2, <3>1, <3>3, <3>4
  <2>6. StartOK' BY <1>1, <2>1 DEF TransferOK, StartOK, RegionFits, RegionEnd, Spread
  <2> DEFINE After(piece) ==
        /\ piece.size <= iosize
        /\ offset + ip.size <= Word =>
             offset <= piece.off /\ piece.off + piece.size <= offset + Done'
        /\ params.maxiosize % Sector = 0 =>
             piece.off % Sector = 0 /\ piece.size % Sector = 0
  <2>7. \A k \in DOMAIN pass' : After(pass'[k])
    <3>1. ASSUME NEW k \in 1 .. Len(pass) PROVE After(pass'[k])
      <4>1. PieceOK(pass[k]) /\ pass'[k] = pass[k] BY <1>7, <2>1, <3>1 DEF TransferOK
      <4>2. pass[k].off \in Nat /\ pass[k].size \in Nat BY <1>7, <3>1
      <4>3. offset + Done <= offset + Done' BY <1>3, <1>4, <1>10
      <4>4. offset + ip.size <= Word =>
              offset <= pass[k].off /\ pass[k].off + pass[k].size <= offset + Done'
        <5>1. offset + ip.size <= Word =>
                offset <= pass[k].off /\ pass[k].off + pass[k].size <= offset + Done
          BY <4>1 DEF PieceOK
        <5>2. /\ pass[k].off + pass[k].size \in Int
              /\ offset + Done \in Int /\ offset + Done' \in Int
          BY <1>3, <1>4, <1>10, <4>2
        <5> QED BY <4>3, <5>1, <5>2
      <4> QED BY <4>1, <4>4 DEF PieceOK
    <3>2. After(new)
      <4>2. n <= iosize BY <1>3, <1>13
      <4>3. ASSUME offset + ip.size <= Word
            PROVE  offset <= baseoff /\ baseoff + n <= offset + Done'
        <5>1. Done < ip.size BY <1>1, <1>4, <1>8 DEF Done
        <5>2. offset + Done \in 0 .. Word - 1 BY <1>4, <1>8, <1>10, <4>3, <5>1
        <5>3. baseoff = offset + Done
          BY <1>4, <2>1, <5>2, RemainderSmall DEF TransferOK
        <5> QED BY <1>3, <1>4, <1>10, <5>3
      <4> QED BY <1>6, <2>4, <4>2, <4>3
    <3> HIDE DEF After, new
    <3>3. Len(pass) \in Nat BY <1>4
    <3>4. ASSUME NEW k \in DOMAIN pass' PROVE k \in 1 .. Len(pass) \/ pass'[k] = new
      <4>1. k \in 1 .. Len(pass) \/ k = Len(pass) + 1 BY <1>7, <3>3
      <4> QED BY <1>7, <4>1
    <3> QED BY <3>1, <3>2, <3>4
  <2>8. Chain'
    <3>1. pass' # <<>> BY <1>7
    <3>2. pass'[1].off = offset'
      <4>1. CASE pass = <<>>
        <5>1. pass'[1] = new BY <1>7, <4>1
        <5>2. Done = 0 BY <1>4, <1>8, <2>1, <4>1 DEF TransferOK, Chain, Done
        <5>a. offset + 0 = offset BY <1>4
        <5>b. offset % Word = offset BY <1>4, RemainderSmall
        <5>3. offset + 0 = offset /\ offset % Word = offset BY <5>a, <5>b
        <5> QED BY <1>1, <1>6, <2>1, <5>1, <5>2, <5>3 DEF TransferOK
      <4>2. CASE pass # <<>>
        <5>1. 1 \in 1 .. Len(pass) BY <1>4, <4>2
        <5>2. pass[1].off = offset BY <2>1, <4>2 DEF TransferOK, Chain
        <5> QED BY <1>1, <1>7, <5>1, <5>2
      <4> QED BY <4>1, <4>2
    <3>3. (pass'[Len(pass')].off + pass'[Len(pass')].size) % Word = baseoff'
      BY <1>2, <1>6, <1>7
    <3>4. ASSUME NEW k \in 1 .. Len(pass') - 1
          PROVE  pass'[k + 1].off = (pass'[k].off + pass'[k].size) % Word
      <4>1. k \in 1 .. Len(pass) BY <1>7
      <4>2. pass'[k] = pass[k] BY <1>7, <4>1
      <4>3. CASE k = Len(pass)
        <5>1. pass'[k + 1].off = baseoff BY <1>6, <1>7, <4>3
        <5>2. pass # <<>> BY <4>1
        <5>3. (pass[k].off + pass[k].size) % Word = baseoff
          BY <2>1, <4>3, <5>2 DEF TransferOK, Chain
        <5> QED BY <4>2, <5>1, <5>3
      <4>4. CASE k # Len(pass)
        <5>1. k \in 1 .. Len(pass) - 1 /\ k + 1 \in 1 .. Len(pass) BY <1>7, <4>1, <4>4
        <5>2. pass[k + 1].off = (pass[k].off + pass[k].size) % Word
          BY <2>1, <5>1 DEF TransferOK, Chain
        <5> QED BY <1>7, <4>2, <5>1, <5>2
      <4> QED BY <4>3, <4>4
    <3> QED BY <3>1, <3>2, <3>3, <3>4 DEF Chain
  <2>9. TransferOK'
    BY <1>1, <2>3, <2>4, <2>5, <2>6, <2>7, <2>8 DEF TransferOK, PieceOK
  <2>10. PassOK' BY <1>1, <1>9, <1>11, <1>13, <2>9 DEF PassOK
  <2> QED BY <1>1, <1>4, <1>5, <1>7, <1>a, <2>10, PieceFrame
<1> QED BY <1>12, <1>13

\* A repeated write starts where the last one did.
LEMMA RepeatStep ==
    ASSUME IInv, Repeat
    PROVE  IInv'
<1>1. /\ stage = "pass" /\ stage' = "pass" /\ ip.optype = "write"
      /\ UNCHANGED <<options, region, ip>>
      /\ UNCHANGED <<params, itlist, maxsize, iosize, rangeoff>>
      /\ offset' = offset /\ baseoff' = offset /\ sz' = ip.size /\ pass' = <<>>
      /\ asked' = 0
  BY DEF Repeat, Begin, options, region
<1>2. ip.size \in Nat \ {0} /\ ip.size % Sector = 0
  <2>1. Running BY <1>1 DEF Running
  <2>2. PICK i \in DOMAIN itlist : ip = itlist[i] BY <1>1 DEF IInv, PassOK
  <2>3. ip.optype # "sleep" BY <1>1
  <2> QED BY <2>1, <2>2, <2>3, WhenRunning
<1>3. offset \in 0 .. Word - 1 BY DEF IInv, TypeOK
<1>4. TransferOK BY <1>1 DEF IInv, PassOK
<1>5. Done' = 0 BY <1>1, <1>2 DEF Done
<1>6. baseoff' = (offset' + Done') % Word
  <2>1. offset + 0 = offset BY <1>3, Units
  <2>2. offset % Word = offset BY <1>3, Units, RemainderSmall
  <2> QED BY <1>1, <1>5, <2>1, <2>2
<1>7. StartOK' BY <1>1, <1>4 DEF TransferOK, StartOK, RegionFits, RegionEnd, Spread
<1>8. Chain' BY <1>1 DEF Chain
<1>9. 0 <= sz' /\ sz' % Sector = 0 /\ sz' <= ip'.size BY <1>1, <1>2
<1>10. \A k \in DOMAIN pass' : FALSE BY <1>1
<1>11. TransferOK' BY <1>6, <1>7, <1>8, <1>9, <1>10 DEF TransferOK
<1>12. PassOK' BY <1>1, <1>9, <1>11 DEF IInv, PassOK
<1>13. pass' \in Seq([off : 0 .. Word - 1, size : Nat \ {0}]) BY <1>1
<1>14. sz' \in Int /\ asked' \in Nat BY <1>1, <1>2
<1> QED BY <1>1, <1>3, <1>12, <1>13, <1>14, PieceFrame

\* Every step keeps the invariant.
LEMMA InvStep == IInv /\ [Next]_vars => IInv'
<1> SUFFICES ASSUME IInv, [Next]_vars PROVE IInv' OBVIOUS
<1>1. CASE Getmodopts BY <1>1, ModoptsStep
<1>2. CASE Getitypeopts BY <1>2, ItypeoptsStep
<1>3. CASE InitThreads BY <1>3, InitStep
<1>4. CASE Pick BY <1>4, PickStep
<1>5. CASE DoPiece BY <1>5, DoPieceStep
<1>6. CASE Repeat BY <1>6, RepeatStep
<1>7. CASE PassEnd
  <2>1. /\ stage = "pass" /\ stage' = "pick"
        /\ UNCHANGED <<params, itlist, sleeptm, maxsize, iosize, rangeoff>>
        /\ UNCHANGED <<offset, baseoff, sz, pass, asked>>
    BY <1>7 DEF PassEnd, options, region, doing
  <2>2. Running BY <2>1 DEF Running
  <2>3. TypeOK' BY <2>1, <2>2 DEF IInv, TypeOK
  <2>4. OptionsOK' BY <2>1 DEF IInv, OptionsOK
  <2>5. RegionOK' BY <2>1, <2>2 DEF IInv, RegionOK
  <2> QED BY <2>1, <2>3, <2>4, <2>5 DEF IInv, PassOK
<1>a. CASE SleepTraps
  <2>1. /\ stage = "pass" /\ stage' = "trap" /\ sz > 0 /\ Piece = 0
        /\ UNCHANGED <<params, itlist, sleeptm, maxsize, iosize, rangeoff>>
        /\ UNCHANGED <<ip, offset, baseoff, sz, pass, asked>>
    BY <1>a DEF SleepTraps, options, region, doing
  <2>2. ~Running' /\ Running BY <2>1 DEF Running
  <2>3. params.maxiosize = 0 BY <2>1 DEF IInv, TypeOK, Piece
  <2>4. TypeOK' BY <2>1, <2>2, <2>3 DEF IInv, TypeOK
  <2>5. OptionsOK' BY <2>1 DEF IInv, OptionsOK
  <2> QED BY <2>1, <2>2, <2>4, <2>5 DEF IInv, RegionOK, PassOK
<1>8. CASE UNCHANGED vars
  <2>1. UNCHANGED <<stage, params, itlist, sleeptm, maxsize, iosize, rangeoff,
                    ip, offset, baseoff, sz, pass, asked>>
    BY <1>8 DEF vars, options, region, doing
  <2>2. TypeOK' BY <2>1 DEF IInv, TypeOK, Running
  <2>3. OptionsOK' BY <2>1 DEF IInv, OptionsOK, Newest
  <2>4. RegionOK' BY <2>1 DEF IInv, RegionOK, Running
  <2>5. PassOK' BY <2>1 DEF IInv, PassOK, SleepOK, PiecesFit, Done, TransferOK, StartOK,
                            RegionFits, RegionEnd, Spread, PieceOK, Chain
  <2> QED BY <2>2, <2>3, <2>4, <2>5 DEF IInv
<1> QED BY <1>1, <1>2, <1>3, <1>4, <1>5, <1>6, <1>7, <1>a, <1>8
        DEF Next, DoIo, EmptyPiece, Ended

\* The inductive invariant holds in every state.
THEOREM Invariant == Spec => []IInv
<1>1. Init => IInv BY InvInit
<1>2. IInv /\ [Next]_vars => IInv' BY InvStep
<1> QED BY <1>1, <1>2, PTL DEF Spec

-----------------------------------------------------------------------------
(***************************************************************************)
(* The properties.                                                         *)
(***************************************************************************)
\* The range and the sizes of types that do_io divides by are not 0, whatever options
\* were accepted, and without maxiosize=0 no division by 0 ends the program.
THEOREM TypeCorrect == Spec => []TypeOK
<1>1. IInv => TypeOK BY DEF IInv
<1> QED BY <1>1, Invariant, PTL

\* What the properties of transfers rest on.
LEMMA Transferring ==
    ASSUME IInv, Transfers
    PROVE  /\ TransferOK /\ sz \in Int /\ sz <= ip.size /\ ip.size \in Nat \ {0}
           /\ offset \in Nat
           /\ pass \in Seq([off : 0 .. Word - 1, size : Nat \ {0}])
           /\ \A n \in DOMAIN pass : pass[n].off \in Nat /\ pass[n].size \in Nat
<1>1. stage = "pass" /\ Running /\ ip.optype # "sleep" BY DEF Transfers, Running
<1>2. TransferOK /\ sz <= ip.size BY <1>1 DEF IInv, PassOK
<1>3. ip.size \in Nat \ {0}
  <2>1. PICK i \in DOMAIN itlist : ip = itlist[i] BY <1>1 DEF IInv, PassOK
  <2> QED BY <1>1, <2>1, WhenRunning
<1>4. sz \in Int /\ offset \in Nat
      /\ pass \in Seq([off : 0 .. Word - 1, size : Nat \ {0}])
  BY Units DEF IInv, TypeOK
<1>5. \A n \in DOMAIN pass : pass[n].off \in Nat /\ pass[n].size \in Nat
  <2> DEFINE T == [off : 0 .. Word - 1, size : Nat \ {0}]
  <2>1. pass \in Seq(T) BY <1>4
  <2>2. \A n \in DOMAIN pass : pass[n] \in T
    <3> HIDE DEF T
    <3> QED BY <2>1
  <2> QED BY <2>2, Units
<1> QED BY <1>2, <1>3, <1>4, <1>5

\* No piece of a read or write leaves the region.
THEOREM StaysInRegion == Spec => []InRegion
<1>1. IInv => InRegion
  <2> SUFFICES ASSUME IInv, Transfers, RegionFits, NEW n \in DOMAIN pass
               PROVE  params.minoff <= pass[n].off /\ pass[n].off + pass[n].size <= RegionEnd
    BY DEF InRegion
  <2>1. /\ TransferOK /\ sz \in Int /\ sz <= ip.size /\ ip.size \in Nat /\ offset \in Nat
        /\ pass[n].off \in Nat /\ pass[n].size \in Nat
    BY Transferring
  <2>2. params.minoff \in Nat /\ RegionEnd \in Nat
    <3>1. Running BY DEF Transfers, Running
    <3>2. params.minoff \in Nat /\ params.maxoff - params.minoff \in Nat
          /\ params.multiplier \in Nat
      BY <3>1, WhenRunning DEF InOrder
    <3>3. Spread \in Nat BY <3>2 DEF Spread
    <3>4. (params.maxoff - params.minoff) * Spread \in Nat BY <3>2, <3>3
    <3> QED BY <3>2, <3>4 DEF RegionEnd
  <2>3. RegionEnd <= Word BY DEF RegionFits
  <2>4. params.minoff <= offset /\ offset + ip.size <= RegionEnd
    BY <2>1 DEF TransferOK, StartOK
  <2>5. offset + ip.size <= Word BY <2>1, <2>2, <2>3, <2>4, Units
  <2>6. offset <= pass[n].off /\ pass[n].off + pass[n].size <= offset + Done
    BY <2>1, <2>5 DEF TransferOK, PieceOK
  <2>7. Done <= ip.size BY <2>1 DEF TransferOK, Done
  <2>8. Done \in Int BY <2>1 DEF Done
  <2> QED BY <2>1, <2>2, <2>4, <2>6, <2>7, <2>8
<1> QED BY <1>1, Invariant, PTL

\* Pieces are of whole sectors.
THEOREM StaysAligned == Spec => []Aligned
<1>1. IInv => Aligned BY Transferring DEF Aligned, TransferOK, PieceOK
<1> QED BY <1>1, Invariant, PTL

\* The buffers hold every piece.
THEOREM BuffersFit == Spec => []BufferFits
<1>1. IInv => BufferFits BY Transferring DEF BufferFits, TransferOK, PieceOK
<1> QED BY <1>1, Invariant, PTL

\* A turn transfers the whole I/O, in pieces that follow each other.
THEOREM TransfersWhole == Spec => []Whole
<1>1. IInv => Whole
  <2> SUFFICES ASSUME IInv, Transfers, sz <= 0
               PROVE  LET last == pass[Len(pass)] IN
                        /\ pass[1].off = offset
                        /\ \A n \in 1 .. Len(pass) - 1 :
                              pass[n + 1].off = (pass[n].off + pass[n].size) % Word
                        /\ (last.off + last.size) % Word = (offset + ip.size) % Word
    BY DEF Whole
  <2>1. TransferOK /\ sz \in Int /\ ip.size \in Nat \ {0} BY Transferring
  <2>2. sz = 0 /\ Chain BY <2>1 DEF TransferOK
  <2>3. pass # <<>> BY <2>1, <2>2 DEF Chain
  <2>4. Done = ip.size BY <2>1, <2>2 DEF Done
  <2>5. baseoff = (offset + ip.size) % Word BY <2>1, <2>4 DEF TransferOK
  <2> QED BY <2>2, <2>3, <2>5 DEF Chain
<1> QED BY <1>1, Invariant, PTL

\* A sleep asks for its time and less than a tick more, if its pieces' ns fit in 32 bits.
THEOREM SleepsInTime == Spec => []SleepTime
<1>1. IInv => SleepTime
  <2> SUFFICES ASSUME IInv, Sleeping, sz <= 0, PiecesFit
               PROVE  Goal <= asked /\ asked < Goal + SleepTick * NsPerUs
    BY DEF SleepTime
  <2>1. sz + SleepTick > 0 /\ asked = (ip.size - sz) * NsPerUs
    BY DEF Sleeping, IInv, PassOK, SleepOK, Done
  <2>2. sz \in Int BY DEF IInv, TypeOK
  <2>3. ip.size \in Nat
    <3>1. Running BY DEF Sleeping, Running
    <3>2. PICK i \in DOMAIN itlist : ip = itlist[i] BY DEF Sleeping, IInv, PassOK
    <3> QED BY <3>1, <3>2, WhenRunning
  <2>4. NsPerUs \in Nat \ {0} /\ SleepTick \in Nat BY Units
  <2>5. 0 - sz \in Nat /\ (0 - sz) + 1 \in Nat /\ (0 - sz) + 1 <= SleepTick
    BY <2>1, <2>2, <2>4
  <2>6. asked = Goal + (0 - sz) * NsPerUs /\ Goal \in Nat
    <3>1. (ip.size - sz) * NsPerUs = ip.size * NsPerUs + (0 - sz) * NsPerUs
      BY <2>2, <2>3, <2>4
    <3> QED BY <2>1, <2>3, <2>4, <3>1 DEF Goal
  <2>7. /\ ((0 - sz) + 1) * NsPerUs <= SleepTick * NsPerUs
        /\ SleepTick * NsPerUs \in Nat
    BY <2>4, <2>5, ProductMonotone
  <2>8. ((0 - sz) + 1) * NsPerUs = (0 - sz) * NsPerUs + NsPerUs /\ (0 - sz) * NsPerUs \in Nat
    BY <2>4, <2>5
  <2> QED BY <2>4, <2>6, <2>7, <2>8
<1> QED BY <1>1, Invariant, PTL
==============================================================================
