-------------------------------- MODULE IolIo --------------------------------
(***************************************************************************)
(* The offsets and sizes of ioload's I/Os, from the command line to the    *)
(* device: main collects options one by one, init_threads checks them and  *)
(* computes the region, and do_io picks random places in it, splits large  *)
(* I/Os, repeats writes and sleeps.  One I/O thread is enough here: the    *)
(* threads share nothing of this.  When a thread may start another I/O is  *)
(* in IolRounds.                                                           *)
(*                                                                         *)
(* Offsets are 64-bit and wrap, modulo Word, and a sleep's time in ns is a *)
(* product of 32 bits, modulo Uint; the other integers stay far below      *)
(* their width.  An I/O type's pct is abstracted to a free choice, as is   *)
(* repwrite; options about data, times and threads are left out, and so    *)
(* are failing I/Os, which change no offset.                               *)
(***************************************************************************)
EXTENDS Integers, SequencesExt

CONSTANTS
    Sector, Kb, Mb,      \* IOB_SECTOR and the units of options: 512, 2^10, 2^20
    Word,                \* 2^64
    Uint,                \* 2^32
    SleepTick,           \* 50: sleeps are multiples of it
    UsPerSec, NsPerUs,   \* 10^6 and 1000: a second in us, and a us in ns
    DefaultSleep,        \* 5000
    Params,              \* the initial value of params
    Defitype,            \* defitype
    (* the values given to options *)
    Sizes, Sleeptms, Minoffs, Maxoffs, Headers, Multipliers, Maxiosizes,
    MaxTypes             \* bound: number of -i options

Optypes == {"read", "write", "sleep"}

ASSUME UnitsAssumption ==
    /\ Sector \in Nat \ {0} /\ SleepTick \in Nat \ {0} /\ DefaultSleep \in Nat \ {0}
    /\ UsPerSec \in Nat \ {0} /\ NsPerUs \in Nat \ {0} /\ Uint \in Nat \ {0}
    /\ Kb \in Nat \ {0} /\ Mb \in Nat \ {0} /\ Word \in Nat \ {0}
    /\ Kb % Sector = 0 /\ Mb % Sector = 0 /\ Word % Sector = 0

ASSUME ValuesAssumption ==
    /\ Sizes \cup Sleeptms \cup Minoffs \cup Maxoffs \cup Headers \subseteq Nat
    /\ Multipliers \cup Maxiosizes \subseteq Nat
    /\ \A n \in Minoffs \cup Maxoffs : n * Mb < Word

\* The initial params and defitype of iol_main.c: whole sectors everywhere.
ASSUME DefaultsAssumption ==
    /\ Params \in [minoff : 0 .. Word - 1, maxoff : 0 .. Word - 1, headersz : Nat,
                    multiplier : Nat, maxiosize : Nat]
    /\ Params.minoff < Params.maxoff
    /\ Params.minoff % Sector = 0 /\ Params.maxoff % Sector = 0
    /\ Params.headersz % Sector = 0
    /\ Defitype \in [optype : {"read"}, size : Nat \ {0}]
    /\ Defitype.size % Sector = 0

\* A header and an I/O together are shorter than 2^64 bytes.
ASSUME WidthAssumption ==
    \A h \in {n * Kb : n \in Headers} \cup {Params.headersz},
       s \in Sizes \cup Sleeptms \cup {DefaultSleep, Defitype.size} : h + s < Word

VARIABLES
    stage,       \* "main", "itype" (in getitypeopts), "pick", "pass", "exit", "trap"
    params,      \* struct cmdparams
    itlist,      \* the list of I/O types; <<>> is NULL
    sleeptm,     \* local variable of getitypeopts
    maxsize,     \* the largest size of an I/O type
    iosize,      \* size of the I/O buffers
    rangeoff,    \* length of the region for the starts of I/Os
    ip,          \* do_io: the chosen I/O type,
    offset,      \*   where it starts,
    baseoff,     \*   where the next piece starts,
    sz,          \*   and how much there is still to do
    pass,        \* history: the pieces of the current turn of do_io's loop
    asked        \* history: the ns it has asked nanosleep for

options == <<params, itlist, sleeptm>>
region  == <<maxsize, iosize, rangeoff>>
doing   == <<ip, offset, baseoff, sz, pass, asked>>
vars    == <<stage, options, region, doing>>

Init ==
    /\ stage = "main"
    /\ params = Params /\ itlist = <<>> /\ sleeptm = 0
    /\ maxsize = 0 /\ iosize = 0 /\ rangeoff = 0
    /\ ip = Defitype /\ offset = 0 /\ baseoff = 0 /\ sz = 0
    /\ pass = <<>> /\ asked = 0

-----------------------------------------------------------------------------
(***************************************************************************)
(* main, getmodopts and getitypeopts.  usage() ends the process.           *)
(***************************************************************************)
Option(here, ok, next) ==
    /\ stage = here
    /\ stage' = IF ok THEN next ELSE "exit"
    /\ UNCHANGED <<region, doing>>

SetParam(p, ok) ==
    /\ params' = p
    /\ Option("main", ok, "main")
    /\ UNCHANGED <<itlist, sleeptm>>

InOrder(p) == p.minoff < p.maxoff

SetMinoff == \E n \in Minoffs :
    LET p == [params EXCEPT !.minoff = n * Mb] IN SetParam(p, InOrder(p))

SetMaxoff == \E n \in Maxoffs :
    LET p == [params EXCEPT !.maxoff = n * Mb] IN SetParam(p, InOrder(p))

SetHeader == \E n \in Headers : SetParam([params EXCEPT !.headersz = n * Kb], TRUE)

SetMultiplier == \E n \in Multipliers :
    SetParam([params EXCEPT !.multiplier = n], TRUE)

SetMaxiosize == \E n \in Maxiosizes :
    SetParam([params EXCEPT !.maxiosize = n], TRUE)

Getmodopts ==
    SetMinoff \/ SetMaxoff \/ SetHeader \/ SetMultiplier \/ SetMaxiosize

\* The options of one -i are about the type that it has put at the list's end.
NewItype ==
    /\ Len(itlist) < MaxTypes
    /\ itlist' = Append(itlist, Defitype) /\ sleeptm' = 0
    /\ Option("main", TRUE, "itype")
    /\ UNCHANGED params

SetItype(type, ok) ==
    /\ Option("itype", ok, "itype")
    /\ itlist' = [itlist EXCEPT ![Len(itlist)] = type]
    /\ UNCHANGED <<params, sleeptm>>

Newest == itlist[Len(itlist)]

SetSize == /\ stage = "itype"
           /\ \E n \in Sizes :
                SetItype([Newest EXCEPT !.size = n], n >= Sector /\ n % Sector = 0)

SetOp == /\ stage = "itype"
         /\ \E o \in Optypes : SetItype([Newest EXCEPT !.optype = o], TRUE)

SetSleeptm == \E n \in Sleeptms :
    /\ Option("itype", n >= SleepTick, "itype")
    /\ sleeptm' = n
    /\ UNCHANGED <<params, itlist>>

\* The size of a sleep is its time, whatever size= has been given.
EndItype ==
    /\ Option("itype", TRUE, "main")
    /\ itlist' = IF Newest.optype = "sleep"
                 THEN [itlist EXCEPT ![Len(itlist)].size =
                          IF sleeptm # 0 THEN sleeptm ELSE DefaultSleep]
                 ELSE itlist
    /\ UNCHANGED <<params, sleeptm>>

Getitypeopts == NewItype \/ SetSize \/ SetOp \/ SetSleeptm \/ EndItype

-----------------------------------------------------------------------------
(***************************************************************************)
(* init_threads and ithreadinit.                                           *)
(***************************************************************************)
Sub(a, b) == (a - b) % Word

Types == IF itlist = <<>> THEN <<Defitype>> ELSE itlist

Largest(types) == Max({types[i].size : i \in DOMAIN types})

\* The header is reduced whatever the largest size is.
AlwaysReduced(header, max) == header % max

\* A header of the largest size or more stays as it is.
Reduced(header, max) == IF header < max THEN header % max ELSE header

\* No room is left behind the last start.
NoRoom(p, max) == p.maxoff \div Sector

\* With a header, I/Os may start anywhere, and the last start leaves room for the
\* largest one.
Maxblks(p, max) ==
    (IF p.headersz # 0 THEN Sub(p.maxoff, max) ELSE p.maxoff) \div Sector

Rangeoff(p, max) == (Sub(Maxblks(p, max), p.minoff \div Sector) * Sector) % Word

\* The check is missing.
AnyRange(range, max, header) == FALSE

TooSmall(range, max, header) == range < (max + header) % Word

\* Buffers are made for the first type of I/O only.
FirstSize(max, p) == IF p.maxiosize < Types[1].size THEN p.maxiosize ELSE Types[1].size

Iosize(max, p) == IF p.maxiosize < max THEN p.maxiosize ELSE max

InitThreads ==
    /\ stage = "main"
    /\ itlist' = Types
    /\ LET max == Largest(Types)
           p == [params EXCEPT !.headersz = Reduced(@, max)]
           range == Rangeoff(p, max)
       IN  /\ params' = p
           /\ maxsize' = max /\ rangeoff' = range /\ iosize' = Iosize(max, p)
           /\ stage' = IF TooSmall(range, max, p.headersz) THEN "exit" ELSE "pick"
    /\ UNCHANGED <<sleeptm, doing>>

-----------------------------------------------------------------------------
(***************************************************************************)
(* do_io and io_start.                                                     *)
(***************************************************************************)
\* The start of an I/O of type t, r being a random number.
Place(t, r) ==
    LET byte == (r - (r % t.size) + params.headersz) % Word
    IN  ((byte % rangeoff) * params.multiplier + params.minoff) % Word

Begin(t, off) ==
    /\ offset' = off /\ baseoff' = off /\ sz' = t.size
    /\ pass' = <<>> /\ asked' = 0

Pick ==
    /\ stage = "pick" /\ stage' = "pass"
    /\ \E i \in DOMAIN itlist, r \in 0 .. Word - 1 :
          ip' = itlist[i] /\ Begin(itlist[i], Place(itlist[i], r))
    /\ UNCHANGED <<options, region>>

Piece == IF sz > params.maxiosize THEN params.maxiosize ELSE sz

\* A sleep of n takes a random multiple of SleepTick instead.
Asleep(n) == {slu - (slu % SleepTick) : slu \in SleepTick .. n - 1 + SleepTick}

Taken == IF ip.optype = "sleep" THEN Asleep(Piece) ELSE {Piece}

\* The time in ns that nanosleep is given for n us, tv_nsec computed in 32 bits.
Nanos(n) ==
    LET second == UsPerSec * NsPerUs
    IN  (n \div UsPerSec) * second + (((n * NsPerUs) % Uint) % second)

Asks(n) == IF ip.optype = "sleep" THEN Nanos(n) ELSE 0

\* The size that was asked for is subtracted, not the one io_start has put in place.
DoPieceAsked ==
    /\ stage = "pass" /\ sz > 0 /\ Piece > 0
    /\ \E n \in Taken :
          /\ pass' = Append(pass, [off |-> baseoff, size |-> n])
          /\ asked' = asked + Asks(n)
          /\ sz' = sz - Piece /\ baseoff' = (baseoff + Piece) % Word
    /\ UNCHANGED <<stage, options, region, ip, offset>>

DoPiece ==
    /\ stage = "pass" /\ sz > 0 /\ Piece > 0
    /\ \E n \in Taken :
          /\ pass' = Append(pass, [off |-> baseoff, size |-> n])
          /\ asked' = asked + Asks(n)
          /\ sz' = sz - n /\ baseoff' = (baseoff + n) % Word
    /\ UNCHANGED <<stage, options, region, ip, offset>>

\* With maxiosize=0 a transfer does pieces of 0 bytes for ever,
EmptyPiece ==
    /\ stage = "pass" /\ sz > 0 /\ Piece = 0 /\ ip.optype # "sleep"
    /\ UNCHANGED vars

\* and a sleep takes a remainder by 0, for which the processor ends the program.
SleepTraps ==
    /\ stage = "pass" /\ sz > 0 /\ Piece = 0 /\ ip.optype = "sleep"
    /\ stage' = "trap"
    /\ UNCHANGED <<options, region, doing>>

\* baseoff goes on where the last turn has left it.
RepeatBehind ==
    /\ stage = "pass" /\ sz <= 0 /\ ip.optype = "write"
    /\ sz' = ip.size /\ pass' = <<>> /\ asked' = 0
    /\ UNCHANGED <<stage, options, region, ip, offset, baseoff>>

Repeat ==
    /\ stage = "pass" /\ sz <= 0 /\ ip.optype = "write"
    /\ Begin(ip, offset)
    /\ UNCHANGED <<stage, options, region, ip>>

PassEnd ==
    /\ stage = "pass" /\ sz <= 0 /\ stage' = "pick"
    /\ UNCHANGED <<options, region, doing>>

DoIo == Pick \/ DoPiece \/ EmptyPiece \/ SleepTraps \/ Repeat \/ PassEnd

Ended == stage \in {"exit", "trap"} /\ UNCHANGED vars

Next == Getmodopts \/ Getitypeopts \/ InitThreads \/ DoIo \/ Ended

Spec == Init /\ [][Next]_vars

-----------------------------------------------------------------------------
(***************************************************************************)
(* Properties.                                                             *)
(***************************************************************************)
Running == stage \in {"pick", "pass"}

\* Of what do_io divides by, the range and the sizes of I/O types are never 0: with
\* any options the check of init_threads sees to that.  The size of a piece is 0 with
\* maxiosize=0, and only then does the program end in a division by 0.
TypeOK ==
    /\ stage \in {"main", "itype", "pick", "pass", "exit", "trap"}
    /\ params \in [minoff : 0 .. Word - 1, maxoff : 0 .. Word - 1, headersz : Nat,
                   multiplier : Nat, maxiosize : Nat]
    /\ itlist \in Seq([optype : Optypes, size : Nat])
    /\ maxsize \in Nat /\ iosize \in Nat /\ rangeoff \in 0 .. Word - 1
    /\ offset \in 0 .. Word - 1 /\ baseoff \in 0 .. Word - 1 /\ sz \in Int
    /\ pass \in Seq([off : 0 .. Word - 1, size : Nat \ {0}]) /\ asked \in Nat
    /\ Running => /\ rangeoff # 0
                  /\ \A i \in DOMAIN itlist : itlist[i].size # 0
    /\ stage = "trap" => params.maxiosize = 0

Transfers == stage = "pass" /\ ip.optype # "sleep"

\* The region is spread by the multiplier; with 0 all I/Os start at minoff.
Spread == IF params.multiplier = 0 THEN 1 ELSE params.multiplier

RegionEnd == params.minoff + (params.maxoff - params.minoff) * Spread

\* The whole region has room for the largest I/O, and no I/O type can miss the
\* end of it: the starts leave room, or they are multiples of the size.  Spread by
\* the multiplier it ends below 2^64.
RegionFits ==
    /\ RegionEnd <= Word
    /\ params.headersz # 0 => params.minoff + maxsize <= params.maxoff
    /\ params.headersz = 0 => rangeoff % ip.size = 0

\* No piece of a read or write leaves the region from minoff to maxoff (spread by
\* the multiplier), however options were ordered, types mixed and I/Os split.
InRegion ==
    Transfers /\ RegionFits =>
        \A n \in DOMAIN pass :
            params.minoff <= pass[n].off /\ pass[n].off + pass[n].size <= RegionEnd

\* Direct I/O needs whole sectors: with any mix of types (sleeps, whose size is a
\* time, included) and any header, a piece begins and ends at a sector's border,
\* unless maxiosize is no multiple of a sector.
Aligned ==
    Transfers /\ params.maxiosize % Sector = 0 =>
        \A n \in DOMAIN pass : pass[n].off % Sector = 0 /\ pass[n].size % Sector = 0

\* The buffers of a thread, made before its first I/O for all types, hold every
\* piece of a read or write.
BufferFits == Transfers => \A n \in DOMAIN pass : pass[n].size <= iosize

\* Every turn, repeats included, transfers the bytes from offset to offset + size,
\* in pieces that follow each other.
Whole ==
    Transfers /\ sz <= 0 =>
        LET last == pass[Len(pass)] IN
            /\ pass[1].off = offset
            /\ \A n \in 1 .. Len(pass) - 1 :
                  pass[n + 1].off = (pass[n].off + pass[n].size) % Word
            /\ (last.off + last.size) % Word = (offset + ip.size) % Word

Sleeping == stage = "pass" /\ ip.optype = "sleep"

Goal == ip.size * NsPerUs

\* No piece of the sleep is so long that its ns leave 32 bits: with maxiosize at
\* its default none is.
PiecesFit ==
    LET longest == IF ip.size > params.maxiosize THEN params.maxiosize ELSE ip.size
    IN  (longest + SleepTick) * NsPerUs <= Uint

\* The usage calls sleeptm= the "time to sleep in us", the header of the output the
\* "max sleep time".  Every piece of a sleep takes a random time, but together they
\* ask for that time or more, never for less, and for less than a tick more, if their
\* ns fit in 32 bits.  So the usage has it right to a tick, and the header does not.
SleepTime ==
    Sleeping /\ sz <= 0 /\ PiecesFit =>
        Goal <= asked /\ asked < Goal + SleepTick * NsPerUs

\* init_threads refuses a command line with the message "maximum iosize plus
\* header is larger than test range": with the others, it is not.
RangeChecked ==
    Running => maxsize + params.headersz <= params.maxoff - params.minoff
=============================================================================
