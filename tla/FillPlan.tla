------------------------------- MODULE FillPlan -------------------------------
(***************************************************************************)
(* Where iofill reads and writes: the region that ithreadinit computes     *)
(* from the command line, and the header and blocks that io_thread lays    *)
(* out in it.  IofRun has every block number claimed once, in order; here  *)
(* the blocks follow each other and each is a range of bytes.              *)
(*                                                                         *)
(* Offsets are 64-bit and wrap, the size of an I/O has 32 bits.  The       *)
(* options altcount, streams, partition, wroff and random order, which no  *)
(* command-line option of iofill sets, are left out.                       *)
(***************************************************************************)
EXTENDS Integers, Sequences, FiniteSets

CONSTANTS
    Commands,    \* the command lines: the parameters of a fill
    Word,        \* 2^64
    Uint         \* 2^32

ASSUME WidthAssumption == Word \in Nat /\ Uint \in Nat /\ Uint <= Word

\* What the options can be.  iofill checks none of them but the size; a fill of no
\* block at all (count=0, nrep=0) has nothing to say about.
ASSUME CommandsAssumption ==
    \A c \in Commands :
        /\ c.size \in 1 .. Uint - 1 /\ c.nio \in Nat \ {0} /\ c.nrep \in Nat \ {0}
        /\ c.skip \in Nat /\ c.seekoff \in 0 .. Word - 1 /\ c.headersz \in 0 .. Word - 1
        /\ c.minoff \in 0 .. Word - 1 /\ c.maxoff \in 0 .. Word - 1
        /\ c.multiplier \in Nat

VARIABLES
    cmd,     \* itp->params
    bno,     \* thread_bno
    ios      \* history: the I/Os so far, each an offset and a size

vars == <<cmd, bno, ios>>

-----------------------------------------------------------------------------
(***************************************************************************)
(* ithreadinit.                                                            *)
(***************************************************************************)
Headersz(c) == IF c.headersz > c.size THEN c.headersz % c.size ELSE c.headersz

Minblks(c) == c.minoff \div c.size

\* at least one block, even if minoff and maxoff lie in the same one
Maxblks(c) ==
    LET blks == IF c.maxoff \div c.size = 0 THEN 1 ELSE c.maxoff \div c.size
    IN  IF blks = Minblks(c) THEN blks + 1 ELSE blks

RangeInBytes(c) ==
    IF c.maxoff > c.minoff THEN c.maxoff - c.minoff ELSE c.size

Rangeoff(c) == ((Maxblks(c) - Minblks(c)) * c.size) % Word

Totalio(c) == (c.nio * c.nrep) % Word

(***************************************************************************)
(* io_thread.                                                              *)
(***************************************************************************)
RegionEnd(c) == (c.minoff + Rangeoff(c) * c.multiplier) % Word

\* The place of byte x of the fill: it wraps around at the end of the region.
Place(c, x) == (c.minoff + (x % Rangeoff(c)) * c.multiplier) % Word

Header(c) == [off |-> Place(c, c.seekoff), size |-> Headersz(c)]

Stride(c) == c.size * (1 + c.skip)

StartOverHeader(c, b) == (c.seekoff + Stride(c) * b) % Word

\* Where block b starts, as a byte of the fill.
Start(c, b) == (c.seekoff + Headersz(c) + Stride(c) * b) % Word

Unclipped(c, off) == c.size

\* A block that would cross the end of the region is cut off there.
Clipped(c, off) ==
    IF (off + c.size) % Word > RegionEnd(c) THEN ((RegionEnd(c) - off) % Word) % Uint
    ELSE c.size

Block(c, b) ==
    LET off == Place(c, Start(c, b)) IN [off |-> off, size |-> Clipped(c, off)]

\* Block b of a repetition; its first one comes after a header.
IosOf(c, b) ==
    IF b = 0 /\ Headersz(c) # 0 THEN <<Header(c), Block(c, b)>> ELSE <<Block(c, b)>>

Init ==
    /\ cmd \in Commands
    /\ bno = 0 /\ ios = <<>>

\* The test against totalio lets one block too many through.
FillOneMore ==
    /\ bno <= Totalio(cmd)
    /\ ios' = ios \o IosOf(cmd, bno % cmd.nio)
    /\ bno' = bno + 1
    /\ UNCHANGED cmd

Fill ==
    /\ bno < Totalio(cmd)
    /\ ios' = ios \o IosOf(cmd, bno % cmd.nio)
    /\ bno' = bno + 1
    /\ UNCHANGED cmd

\* The threads break out of their loops.
Filled ==
    /\ bno >= Totalio(cmd)
    /\ UNCHANGED vars

Next == Fill \/ Filled

Spec == Init /\ [][Next]_vars

-----------------------------------------------------------------------------
(***************************************************************************)
(* Properties.                                                             *)
(***************************************************************************)
\* A block number is claimed only below totalio, and each one gives an I/O, or two
\* at the beginning of a repetition.
TypeOK ==
    /\ cmd \in Commands
    /\ bno \in 0 .. Totalio(cmd)
    /\ ios \in Seq([off : 0 .. Word - 1, size : 0 .. Uint - 1])
    /\ bno <= Len(ios) /\ Len(ios) <= bno + cmd.nrep

Covers(io, byte) == io.off <= byte /\ byte < io.off + io.size

Meet(p, q) == p.off < q.off + q.size /\ q.off < p.off + p.size

\* maxoff, and one block behind it, spread by the multiplier.
MaxEnd(c) == c.minoff + (c.maxoff - c.minoff) * c.multiplier
LastEnd(c) == c.minoff + (c.maxoff - c.minoff + c.size) * c.multiplier

\* The options are in order, and no sum or product of the fill reaches 2^64.  (With
\* the default maxoff of 2^62 that excludes a multiplier of 4 or more.)
Fits(c) ==
    /\ c.minoff <= c.maxoff /\ c.multiplier # 0
    /\ LastEnd(c) + c.size <= Word
    /\ c.seekoff + c.size + Stride(c) * c.nio <= Word
    /\ c.nio * c.nrep < Word

\* The header is not cut off: it stays in the region if there is room behind seek.
SeekFits(c) == (c.seekoff % Rangeoff(c)) + Headersz(c) <= Rangeoff(c)

Inside(c, io) ==
    /\ c.minoff <= io.off
    /\ 0 < io.size /\ io.size <= c.size
    /\ io.off + io.size <= RegionEnd(c)

\* If the options fit, no I/O is empty or larger than size, and none leaves the region
\* of whole blocks from minoff on, however often the fill wraps around.  That region
\* does not always end at maxoff, the "max write offset" of usage, but never more than
\* a block behind it; and if there is a block between minoff and maxoff at all, it ends
\* behind maxoff exactly if minoff lies further into its block than maxoff into its own.
InRegion ==
    Fits(cmd) /\ SeekFits(cmd) =>
        /\ RegionEnd(cmd) <= LastEnd(cmd)
        /\ cmd.minoff + cmd.size <= cmd.maxoff =>
              (RegionEnd(cmd) <= MaxEnd(cmd)
                  <=> cmd.minoff % cmd.size <= cmd.maxoff % cmd.size)
        /\ \A n \in 1 .. Len(ios) : Inside(cmd, ios[n])

\* Without a seek, and if the options fit, the fill writes the region in fixed pieces:
\* two I/Os are about the same bytes or about different ones, in every repetition,
\* after any number of turns around the region.  Where several threads have I/Os
\* under way, no two of them ever write a byte in common unless they write the same
\* block.
SameOrApart ==
    Fits(cmd) /\ cmd.seekoff = 0 =>
        \A m, n \in 1 .. Len(ios) : Meet(ios[m], ios[n]) => ios[m] = ios[n]

\* A fill with as many blocks as the region, if its options fit, writes each byte of
\* the region, and exactly once in each repetition: the header and the cut-off last
\* block fit together.
FillsRegion ==
    /\ bno = Totalio(cmd)
    /\ Fits(cmd)
    /\ cmd.seekoff = 0 /\ cmd.skip = 0 /\ cmd.multiplier = 1
    /\ Headersz(cmd) < cmd.size
    /\ cmd.nio * cmd.size = Rangeoff(cmd)
    => \A byte \in cmd.minoff .. RegionEnd(cmd) - 1 :
          Cardinality({n \in 1 .. Len(ios) : Covers(ios[n], byte)}) = cmd.nrep
=============================================================================
