------------------------------- MODULE Bytes -------------------------------
(***************************************************************************)
(* Sequences of bytes as a file keeps them.                                *)
(***************************************************************************)
EXTENDS Integers, Sequences

CONSTANTS
  ChunkSize,  \* config.ChunkSize
  Hole        \* the zero byte a file system shows where nothing was written

ASSUME ChunkSizeAssumption == ChunkSize \in Nat \ {0}

Smaller(m, n) == IF m < n THEN m ELSE n

Greater(m, n) == IF m > n THEN m ELSE n

\* s with d written at offset off: os.File.WriteAt.
Overlay(s, off, d) ==
  [i \in 1 .. Greater(Len(s), off + Len(d)) |->
     IF i \in off + 1 .. off + Len(d) THEN d[i - off]
     ELSE IF i <= Len(s) THEN s[i] ELSE Hole]

\* os.File.Truncate.
Resize(s, n) == [i \in 1 .. n |-> IF i <= Len(s) THEN s[i] ELSE Hole]

\* At most n bytes of s from offset off: os.File.ReadAt.
Slice(s, off, n) == SubSeq(s, off + 1, Smaller(off + n, Len(s)))

Without(s, off, n) == SubSeq(s, 1, off) \o SubSeq(s, off + n + 1, Len(s))

Spliced(s, off, d) == SubSeq(s, 1, off) \o d \o SubSeq(s, off + 1, Len(s))

ChunkOf(off) == off \div ChunkSize
=============================================================================
