------------------------------ MODULE ByteFile ------------------------------
(***************************************************************************)
(* What the client library promises to the only writer of a file: the file *)
(* is a sequence of bytes, and a call that is answered has done to it what *)
(* its name says.  The promise holds while the layout is sound, that is    *)
(* while every chunk but the last is full; two calls may leave it unsound. *)
(***************************************************************************)
EXTENDS Bytes

CONSTANTS
  NoFile,   \* the content of a path without a file
  Nothing   \* no call is under way

VARIABLES
  content,  \* the bytes of the file
  sound,    \* the layout lets a byte be found by its offset
  doing,    \* the request under way
  answer,   \* what the last call returned
  faulty    \* some call between the processes has failed

vars == <<content, sound, doing, answer, faulty>>

Init ==
  /\ content = NoFile
  /\ sound = TRUE
  /\ doing = Nothing
  /\ answer = "none"
  /\ faulty = FALSE

Invoke ==
  /\ doing = Nothing
  /\ doing' # Nothing
  /\ answer' = "none"
  /\ UNCHANGED <<content, sound, faulty>>

Valid(r) ==
  CASE r.op = "create" -> content = NoFile
    [] r.op = "truncate" -> content # NoFile /\ r.n <= Len(content)
    [] r.op \in {"deleteRange", "insert"} -> content # NoFile /\ r.off <= Len(content)
    [] OTHER -> content # NoFile

Removed(r) == Smaller(r.n, Len(content) - r.off)

Result(r) ==
  CASE r.op = "create" -> << >>
    [] r.op = "delete" -> NoFile
    [] r.op = "read" -> content
    [] r.op = "write" -> Overlay(content, r.off, r.bytes)
    [] r.op = "append" -> content \o r.bytes
    [] r.op = "deleteRange" -> Without(content, r.off, Removed(r))
    [] r.op = "truncate" -> SubSeq(content, 1, r.n)
    [] r.op = "insert" -> Spliced(content, r.off, r.bytes)

\* A write that starts in a chunk after the one where the file ends leaves a chunk
\* that is not full, or not there, before its own.
Skips(r) == r.op = "write" /\ ChunkOf(r.off) > ChunkOf(Len(content))

\* A removal that is no multiple of ChunkSize leaves a short chunk, unless that is the last.
Shortens(r) ==
  /\ r.op = "deleteRange"
  /\ Removed(r) % ChunkSize # 0
  /\ ChunkOf(r.off + Removed(r) - 1) < ChunkOf(Len(content) - 1)

\* The first n bytes stay.
Keeps(n) ==
  /\ content' # NoFile /\ Len(content') >= n
  /\ SubSeq(content', 1, n) = SubSeq(content, 1, n)

Ends(reply) == answer' = reply /\ doing' = Nothing

Succeed ==
  /\ doing # Nothing /\ sound /\ Valid(doing)
  /\ Ends("ok")
  /\ sound' = ~(Skips(doing) \/ Shortens(doing))
  /\ IF Skips(doing) THEN Keeps(Len(content))
                     ELSE content' = Result(doing)
  /\ UNCHANGED faulty

\* An insert for whose place the Master gave no location: the bytes go to the end.
Misplace ==
  /\ doing # Nothing /\ sound /\ Valid(doing)
  /\ doing.op = "insert" /\ doing.off < Len(content) /\ faulty
  /\ Ends("ok")
  /\ content' = content \o doing.bytes
  /\ UNCHANGED <<sound, faulty>>

Refuse ==
  /\ doing # Nothing /\ sound /\ ~Valid(doing)
  /\ Ends("error")
  /\ UNCHANGED <<content, sound>>
  /\ faulty => faulty'

\* Truncate to nothing, or to the size the file has, does its work and ends the client.
Panic ==
  /\ doing # Nothing /\ sound /\ Valid(doing)
  /\ doing.op = "truncate" /\ doing.n \in {0, Len(content)}
  /\ Ends("panic")
  /\ content' = Result(doing)
  /\ UNCHANGED <<sound, faulty>>

\* How many bytes at the front of the file a failed call leaves alone: the client
\* rebuilds whole chunks, and writes and truncates in place.
Kept(r) ==
  CASE r.op \in {"create", "read", "append"} -> Len(content)
    [] r.op = "write" -> Smaller(r.off, Len(content))
    [] r.op = "truncate" -> r.n
    [] r.op \in {"deleteRange", "insert"} -> ChunkOf(r.off) * ChunkSize
    [] r.op = "delete" -> 0

\* A write inside the file cannot move the bytes after it either.
Fail ==
  /\ doing # Nothing /\ sound /\ Valid(doing)
  /\ Ends("error")
  /\ faulty' = TRUE
  /\ \/ UNCHANGED content
     \/ doing.op = "create" /\ content' = << >>
     \/ doing.op = "delete" /\ content' = NoFile
     \/ /\ content # NoFile /\ Keeps(Kept(doing))
        /\ doing.op = "write" /\ doing.off + Len(doing.bytes) <= Len(content)
             => /\ Len(content') = Len(content)
                /\ \A i \in doing.off + Len(doing.bytes) + 1 .. Len(content) :
                     content'[i] = content[i]

\* Nothing is promised of a file with an unsound layout.
Unsound ==
  /\ doing # Nothing /\ ~sound
  /\ \E reply \in {"ok", "error", "panic"} : Ends(reply)
  /\ faulty => faulty'

Trouble ==
  /\ faulty' = TRUE
  /\ UNCHANGED <<content, sound, doing, answer>>

Next == Invoke \/ Succeed \/ Misplace \/ Refuse \/ Panic \/ Fail \/ Unsound \/ Trouble

Spec == Init /\ [][Next]_vars
=============================================================================
