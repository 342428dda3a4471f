-------------------------- MODULE HandleLifecycle --------------------------
(***************************************************************************)
(* What the Master promises about chunk handles, with no word about how    *)
(* files, slices or counters realise it.  A handle is born into exactly    *)
(* one file, stays in that file, and once it has left the file it is never *)
(* used again: chunk data on the ChunkServers is found by handle alone     *)
(* ("%d.chunk"), so a handle that came back would expose an old chunk.     *)
(***************************************************************************)
CONSTANTS Handle,   \* chunk handles the Master may issue
          Path,     \* file names
          Unborn,   \* not issued yet
          Dead      \* issued once, in no file any more

VARIABLE owner      \* Handle -> the file that lists it, or Unborn or Dead

Init == owner = [h \in Handle |-> Unborn]

\* A file takes a set of handles nobody has used before.
Issue(path, H) ==
  /\ \A h \in H : owner[h] = Unborn
  /\ owner' = [h \in Handle |-> IF h \in H THEN path ELSE owner[h]]

\* Handles leave their file, for good.
Retire(H) ==
  /\ \A h \in H : owner[h] \in Path
  /\ owner' = [h \in Handle |-> IF h \in H THEN Dead ELSE owner[h]]

Next == \E H \in SUBSET Handle : Retire(H) \/ \E path \in Path : Issue(path, H)

Spec == Init /\ [][Next]_owner
=============================================================================
