----------------------------- MODULE MCFileOps -----------------------------
(***************************************************************************)
(* FileOps for TLC: one client that makes every call and one that reads;   *)
(* chunks of two bytes.                                                    *)
(***************************************************************************)
EXTENDS FileOps, TLC

All == {"create", "delete", "read", "write", "append", "deleteRange", "truncate", "insert"}

MCDoes == "w" :> All @@ "r" :> {"read"}

MCDoesFew == "w" :> {"create", "append", "deleteRange", "read"} @@ "r" :> {"read"}

MCData == {<<1>>, <<1, 2>>}

MCDataFew == {<<1, 2>>}

\* What FileOpsProofs assumes of the clients in some of its theorems.
ASSUME OneWriterAssumption == OneWriter

-----------------------------------------------------------------------------
(***************************************************************************)
(* Which free handle is given out makes no difference: FileOps compares    *)
(* handles with each other only.  States that differ in the names of their *)
(* handles are one state for TLC.                                          *)
(***************************************************************************)
HandleSeq(j) ==
  FlattenSeq([i \in DOMAIN j.list |-> SetToSeq(j.list[i])])
    \o [i \in DOMAIN j.reads |-> j.reads[i].h] \o j.old \o j.new
    \o [i \in DOMAIN j.calls |-> j.calls[i].h] \o [i \in DOMAIN j.cut |-> j.cut[i].h]

ByFirstUse ==
  FoldLeft(LAMBDA seen, h : IF h \in ToSet(seen) THEN seen ELSE Append(seen, h), << >>,
    handles \o FlattenSeq([i \in 1 .. Cardinality(Client) |-> HandleSeq(job[SetToSeq(Client)[i]])])
            \o SetToSeq(located \cup DOMAIN data \cup copies))

View ==
  LET order == ByFirstUse
      name(h) == SelectInSeq(order, LAMBDA g : g = h)
      names(hs) == [i \in DOMAIN hs |-> name(hs[i])]
      parts(ps) == [i \in DOMAIN ps |-> [ps[i] EXCEPT !.h = name(@)]]
      renamed(j) == [j EXCEPT !.list = [i \in DOMAIN @ |-> {name(h) : h \in @[i]}], !.reads = parts(@), !.calls = parts(@), !.cut = parts(@),
                              !.old = names(@), !.new = names(@)]
  IN <<running, exists, size, faults, names(handles), {name(h) : h \in located},
       {<<name(h), data[h]>> : h \in DOMAIN data}, {name(h) : h \in copies}, [c \in Client |-> renamed(job[c])]>>
=============================================================================
