------------------------------ MODULE NodeProofs ------------------------------
(***************************************************************************)
(* Proofs about what a node keeps: the object store of its deployments     *)
(* (NodeStore), for every number of deployments, objects, chunks, tries    *)
(* and faults, and its previews (NodePreviews), for every number of        *)
(* missions, instances, ports, requests and faults.                        *)
(***************************************************************************)
EXTENDS NodeStore, NodePreviews, SequenceTheorems, FiniteSetTheorems, WellFoundedInduction, TLAPS

-----------------------------------------------------------------------------
(* The object store.                                                        *)

ChunkSeq == UNION {[1..n -> {"ok", "bad"}] : n \in 0..Length}
Opens(t) == fd[t] # NoInode
Alike(t, u) == Current(t) = Current(u)
Unsafe(h) == h \in overlap \cup edited

\* What is still to be fetched by t, and what it has.
StageInv(t) ==
    /\ todo[t] \subseteq Wants[t] \ Local
    /\ stage[t] \in {"scan", "open", "request", "stream"} => tries[t] < MaxTries
    /\ stage[t] \in {"scan", "open", "request", "stream"} => \A h \in Wants[t] \cap Local : HasObject(h)
    /\ todo[t] # {} => \A h \in Wants[t] : HasObject(h) \/ h \in todo[t]
    /\ stage[t] = "assemble" => \A h \in Wants[t] : HasObject(h)

\* A file belongs to one object, under one name; a descriptor may outlive it.
NameInv ==
    /\ \A g, h \in Sha : object[h] # NoInode => object[h] # part[g] /\ (object[g] = object[h] => g = h)
    /\ \A g, h \in Sha : part[h] # NoInode /\ part[g] = part[h] => g = h
    /\ \A h \in Local, g \in Sha : part[g] # Scratch[h] /\ (object[g] = Scratch[h] => g = h)
OpenInv(t) ==
    Opens(t) =>
        /\ \A h \in Local : fd[t] # Scratch[h]
        /\ \A g \in Sha \ {Current(t)} : fd[t] # object[g] /\ fd[t] # part[g]
        /\ \A u \in Task : fd[u] = fd[t] => Alike(u, t)

\* Two downloads of one object are known to overlap ...
OneWriterInv ==
    \A t, u \in Task : t # u /\ Opens(t) /\ Opens(u) /\ Alike(t, u)
                         => Current(t) \in overlap /\ t \notin clean
\* ... and one that is alone has the .part as it hashed it.
DownloadInv(t) ==
    Opens(t) /\ (Current(t) \notin overlap \/ t \in clean) =>
        /\ part[Current(t)] = fd[t] /\ Len(data[fd[t]]) = at[t]
        /\ sum[t] = \A k \in 1..at[t] : data[fd[t]][k] = "ok"

ScratchInv == \A h \in Local \ edited : Whole(Scratch[h])
TreeInv == \A t \in Task : tree[t] = "wrong" \/ repo[t] = "wrong" => \E h \in Wants[t] : Unsafe(h)

\* Together, that of a store in which every object not known to be unsafe is whole.
NamesInv == NameInv /\ OneWriterInv /\ \A t \in Task : OpenInv(t) /\ DownloadInv(t)
TasksInv == StoreTypeOK /\ \A t \in Task : StageInv(t)
WholeInv == TasksInv /\ NamesInv /\ PublishedWhole /\ ScratchInv /\ TreeInv

\* A .part that is complete is about to be hashed, or survived a crash.
TornInv ==
    \A h \in Sha : part[h] # NoInode /\ Len(data[part[h]]) >= Length =>
        h \in torn \/ \E t \in Task : fd[t] = part[h] /\ stage[t] = "stream" /\ at[t] = Length
RefusedInv == \A t \in Task : stage[t] = "request" /\ at[t] >= Length /\ t \in clean => Current(t) \in torn

\* The .part files with wrong content, or with a writer behind their end.
Spoilt(i) ==
    \/ \E k \in DOMAIN data[i] : data[i][k] = "bad"
    \/ \E t \in Task : fd[t] = i /\ at[t] > Len(data[i])
Sour == {h \in Sha : part[h] # NoInode /\ Spoilt(part[h])}
Excused(t) == Wants[t] \cap (torn \cup edited) # {}
SourInv ==
    /\ IsFiniteSet(Sour) /\ Cardinality(Sour) <= trouble
    /\ \A t \in clean : Excused(t) \/ tries[t] + Cardinality(Sour) <= trouble
FailedInv == \A t \in clean : stage[t] = "failed" => Excused(t) \/ tries[t] = MaxTries

CleanInv == WholeInv /\ TornInv /\ RefusedInv /\ SourInv /\ FailedInv /\ clean \subseteq Task

-----------------------------------------------------------------------------
(* The operators.                                                           *)

LEMMA Numbers == Length \in Nat /\ Length >= 1 /\ MaxTries \in Nat /\ MaxTries >= 1 /\ MaxTrouble \in Nat
BY NodeStoreAssumption

\* A set of objects that is not empty has a first one.
LEMMA FirstExists == ASSUME NEW S \in SUBSET Nat, S # {} PROVE \E h \in S : \A g \in S : h <= g
<1>1. PICK h \in S : \A g \in S : ~ (<<g, h>> \in OpToRel(<, Nat))
    BY NatLessThanWellFounded, WFMin, Zenon
<1>2. \A g \in S : ~ (g < h)
    BY <1>1 DEF OpToRel
<1>3. \A g \in S : h <= g
    BY <1>2
<1> QED BY <1>3

LEMMA CurrentIn ==
    ASSUME NEW t \in Task, todo[t] \subseteq Sha, todo[t] # {}
    PROVE  Current(t) \in todo[t] /\ Current(t) \in Sha
<1>1. \E h \in todo[t] : \A g \in todo[t] : h <= g
    BY FirstExists, NodeStoreAssumption
<1> QED BY <1>1 DEF Current

\* A new file is named by nothing.
LEMMA FreshIsFree ==
    ASSUME \E i \in Inode : ~Named(i)
    PROVE  /\ Fresh \in Inode /\ Fresh # NoInode
           /\ \A h \in Sha : object[h] # Fresh /\ part[h] # Fresh
           /\ \A h \in Local : Scratch[h] # Fresh
           /\ \A t \in Task : fd[t] # Fresh
<1>1. Fresh \in Inode /\ ~Named(Fresh)
    BY DEF Fresh
<1> QED BY <1>1, NodeStoreAssumption DEF Named, NoInode

\* The chunks of a file.
LEMMA ContentFacts ==
    ASSUME NEW c \in ChunkSeq
    PROVE  /\ Len(c) \in 0..Length /\ DOMAIN c = 1..Len(c) /\ \A k \in 1..Len(c) : c[k] \in {"ok", "bad"}
           /\ c \in Seq({"ok", "bad"})
<1>1. PICK n \in 0..Length : c \in [1..n -> {"ok", "bad"}]
    BY DEF ChunkSeq
<1>2. n \in Nat /\ n <= Length
    BY Numbers
<1>3. c \in Seq({"ok", "bad"})
    BY <1>1, <1>2, SeqDef
<1>4. Len(c) \in Nat /\ DOMAIN c = 1..Len(c)
    BY <1>3, LenProperties
<1>5. Len(c) = n
    BY <1>1, <1>2, <1>4
<1> QED BY <1>1, <1>2, <1>3, <1>4, <1>5, Numbers

LEMMA ContentIs ==
    ASSUME NEW n \in 0..Length, NEW c \in [1..n -> {"ok", "bad"}]
    PROVE  c \in ChunkSeq /\ Len(c) = n
<1>1. c \in ChunkSeq
    BY DEF ChunkSeq
<1> QED BY <1>1, ContentFacts, Numbers

LEMMA EmptyContent == <<>> \in ChunkSeq /\ Len(<<>>) = 0 /\ DOMAIN <<>> = {} /\ 0 \in 0..Length
<1>1. 0 \in 0..Length /\ <<>> \in [1..0 -> {"ok", "bad"}]
    BY Numbers
<1>2. <<>> \in ChunkSeq
    BY <1>1 DEF ChunkSeq
<1> QED BY <1>1, <1>2

\* A file is whole when it has all its chunks, and no wrong one.
LEMMA WholeIs ==
    ASSUME data \in [Inode -> ChunkSeq], NEW i \in Inode
    PROVE  Whole(i) <=> Len(data[i]) = Length /\ \A k \in 1..Length : data[i][k] = "ok"
<1>1. data[i] \in ChunkSeq
    OBVIOUS
<1>2. Len(data[i]) \in 0..Length /\ DOMAIN data[i] = 1..Len(data[i]) /\ data[i] \in Seq({"ok", "bad"})
    BY <1>1, ContentFacts
<1>3. ASSUME Whole(i) PROVE Len(data[i]) = Length /\ \A k \in 1..Length : data[i][k] = "ok"
  <2>1. DOMAIN data[i] = 1..Length /\ \A k \in 1..Length : data[i][k] = "ok"
    BY <1>3 DEF Whole
  <2>2. Len(data[i]) = Length
    BY ONLY <1>2, <2>1, Numbers
  <2> QED BY <2>1, <2>2
<1>4. ASSUME Len(data[i]) = Length, \A k \in 1..Length : data[i][k] = "ok" PROVE Whole(i)
  <2>1. DOMAIN data[i] = 1..Length /\ data[i] \in [1..Length -> {"ok", "bad"}]
    BY <1>2, <1>4, LenProperties
  <2> QED BY <1>4, <2>1 DEF Whole
<1> QED BY <1>3, <1>4

-----------------------------------------------------------------------------
(* Steps that change no file.                                               *)

LEMMA CurrentStays == ASSUME NEW t \in Task, todo'[t] = todo[t] PROVE Current(t)' = Current(t)
BY DEF Current

\* What a task holds stays, or is closed.
Stays(t) ==
    \/ fd'[t] = NoInode
    \/ /\ fd'[t] = fd[t] /\ at'[t] = at[t] /\ sum'[t] = sum[t] /\ todo'[t] = todo[t]
       /\ t \in clean' => t \in clean

LEMMA QuietFiles ==
    ASSUME NamesInv, PublishedWhole, ScratchInv, UNCHANGED <<data, object, part, overlap, edited>>, \A t \in Task : Stays(t)
    PROVE  NamesInv' /\ PublishedWhole' /\ ScratchInv'
<1>1. \A t \in Task : Opens(t)' =>
        /\ Opens(t) /\ Current(t)' = Current(t) /\ fd'[t] = fd[t] /\ at'[t] = at[t] /\ sum'[t] = sum[t]
        /\ t \in clean' => t \in clean
    BY CurrentStays DEF Stays, Opens
<1>2. NameInv'
    BY DEF NamesInv, NameInv
<1>3. OneWriterInv'
    BY <1>1 DEF NamesInv, OneWriterInv, Alike
<1>4. ASSUME NEW t \in Task PROVE OpenInv(t)' /\ DownloadInv(t)'
  <2>1. CASE Opens(t)'
    <3>1. OpenInv(t) /\ DownloadInv(t)
        BY DEF NamesInv
    <3>2. \A u \in Task : fd'[u] = fd'[t] => Opens(u)'
        BY <2>1 DEF Opens
    <3>3. OpenInv(t)'
        BY <1>1, <2>1, <3>1, <3>2 DEF OpenInv, Alike
    <3>4. DownloadInv(t)'
        BY <1>1, <2>1, <3>1 DEF DownloadInv
    <3> QED BY <3>3, <3>4
  <2>2. CASE ~Opens(t)'
    BY <2>2 DEF OpenInv, DownloadInv
  <2> QED BY <2>1, <2>2
<1>5. PublishedWhole' /\ ScratchInv'
    BY DEF PublishedWhole, ScratchInv, HasObject, Whole
<1> QED BY <1>2, <1>3, <1>4, <1>5 DEF NamesInv

-----------------------------------------------------------------------------
(* Steps of one task.                                                       *)

Stage == {"idle", "scan", "open", "request", "stream", "assemble", "clone", "built", "swap", "done", "failed"}
InodeOrNone == Inode \cup {NoInode}
FileTypes == data \in [Inode -> ChunkSeq] /\ object \in [Sha -> InodeOrNone] /\ part \in [Sha -> InodeOrNone]
TaskTypes ==
    /\ stage \in [Task -> Stage] /\ todo \in [Task -> SUBSET Sha] /\ tries \in [Task -> 0..MaxTries]
    /\ fd \in [Task -> InodeOrNone] /\ at \in [Task -> 0..Length] /\ sum \in [Task -> BOOLEAN]
TreeTypes ==
    /\ tree \in [Task -> {"none", "whole", "wrong"}] /\ repo \in [Task -> {"none", "whole", "wrong"}]
    /\ attempts \in [Task -> 0..MaxAttempts] /\ trouble \in 0..MaxTrouble
Linked(t) ==
    /\ (stage[t] \in {"open", "request", "stream"}) <=> (todo[t] # {})
    /\ (stage[t] \in {"request", "stream"}) <=> (fd[t] # NoInode)

LEMMA StoreTypes == StoreTypeOK <=> FileTypes /\ TaskTypes /\ TreeTypes /\ \A t \in Task : Linked(t)
BY DEF StoreTypeOK, FileTypes, TaskTypes, TreeTypes, Linked, ChunkSeq, Stage, InodeOrNone

\* The others stay where they are, and no object goes.
OnlyMoves(t) ==
    \A u \in Task \ {t} : stage'[u] = stage[u] /\ todo'[u] = todo[u] /\ tries'[u] = tries[u] /\ fd'[u] = fd[u]
ObjectsStay == \A h \in Sha : HasObject(h) => HasObject(h)'

LEMMA TaskMoves ==
    ASSUME TasksInv, NEW t \in Task, FileTypes', TaskTypes', TreeTypes', OnlyMoves(t), ObjectsStay, Linked(t)', StageInv(t)'
    PROVE  TasksInv'
<1>1. \A u \in Task : Linked(u)'
    BY StoreTypes DEF TasksInv, OnlyMoves, Linked
<1>2. ASSUME NEW u \in Task \ {t} PROVE StageInv(u)'
  <2>1. StageInv(u) /\ Wants[u] \subseteq Sha
    BY NodeStoreAssumption DEF TasksInv
  <2> QED BY <1>2, <2>1 DEF StageInv, OnlyMoves, ObjectsStay
<1>3. StoreTypeOK'
    BY <1>1 DEF StoreTypeOK, FileTypes, TaskTypes, TreeTypes, Linked, ChunkSeq, Stage, InodeOrNone
<1> QED BY <1>2, <1>3 DEF TasksInv

\* A try that fails ends the download, and leaves the manifest for the next one.
LEMMA FailTryMoves ==
    ASSUME TasksInv, NEW t \in Task, stage[t] \in {"open", "request", "stream"}, FailTry(t), ObjectsStay
    PROVE  /\ TaskTypes' /\ OnlyMoves(t) /\ Linked(t)' /\ StageInv(t)'
           /\ stage'[t] \in {"scan", "failed"} /\ fd'[t] = NoInode /\ tries'[t] = tries[t] + 1
           /\ stage'[t] = "failed" => tries'[t] = MaxTries
           /\ \A u \in Task \ {t} : at'[u] = at[u] /\ sum'[u] = sum[u]
<1>1. TaskTypes /\ StageInv(t) /\ tries[t] < MaxTries /\ Wants[t] \subseteq Sha /\ Local \subseteq Sha
    BY StoreTypes, NodeStoreAssumption DEF TasksInv, StageInv
<1>2. /\ stage' = [stage EXCEPT ![t] = IF tries[t] + 1 < MaxTries THEN "scan" ELSE "failed"]
      /\ tries' = [tries EXCEPT ![t] = tries[t] + 1] /\ todo' = [todo EXCEPT ![t] = {}]
      /\ fd' = [fd EXCEPT ![t] = NoInode] /\ at' = [at EXCEPT ![t] = 0] /\ sum' = [sum EXCEPT ![t] = TRUE]
    BY DEF FailTry, Go, Close
<1>3. tries[t] + 1 \in 0..MaxTries /\ 0 \in 0..Length
    BY <1>1, Numbers DEF TaskTypes
<1>4. TaskTypes'
    BY <1>1, <1>2, <1>3 DEF TaskTypes, Stage, InodeOrNone
<1>5. /\ stage'[t] = (IF tries[t] + 1 < MaxTries THEN "scan" ELSE "failed")
      /\ tries'[t] = tries[t] + 1 /\ todo'[t] = {} /\ fd'[t] = NoInode
    BY <1>1, <1>2 DEF TaskTypes
<1>6. OnlyMoves(t) /\ \A u \in Task \ {t} : at'[u] = at[u] /\ sum'[u] = sum[u]
    BY <1>1, <1>2 DEF TaskTypes, OnlyMoves
<1>7. Linked(t)'
    BY <1>5 DEF Linked
<1>8. stage'[t] = "failed" => tries'[t] = MaxTries
    BY <1>3, <1>5, Numbers DEF TaskTypes
<1>9. StageInv(t)'
    BY <1>1, <1>5 DEF StageInv, ObjectsStay
<1> QED BY <1>4, <1>5, <1>6, <1>7, <1>8, <1>9

\* The steps of a materialize that touch no file.
LEMMA QuietSteps ==
    ASSUME TasksInv, NEW t \in Task,
           \/ Scan(t) \/ PresignFails(t) \/ Answered(t) \/ RangeRefused(t) \/ Drop(t)
           \/ Clone(t) \/ TakeDown(t) \/ SwapIn(t) \/ BuildFails(t) \/ RemoveTree(t)
    PROVE  /\ TasksInv' /\ UNCHANGED <<data, object, part, overlap, edited, torn>> /\ OnlyMoves(t)
           /\ \A u \in Task : Stays(u)
           /\ clean' \subseteq clean /\ trouble' >= trouble
<1>1. /\ UNCHANGED <<data, object, part, overlap, edited, torn>> /\ clean' \subseteq clean
      /\ attempts' = attempts /\ (trouble' = trouble \/ Spend)
    BY DEF Scan, PresignFails, Answered, RangeRefused, Drop, Clone, TakeDown, SwapIn, BuildFails, RemoveTree,
           files, task, ghosts, Spend
<1>2. FileTypes /\ TaskTypes /\ TreeTypes /\ Linked(t) /\ StageInv(t) /\ FileTypes' /\ ObjectsStay
      /\ Wants[t] \subseteq Sha /\ Local \subseteq Sha
    BY <1>1, StoreTypes, NodeStoreAssumption DEF TasksInv, FileTypes, ObjectsStay, HasObject
<1>3. trouble' \in 0..MaxTrouble /\ trouble' >= trouble
    BY <1>1, <1>2, Numbers DEF TreeTypes, Spend
<1>4. CASE PresignFails(t) \/ RangeRefused(t) \/ Drop(t)
  <2>1. FailTry(t) /\ tree' = tree /\ repo' = repo /\ stage[t] \in {"open", "request", "stream"}
    BY <1>4 DEF PresignFails, RangeRefused, Drop
  <2>2. TreeTypes'
    BY <1>1, <1>2, <1>3, <2>1 DEF TreeTypes
  <2>3. /\ TaskTypes' /\ OnlyMoves(t) /\ Linked(t)' /\ StageInv(t)' /\ fd'[t] = NoInode
        /\ \A u \in Task \ {t} : at'[u] = at[u] /\ sum'[u] = sum[u]
    BY <1>2, <2>1, FailTryMoves
  <2>4. \A u \in Task : Stays(u)
    BY <1>1, <2>3 DEF Stays, OnlyMoves
  <2> QED BY <1>1, <1>2, <1>3, <2>2, <2>3, <2>4, TaskMoves
<1>5. CASE ~(PresignFails(t) \/ RangeRefused(t) \/ Drop(t))
  <2>1. UNCHANGED <<tries, fd, at, sum>>
    BY <1>5 DEF Scan, Answered, Clone, TakeDown, SwapIn, BuildFails, RemoveTree, task
  <2>2. TreeTypes'
    BY <1>1, <1>2, <1>3, <1>5 DEF TreeTypes, Scan, Answered, Clone, TakeDown, SwapIn, BuildFails, RemoveTree, task
  <2>3. CASE Scan(t)
    <3>1. /\ stage[t] = "scan" /\ todo' = [todo EXCEPT ![t] = {h \in Wants[t] : ~HasObject(h)}]
          /\ stage' = [stage EXCEPT ![t] = IF todo'[t] = {} THEN "assemble" ELSE "open"]
      BY <2>3 DEF Scan, Go
    <3>2. TaskTypes' /\ OnlyMoves(t)
      BY <1>2, <2>1, <3>1 DEF TaskTypes, Stage, OnlyMoves
    <3>3. /\ todo'[t] = {h \in Wants[t] : ~HasObject(h)} /\ fd[t] = NoInode
          /\ stage'[t] = IF todo'[t] = {} THEN "assemble" ELSE "open"
      BY <1>2, <3>1 DEF TaskTypes, Linked
    <3>4. Linked(t)'
      BY <2>1, <3>3 DEF Linked
    <3>5. StageInv(t)'
      BY <1>1, <1>2, <2>1, <3>1, <3>3 DEF StageInv, HasObject
    <3>6. \A u \in Task : Stays(u)
      BY <1>1, <2>1, <3>2, <3>3 DEF Stays, OnlyMoves
    <3> QED BY <1>1, <1>2, <1>3, <2>2, <3>2, <3>4, <3>5, <3>6, TaskMoves
  <2>4. CASE ~Scan(t)
    <3>1. todo' = todo
      BY <1>5, <2>4 DEF Answered, Clone, TakeDown, SwapIn, BuildFails, RemoveTree, task
    <3>2. \/ stage' = stage
          \/ stage[t] = "request" /\ stage' = [stage EXCEPT ![t] = "stream"]
          \/ /\ stage[t] \in {"assemble", "clone", "built", "swap"}
             /\ \E s \in {"built", "swap", "done", "failed"} : stage' = [stage EXCEPT ![t] = s]
      BY <1>5, <2>4 DEF Answered, Clone, TakeDown, SwapIn, BuildFails, RemoveTree, task, Go
    <3>3. TaskTypes' /\ OnlyMoves(t)
      BY <1>2, <2>1, <3>1, <3>2 DEF TaskTypes, Stage, OnlyMoves
    <3>4. Linked(t)'
      BY <1>2, <2>1, <3>1, <3>2 DEF Linked, TaskTypes
    <3>5. StageInv(t)'
      BY <1>1, <1>2, <2>1, <3>1, <3>2 DEF StageInv, HasObject, TaskTypes
    <3>6. \A u \in Task : Stays(u)
      BY <1>1, <2>1, <3>1 DEF Stays
    <3> QED BY <1>1, <1>2, <1>3, <2>2, <3>3, <3>4, <3>5, <3>6, TaskMoves
  <2> QED BY <2>3, <2>4
<1> QED BY <1>4, <1>5

\* The whole invariant after a step that touches no file; a tree is wrong for a reason.
LEMMA QuietKeepsWhole ==
    ASSUME WholeInv, NEW t \in Task,
           \/ Scan(t) \/ PresignFails(t) \/ Answered(t) \/ RangeRefused(t) \/ Drop(t)
           \/ Clone(t) \/ TakeDown(t) \/ SwapIn(t) \/ BuildFails(t) \/ RemoveTree(t)
    PROVE  WholeInv'
<1>1. /\ TasksInv' /\ UNCHANGED <<data, object, part, overlap, edited>> /\ \A u \in Task : Stays(u)
    BY QuietSteps DEF WholeInv
<1>2. NamesInv' /\ PublishedWhole' /\ ScratchInv'
    BY <1>1, QuietFiles DEF WholeInv
<1>3. \A u \in Task : tree'[u] \in {tree[u], "none"} /\ repo'[u] \in {repo[u], "none", tree[u]}
    BY StoreTypes DEF Scan, PresignFails, Answered, RangeRefused, Drop, Clone, TakeDown, SwapIn, BuildFails, RemoveTree, task,
                      WholeInv, TasksInv, TreeTypes
<1>4. TreeInv'
    BY <1>1, <1>3 DEF WholeInv, TreeInv, Unsafe
<1> QED BY <1>1, <1>2, <1>4 DEF WholeInv

\* The agent dies: no download is open.
LEMMA CrashSteps ==
    ASSUME TasksInv, Crash
    PROVE  /\ TasksInv' /\ UNCHANGED <<data, object, part, repo, attempts, overlap, edited>>
           /\ \A t \in Task : fd'[t] = NoInode /\ tree'[t] = "none"
<1>1. /\ UNCHANGED <<data, object, part, repo, attempts, overlap, edited>> /\ Spend
      /\ stage' = [t \in Task |-> IF stage[t] \in {"done", "failed"} THEN stage[t] ELSE "idle"]
      /\ todo' = [t \in Task |-> {}] /\ tries' = [t \in Task |-> 0]
      /\ fd' = [t \in Task |-> NoInode] /\ at' = [t \in Task |-> 0]
      /\ sum' = [t \in Task |-> TRUE] /\ tree' = [t \in Task |-> "none"]
    BY DEF Crash, files
<1>2. FileTypes /\ TaskTypes /\ TreeTypes
    BY StoreTypes DEF TasksInv
<1>3. FileTypes' /\ TreeTypes'
    BY <1>1, <1>2, Numbers DEF FileTypes, TreeTypes, Spend
<1>4. TaskTypes'
  <2>1. 0 \in 0..Length /\ 0 \in 0..MaxTries
    BY Numbers
  <2> QED BY <1>1, <1>2, <2>1 DEF TaskTypes, Stage, InodeOrNone
<1>5. \A t \in Task : todo'[t] = {} /\ fd'[t] = NoInode /\ tree'[t] = "none" /\ stage'[t] \in {"idle", "done", "failed"}
    BY <1>1
<1>6. \A t \in Task : Linked(t)' /\ StageInv(t)'
    BY <1>5 DEF Linked, StageInv
<1>7. StoreTypeOK'
    BY <1>3, <1>4, <1>6 DEF StoreTypeOK, FileTypes, TaskTypes, TreeTypes, Linked, ChunkSeq, Stage, InodeOrNone
<1> QED BY <1>1, <1>5, <1>6, <1>7 DEF TasksInv

LEMMA CrashKeepsWhole == ASSUME WholeInv, Crash PROVE WholeInv'
<1>1. /\ TasksInv' /\ UNCHANGED <<data, object, part, repo, attempts, overlap, edited>>
      /\ \A t \in Task : fd'[t] = NoInode /\ tree'[t] = "none"
    BY CrashSteps DEF WholeInv
<1>2. NamesInv' /\ PublishedWhole' /\ ScratchInv'
    BY <1>1, QuietFiles DEF WholeInv, Stays
<1>3. TreeInv'
    BY <1>1 DEF WholeInv, TreeInv, Unsafe
<1> QED BY <1>1, <1>2, <1>3 DEF WholeInv

\* An attempt begins: objects are linked from the user's scratch directory.
LEMMA MaterializeStarts ==
    ASSUME TasksInv, NEW t \in Task, Start(t)
    PROVE  /\ TasksInv' /\ ObjectsStay /\ OnlyMoves(t)
           /\ UNCHANGED <<data, part, todo, fd, at, sum, tree, repo, trouble, overlap, torn, edited>>
           /\ clean' = clean \cup {t} /\ fd[t] = NoInode /\ fd'[t] = NoInode /\ tries'[t] = 0
           /\ \A h \in Sha : \/ object'[h] = object[h]
                             \/ h \in Local /\ object'[h] = Scratch[h] /\ Whole(Scratch[h])
           /\ stage'[t] = "failed" => \E h \in Wants[t] \cap Local : ~Whole(Scratch[h])
<1> DEFINE new == {h \in Wants[t] \cap Local : ~HasObject(h)}
           good == {h \in new : \A g \in new : g <= h => Whole(Scratch[g])}
<1>1. /\ object' = [h \in Sha |-> IF h \in good THEN Scratch[h] ELSE object[h]]
      /\ stage' = [stage EXCEPT ![t] = IF good = new THEN "scan" ELSE "failed"]
      /\ tries' = [tries EXCEPT ![t] = 0] /\ stage[t] \in {"idle", "done", "failed"}
      /\ attempts[t] < MaxAttempts /\ attempts' = [attempts EXCEPT ![t] = attempts[t] + 1]
      /\ clean' = clean \cup {t}
      /\ UNCHANGED <<data, part, todo, fd, at, sum, tree, repo, trouble, overlap, torn, edited>>
    BY DEF Start, ImportLocal, Go
<1>2. FileTypes /\ TaskTypes /\ TreeTypes /\ Linked(t) /\ StageInv(t)
      /\ Wants[t] \subseteq Sha /\ Local \subseteq Sha /\ Scratch \in [Local -> Inode] /\ Inode \subseteq Nat \ {0} /\ Sha \subseteq Nat
      /\ \A g, h \in Local : Scratch[g] = Scratch[h] => g = h
    BY StoreTypes, NodeStoreAssumption DEF TasksInv
<1>3. /\ good \subseteq new /\ new \subseteq Wants[t] \cap Local /\ \A h \in good : Whole(Scratch[h])
      /\ good # new => \E h \in Wants[t] \cap Local : ~Whole(Scratch[h])
  <2>1. ASSUME NEW h \in good PROVE Whole(Scratch[h])
    <3>1. h \in new /\ h \in Nat
      BY <1>2
    <3>2. h <= h
      BY <3>1
    <3> QED BY <3>1, <3>2
  <2> QED BY <2>1
<1> HIDE DEF good
<1>4. \A h \in Sha : /\ h \in good => h \in Local /\ object'[h] = Scratch[h] /\ Scratch[h] # NoInode /\ Whole(Scratch[h])
                     /\ h \notin good => object'[h] = object[h]
    BY <1>1, <1>2, <1>3 DEF NoInode
<1>5. ObjectsStay /\ OnlyMoves(t)
    BY <1>1, <1>2, <1>4 DEF ObjectsStay, HasObject, OnlyMoves, TaskTypes
<1>6. FileTypes' /\ TreeTypes'
  <2>1. attempts[t] + 1 \in 0..MaxAttempts
    BY <1>1, <1>2, NodeStoreAssumption DEF TreeTypes
  <2> QED BY <1>1, <1>2, <1>3, <2>1 DEF FileTypes, TreeTypes, InodeOrNone
<1>7. TaskTypes'
  <2>1. 0 \in 0..MaxTries
    BY Numbers
  <2> QED BY <1>1, <1>2, <2>1 DEF TaskTypes, Stage
<1>8. stage'[t] = (IF good = new THEN "scan" ELSE "failed") /\ tries'[t] = 0 /\ todo'[t] = {} /\ fd'[t] = NoInode /\ fd[t] = NoInode
    BY <1>1, <1>2 DEF TaskTypes, Linked
<1>9. Linked(t)'
    BY <1>8 DEF Linked
<1>10. StageInv(t)'
  <2>1. good = new => \A h \in Wants[t] \cap Local : HasObject(h)'
    BY <1>2, <1>4, <1>5 DEF ObjectsStay, HasObject
  <2> QED BY <1>8, <2>1, Numbers DEF StageInv
<1>11. TasksInv'
    BY <1>5, <1>6, <1>7, <1>9, <1>10, TaskMoves
<1> QED BY <1>1, <1>3, <1>4, <1>5, <1>8, <1>11

LEMMA StartKeepsWhole == ASSUME WholeInv, NEW t \in Task, Start(t) PROVE WholeInv'
<1>1. /\ TasksInv' /\ UNCHANGED <<data, part, todo, fd, at, sum, tree, repo, overlap, edited>>
      /\ clean' = clean \cup {t} /\ fd[t] = NoInode
      /\ \A h \in Sha : \/ object'[h] = object[h]
                        \/ h \in Local /\ object'[h] = Scratch[h] /\ Whole(Scratch[h])
    BY MaterializeStarts DEF WholeInv
<1>2. /\ Scratch \in [Local -> Inode] /\ NoInode \notin Inode /\ Local \subseteq Sha
      /\ \A g, h \in Local : Scratch[g] = Scratch[h] => g = h
    BY NodeStoreAssumption DEF NoInode
<1>3. NameInv'
  <2>1. NameInv
    BY DEF WholeInv, NamesInv
  <2> QED BY <1>1, <1>2, <2>1 DEF NameInv
<1>4. OneWriterInv'
    BY <1>1, CurrentStays DEF WholeInv, NamesInv, OneWriterInv, Opens, Alike
<1>5. ASSUME NEW u \in Task PROVE OpenInv(u)' /\ DownloadInv(u)'
  <2>1. OpenInv(u) /\ DownloadInv(u) /\ (Opens(u) => u # t)
    BY <1>1 DEF WholeInv, NamesInv, Opens
  <2>2. \A v \in Task : Current(v)' = Current(v)
    BY <1>1, CurrentStays
  <2>3. OpenInv(u)'
    BY <1>1, <1>2, <2>1, <2>2 DEF OpenInv, Opens, Alike
  <2>4. DownloadInv(u)'
    BY <1>1, <2>1, <2>2 DEF DownloadInv, Opens
  <2> QED BY <2>3, <2>4
<1>6. PublishedWhole'
    BY <1>1 DEF WholeInv, PublishedWhole, HasObject, Whole
<1>7. ScratchInv' /\ TreeInv'
    BY <1>1 DEF WholeInv, ScratchInv, TreeInv, Whole, Unsafe
<1> QED BY <1>1, <1>3, <1>4, <1>5, <1>6, <1>7 DEF WholeInv, NamesInv

-----------------------------------------------------------------------------
(* Steps on files.                                                          *)

\* No file has the name of two objects, so a download writes to no other's.
LEMMA OwnFile ==
    ASSUME NamesInv, NEW t \in Task, Opens(t), NEW h \in Sha, h \notin overlap, object[h] = fd[t] \/ part[h] = fd[t]
    PROVE  Current(t) = h /\ part[h] = fd[t] /\ object[h] # fd[t]
<1>1. OpenInv(t) /\ DownloadInv(t) /\ NameInv
    BY DEF NamesInv
<1>2. Current(t) = h
    BY <1>1 DEF OpenInv
<1>3. part[h] = fd[t]
    BY <1>1, <1>2 DEF DownloadInv
<1> QED BY <1>1, <1>2, <1>3 DEF NameInv, Opens

\* A write of the download of t, to its own file.
LEMMA WriteKeepsFiles ==
    ASSUME WholeInv, NEW t \in Task, Opens(t), NEW c \in ChunkSeq, data' = [data EXCEPT ![fd[t]] = c],
           UNCHANGED <<object, part, todo, fd, overlap, edited>>, clean' \subseteq clean,
           \A u \in Task \ {t} : at'[u] = at[u] /\ sum'[u] = sum[u],
           DownloadInv(t) => DownloadInv(t)'
    PROVE  NamesInv' /\ PublishedWhole' /\ ScratchInv'
<1>1. FileTypes /\ NamesInv /\ fd[t] \in Inode /\ \A u \in Task : Current(u)' = Current(u)
    BY StoreTypes, CurrentStays DEF WholeInv, TasksInv, TaskTypes, InodeOrNone, Opens
<1>2. \A i \in Inode : i # fd[t] => data'[i] = data[i]
    BY <1>1 DEF FileTypes
<1>3. NameInv' /\ OneWriterInv'
    BY <1>1 DEF NamesInv, NameInv, OneWriterInv, Opens, Alike
<1>4. \A u \in Task : OpenInv(u)'
    BY <1>1 DEF NamesInv, OpenInv, Opens, Alike
<1>5. ASSUME NEW u \in Task, u # t PROVE DownloadInv(u)'
  <2>1. DownloadInv(u) /\ OpenInv(t) /\ OneWriterInv
    BY <1>1 DEF NamesInv
  <2>2. SUFFICES ASSUME Opens(u), Current(u) \notin overlap \/ u \in clean'
                 PROVE  /\ part[Current(u)] = fd[u] /\ Len(data'[fd[u]]) = at[u]
                        /\ sum[u] = \A k \in 1..at[u] : data'[fd[u]][k] = "ok"
    BY <1>1, <1>5 DEF DownloadInv, Opens
  <2>3. ~Alike(t, u)
    BY <1>5, <2>1, <2>2 DEF OneWriterInv, Alike
  <2>4. fd[u] # fd[t]
    BY <2>1, <2>3 DEF OpenInv, Alike
  <2>5. fd[u] \in InodeOrNone /\ fd[u] # NoInode
    BY <2>2, StoreTypes DEF Opens, WholeInv, TasksInv, TaskTypes
  <2>6. data'[fd[u]] = data[fd[u]]
    BY <1>2, <2>4, <2>5 DEF InodeOrNone
  <2> QED BY <2>1, <2>2, <2>6 DEF DownloadInv
<1>6. ASSUME NEW h \in Sha \ (overlap \cup edited), HasObject(h) PROVE Whole(object[h])'
  <2>1. object[h] # fd[t]
    BY <1>1, <1>6, OwnFile
  <2>2. object[h] \in Inode /\ Whole(object[h])
    BY <1>1, <1>6 DEF FileTypes, InodeOrNone, HasObject, WholeInv, PublishedWhole
  <2> QED BY <1>2, <2>1, <2>2 DEF Whole
<1>7. ASSUME NEW h \in Local \ edited PROVE Whole(Scratch[h])'
  <2>1. Scratch[h] \in Inode /\ Scratch[h] # fd[t] /\ Whole(Scratch[h])
    BY <1>1, <1>7, NodeStoreAssumption DEF NamesInv, OpenInv, WholeInv, ScratchInv
  <2> QED BY <1>2, <2>1 DEF Whole
<1> QED BY <1>1, <1>3, <1>4, <1>5, <1>6, <1>7 DEF NamesInv, PublishedWhole, ScratchInv, HasObject

\* A step that writes one file and moves within the download.
LEMMA WriteSteps ==
    ASSUME TasksInv, NEW t \in Task, stage[t] \in {"request", "stream"},
           NEW c \in ChunkSeq, NEW n \in 0..Length, NEW b \in BOOLEAN,
           data' = [data EXCEPT ![fd[t]] = c], at' = [at EXCEPT ![t] = n], sum' = [sum EXCEPT ![t] = b],
           stage' = [stage EXCEPT ![t] = "stream"], trouble' \in 0..MaxTrouble,
           UNCHANGED <<object, part, todo, tries, fd, tree, repo, attempts>>
    PROVE  /\ TasksInv' /\ OnlyMoves(t) /\ Opens(t) /\ fd[t] \in Inode /\ data'[fd[t]] = c /\ stage'[t] = "stream"
           /\ at'[t] = n /\ sum'[t] = b /\ \A u \in Task \ {t} : at'[u] = at[u] /\ sum'[u] = sum[u]
<1>1. FileTypes /\ TaskTypes /\ TreeTypes /\ Linked(t) /\ StageInv(t)
    BY StoreTypes DEF TasksInv
<1>2. Opens(t) /\ fd[t] \in Inode /\ todo[t] # {}
    BY <1>1 DEF Linked, Opens, TaskTypes, InodeOrNone
<1>3. data'[fd[t]] = c /\ stage'[t] = "stream" /\ at'[t] = n /\ sum'[t] = b
    BY <1>1, <1>2 DEF FileTypes, TaskTypes
<1>4. OnlyMoves(t) /\ \A u \in Task \ {t} : at'[u] = at[u] /\ sum'[u] = sum[u]
    BY <1>1 DEF TaskTypes, OnlyMoves
<1>5. FileTypes' /\ TreeTypes'
    BY <1>1 DEF FileTypes, TreeTypes
<1>6. TaskTypes'
    BY <1>1 DEF TaskTypes, Stage
<1>7. Linked(t)' /\ StageInv(t)' /\ ObjectsStay
    BY <1>1, <1>2, <1>3 DEF Linked, Opens, StageInv, ObjectsStay, HasObject
<1> QED BY <1>2, <1>3, <1>4, <1>5, <1>6, <1>7, TaskMoves

LEMMA WriteKeepsWhole ==
    ASSUME WholeInv, NEW t \in Task, stage[t] \in {"request", "stream"},
           NEW c \in ChunkSeq, NEW n \in 0..Length, NEW b \in BOOLEAN,
           data' = [data EXCEPT ![fd[t]] = c], at' = [at EXCEPT ![t] = n], sum' = [sum EXCEPT ![t] = b],
           stage' = [stage EXCEPT ![t] = "stream"], trouble' \in 0..MaxTrouble,
           UNCHANGED <<object, part, todo, tries, fd, tree, repo, attempts, overlap, edited>>, clean' \subseteq clean,
           Len(data[fd[t]]) = at[t] /\ (sum[t] = \A k \in 1..at[t] : data[fd[t]][k] = "ok")
              => Len(c) = n /\ (b = \A k \in 1..n : c[k] = "ok")
    PROVE  WholeInv'
<1>1. /\ TasksInv' /\ Opens(t) /\ data'[fd[t]] = c /\ at'[t] = n /\ sum'[t] = b
      /\ \A u \in Task \ {t} : at'[u] = at[u] /\ sum'[u] = sum[u]
    BY WriteSteps DEF WholeInv
<1>2. DownloadInv(t) => DownloadInv(t)'
  <2>1. Current(t)' = Current(t) /\ (t \in clean' => t \in clean)
    BY CurrentStays
  <2>2. ASSUME DownloadInv(t), Current(t) \notin overlap \/ t \in clean
        PROVE  part[Current(t)] = fd[t] /\ Len(c) = n /\ (b = \A k \in 1..n : c[k] = "ok")
    BY <1>1, <2>2 DEF DownloadInv
  <2>3. SUFFICES ASSUME DownloadInv(t), Current(t) \notin overlap \/ t \in clean'
                 PROVE  /\ part[Current(t)] = fd[t] /\ Len(data'[fd[t]]) = at'[t]
                        /\ sum'[t] = \A k \in 1..at'[t] : data'[fd[t]][k] = "ok"
    BY <2>1 DEF DownloadInv
  <2> QED BY <1>1, <2>1, <2>2, <2>3
<1>3. NamesInv' /\ PublishedWhole' /\ ScratchInv'
    BY <1>1, <1>2, WriteKeepsFiles
<1>4. TreeInv'
    BY DEF WholeInv, TreeInv, Unsafe
<1> QED BY <1>1, <1>3, <1>4 DEF WholeInv

\* What a chunk makes of a file.
ChunkOf(old, p, c) ==
    LET upTo == IF Len(old) < p THEN p ELSE Len(old)
    IN  [k \in 1..upTo |-> IF k = p THEN c ELSE IF k <= Len(old) THEN old[k] ELSE "bad"]

LEMMA ChunkFacts ==
    ASSUME NEW old \in ChunkSeq, NEW p \in 1..Length, NEW c \in {"ok", "bad"}
    PROVE  /\ ChunkOf(old, p, c) \in ChunkSeq
           /\ Len(ChunkOf(old, p, c)) >= p /\ Len(ChunkOf(old, p, c)) >= Len(old)
           /\ Len(old) <= p => Len(ChunkOf(old, p, c)) = p
           /\ Len(old) >= p => Len(ChunkOf(old, p, c)) = Len(old)
           /\ ChunkOf(old, p, c)[p] = c
           /\ \A k \in 1..Len(old) : k # p => ChunkOf(old, p, c)[k] = old[k]
<1> DEFINE upTo == IF Len(old) < p THEN p ELSE Len(old)
           new == ChunkOf(old, p, c)
<1>1. Len(old) \in 0..Length /\ \A k \in 1..Len(old) : old[k] \in {"ok", "bad"}
    BY ContentFacts
<1>2. /\ upTo \in 0..Length /\ upTo >= p /\ upTo >= Len(old)
      /\ (Len(old) <= p => upTo = p) /\ (Len(old) >= p => upTo = Len(old))
    BY <1>1, Numbers
<1>3. ASSUME NEW k \in 1..upTo
      PROVE  (IF k = p THEN c ELSE IF k <= Len(old) THEN old[k] ELSE "bad") \in {"ok", "bad"}
    BY <1>1
<1>4. new = [k \in 1..upTo |-> IF k = p THEN c ELSE IF k <= Len(old) THEN old[k] ELSE "bad"]
    BY DEF ChunkOf
<1> HIDE DEF upTo, new
<1>5. new \in [1..upTo -> {"ok", "bad"}]
    BY <1>3, <1>4
<1>6. new \in ChunkSeq /\ Len(new) = upTo
    BY <1>2, <1>5, ContentIs
<1>7. new[p] = c
    BY <1>1, <1>2, <1>4
<1>8. \A k \in 1..Len(old) : k # p => new[k] = old[k]
    BY <1>1, <1>2, <1>4
<1> QED BY <1>2, <1>6, <1>7, <1>8 DEF new

\* The steps of a download that write: a range that was ignored, and a chunk.
Writes(t, c, n, b) ==
    /\ c \in ChunkSeq /\ n \in 0..Length /\ b \in BOOLEAN
    /\ stage[t] \in {"request", "stream"} /\ stage' = [stage EXCEPT ![t] = "stream"]
    /\ data' = [data EXCEPT ![fd[t]] = c] /\ at' = [at EXCEPT ![t] = n] /\ sum' = [sum EXCEPT ![t] = b]
    /\ UNCHANGED <<object, part, todo, tries, fd, tree, repo, attempts, overlap, torn, edited>>
    /\ clean' \subseteq clean /\ trouble' \in 0..MaxTrouble /\ trouble' >= trouble

LEMMA IgnoredWrites ==
    ASSUME TasksInv, NEW t \in Task, RangeIgnored(t)
    PROVE  Writes(t, <<>>, 0, TRUE) /\ t \notin clean' /\ trouble' = trouble + 1 /\ clean' = clean \ {t}
<1>1. trouble \in 0..MaxTrouble
    BY StoreTypes DEF TasksInv, TreeTypes
<1>2. trouble' \in 0..MaxTrouble /\ trouble' = trouble + 1 /\ trouble' >= trouble
    BY <1>1, Numbers DEF RangeIgnored, Spend
<1> QED BY <1>2, EmptyContent DEF RangeIgnored, Go, Writes

LEMMA ChunkWrites ==
    ASSUME TasksInv, NEW t \in Task, Stream(t)
    PROVE  \E c \in {"ok", "bad"} :
              /\ Writes(t, ChunkOf(data[fd[t]], at[t] + 1, c), at[t] + 1, sum[t] /\ c = "ok")
              /\ at[t] + 1 \in 1..Length /\ data[fd[t]] \in ChunkSeq /\ fd[t] \in Inode
              /\ \/ c = "ok" /\ UNCHANGED <<trouble, clean>>
                 \/ trouble' = trouble + 1 /\ clean' = clean \ {t}
<1>1. FileTypes /\ TaskTypes /\ TreeTypes /\ Linked(t)
    BY StoreTypes DEF TasksInv
<1>2. stage[t] = "stream" /\ at[t] < Length
    BY DEF Stream
<1>3. at[t] + 1 \in 1..Length /\ at[t] + 1 \in 0..Length
    BY <1>1, <1>2, Numbers DEF TaskTypes
<1>4. data[fd[t]] \in ChunkSeq /\ fd[t] \in Inode
    BY <1>1, <1>2 DEF TaskTypes, InodeOrNone, Linked, FileTypes
<1>5. PICK c \in {"ok", "bad"} :
        /\ Chunk(t, c)
        /\ \/ c = "ok" /\ UNCHANGED <<trouble, clean>>
           \/ Spend /\ clean' = clean \ {t}
  <2>1. CASE Chunk(t, "ok") /\ UNCHANGED <<trouble, clean>>
    <3>1. "ok" \in {"ok", "bad"}
      OBVIOUS
    <3> QED BY <2>1, <3>1
  <2>2. CASE Chunk(t, "bad") /\ Spend /\ clean' = clean \ {t}
    <3>1. "bad" \in {"ok", "bad"}
      OBVIOUS
    <3> QED BY <2>2, <3>1
  <2> QED BY <2>1, <2>2 DEF Stream
<1>6. stage' = [stage EXCEPT ![t] = "stream"]
  <2>1. stage' = stage
    BY <1>5 DEF Chunk
  <2>2. stage = [stage EXCEPT ![t] = "stream"]
    BY <1>1, <1>2 DEF TaskTypes
  <2> QED BY <2>1, <2>2
<1>7. /\ data' = [data EXCEPT ![fd[t]] = ChunkOf(data[fd[t]], at[t] + 1, c)]
      /\ at' = [at EXCEPT ![t] = at[t] + 1] /\ sum' = [sum EXCEPT ![t] = sum[t] /\ c = "ok"]
      /\ UNCHANGED <<object, part, todo, tries, fd, tree, repo, attempts, overlap, torn, edited>>
  <2>1. Chunk(t, c)
    BY <1>5
  <2> QED BY ONLY <2>1 DEF Chunk, ChunkOf
<1>8. /\ trouble' \in 0..MaxTrouble /\ trouble' >= trouble /\ clean' \subseteq clean
      /\ \/ c = "ok" /\ UNCHANGED <<trouble, clean>>
         \/ trouble' = trouble + 1 /\ clean' = clean \ {t}
    BY <1>1, <1>5, Numbers DEF TreeTypes, Spend
<1>9. ChunkOf(data[fd[t]], at[t] + 1, c) \in ChunkSeq
  <2>1. \A p \in 1..Length : ChunkOf(data[fd[t]], p, c) \in ChunkSeq
    BY <1>4, ChunkFacts
  <2> QED BY <1>3, <2>1, Zenon
<1>10. (sum[t] /\ c = "ok") \in BOOLEAN
    OBVIOUS
<1>11. Writes(t, ChunkOf(data[fd[t]], at[t] + 1, c), at[t] + 1, sum[t] /\ c = "ok")
    BY <1>2, <1>3, <1>6, <1>7, <1>8, <1>9, <1>10 DEF Writes
<1> QED BY <1>3, <1>4, <1>8, <1>11

LEMMA WritingKeepsWhole ==
    ASSUME WholeInv, NEW t \in Task, RangeIgnored(t) \/ Stream(t) PROVE WholeInv'
<1>1. CASE RangeIgnored(t)
  <2>1. Writes(t, <<>>, 0, TRUE)
    BY <1>1, IgnoredWrites DEF WholeInv
  <2>2. <<>> \in ChunkSeq /\ Len(<<>>) = 0 /\ 0 \in 0..Length /\ TRUE \in BOOLEAN /\ \A k \in 1..0 : <<>>[k] = "ok"
    BY EmptyContent
  <2> QED BY <2>1, <2>2, WriteKeepsWhole DEF Writes
<1>2. CASE Stream(t)
  <2>1. PICK c \in {"ok", "bad"} :
              /\ Writes(t, ChunkOf(data[fd[t]], at[t] + 1, c), at[t] + 1, sum[t] /\ c = "ok")
              /\ at[t] + 1 \in 1..Length /\ data[fd[t]] \in ChunkSeq
    BY <1>2, ChunkWrites DEF WholeInv
  <2>2. PICK old \in ChunkSeq, n \in 1..Length : old = data[fd[t]] /\ n = at[t] + 1
    BY <2>1
  <2> DEFINE new == ChunkOf(old, n, c)
  <2>3. at[t] \in Nat /\ sum[t] \in BOOLEAN /\ n \in Nat
    BY <2>2, StoreTypes, Numbers DEF WholeInv, TasksInv, TaskTypes
  <2>4. /\ Len(old) <= n => Len(new) = n
        /\ new[n] = c /\ \A k \in 1..Len(old) : k # n => new[k] = old[k]
    <3>1. new \in ChunkSeq
      BY ONLY ChunkFacts
    <3>2. Len(old) <= n => Len(new) = n
      BY ONLY ChunkFacts
    <3>3. new[n] = c
      BY ONLY ChunkFacts
    <3>4. \A k \in 1..Len(old) : k # n => new[k] = old[k]
      BY ONLY ChunkFacts
    <3> QED BY <3>1, <3>2, <3>3, <3>4
  <2>5. new \in ChunkSeq /\ n \in 0..Length /\ (sum[t] /\ c = "ok") \in BOOLEAN
    BY <2>1, <2>2 DEF Writes
  <2>6. Writes(t, new, n, sum[t] /\ c = "ok")
    BY <2>1, <2>2
  <2> HIDE DEF new
  <2>7. ASSUME Len(data[fd[t]]) = at[t], sum[t] = \A k \in 1..at[t] : data[fd[t]][k] = "ok"
        PROVE  Len(new) = n /\ ((sum[t] /\ c = "ok") = \A k \in 1..n : new[k] = "ok")
    <3>1. Len(old) = at[t] /\ (sum[t] <=> \A k \in 1..at[t] : old[k] = "ok")
      BY <2>2, <2>3, <2>7
    <3>2. Len(new) = n /\ \A k \in 1..at[t] : new[k] = old[k]
      BY <2>2, <2>3, <2>4, <3>1
    <3>3. \A k \in 1..n : k = n \/ k \in 1..at[t]
      BY <2>2, <2>3
    <3>4. n \in 1..n /\ \A k \in 1..at[t] : k \in 1..n
      BY <2>2, <2>3
    <3>5. (\A k \in 1..n : new[k] = "ok") <=> sum[t] /\ c = "ok"
      BY <2>4, <3>1, <3>2, <3>3, <3>4
    <3> QED BY <2>3, <3>2, <3>5
  <2> QED BY <2>5, <2>6, <2>7, WriteKeepsWhole DEF Writes
<1> QED BY <1>1, <1>2

\* The .part is opened: a new file, or the one that is there.
Part(t) == IF part[Current(t)] = NoInode THEN Fresh ELSE part[Current(t)]
Have(t) == IF part[Current(t)] = NoInode THEN <<>> ELSE data[part[Current(t)]]

LEMMA OpenSteps ==
    ASSUME TasksInv, NEW t \in Task, Open(t)
    PROVE  /\ TasksInv' /\ OnlyMoves(t) /\ fd[t] = NoInode /\ todo' = todo
           /\ Current(t) \in todo[t] /\ Current(t) \in Sha /\ Part(t) \in Inode /\ Have(t) \in ChunkSeq
           /\ part[Current(t)] = NoInode => Part(t) = Fresh /\ \E i \in Inode : ~Named(i)
           /\ part' = [part EXCEPT ![Current(t)] = Part(t)] /\ data' = [data EXCEPT ![Part(t)] = Have(t)]
           /\ fd'[t] = Part(t) /\ at'[t] = Len(Have(t)) /\ sum'[t] = \A k \in 1..Len(Have(t)) : Have(t)[k] = "ok"
           /\ stage'[t] = "request" /\ tries' = tries
           /\ \A u \in Task \ {t} : at'[u] = at[u] /\ sum'[u] = sum[u]
           /\ UNCHANGED <<object, tree, repo, attempts, trouble, torn, edited>>
           /\ overlap \subseteq overlap' /\ clean' \subseteq clean
           /\ \A u \in Task : Opens(u) /\ Alike(u, t) => Current(t) \in overlap' /\ u \notin clean' /\ t \notin clean'
<1>1. FileTypes /\ TaskTypes /\ TreeTypes /\ Linked(t) /\ StageInv(t) /\ todo[t] \subseteq Sha
    BY StoreTypes DEF TasksInv, TaskTypes
<1>2. stage[t] = "open" /\ todo[t] # {} /\ fd[t] = NoInode
    BY <1>1 DEF Open, Linked
<1>3. Current(t) \in todo[t] /\ Current(t) \in Sha
    BY <1>1, <1>2, CurrentIn
<1>4. part[Current(t)] = NoInode => Part(t) = Fresh /\ \E i \in Inode : ~Named(i)
    BY DEF Open, Part
<1>5. Part(t) \in Inode
    BY <1>1, <1>3, <1>4, FreshIsFree DEF Part, FileTypes, InodeOrNone
<1>6. Have(t) \in ChunkSeq
    BY <1>1, <1>3, EmptyContent DEF Have, FileTypes, InodeOrNone
<1>7. Len(Have(t)) \in 0..Length /\ (\A k \in 1..Len(Have(t)) : Have(t)[k] = "ok") \in BOOLEAN
    BY <1>6, ContentFacts
<1>8. /\ part' = [part EXCEPT ![Current(t)] = Part(t)] /\ data' = [data EXCEPT ![Part(t)] = Have(t)]
      /\ fd' = [fd EXCEPT ![t] = Part(t)] /\ at' = [at EXCEPT ![t] = Len(Have(t))]
      /\ sum' = [sum EXCEPT ![t] = \A k \in 1..Len(Have(t)) : Have(t)[k] = "ok"]
      /\ stage' = [stage EXCEPT ![t] = "request"]
      /\ UNCHANGED <<object, todo, tries, tree, repo, attempts, trouble, torn, edited>>
  <2>1. Part(t) = Part(t) /\ Have(t) = IF part[Current(t)] = NoInode THEN <<>> ELSE data[Part(t)]
    BY DEF Part, Have
  <2> QED BY <2>1 DEF Open, Part, Have, Go
<1>9. /\ overlap \subseteq overlap' /\ clean' \subseteq clean
      /\ \A u \in Task : Opens(u) /\ Alike(u, t) => Current(t) \in overlap' /\ u \notin clean' /\ t \notin clean'
  <2> DEFINE others == {u \in Downloading : fd[u] = Part(t) \/ Current(u) = Current(t)}
  <2>1. /\ overlap' = IF others = {} THEN overlap ELSE overlap \cup {Current(t)}
        /\ clean' = IF others = {} THEN clean ELSE clean \ ({t} \cup others)
    BY DEF Open, Part
  <2>2. \A u \in Task : Opens(u) /\ Alike(u, t) => u \in others
    BY DEF Opens, Alike, Downloading
  <2> HIDE DEF others
  <2> QED BY <2>1, <2>2
<1>10. FileTypes' /\ TreeTypes'
    BY <1>1, <1>3, <1>5, <1>6, <1>8 DEF FileTypes, TreeTypes, InodeOrNone
<1>11. TaskTypes'
  <2>1. stage' \in [Task -> Stage] /\ fd' \in [Task -> InodeOrNone]
    BY <1>1, <1>5, <1>8 DEF TaskTypes, Stage, InodeOrNone
  <2>2. at' \in [Task -> 0..Length] /\ sum' \in [Task -> BOOLEAN]
    BY <1>1, <1>7, <1>8 DEF TaskTypes
  <2> QED BY <1>1, <1>8, <2>1, <2>2 DEF TaskTypes
<1>12. /\ fd'[t] = Part(t) /\ at'[t] = Len(Have(t)) /\ sum'[t] = (\A k \in 1..Len(Have(t)) : Have(t)[k] = "ok")
       /\ stage'[t] = "request" /\ OnlyMoves(t)
       /\ \A u \in Task \ {t} : at'[u] = at[u] /\ sum'[u] = sum[u]
  <2>1. fd'[t] = Part(t) /\ at'[t] = Len(Have(t)) /\ stage'[t] = "request" /\ OnlyMoves(t)
    BY <1>1, <1>8 DEF TaskTypes, OnlyMoves
  <2>2. \A u \in Task \ {t} : at'[u] = at[u] /\ sum'[u] = sum[u]
    BY <1>1, <1>8 DEF TaskTypes
  <2>3. sum'[t] = (\A k \in 1..Len(Have(t)) : Have(t)[k] = "ok")
    BY <1>1, <1>8 DEF TaskTypes
  <2> QED BY <2>1, <2>2, <2>3
<1>13. Linked(t)' /\ StageInv(t)' /\ ObjectsStay
  <2>1. Part(t) # NoInode
    BY <1>5, NodeStoreAssumption DEF NoInode
  <2> QED BY <1>1, <1>2, <1>8, <1>12, <2>1 DEF Linked, StageInv, ObjectsStay, HasObject
<1>14. TasksInv'
    BY <1>10, <1>11, <1>12, <1>13, TaskMoves
<1> QED BY <1>2, <1>3, <1>4, <1>5, <1>6, <1>8, <1>9, <1>12, <1>14

LEMMA OpenKeepsWhole == ASSUME WholeInv, NEW t \in Task, Open(t) PROVE WholeInv'
<1> DEFINE h == Current(t)
           i == Part(t)
           have == Have(t)
<1>1. /\ TasksInv' /\ OnlyMoves(t) /\ fd[t] = NoInode /\ todo' = todo
      /\ h \in Sha /\ i \in Inode /\ have \in ChunkSeq
      /\ part[h] = NoInode => i = Fresh /\ \E j \in Inode : ~Named(j)
      /\ part' = [part EXCEPT ![h] = i] /\ data' = [data EXCEPT ![i] = have]
      /\ fd'[t] = i /\ at'[t] = Len(have) /\ sum'[t] = \A k \in 1..Len(have) : have[k] = "ok"
      /\ \A u \in Task \ {t} : at'[u] = at[u] /\ sum'[u] = sum[u] /\ fd'[u] = fd[u]
      /\ UNCHANGED <<object, tree, repo, edited>> /\ overlap \subseteq overlap' /\ clean' \subseteq clean
      /\ \A u \in Task : Opens(u) /\ Alike(u, t) => h \in overlap' /\ u \notin clean' /\ t \notin clean'
    BY OpenSteps DEF WholeInv, OnlyMoves
<1>2. FileTypes /\ TaskTypes /\ NameInv /\ OneWriterInv /\ h \notin Local /\ i # NoInode /\ Local \subseteq Sha
      /\ \A u \in Task : OpenInv(u) /\ DownloadInv(u) /\ Current(u)' = Current(u)
  <2>1. todo[t] \subseteq Wants[t] \ Local /\ h \in todo[t]
    BY OpenSteps DEF WholeInv, TasksInv, StageInv
  <2>2. \A u \in Task : Current(u)' = Current(u)
    BY <1>1, CurrentStays
  <2> QED BY <1>1, <2>1, <2>2, StoreTypes, NodeStoreAssumption DEF WholeInv, TasksInv, NamesInv, NoInode
<1>3. part[h] # NoInode => i = part[h] /\ have = data[i]
    BY DEF Part, Have
<1> HIDE DEF h, i, have
\* The file of the download is no object, no scratch file, and no other's.
<1>4. /\ \A g \in Sha : object[g] # i /\ (g # h => part[g] # i)
      /\ \A l \in Local : Scratch[l] # i
      /\ \A u \in Task : fd[u] = i => Current(u) = h /\ part[h] = i
  <2>1. CASE part[h] = NoInode
    <3>1. /\ \A g \in Sha : object[g] # i /\ part[g] # i
          /\ \A l \in Local : Scratch[l] # i
          /\ \A u \in Task : fd[u] # i
      BY <1>1, <2>1, FreshIsFree
    <3> QED BY <3>1
  <2>2. CASE part[h] # NoInode
    <3>1. i = part[h]
      BY <1>3, <2>2
    <3>2. \A g \in Sha : object[g] # i /\ (g # h => part[g] # i)
      BY <1>1, <1>2, <2>2, <3>1 DEF NameInv
    <3>3. \A l \in Local : Scratch[l] # i
      BY <1>1, <1>2, <3>1 DEF NameInv
    <3>4. \A u \in Task : fd[u] = i => Current(u) = h
      BY <1>1, <1>2, <3>1 DEF OpenInv, Opens
    <3> QED BY <3>1, <3>2, <3>3, <3>4
  <2> QED BY <2>1, <2>2
<1>5. data'[i] = have /\ (\A j \in Inode : j # i \/ part[h] # NoInode => data'[j] = data[j])
      /\ part'[h] = i /\ \A g \in Sha : g # h => part'[g] = part[g]
    BY <1>1, <1>2, <1>3 DEF FileTypes
<1>6. NameInv'
    BY <1>1, <1>2, <1>4, <1>5 DEF NameInv
<1>7. \A u \in Task : OpenInv(u)'
  <2>1. ASSUME NEW u \in Task, u # t PROVE OpenInv(u)'
    <3>1. SUFFICES ASSUME Opens(u) PROVE OpenInv(u)'
      BY <1>1, <2>1 DEF OpenInv, Opens
    <3>2. fd'[u] = fd[u] /\ \A l \in Local : fd[u] # Scratch[l]
      BY <1>1, <1>2, <2>1, <3>1 DEF OpenInv
    <3>3. \A g \in Sha \ {Current(u)} : fd[u] # object[g] /\ fd[u] # part'[g]
      BY <1>1, <1>2, <1>4, <1>5, <3>1 DEF OpenInv
    <3>4. \A v \in Task : fd'[v] = fd[u] => Current(v) = Current(u)
      BY <1>1, <1>2, <1>4, <3>1 DEF OpenInv, Alike, h
    <3> QED BY <1>1, <1>2, <3>2, <3>3, <3>4 DEF OpenInv, Alike
  <2>2. OpenInv(t)'
    <3>1. \A g \in Sha \ {h} : i # object[g] /\ i # part'[g]
      BY <1>4, <1>5
    <3>2. \A v \in Task : fd'[v] = i => Current(v) = h
      BY <1>1, <1>4 DEF h
    <3> QED BY <1>1, <1>2, <1>4, <3>1, <3>2 DEF OpenInv, Alike, h
  <2> QED BY <2>1, <2>2
<1>8. OneWriterInv'
  <2>1. SUFFICES ASSUME NEW u \in Task, NEW v \in Task, u # v, Opens(u)', Opens(v)', Current(u) = Current(v)
                 PROVE  Current(u) \in overlap' /\ u \notin clean'
    BY <1>2 DEF OneWriterInv, Alike
  <2>2. CASE u = t
    BY <1>1, <2>1, <2>2 DEF Opens, Alike, h
  <2>3. CASE v = t
    BY <1>1, <2>1, <2>3 DEF Opens, Alike, h
  <2>4. CASE u # t /\ v # t
    BY <1>1, <1>2, <2>1, <2>4 DEF Opens, OneWriterInv, Alike
  <2> QED BY <2>2, <2>3, <2>4
<1>9. ASSUME NEW u \in Task PROVE DownloadInv(u)'
  <2>1. CASE u = t
    <3>1. part'[h] = i /\ Len(data'[i]) = at'[t] /\ sum'[t] = \A k \in 1..at'[t] : data'[i][k] = "ok"
      BY <1>1, <1>5
    <3>2. Current(t)' = h /\ fd'[t] = i
      BY <1>1, <1>2 DEF h
    <3> QED BY <2>1, <3>1, <3>2 DEF DownloadInv
  <2>2. CASE u # t
    <3>1. SUFFICES ASSUME Opens(u), Current(u) \notin overlap \/ u \in clean, ~Alike(u, t)
                   PROVE  /\ part'[Current(u)] = fd[u] /\ Len(data'[fd[u]]) = at[u]
                          /\ sum[u] = \A k \in 1..at[u] : data'[fd[u]][k] = "ok"
      <4>1. fd'[u] = fd[u] /\ at'[u] = at[u] /\ sum'[u] = sum[u] /\ Current(u)' = Current(u)
        BY <1>1, <1>2, <2>2
      <4>2. Opens(u) /\ (Current(u) \notin overlap' \/ u \in clean') => Current(u) \notin overlap \/ u \in clean
        BY <1>1
      <4>3. Opens(u) /\ (Current(u) \notin overlap' \/ u \in clean') => ~Alike(u, t)
        BY <1>1 DEF Alike, h
      <4> QED BY <4>1, <4>2, <4>3 DEF DownloadInv, Opens
    <3>2. part[Current(u)] = fd[u] /\ Len(data[fd[u]]) = at[u] /\ sum[u] = \A k \in 1..at[u] : data[fd[u]][k] = "ok"
      BY <1>2, <3>1 DEF DownloadInv
    <3>3. Current(u) # h /\ fd[u] # i
      BY <1>4, <3>1 DEF Alike, h
    <3>4. part'[Current(u)] = fd[u]
      <4>1. todo[u] \subseteq Sha /\ todo[u] # {}
        BY <3>1, StoreTypes DEF WholeInv, TasksInv, TaskTypes, Linked, Opens
      <4>2. Current(u) \in Sha
        BY <4>1, CurrentIn
      <4> QED BY <1>5, <3>2, <3>3, <4>2
    <3>5. fd[u] \in InodeOrNone /\ fd[u] # NoInode
      BY <1>2, <3>1 DEF TaskTypes, Opens
    <3>6. data'[fd[u]] = data[fd[u]]
      BY <1>5, <3>3, <3>5 DEF InodeOrNone
    <3> QED BY <3>2, <3>4, <3>6
  <2> QED BY <2>1, <2>2
<1>10. PublishedWhole'
  <2>1. ASSUME NEW g \in Sha \ (overlap \cup edited), HasObject(g) PROVE Whole(object[g])'
    <3>1. object[g] \in Inode /\ Whole(object[g]) /\ object[g] # i
      BY <1>2, <1>4, <2>1 DEF WholeInv, PublishedWhole, FileTypes, InodeOrNone, HasObject
    <3> QED BY <1>1, <1>5, <3>1 DEF Whole
  <2> QED BY <1>1, <2>1 DEF PublishedWhole, HasObject
<1>11. ScratchInv'
  <2>1. ASSUME NEW l \in Local \ edited PROVE Whole(Scratch[l])'
    <3>1. Scratch[l] \in Inode /\ Whole(Scratch[l]) /\ Scratch[l] # i
      BY <1>4, <2>1, NodeStoreAssumption DEF WholeInv, ScratchInv
    <3> QED BY <1>5, <3>1 DEF Whole
  <2> QED BY <1>1, <2>1 DEF ScratchInv
<1>12. TreeInv'
    BY <1>1 DEF WholeInv, TreeInv, Unsafe
<1> QED BY <1>1, <1>6, <1>7, <1>8, <1>9, <1>10, <1>11, <1>12 DEF WholeInv, NamesInv

\* A download ends: its .part goes, as an object or as nothing.
LEMMA CloseKeepsFiles ==
    ASSUME WholeInv, NEW t \in Task, Opens(t), Current(t) \in Sha, fd'[t] = NoInode,
           \A u \in Task \ {t} : fd'[u] = fd[u] /\ at'[u] = at[u] /\ sum'[u] = sum[u] /\ todo'[u] = todo[u],
           UNCHANGED <<data, overlap, edited, clean>>, part' = [part EXCEPT ![Current(t)] = NoInode],
           \/ object' = object
           \/ /\ object' = [object EXCEPT ![Current(t)] = part[Current(t)]] /\ part[Current(t)] # NoInode
              /\ Current(t) \notin overlap \cup edited => Whole(part[Current(t)])
    PROVE  NamesInv' /\ PublishedWhole' /\ ScratchInv'
<1> DEFINE h == Current(t)
<1>1. FileTypes /\ NameInv /\ OneWriterInv /\ \A u \in Task : OpenInv(u) /\ DownloadInv(u)
    BY StoreTypes DEF WholeInv, TasksInv, NamesInv
<1>2. /\ h \in Sha /\ part'[h] = NoInode /\ \A g \in Sha : g # h => part'[g] = part[g] /\ object'[g] = object[g]
      /\ object'[h] = object[h] \/ (object'[h] = part[h] /\ part[h] # NoInode /\ (h \notin overlap \cup edited => Whole(part[h])))
    BY <1>1 DEF FileTypes
<1>3. \A u \in Task : Opens(u)' => u # t /\ Opens(u) /\ Current(u)' = Current(u) /\ fd'[u] = fd[u] /\ at'[u] = at[u] /\ sum'[u] = sum[u]
    BY CurrentStays DEF Opens
<1>4. Scratch \in [Local -> Inode] /\ NoInode \notin Inode /\ Local \subseteq Sha
    BY NodeStoreAssumption DEF NoInode
<1> HIDE DEF h
<1>5. NameInv'
    BY <1>1, <1>2, <1>4 DEF NameInv
<1>6. OneWriterInv'
    BY <1>1, <1>3 DEF OneWriterInv, Alike
<1>7. ASSUME NEW u \in Task PROVE OpenInv(u)'
  <2>1. SUFFICES ASSUME Opens(u)' PROVE OpenInv(u)'
    BY DEF OpenInv
  <2>2. \A g \in Sha \ {Current(u)} : fd[u] # object'[g] /\ fd[u] # part'[g]
    <3>1. fd[u] # NoInode /\ \A g \in Sha \ {Current(u)} : fd[u] # object[g] /\ fd[u] # part[g]
      BY <1>1, <1>3, <2>1 DEF OpenInv, Opens
    <3> QED BY <1>2, <3>1
  <2>3. \A v \in Task : fd'[v] = fd[u] => Current(v)' = Current(u)
    <3>1. fd[u] # NoInode
      BY <1>3, <2>1 DEF Opens
    <3> QED BY <1>1, <1>3, <2>1, <3>1 DEF OpenInv, Alike, Opens
  <2>4. \A l \in Local : fd[u] # Scratch[l]
    BY <1>1, <1>3, <2>1 DEF OpenInv
  <2> QED BY <1>3, <2>1, <2>2, <2>3, <2>4 DEF OpenInv, Alike
<1>8. ASSUME NEW u \in Task PROVE DownloadInv(u)'
  <2>1. SUFFICES ASSUME Opens(u)', Current(u)' \notin overlap' \/ u \in clean'
                 PROVE  /\ part'[Current(u)'] = fd'[u] /\ Len(data'[fd'[u]]) = at'[u]
                        /\ sum'[u] = \A k \in 1..at'[u] : data'[fd'[u]][k] = "ok"
    BY DEF DownloadInv
  <2>2. /\ u # t /\ Opens(u) /\ Current(u)' = Current(u) /\ fd'[u] = fd[u] /\ at'[u] = at[u] /\ sum'[u] = sum[u]
        /\ UNCHANGED <<data, overlap, clean>>
    BY <1>3, <2>1
  <2>3. part[Current(u)] = fd[u] /\ Len(data[fd[u]]) = at[u] /\ sum[u] = \A k \in 1..at[u] : data[fd[u]][k] = "ok"
    BY <1>1, <2>2, <2>1 DEF DownloadInv
  <2>4. Current(u) # h
    BY <1>1, <2>2, <2>1 DEF OneWriterInv, Alike, h
  <2>5. todo[u] \subseteq Sha /\ todo[u] # {}
    BY <2>2, StoreTypes DEF WholeInv, TasksInv, TaskTypes, Linked, Opens
  <2>6. Current(u) \in Sha
    BY <2>5, CurrentIn
  <2> QED BY <1>2, <2>2, <2>3, <2>4, <2>6
<1>9. PublishedWhole' /\ ScratchInv'
  <2>1. ASSUME NEW g \in Sha \ (overlap \cup edited), object'[g] # NoInode PROVE Whole(object'[g])
    BY <1>2, <2>1 DEF WholeInv, PublishedWhole, HasObject
  <2> QED BY <2>1 DEF WholeInv, PublishedWhole, ScratchInv, HasObject, Whole
<1> QED BY <1>5, <1>6, <1>7, <1>8, <1>9 DEF NamesInv

\* The transfer is complete: the file takes its name, or is thrown away.
LEMMA FinishSteps ==
    ASSUME TasksInv, NEW t \in Task, Finish(t)
    PROVE  /\ TasksInv' /\ OnlyMoves(t) /\ ObjectsStay /\ stage[t] = "stream" /\ at[t] = Length
           /\ Opens(t) /\ fd[t] \in Inode /\ Current(t) \in Sha /\ Current(t) \in todo[t]
           /\ fd'[t] = NoInode /\ \A u \in Task \ {t} : at'[u] = at[u] /\ sum'[u] = sum[u]
           /\ UNCHANGED <<data, tree, repo, attempts, trouble, overlap, torn, edited, clean>>
           /\ part' = [part EXCEPT ![Current(t)] = NoInode] /\ Current(t) \in Sha
           /\ \/ /\ sum[t] /\ part[Current(t)] # NoInode /\ tries'[t] = tries[t] /\ stage'[t] # "failed"
                 /\ object' = [object EXCEPT ![Current(t)] = part[Current(t)]]
              \/ /\ object' = object /\ (sum[t] => part[Current(t)] = NoInode)
                 /\ tries'[t] = tries[t] + 1 /\ (stage'[t] = "failed" => tries'[t] = MaxTries)
<1>1. FileTypes /\ TaskTypes /\ TreeTypes /\ Linked(t) /\ StageInv(t) /\ stage[t] = "stream" /\ at[t] = Length
      /\ UNCHANGED <<data, tree, repo, attempts, trouble, overlap, torn, edited, clean>>
    BY StoreTypes DEF TasksInv, Finish, ghosts
<1>2. Opens(t) /\ fd[t] \in Inode /\ todo[t] # {} /\ todo[t] \subseteq Sha
    BY <1>1 DEF Linked, Opens, TaskTypes, InodeOrNone
<1>3. Current(t) \in todo[t] /\ Current(t) \in Sha
    BY <1>2, CurrentIn
<1>4. CASE sum[t] /\ part[Current(t)] # NoInode
  <2>1. /\ object' = [object EXCEPT ![Current(t)] = part[Current(t)]] /\ part' = [part EXCEPT ![Current(t)] = NoInode]
        /\ todo' = [todo EXCEPT ![t] = todo[t] \ {Current(t)}]
        /\ stage' = [stage EXCEPT ![t] = IF todo'[t] = {} THEN "assemble" ELSE "open"]
        /\ fd' = [fd EXCEPT ![t] = NoInode] /\ at' = [at EXCEPT ![t] = 0] /\ sum' = [sum EXCEPT ![t] = TRUE]
        /\ tries' = tries
    BY <1>4 DEF Finish, Publish, Go, Close
  <2>2. FileTypes' /\ TreeTypes'
    BY <1>1, <1>3, <2>1 DEF FileTypes, TreeTypes, InodeOrNone
  <2>3. TaskTypes'
    <3>1. 0 \in 0..Length
      BY Numbers
    <3> QED BY <1>1, <2>1, <3>1 DEF TaskTypes, Stage, InodeOrNone
  <2>4. /\ stage'[t] = (IF todo'[t] = {} THEN "assemble" ELSE "open") /\ todo'[t] = todo[t] \ {Current(t)} /\ fd'[t] = NoInode
        /\ OnlyMoves(t) /\ \A u \in Task \ {t} : at'[u] = at[u] /\ sum'[u] = sum[u]
    BY <1>1, <2>1 DEF TaskTypes, OnlyMoves
  <2>5. object'[Current(t)] = part[Current(t)] /\ \A g \in Sha : g # Current(t) => object'[g] = object[g]
    BY <1>1, <1>3, <2>1 DEF FileTypes
  <2>6. ObjectsStay /\ object'[Current(t)] # NoInode
    <3>1. object'[Current(t)] # NoInode
      BY <1>4, <2>5
    <3>2. \A g \in Sha : object[g] # NoInode => object'[g] # NoInode
      BY <2>5, <3>1
    <3> QED BY <3>1, <3>2 DEF ObjectsStay, HasObject
  <2>7. Linked(t)'
    BY <2>4 DEF Linked
  <2>8. StageInv(t)'
    <3>1. Wants[t] \subseteq Sha /\ Local \subseteq Sha
      BY NodeStoreAssumption
    <3>2. tries[t] < MaxTries /\ \A g \in Wants[t] : HasObject(g) \/ g \in todo[t]
      BY <1>1, <1>2 DEF StageInv
    <3>3. \A g \in Wants[t] : HasObject(g)' \/ g \in todo'[t]
      <4>1. ASSUME NEW g \in Wants[t] PROVE object'[g] # NoInode \/ g \in todo'[t]
        BY <2>4, <2>5, <2>6, <3>1, <3>2 DEF HasObject
      <4> QED BY <4>1 DEF HasObject
    <3>4. \A g \in Wants[t] \cap Local : HasObject(g)'
      BY <1>1, <2>6, <3>1 DEF StageInv, ObjectsStay
    <3> QED BY <1>1, <2>1, <2>4, <3>2, <3>3, <3>4 DEF StageInv
  <2> QED BY <1>1, <1>2, <1>3, <1>4, <2>1, <2>2, <2>3, <2>4, <2>6, <2>7, <2>8, TaskMoves
<1>5. CASE ~(sum[t] /\ part[Current(t)] # NoInode)
  <2>1. FailTry(t) /\ object' = object /\ part' = [part EXCEPT ![Current(t)] = NoInode]
    <3>1. CASE sum[t]
      <4>1. FailTry(t) /\ object' = object /\ part' = part /\ part[Current(t)] = NoInode
        BY <1>5, <3>1 DEF Finish, Publish
      <4>2. part = [part EXCEPT ![Current(t)] = NoInode]
        BY <1>1, <4>1 DEF FileTypes
      <4> QED BY <4>1, <4>2
    <3>2. CASE ~sum[t]
      BY <3>2 DEF Finish, Discard
    <3> QED BY <3>1, <3>2
  <2>2. FileTypes' /\ TreeTypes' /\ ObjectsStay
    BY <1>1, <1>3, <2>1 DEF FileTypes, TreeTypes, InodeOrNone, ObjectsStay, HasObject
  <2>3. /\ TaskTypes' /\ OnlyMoves(t) /\ Linked(t)' /\ StageInv(t)' /\ fd'[t] = NoInode /\ tries'[t] = tries[t] + 1
        /\ stage'[t] = "failed" => tries'[t] = MaxTries
        /\ \A u \in Task \ {t} : at'[u] = at[u] /\ sum'[u] = sum[u]
    BY <1>1, <2>1, <2>2, FailTryMoves
  <2> QED BY <1>1, <1>2, <1>3, <1>5, <2>1, <2>2, <2>3, TaskMoves
<1> QED BY <1>4, <1>5

LEMMA FinishKeepsWhole == ASSUME WholeInv, NEW t \in Task, Finish(t) PROVE WholeInv'
<1>1. /\ TasksInv' /\ OnlyMoves(t) /\ stage[t] = "stream" /\ at[t] = Length
      /\ Opens(t) /\ fd[t] \in Inode /\ Current(t) \in Sha
      /\ fd'[t] = NoInode /\ \A u \in Task \ {t} : at'[u] = at[u] /\ sum'[u] = sum[u]
      /\ UNCHANGED <<data, tree, repo, overlap, edited, clean>>
      /\ part' = [part EXCEPT ![Current(t)] = NoInode]
      /\ object' = object \/ /\ sum[t] /\ part[Current(t)] # NoInode
                             /\ object' = [object EXCEPT ![Current(t)] = part[Current(t)]]
    BY FinishSteps DEF WholeInv
<1>2. ASSUME sum[t], Current(t) \notin overlap \cup edited PROVE Whole(part[Current(t)])
  <2>1. part[Current(t)] = fd[t] /\ Len(data[fd[t]]) = Length /\ \A k \in 1..Length : data[fd[t]][k] = "ok"
    BY <1>1, <1>2 DEF WholeInv, NamesInv, DownloadInv
  <2>2. data \in [Inode -> ChunkSeq]
    BY StoreTypes DEF WholeInv, TasksInv, FileTypes
  <2> QED BY <1>1, <2>1, <2>2, WholeIs
<1>3. \A u \in Task \ {t} : fd'[u] = fd[u] /\ at'[u] = at[u] /\ sum'[u] = sum[u] /\ todo'[u] = todo[u]
    BY <1>1 DEF OnlyMoves
<1>4. NamesInv' /\ PublishedWhole' /\ ScratchInv'
    BY <1>1, <1>2, <1>3, CloseKeepsFiles
<1>5. TreeInv'
    BY <1>1 DEF WholeInv, TreeInv, Unsafe
<1> QED BY <1>1, <1>4, <1>5 DEF WholeInv

\* A file that is overwritten by its user, or by a derived file, has all its chunks.
Bad == [k \in 1..Length |-> "bad"]
LEMMA BadContent == Bad \in ChunkSeq /\ Len(Bad) = Length
<1>1. Length \in 0..Length /\ Bad \in [1..Length -> {"ok", "bad"}]
    BY Numbers DEF Bad
<1> QED BY <1>1, ContentIs

LEMMA EditSteps ==
    ASSUME TasksInv, NEW h \in Sha, Edit(h)
    PROVE  /\ TasksInv' /\ h \in Local \ edited /\ edited' = edited \cup {h} /\ trouble' = trouble + 1
           /\ Scratch[h] \in Inode /\ data'[Scratch[h]] = Bad /\ \A i \in Inode : i # Scratch[h] => data'[i] = data[i]
           /\ UNCHANGED <<object, part, task, repo, attempts, overlap, torn, clean>>
<1>1. /\ h \in Local \ edited /\ edited' = edited \cup {h} /\ Spend /\ data' = [data EXCEPT ![Scratch[h]] = Bad]
      /\ UNCHANGED <<object, part, task, repo, attempts, overlap, torn, clean>>
    BY DEF Edit, Bad
<1>2. FileTypes /\ TaskTypes /\ TreeTypes /\ (\A t \in Task : Linked(t) /\ StageInv(t)) /\ Scratch[h] \in Inode
    BY <1>1, StoreTypes, NodeStoreAssumption DEF TasksInv
<1>3. trouble' = trouble + 1 /\ trouble' \in 0..MaxTrouble
    BY <1>1, <1>2, Numbers DEF Spend, TreeTypes
<1>4. FileTypes' /\ TaskTypes' /\ TreeTypes'
    BY <1>1, <1>2, <1>3, BadContent DEF FileTypes, TaskTypes, TreeTypes, task
<1>5. \A t \in Task : Linked(t)' /\ StageInv(t)'
    BY <1>1, <1>2 DEF Linked, StageInv, HasObject, task
<1>6. StoreTypeOK'
    BY <1>4, <1>5 DEF StoreTypeOK, FileTypes, TaskTypes, TreeTypes, Linked, ChunkSeq, Stage, InodeOrNone
<1>7. data'[Scratch[h]] = Bad /\ \A i \in Inode : i # Scratch[h] => data'[i] = data[i]
    BY <1>1, <1>2 DEF FileTypes
<1> QED BY <1>1, <1>2, <1>3, <1>5, <1>6, <1>7 DEF TasksInv

LEMMA EditKeepsWhole == ASSUME WholeInv, NEW h \in Sha, Edit(h) PROVE WholeInv'
<1>1. /\ TasksInv' /\ h \in Local \ edited /\ edited' = edited \cup {h}
      /\ Scratch[h] \in Inode /\ \A i \in Inode : i # Scratch[h] => data'[i] = data[i]
      /\ UNCHANGED <<object, part, todo, fd, at, sum, tree, repo, overlap, clean>>
    BY EditSteps DEF WholeInv, task
<1>2. FileTypes /\ TaskTypes /\ NameInv /\ (\A t \in Task : OpenInv(t) /\ DownloadInv(t) /\ Current(t)' = Current(t))
      /\ Scratch \in [Local -> Inode] /\ \A g \in Local : Scratch[g] = Scratch[h] => g = h
    BY <1>1, StoreTypes, NodeStoreAssumption, CurrentStays DEF WholeInv, TasksInv, NamesInv
<1>3. NameInv' /\ OneWriterInv'
    BY <1>1, <1>2 DEF WholeInv, NamesInv, NameInv, OneWriterInv, Opens, Alike
<1>4. \A t \in Task : OpenInv(t)'
    BY <1>1, <1>2 DEF OpenInv, Opens, Alike
<1>5. ASSUME NEW t \in Task PROVE DownloadInv(t)'
  <2>1. SUFFICES ASSUME Opens(t) PROVE DownloadInv(t)'
    BY <1>1 DEF DownloadInv, Opens
  <2>2. fd[t] \in Inode /\ fd[t] # Scratch[h]
    BY <1>1, <1>2, <2>1 DEF TaskTypes, InodeOrNone, Opens, OpenInv
  <2>3. data'[fd[t]] = data[fd[t]]
    BY <1>1, <2>2
  <2>4. fd' = fd /\ at' = at /\ sum' = sum /\ part' = part /\ overlap' = overlap /\ clean' = clean
        /\ Current(t)' = Current(t) /\ DownloadInv(t)
    BY <1>1, <1>2
  <2> QED BY <2>1, <2>3, <2>4 DEF DownloadInv, Opens
<1>6. ASSUME NEW g \in Sha \ (overlap \cup edited), g # h, HasObject(g) PROVE Whole(object[g])'
  <2>1. object[g] \in Inode /\ Whole(object[g]) /\ object[g] # Scratch[h]
    BY <1>1, <1>2, <1>6 DEF FileTypes, InodeOrNone, HasObject, WholeInv, PublishedWhole, NameInv
  <2> QED BY <1>1, <2>1 DEF Whole
<1>7. ASSUME NEW g \in Local \ edited, g # h PROVE Whole(Scratch[g])'
  <2>1. Scratch[g] \in Inode /\ Whole(Scratch[g]) /\ Scratch[g] # Scratch[h]
    BY <1>2, <1>7 DEF WholeInv, ScratchInv
  <2> QED BY <1>1, <2>1 DEF Whole
<1>8. PublishedWhole' /\ ScratchInv'
    BY <1>1, <1>6, <1>7 DEF PublishedWhole, ScratchInv, HasObject
<1>9. TreeInv'
    BY <1>1 DEF WholeInv, TreeInv, Unsafe
<1> QED BY <1>1, <1>3, <1>4, <1>5, <1>8, <1>9 DEF WholeInv, NamesInv

LEMMA AssembleSteps ==
    ASSUME TasksInv, NEW t \in Task, Assemble(t)
    PROVE  /\ TasksInv' /\ OnlyMoves(t) /\ ObjectsStay /\ stage'[t] # "failed" /\ tries' = tries
           /\ UNCHANGED <<object, part, todo, fd, at, sum, repo, trouble, overlap, torn, edited, clean>>
           /\ Derived(t) = {} => data' = data
           /\ \A h \in Wants[t] : HasObject(h)
           /\ \A u \in Task : tree'[u] = tree[u] \/ (u = t /\ (tree'[u] = "wrong" => \E h \in Wants[t] : ~Whole(object[h])))
<1>1. /\ stage[t] = "assemble" /\ UNCHANGED <<object, part, todo, tries, fd, at, sum, repo, attempts, trouble, overlap, torn, edited, clean>>
      /\ data' = [i \in Inode |-> IF \E h \in Derived(t) : object[h] = i THEN Bad ELSE data[i]]
      /\ tree' = [tree EXCEPT ![t] = IF \A h \in Wants[t] : Whole(object[h]) THEN "whole" ELSE "wrong"]
      /\ stage' = [stage EXCEPT ![t] = IF t \in Plain THEN "built" ELSE "clone"]
    BY DEF Assemble, Go, Bad, ghosts
<1>2. FileTypes /\ TaskTypes /\ TreeTypes /\ Linked(t) /\ StageInv(t)
    BY StoreTypes DEF TasksInv
<1>3. FileTypes'
    BY <1>1, <1>2, BadContent DEF FileTypes
<1>4. TreeTypes' /\ TaskTypes'
    BY <1>1, <1>2 DEF TreeTypes, TaskTypes, Stage
<1>5. /\ OnlyMoves(t) /\ ObjectsStay /\ stage'[t] \in {"built", "clone"}
      /\ \A h \in Wants[t] : HasObject(h)
    BY <1>1, <1>2 DEF TaskTypes, OnlyMoves, ObjectsStay, HasObject, StageInv
<1>6. Linked(t)' /\ StageInv(t)'
    BY <1>1, <1>2, <1>5 DEF Linked, StageInv
<1>7. Derived(t) = {} => data' = data
    BY <1>1, <1>2 DEF FileTypes
<1>8. \A u \in Task : tree'[u] = tree[u] \/ (u = t /\ (tree'[u] = "wrong" => \E h \in Wants[t] : ~Whole(object[h])))
    BY <1>1, <1>2 DEF TreeTypes
<1> QED BY <1>1, <1>3, <1>4, <1>5, <1>6, <1>7, <1>8, TaskMoves

\* A tree is wrong only if an object in it is not safe.
LEMMA AssembleKeepsWhole == ASSUME WholeInv, NEW t \in Task, Assemble(t), Derived(t) = {} PROVE WholeInv'
<1>1. /\ TasksInv' /\ UNCHANGED <<data, object, part, todo, fd, at, sum, repo, overlap, edited, clean>>
      /\ \A h \in Wants[t] : HasObject(h)
      /\ \A u \in Task : tree'[u] = tree[u] \/ (u = t /\ (tree'[u] = "wrong" => \E h \in Wants[t] : ~Whole(object[h])))
    BY AssembleSteps DEF WholeInv
<1>2. NamesInv' /\ PublishedWhole' /\ ScratchInv'
    BY <1>1, QuietFiles DEF WholeInv, Stays
<1>3. \A h \in Wants[t] : ~Whole(object[h]) => Unsafe(h)
    BY <1>1, NodeStoreAssumption DEF WholeInv, PublishedWhole, Unsafe
<1>4. TreeInv'
    BY <1>1, <1>3 DEF WholeInv, TreeInv, Unsafe
<1> QED BY <1>1, <1>2, <1>4 DEF WholeInv

-----------------------------------------------------------------------------
(* The theorems.                                                            *)

LEMMA StutterKeepsTasks == ASSUME TasksInv, UNCHANGED storeVars PROVE TasksInv'
BY DEF TasksInv, StoreTypeOK, StageInv, HasObject, storeVars, files, task, ghosts

LEMMA InitIsWhole == StoreInit => WholeInv
<1> SUFFICES ASSUME StoreInit PROVE WholeInv
    OBVIOUS
<1>1. /\ \A h \in Sha : object[h] = NoInode /\ part[h] = NoInode
      /\ \A t \in Task : stage[t] = "idle" /\ todo[t] = {} /\ fd[t] = NoInode /\ tree[t] = "none" /\ repo[t] = "none"
    BY DEF StoreInit
<1>2. FileTypes
  <2>1. Length \in 0..Length /\ [k \in 1..Length |-> "ok"] \in [1..Length -> {"ok", "bad"}]
    BY Numbers
  <2>2. [k \in 1..Length |-> "ok"] \in ChunkSeq
    BY <2>1, ContentIs
  <2> QED BY <2>2, EmptyContent DEF StoreInit, FileTypes, InodeOrNone
<1>3. TaskTypes /\ TreeTypes
  <2>1. 0 \in 0..Length /\ 0 \in 0..MaxTries /\ 0 \in 0..MaxAttempts /\ 0 \in 0..MaxTrouble
    BY Numbers, NodeStoreAssumption
  <2>2. TaskTypes
    BY <2>1 DEF StoreInit, TaskTypes, Stage, InodeOrNone
  <2>3. TreeTypes
    BY <2>1 DEF StoreInit, TreeTypes
  <2> QED BY <2>2, <2>3
<1>4. \A t \in Task : Linked(t) /\ StageInv(t)
    BY <1>1 DEF Linked, StageInv
<1>5. TasksInv
    BY <1>2, <1>3, <1>4, StoreTypes DEF TasksInv
<1>6. NamesInv
  <2>1. Local \subseteq Sha /\ Scratch \in [Local -> Inode] /\ NoInode \notin Inode
    BY NodeStoreAssumption DEF NoInode
  <2> QED BY <1>1, <2>1 DEF NamesInv, NameInv, OneWriterInv, OpenInv, DownloadInv, Opens
<1>7. PublishedWhole /\ TreeInv
    BY <1>1 DEF PublishedWhole, HasObject, TreeInv
<1>8. ScratchInv
    BY NodeStoreAssumption DEF StoreInit, ScratchInv, Whole
<1> QED BY <1>5, <1>6, <1>7, <1>8 DEF WholeInv

\* The types of the store, with what a materialize relies on at each stage:
\* an object is missing while it is downloaded, a download has its file open.
LEMMA TasksInvHolds == StoreSpec => []TasksInv
<1>1. StoreInit => TasksInv
    BY InitIsWhole DEF WholeInv
<1>2. ASSUME TasksInv, [StoreNext]_storeVars PROVE TasksInv'
  <2>1. CASE UNCHANGED storeVars
    BY <1>2, <2>1, StutterKeepsTasks
  <2>2. ASSUME NEW t \in Task, Start(t) PROVE TasksInv'
    BY <1>2, <2>2, MaterializeStarts
  <2>3. ASSUME NEW t \in Task,
               \/ Scan(t) \/ PresignFails(t) \/ Answered(t) \/ RangeRefused(t) \/ Drop(t)
               \/ Clone(t) \/ TakeDown(t) \/ SwapIn(t) \/ BuildFails(t) \/ RemoveTree(t)
        PROVE  TasksInv'
    BY <1>2, <2>3, QuietSteps
  <2>4. ASSUME NEW t \in Task, Open(t) PROVE TasksInv'
    BY <1>2, <2>4, OpenSteps
  <2>5. ASSUME NEW t \in Task, RangeIgnored(t) PROVE TasksInv'
    <3>1. Writes(t, <<>>, 0, TRUE)
      BY <1>2, <2>5, IgnoredWrites
    <3> QED BY <1>2, <3>1, WriteSteps DEF Writes
  <2>6. ASSUME NEW t \in Task, Stream(t) PROVE TasksInv'
    <3>1. PICK c \in {"ok", "bad"} : Writes(t, ChunkOf(data[fd[t]], at[t] + 1, c), at[t] + 1, sum[t] /\ c = "ok")
      BY <1>2, <2>6, ChunkWrites
    <3> QED BY <1>2, <3>1, WriteSteps DEF Writes
  <2>7. ASSUME NEW t \in Task, Finish(t) PROVE TasksInv'
    BY <1>2, <2>7, FinishSteps
  <2>8. ASSUME NEW t \in Task, Assemble(t) PROVE TasksInv'
    BY <1>2, <2>8, AssembleSteps
  <2>9. CASE Crash
    BY <1>2, <2>9, CrashSteps
  <2>10. ASSUME NEW h \in Sha, Edit(h) PROVE TasksInv'
    BY <1>2, <2>10, EditSteps
  <2> QED BY <1>2, <2>1, <2>2, <2>3, <2>4, <2>5, <2>6, <2>7, <2>8, <2>9, <2>10 DEF StoreNext, Step
<1> QED BY <1>1, <1>2, PTL DEF StoreSpec

\* Every reachable state of the node's object store and of its materializes is
\* well typed, for any objects, tasks, attempts, faults and crashes.
THEOREM StoreTypeCorrect == StoreSpec => []StoreTypeOK
<1>1. TasksInv => StoreTypeOK
    BY DEF TasksInv
<1> QED BY <1>1, TasksInvHolds, PTL

LEMMA StutterKeepsWhole == ASSUME WholeInv, UNCHANGED storeVars PROVE WholeInv'
<1>1. TasksInv'
    BY StutterKeepsTasks DEF WholeInv
<1>2. UNCHANGED <<data, object, part, todo, fd, at, sum, tree, repo, overlap, edited, clean>>
    BY DEF storeVars, files, task, ghosts
<1>3. NamesInv' /\ PublishedWhole' /\ ScratchInv'
    BY <1>2, QuietFiles DEF WholeInv, Stays
<1>4. TreeInv'
    BY <1>2 DEF WholeInv, TreeInv, Unsafe
<1> QED BY <1>1, <1>3, <1>4 DEF WholeInv

LEMMA NextKeepsWhole ==
    ASSUME WholeInv, [StoreNext]_storeVars, \A t \in Task : Derived(t) = {} PROVE WholeInv'
<1>1. CASE UNCHANGED storeVars
    BY <1>1, StutterKeepsWhole
<1>2. ASSUME NEW t \in Task, Start(t) PROVE WholeInv'
    BY <1>2, StartKeepsWhole
<1>3. ASSUME NEW t \in Task,
             \/ Scan(t) \/ PresignFails(t) \/ Answered(t) \/ RangeRefused(t) \/ Drop(t)
             \/ Clone(t) \/ TakeDown(t) \/ SwapIn(t) \/ BuildFails(t) \/ RemoveTree(t)
      PROVE  WholeInv'
    BY <1>3, QuietKeepsWhole
<1>4. ASSUME NEW t \in Task, Open(t) PROVE WholeInv'
    BY <1>4, OpenKeepsWhole
<1>5. ASSUME NEW t \in Task, RangeIgnored(t) \/ Stream(t) PROVE WholeInv'
    BY <1>5, WritingKeepsWhole
<1>6. ASSUME NEW t \in Task, Finish(t) PROVE WholeInv'
    BY <1>6, FinishKeepsWhole
<1>7. ASSUME NEW t \in Task, Assemble(t) PROVE WholeInv'
    BY <1>7, AssembleKeepsWhole
<1>8. CASE Crash
    BY <1>8, CrashKeepsWhole
<1>9. ASSUME NEW h \in Sha, Edit(h) PROVE WholeInv'
    BY <1>9, EditKeepsWhole
<1> QED BY <1>1, <1>2, <1>3, <1>4, <1>5, <1>6, <1>7, <1>8, <1>9 DEF StoreNext, Step

\* A node that serves no derived compose file serves only whole repositories:
\* whatever breaks, crashes or is resumed, an object that no two downloads wrote
\* at once and no user edited has its content, and so has a tree of such objects.
THEOREM RepoIsWholeHolds == ASSUME \A t \in Task : Derived(t) = {} PROVE StoreSpec => []RepoIsWhole
<1>1. StoreInit => WholeInv
    BY InitIsWhole
<1>2. WholeInv /\ [StoreNext]_storeVars => WholeInv'
    BY NextKeepsWhole
<1>3. WholeInv => RepoIsWhole
    BY NodeStoreAssumption DEF WholeInv, TreeInv, RepoIsWhole, Unsafe
<1> QED BY <1>1, <1>2, <1>3, PTL DEF StoreSpec

-----------------------------------------------------------------------------
(* What earlier attempts left behind.                                       *)

ReadThrough(t) == stage[t] = "stream" /\ at[t] = Length

\* Steps that write no file: the complete .part files are those that were, and
\* one that had a writer at its end keeps it, or loses its name.
LEMMA TornStays ==
    ASSUME TornInv, UNCHANGED data, torn \subseteq torn', \A h \in Sha : part'[h] = part[h] \/ part'[h] = NoInode,
           \A t \in Task : ReadThrough(t) => (ReadThrough(t)' /\ fd'[t] = fd[t]) \/ \A h \in Sha : part[h] = fd[t] => part'[h] = NoInode
    PROVE  TornInv'
<1> SUFFICES ASSUME NEW h \in Sha, part'[h] # NoInode, Len(data[part[h]]) >= Length
             PROVE  h \in torn' \/ \E t \in Task : fd'[t] = part[h] /\ ReadThrough(t)'
    BY DEF TornInv, ReadThrough
<1>1. h \in torn \/ \E t \in Task : fd[t] = part[h] /\ ReadThrough(t)
    BY DEF TornInv, ReadThrough
<1>2. CASE h \in torn
    BY <1>2
<1>3. CASE h \notin torn
  <2>1. PICK t \in Task : fd[t] = part[h] /\ ReadThrough(t)
    BY <1>1, <1>3
  <2>2. ReadThrough(t)' /\ fd'[t] = fd[t]
    BY <2>1
  <2> QED BY <2>1, <2>2
<1> QED BY <1>2, <1>3

LEMMA SpoiltStays ==
    ASSUME NEW i, data'[i] = data[i],
           \A u \in Task : fd'[u] = i => (fd[u] = i /\ at'[u] = at[u]) \/ at'[u] <= Len(data[i]),
           Len(data[i]) \in Nat, \A u \in Task : at'[u] \in Nat
    PROVE  Spoilt(i)' => Spoilt(i)
<1>1. \A u \in Task : ~(at'[u] <= Len(data[i]) /\ at'[u] > Len(data[i]))
    OBVIOUS
<1> QED BY <1>1 DEF Spoilt

\* Counting the wrong .part files and the tries that were lost to them.
LEMMA SourMoves ==
    ASSUME TasksInv, TasksInv', SourInv, clean' \subseteq Task, torn \subseteq torn', edited \subseteq edited',
           IsFiniteSet(Sour'), Cardinality(Sour') <= Cardinality(Sour) + (trouble' - trouble),
           \A u \in clean' :
              \/ Excused(u) \/ tries'[u] = 0
              \/ u \in clean /\ tries'[u] + Cardinality(Sour') <= tries[u] + Cardinality(Sour) + (trouble' - trouble)
    PROVE  SourInv'
<1>1. trouble \in Nat /\ trouble' \in Nat /\ Cardinality(Sour) \in Nat /\ Cardinality(Sour') \in Nat
  <2>1. trouble \in 0..MaxTrouble /\ trouble' \in 0..MaxTrouble
    BY DEF TasksInv, StoreTypeOK
  <2>2. Cardinality(Sour) \in Nat
    BY FS_CardinalityType DEF SourInv
  <2>3. Cardinality(Sour') \in Nat
    BY FS_CardinalityType
  <2> QED BY <2>1, <2>2, <2>3, Numbers
<1>2. \A u \in Task : tries[u] \in Nat /\ tries'[u] \in Nat
  <2>1. tries \in [Task -> 0..MaxTries] /\ tries' \in [Task -> 0..MaxTries]
    BY DEF TasksInv, StoreTypeOK
  <2> QED BY <2>1, Numbers
<1>3. Cardinality(Sour') <= trouble'
    BY <1>1 DEF SourInv
<1>4. ASSUME NEW u \in clean', ~Excused(u)' PROVE tries'[u] + Cardinality(Sour') <= trouble'
  <2>1. ~Excused(u)
    BY <1>4 DEF Excused
  <2>2. CASE tries'[u] = 0
    BY <1>1, <1>3, <2>2
  <2>3. CASE tries'[u] # 0
    <3>1. u \in clean /\ tries'[u] + Cardinality(Sour') <= tries[u] + Cardinality(Sour) + (trouble' - trouble)
      BY <2>1, <2>3
    <3>2. tries[u] + Cardinality(Sour) <= trouble
      BY <2>1, <3>1 DEF SourInv
    <3>3. tries[u] \in Nat /\ tries'[u] \in Nat
      BY <1>2
    <3> QED BY <1>1, <3>1, <3>2, <3>3
  <2> QED BY <2>2, <2>3
<1> QED BY <1>3, <1>4 DEF SourInv

\* No new wrong .part, and no try lost to one.
LEMMA SourShrinks ==
    ASSUME TasksInv, TasksInv', SourInv, clean' \subseteq Task, torn \subseteq torn', edited \subseteq edited',
           Sour' \subseteq Sour, trouble' >= trouble,
           \A u \in clean' : Excused(u) \/ tries'[u] = 0 \/ (u \in clean /\ tries'[u] = tries[u])
    PROVE  SourInv'
<1>1. IsFiniteSet(Sour') /\ Cardinality(Sour') <= Cardinality(Sour)
    BY FS_Subset DEF SourInv
<1>2. Cardinality(Sour) \in Nat /\ Cardinality(Sour') \in Nat
    BY <1>1, FS_CardinalityType DEF SourInv
<1>3. trouble \in Nat /\ trouble' \in Nat /\ \A u \in Task : tries[u] \in Nat
  <2>1. trouble \in 0..MaxTrouble /\ trouble' \in 0..MaxTrouble /\ tries \in [Task -> 0..MaxTries]
    BY DEF TasksInv, StoreTypeOK
  <2> QED BY <2>1, Numbers
<1>4. Cardinality(Sour') <= Cardinality(Sour) + (trouble' - trouble)
    BY <1>1, <1>2, <1>3
<1>5. ASSUME NEW u \in clean'
      PROVE  \/ Excused(u) \/ tries'[u] = 0
             \/ u \in clean /\ tries'[u] + Cardinality(Sour') <= tries[u] + Cardinality(Sour) + (trouble' - trouble)
  <2>1. CASE u \in clean /\ tries'[u] = tries[u]
    <3>1. tries[u] \in Nat /\ tries'[u] = tries[u]
      BY <1>3, <1>5, <2>1
    <3>2. tries'[u] + Cardinality(Sour') <= tries[u] + Cardinality(Sour) + (trouble' - trouble)
      BY <1>2, <1>4, <1>3, <3>1
    <3> QED BY <2>1, <3>2
  <2>2. CASE ~(u \in clean /\ tries'[u] = tries[u])
    BY <1>5, <2>2
  <2> QED BY <2>1, <2>2
<1> QED BY <1>1, <1>4, <1>5, SourMoves

\* A fault spoils one .part at most.
LEMMA SourGrows ==
    ASSUME TasksInv, TasksInv', SourInv, clean' \subseteq clean, clean \subseteq Task, torn \subseteq torn', edited \subseteq edited',
           NEW h, Sour' \subseteq Sour \cup {h}, trouble' = trouble + 1, tries' = tries
    PROVE  SourInv'
<1>1. IsFiniteSet(Sour \cup {h}) /\ Cardinality(Sour \cup {h}) <= Cardinality(Sour) + 1
  <2>1. IsFiniteSet(Sour) /\ Cardinality(Sour) \in Nat
    BY FS_CardinalityType DEF SourInv
  <2>2. IsFiniteSet(Sour \cup {h}) /\ Cardinality(Sour \cup {h}) = (IF h \in Sour THEN Cardinality(Sour) ELSE Cardinality(Sour) + 1)
    BY <2>1, FS_AddElement
  <2> QED BY <2>1, <2>2
<1>2. IsFiniteSet(Sour') /\ Cardinality(Sour') <= Cardinality(Sour \cup {h})
    BY <1>1, FS_Subset
<1>3. Cardinality(Sour) \in Nat /\ Cardinality(Sour') \in Nat /\ Cardinality(Sour \cup {h}) \in Nat
    BY <1>1, <1>2, FS_CardinalityType DEF SourInv
<1>4. Cardinality(Sour') <= Cardinality(Sour) + 1
    BY <1>1, <1>2, <1>3
<1>5. trouble \in Nat /\ trouble' - trouble = 1 /\ \A u \in Task : tries[u] \in Nat
  <2>1. trouble \in 0..MaxTrouble /\ tries \in [Task -> 0..MaxTries]
    BY DEF TasksInv, StoreTypeOK
  <2> QED BY <2>1, Numbers
<1>6. ASSUME NEW u \in clean'
      PROVE  u \in clean /\ tries'[u] + Cardinality(Sour') <= tries[u] + Cardinality(Sour) + 1
  <2>1. u \in clean /\ tries[u] \in Nat
    BY <1>5
  <2> QED BY <1>3, <1>4, <2>1
<1>7. Cardinality(Sour') <= Cardinality(Sour) + (trouble' - trouble)
    BY <1>4, <1>5
<1>8. \A u \in clean' : u \in clean /\ tries'[u] + Cardinality(Sour') <= tries[u] + Cardinality(Sour) + (trouble' - trouble)
    BY <1>5, <1>6
<1> QED BY <1>2, <1>7, <1>8, SourMoves

\* The .part files that a step may spoil are those it writes.
LEMMA SourWithin ==
    ASSUME TasksInv, TasksInv', NEW D,
           \A h \in Sha \ D : \/ part'[h] = NoInode
                              \/ /\ part'[h] = part[h] /\ data'[part[h]] = data[part[h]]
                                 /\ \A u \in Task : fd'[u] = part[h] =>
                                       (fd[u] = part[h] /\ at'[u] = at[u]) \/ at'[u] <= Len(data[part[h]])
    PROVE  Sour' \subseteq Sour \cup D
<1>1. SUFFICES ASSUME NEW h \in Sha \ D, part'[h] # NoInode, Spoilt(part[h])', part'[h] = part[h] PROVE Spoilt(part[h])
    BY DEF Sour
<1>2. PICK i \in Inode : i = part[h]
    BY <1>1, StoreTypes DEF TasksInv, FileTypes, InodeOrNone
<1>3. Len(data[i]) \in Nat
    BY <1>2, StoreTypes, ContentFacts, Numbers DEF TasksInv, FileTypes
<1>4. \A u \in Task : at'[u] \in Nat
  <2>1. at' \in [Task -> 0..Length]
    BY DEF TasksInv, StoreTypeOK
  <2> QED BY <2>1, Numbers
<1>5. /\ data'[i] = data[i]
      /\ \A u \in Task : fd'[u] = i => (fd[u] = i /\ at'[u] = at[u]) \/ at'[u] <= Len(data[i])
    BY <1>1, <1>2
<1>6. Spoilt(i)' => Spoilt(i)
    BY <1>3, <1>4, <1>5, SpoiltStays
<1>7. Spoilt(i)'
    BY <1>1, <1>2 DEF Spoilt
<1> QED BY <1>2, <1>6, <1>7

\* Steps that write nothing and close nothing but their own download.
LEMMA QuietKeepsClean ==
    ASSUME CleanInv, WholeInv', NEW t \in Task,
           \/ Scan(t) \/ PresignFails(t) \/ Answered(t) \/ RangeRefused(t) \/ Drop(t)
           \/ Clone(t) \/ TakeDown(t) \/ SwapIn(t) \/ BuildFails(t) \/ RemoveTree(t)
    PROVE  CleanInv'
<1>1. /\ UNCHANGED <<data, object, part, overlap, edited, torn>> /\ OnlyMoves(t) /\ (\A u \in Task : Stays(u))
      /\ clean' \subseteq clean /\ trouble' >= trouble /\ TasksInv /\ TasksInv' /\ clean \subseteq Task
    BY QuietSteps DEF CleanInv, WholeInv
<1>2. /\ stage[t] = "stream" => at[t] < Length
      /\ \/ t \notin clean'
         \/ tries'[t] = tries[t] /\ (stage'[t] = "failed" => stage[t] = "failed")
         \/ RangeRefused(t)
      /\ stage'[t] # "request"
  <2>1. stage \in [Task -> Stage]
    BY <1>1, StoreTypes DEF TasksInv, TaskTypes
  <2>2. CASE PresignFails(t) \/ Drop(t) \/ BuildFails(t)
    <3>1. t \notin clean' /\ (stage[t] = "stream" => at[t] < Length)
      BY <2>2 DEF PresignFails, Drop, BuildFails
    <3>2. stage'[t] # "request"
      BY <2>1, <2>2 DEF PresignFails, Drop, BuildFails, FailTry, Go
    <3> QED BY <3>1, <3>2
  <2>3. CASE RangeRefused(t)
    BY <2>1, <2>3 DEF RangeRefused, FailTry, Go
  <2>4. CASE Scan(t) \/ Answered(t) \/ Clone(t) \/ TakeDown(t) \/ SwapIn(t) \/ RemoveTree(t)
    BY <2>1, <2>4 DEF Scan, Answered, Clone, TakeDown, SwapIn, RemoveTree, Go, task
  <2> QED BY <2>2, <2>3, <2>4
<1>3. ASSUME RangeRefused(t), t \in clean PROVE Excused(t)
  <2>1. stage[t] = "request" /\ at[t] >= Length
    BY <1>3 DEF RangeRefused
  <2>2. Current(t) \in torn
    BY <1>3, <2>1 DEF CleanInv, RefusedInv
  <2>3. todo[t] # {} /\ todo[t] \subseteq Sha /\ todo[t] \subseteq Wants[t]
    BY <1>1, <2>1, StoreTypes DEF TasksInv, TaskTypes, Linked, StageInv
  <2>4. Current(t) \in todo[t]
    BY <2>3, CurrentIn
  <2> QED BY <2>2, <2>3, <2>4 DEF Excused
<1>4. ASSUME NEW u \in Task, stage[u] \in {"request", "stream"}, u # t
      PROVE  stage'[u] = stage[u] /\ fd'[u] = fd[u] /\ at'[u] = at[u] /\ Current(u)' = Current(u)
  <2>1. fd[u] # NoInode
    BY <1>1, <1>4, StoreTypes DEF TasksInv, Linked
  <2> QED BY <1>1, <1>4, <2>1, CurrentStays DEF OnlyMoves, Stays
<1>5. TornInv'
  <2>1. \A u \in Task : ReadThrough(u) => ReadThrough(u)' /\ fd'[u] = fd[u]
  <3>1. ASSUME NEW u \in Task, ReadThrough(u) PROVE ReadThrough(u)' /\ fd'[u] = fd[u]
    <4>1. at[t] < Length => at[t] # Length
      BY Numbers
    <4>2. u # t
      BY <1>2, <3>1, <4>1 DEF ReadThrough
    <4> QED BY <1>4, <3>1, <4>2 DEF ReadThrough
  <3> QED BY <3>1
  <2> QED BY <1>1, <2>1, TornStays DEF CleanInv
<1>6. RefusedInv'
  <2>1. ASSUME NEW u \in Task, stage'[u] = "request", at'[u] >= Length, u \in clean' PROVE Current(u)' \in torn'
    <3>1. u # t /\ stage[u] = "request" /\ u \in clean
      BY <1>1, <1>2, <2>1 DEF OnlyMoves
    <3>2. at'[u] = at[u] /\ Current(u)' = Current(u)
      BY <1>4, <3>1
    <3> QED BY <1>1, <2>1, <3>1, <3>2 DEF CleanInv, RefusedInv
  <2> QED BY <2>1 DEF RefusedInv
<1>7. SourInv'
  <2>1. \A h \in Sha \ {} : part'[h] = part[h] /\ data'[part[h]] = data[part[h]]
            /\ \A u \in Task : fd'[u] = part[h] => part[h] = NoInode \/ (fd[u] = part[h] /\ at'[u] = at[u])
    BY <1>1 DEF Stays
  <2>2. Sour' \subseteq Sour
    BY <1>1, <2>1, SourWithin
  <2>3. \A u \in clean' : Excused(u) \/ (u \in clean /\ tries'[u] = tries[u])
    BY <1>1, <1>2, <1>3 DEF OnlyMoves
  <2> QED BY <1>1, <2>2, <2>3, SourShrinks DEF CleanInv
<1>8. FailedInv'
  <2>1. ASSUME NEW u \in clean', stage'[u] = "failed" PROVE Excused(u) \/ tries'[u] = MaxTries
    <3>1. CASE u = t
      BY <1>1, <1>2, <1>3, <2>1, <3>1 DEF CleanInv, FailedInv
    <3>2. CASE u # t
      BY <1>1, <2>1, <3>2 DEF CleanInv, FailedInv, OnlyMoves
    <3> QED BY <3>1, <3>2
  <2> QED BY <1>1, <2>1 DEF FailedInv, Excused
<1> QED BY <1>1, <1>5, <1>6, <1>7, <1>8 DEF CleanInv

LEMMA CrashKeepsClean == ASSUME CleanInv, WholeInv', Crash PROVE CleanInv'
<1>1. /\ TasksInv /\ TasksInv' /\ UNCHANGED <<data, part>> /\ clean' = {} /\ torn \subseteq torn' /\ edited' = edited
      /\ (\A t \in Task : fd'[t] = NoInode) /\ Spend
      /\ torn' = torn \cup {h \in Sha : part[h] # NoInode /\ Len(data[part[h]]) >= Length}
    BY DEF Crash, files, CleanInv, WholeInv
<1>2. TornInv'
    BY <1>1 DEF TornInv
<1>3. trouble' >= trouble
  <2>1. trouble \in 0..MaxTrouble /\ trouble' = trouble + 1
    BY <1>1 DEF TasksInv, StoreTypeOK, Spend
  <2> QED BY <2>1, Numbers
<1>4. SourInv'
  <2>1. \A h \in Sha \ {} : part'[h] = NoInode \/ (part'[h] = part[h] /\ data'[part[h]] = data[part[h]]
            /\ \A u \in Task : fd'[u] # part[h])
    BY <1>1
  <2>2. Sour' \subseteq Sour
    BY <1>1, <2>1, SourWithin
  <2>3. clean' \subseteq Task /\ \A u \in clean' : FALSE
    BY <1>1
  <2> QED BY <1>1, <1>3, <2>2, <2>3, SourShrinks DEF CleanInv
<1>5. RefusedInv' /\ FailedInv' /\ clean' \subseteq Task
    BY <1>1 DEF RefusedInv, FailedInv
<1> QED BY <1>2, <1>4, <1>5 DEF CleanInv

LEMMA StartKeepsClean == ASSUME CleanInv, WholeInv', NEW t \in Task, Start(t) PROVE CleanInv'
<1>1. /\ TasksInv /\ TasksInv' /\ OnlyMoves(t) /\ ScratchInv /\ TornInv /\ RefusedInv /\ SourInv /\ FailedInv /\ clean \subseteq Task
      /\ UNCHANGED <<data, part, todo, fd, at, trouble, torn, edited>>
      /\ clean' = clean \cup {t} /\ fd[t] = NoInode /\ fd'[t] = NoInode /\ tries'[t] = 0
      /\ stage'[t] = "failed" => \E h \in Wants[t] \cap Local : ~Whole(Scratch[h])
    BY MaterializeStarts DEF CleanInv, WholeInv
<1>2. stage[t] # "stream" /\ stage'[t] # "request"
    BY <1>1, StoreTypes DEF TasksInv, StoreTypeOK
<1>3. TornInv'
  <2>1. \A u \in Task : ReadThrough(u) => ReadThrough(u)' /\ fd'[u] = fd[u]
    BY <1>1, <1>2 DEF ReadThrough, OnlyMoves
  <2> QED BY <1>1, <2>1, TornStays
<1>4. RefusedInv'
  <2>1. \A u \in Task : Current(u)' = Current(u)
    BY <1>1, CurrentStays
  <2> QED BY <1>1, <1>2, <2>1 DEF RefusedInv, OnlyMoves
<1>5. SourInv'
  <2>1. \A h \in Sha \ {} : /\ part'[h] = part[h] /\ data'[part[h]] = data[part[h]]
                            /\ \A u \in Task : fd'[u] = part[h] => fd[u] = part[h] /\ at'[u] = at[u]
    BY <1>1
  <2>2. Sour' \subseteq Sour
    BY <1>1, <2>1, SourWithin
  <2>3. clean' \subseteq Task /\ \A u \in clean' : tries'[u] = 0 \/ (u \in clean /\ tries'[u] = tries[u])
    BY <1>1 DEF OnlyMoves
  <2>4. trouble' >= trouble
    <3>1. trouble \in 0..MaxTrouble /\ trouble' = trouble
      BY <1>1 DEF TasksInv, StoreTypeOK
    <3> QED BY <3>1, Numbers
  <2> QED BY <1>1, <2>2, <2>3, <2>4, SourShrinks
<1>6. FailedInv'
  <2>1. ASSUME stage'[t] = "failed" PROVE Excused(t)'
    <3>1. PICK h \in Wants[t] \cap Local : ~Whole(Scratch[h])
      BY <1>1, <2>1
    <3>2. h \in edited
      BY <1>1, <3>1 DEF ScratchInv
    <3> QED BY <1>1, <3>1, <3>2 DEF Excused
  <2> QED BY <1>1, <2>1 DEF FailedInv, Excused, OnlyMoves
<1> QED BY <1>1, <1>3, <1>4, <1>5, <1>6 DEF CleanInv

\* A file that is opened is new, or is read as it is.
LEMMA OpenKeepsClean == ASSUME CleanInv, WholeInv', NEW t \in Task, Open(t) PROVE CleanInv'
<1> DEFINE h == Current(t)
           i == Part(t)
           have == Have(t)
<1>1. /\ TasksInv /\ TasksInv' /\ OnlyMoves(t) /\ TornInv /\ RefusedInv /\ SourInv /\ FailedInv /\ clean \subseteq Task
      /\ (\A u \in Task : OpenInv(u)) /\ (\A u \in Task : Current(u)' = Current(u)) /\ fd[t] = NoInode
      /\ h \in Sha /\ i \in Inode /\ have \in ChunkSeq
      /\ part[h] = NoInode => i = Fresh /\ \E j \in Inode : ~Named(j)
      /\ part' = [part EXCEPT ![h] = i] /\ data' = [data EXCEPT ![i] = have]
      /\ fd'[t] = i /\ at'[t] = Len(have) /\ stage'[t] = "request" /\ tries' = tries
      /\ \A u \in Task \ {t} : at'[u] = at[u]
      /\ UNCHANGED <<trouble, torn, edited>> /\ clean' \subseteq clean
      /\ \A u \in Task : Opens(u) /\ Alike(u, t) => t \notin clean'
    BY OpenSteps, CurrentStays DEF CleanInv, WholeInv, NamesInv
<1>2. FileTypes /\ TaskTypes /\ i # NoInode /\ stage[t] = "open"
    BY <1>1, StoreTypes, NodeStoreAssumption DEF TasksInv, NoInode, Open
<1>3. part[h] # NoInode => i = part[h] /\ have = data[i]
    BY DEF Part, Have
<1>4. part[h] = NoInode => have = <<>> /\ \A g \in Sha : part[g] # i
    BY <1>1, FreshIsFree DEF Have
<1>5. Len(have) \in Nat /\ Length >= 1 /\ Length \in Nat /\ Len(<<>>) = 0 /\ DOMAIN <<>> = {}
    BY <1>1, ContentFacts, EmptyContent, Numbers
<1>6. part[h] = NoInode => \A u \in Task : fd[u] # i
    BY <1>1, FreshIsFree
<1> HIDE DEF h, i, have
<1>7. data'[i] = have /\ part'[h] = i /\ (\A g \in Sha : g # h => part'[g] = part[g])
      /\ \A g \in Sha : g # h \/ part[h] # NoInode => data'[part[g]] = data[part[g]]
  <2>1. data'[i] = have /\ part'[h] = i /\ \A g \in Sha : g # h => part'[g] = part[g]
    BY <1>1, <1>2 DEF FileTypes
  <2>2. CASE part[h] = NoInode
    <3>1. \A g \in Sha : part[g] # i
      BY <1>4, <2>2
    <3> QED BY <1>1, <1>2, <2>1, <2>2, <3>1 DEF FileTypes
  <2>3. CASE part[h] # NoInode
    <3>1. data' = data
      BY <1>1, <1>2, <1>3, <2>3 DEF FileTypes
    <3> QED BY <2>1, <3>1
  <2> QED BY <2>1, <2>2, <2>3
<1>8. TornInv'
  <2>1. SUFFICES ASSUME NEW g \in Sha, part'[g] # NoInode, Len(data'[part'[g]]) >= Length
                 PROVE  g \in torn \/ \E u \in Task : fd'[u] = part'[g] /\ ReadThrough(u)'
    BY <1>1 DEF TornInv, ReadThrough
  <2>2. g # h \/ part[h] # NoInode
    <3>1. CASE g = h /\ part[h] = NoInode
      <4>1. data'[part'[g]] = <<>>
        BY <1>4, <1>7, <3>1
      <4> QED BY <1>5, <2>1, <4>1
    <3> QED BY <3>1
  <2>3. part'[g] = part[g] /\ data'[part[g]] = data[part[g]]
    BY <1>3, <1>7, <2>2
  <2>4. CASE g \notin torn
    <3>1. PICK u \in Task : fd[u] = part[g] /\ ReadThrough(u)
      BY <2>1, <2>3, <2>4, <1>1 DEF TornInv, ReadThrough
    <3>2. u # t
      BY <1>2, <3>1 DEF ReadThrough
    <3> QED BY <1>1, <2>3, <3>1, <3>2 DEF ReadThrough, OnlyMoves
  <2> QED BY <2>4
<1>9. RefusedInv'
  <2>1. ASSUME NEW u \in Task, stage'[u] = "request", at'[u] >= Length, u \in clean' PROVE Current(u) \in torn
    <3>1. CASE u # t
      BY <1>1, <2>1, <3>1 DEF RefusedInv, OnlyMoves
    <3>2. CASE u = t
      <4>1. Len(have) >= Length
        BY <1>1, <2>1, <3>2
      <4>2. part[h] # NoInode
        BY <1>4, <1>5, <4>1
      <4>3. i = part[h] /\ have = data[i]
        BY <1>3, <4>2
      <4>4. ASSUME h \notin torn PROVE FALSE
        <5>1. PICK v \in Task : fd[v] = part[h] /\ stage[v] = "stream"
          BY <1>1, <4>1, <4>2, <4>3, <4>4 DEF TornInv
        <5>2. Current(v) = h /\ Opens(v)
          BY <1>1, <4>2, <5>1 DEF OpenInv, Opens
        <5> QED BY <1>1, <2>1, <3>2, <5>2 DEF Alike, h
      <4> QED BY <3>2, <4>4 DEF h
    <3> QED BY <3>1, <3>2
  <2> QED BY <1>1, <2>1 DEF RefusedInv
<1>10. SourInv'
  <2>1. \A g \in Sha \ {h} : \/ part'[g] = NoInode
                             \/ /\ part'[g] = part[g] /\ data'[part[g]] = data[part[g]]
                                /\ \A u \in Task : fd'[u] = part[g] => (fd[u] = part[g] /\ at'[u] = at[u]) \/ at'[u] <= Len(data[part[g]])
    <3>1. SUFFICES ASSUME NEW g \in Sha \ {h}, part[g] # NoInode, NEW u \in Task, fd'[u] = part[g]
                   PROVE  fd[u] = part[g] /\ at'[u] = at[u]
      BY <1>7
    <3>2. i # part[g]
      <4>1. part[h] = NoInode => i # part[g]
        BY <1>4
      <4>2. part[h] # NoInode => i # part[g]
        BY <1>3, <1>1, <3>1 DEF CleanInv, WholeInv, NamesInv, NameInv
      <4> QED BY <4>1, <4>2
    <3>3. u # t
      BY <1>1, <3>1, <3>2
    <3> QED BY <1>1, <3>1, <3>3 DEF OnlyMoves
  <2>2. Sour' \subseteq Sour \cup {h}
    BY <1>1, <2>1, SourWithin
  <2>3. h \in Sour' => h \in Sour
    <3> DEFINE n == Len(have)
    <3>1. SUFFICES ASSUME (\E k \in DOMAIN have : have[k] = "bad") \/ \E u \in Task : fd'[u] = i /\ at'[u] > n
                   PROVE  part[h] # NoInode /\ Spoilt(part[h])
      <4>1. \A g \in Sour' : \/ \E k \in DOMAIN data'[part'[g]] : data'[part'[g]][k] = "bad"
                             \/ \E u \in Task : fd'[u] = part'[g] /\ at'[u] > Len(data'[part'[g]])
        BY DEF Sour, Spoilt
      <4> QED BY <1>1, <1>7, <4>1 DEF Sour
    <3>2. PICK j \in Inode : j = i
      BY <1>1
    <3>3. data'[j] = have /\ \A u \in Task : fd'[u] = j => (u = t /\ at'[u] = n) \/ (u # t /\ fd[u] = j /\ at'[u] = at[u])
      BY <1>1, <1>7, <3>2 DEF OnlyMoves
    <3>4. CASE \E k \in DOMAIN have : have[k] = "bad"
      BY <1>3, <1>4, <1>5, <3>4 DEF Spoilt
    <3>5. CASE \E u \in Task : fd'[u] = i /\ at'[u] > n
      <4>1. PICK u \in Task : fd'[u] = i /\ at'[u] > n
        BY <3>5
      <4>2. ~(n > n)
        BY <1>5
      <4>3. u # t /\ fd[u] = i /\ at[u] > n
        BY <3>2, <3>3, <4>1, <4>2
      <4>4. part[h] # NoInode
        BY <1>6, <4>3
      <4> QED BY <1>3, <4>3, <4>4 DEF Spoilt
    <3> QED BY <3>1, <3>4, <3>5
  <2>4. Sour' \subseteq Sour
    BY <2>2, <2>3
  <2>5. trouble' >= trouble
    <3>1. trouble \in 0..MaxTrouble /\ trouble' = trouble
      BY <1>1 DEF TasksInv, StoreTypeOK
    <3> QED BY <3>1, Numbers
  <2> QED BY <1>1, <2>4, <2>5, SourShrinks
<1>11. FailedInv'
    BY <1>1 DEF FailedInv, Excused, OnlyMoves
<1> QED BY <1>1, <1>8, <1>9, <1>10, <1>11 DEF CleanInv

\* A write spoils its own .part at most, and completes it only as the writer arrives.
LEMMA WriteKeepsClean ==
    ASSUME CleanInv, WholeInv', NEW t \in Task, NEW c, NEW n, NEW b, Writes(t, c, n, b), ~ReadThrough(t),
           Len(c) >= Length => n = Length \/ Len(data[fd[t]]) >= Length,
           \/ trouble' = trouble + 1
           \/ (\E k \in DOMAIN c : c[k] = "bad") \/ (\E u \in Task \ {t} : fd[u] = fd[t] /\ at[u] > Len(c)) \/ n > Len(c)
                 => Spoilt(fd[t])
    PROVE  CleanInv'
<1>1. /\ TasksInv /\ TasksInv' /\ TornInv /\ RefusedInv /\ SourInv /\ FailedInv /\ clean \subseteq Task /\ OpenInv(t)
      /\ c \in ChunkSeq /\ n \in 0..Length
      /\ UNCHANGED <<object, part, todo, tries, fd, torn, edited>> /\ clean' \subseteq clean /\ trouble' >= trouble
      /\ data' = [data EXCEPT ![fd[t]] = c]
    BY DEF CleanInv, WholeInv, NamesInv, Writes
<1>2. /\ OnlyMoves(t) /\ Opens(t) /\ fd[t] \in Inode /\ data'[fd[t]] = c /\ stage'[t] = "stream"
      /\ at'[t] = n /\ \A u \in Task \ {t} : at'[u] = at[u]
    BY <1>1, WriteSteps DEF Writes
<1>3. FileTypes /\ TaskTypes /\ Linked(t) /\ todo[t] \subseteq Sha
    BY <1>1, StoreTypes DEF TasksInv, TaskTypes
<1>4. Current(t) \in Sha /\ \A u \in Task : Current(u)' = Current(u)
  <2>1. todo[t] # {}
    BY <1>2, <1>3 DEF Linked, Opens
  <2> QED BY <1>1, <1>3, <2>1, CurrentIn, CurrentStays
<1>5. \A g \in Sha : part[g] # fd[t] => data'[part[g]] = data[part[g]]
    BY <1>1, <1>3 DEF FileTypes
<1>6. TornInv'
  <2>1. SUFFICES ASSUME NEW g \in Sha, part[g] # NoInode, Len(data'[part[g]]) >= Length
                 PROVE  g \in torn \/ \E u \in Task : fd[u] = part[g] /\ ReadThrough(u)'
    BY <1>1 DEF TornInv, ReadThrough
  <2>2. CASE Len(data[part[g]]) >= Length
    <3>1. CASE g \notin torn
      <4>1. PICK u \in Task : fd[u] = part[g] /\ ReadThrough(u)
        BY <1>1, <2>1, <2>2, <3>1 DEF TornInv, ReadThrough
      <4>2. u # t
        BY <4>1
      <4> QED BY <1>2, <4>1, <4>2 DEF ReadThrough, OnlyMoves
    <3> QED BY <3>1
  <2>3. CASE ~(Len(data[part[g]]) >= Length)
    <3>1. part[g] = fd[t]
      BY <1>5, <2>1, <2>3
    <3>2. n = Length
      BY <1>2, <2>1, <2>3, <3>1
    <3> QED BY <1>2, <3>1, <3>2 DEF ReadThrough
  <2> QED BY <2>2, <2>3
<1>7. RefusedInv'
    BY <1>1, <1>2, <1>4 DEF RefusedInv, OnlyMoves
<1>8. FailedInv'
    BY <1>1, <1>2 DEF FailedInv, Excused, OnlyMoves
<1>9. SourInv'
  <2> DEFINE h == Current(t)
  <2>1. \A g \in Sha \ {h} : \/ part'[g] = NoInode
                             \/ /\ part'[g] = part[g] /\ data'[part[g]] = data[part[g]]
                                /\ \A u \in Task : fd'[u] = part[g] => (fd[u] = part[g] /\ at'[u] = at[u]) \/ at'[u] <= Len(data[part[g]])
    <3>1. \A g \in Sha \ {h} : part[g] # fd[t]
      BY <1>1, <1>2 DEF OpenInv
    <3> QED BY <1>1, <1>2, <1>5, <3>1
  <2>2. h \in Sha
    BY <1>4
  <2> HIDE DEF h
  <2>3. Sour' \subseteq Sour \cup {h}
    BY <1>1, <2>1, SourWithin
  <2>4. CASE trouble' = trouble + 1
    BY <1>1, <2>3, <2>4, SourGrows
  <2>5. CASE trouble' # trouble + 1
    <3>1. \/ h \notin Sour' \/ h \in Sour
      <4>1. SUFFICES ASSUME h \in Sour' PROVE h \in Sour
        OBVIOUS
      <4>2. /\ part[h] # NoInode
            /\ \/ \E k \in DOMAIN data'[part[h]] : data'[part[h]][k] = "bad"
               \/ \E u \in Task : fd[u] = part[h] /\ at'[u] > Len(data'[part[h]])
        BY <1>1, <4>1 DEF Sour, Spoilt
      <4>3. CASE part[h] # fd[t]
        <5>1. Spoilt(part[h])
          BY <1>2, <1>5, <2>2, <4>2, <4>3 DEF Spoilt
        <5> QED BY <2>2, <4>2, <5>1 DEF Sour
      <4>4. CASE part[h] = fd[t]
        <5>1. (\E k \in DOMAIN c : c[k] = "bad") \/ \E u \in Task : fd[u] = fd[t] /\ at'[u] > Len(c)
          BY <1>2, <4>2, <4>4
        <5>2. (\E k \in DOMAIN c : c[k] = "bad") \/ (\E u \in Task \ {t} : fd[u] = fd[t] /\ at[u] > Len(c)) \/ n > Len(c)
          BY <1>2, <5>1
        <5>3. Spoilt(fd[t])
          BY <2>5, <5>2
        <5> QED BY <2>2, <4>2, <4>4, <5>3 DEF Sour
      <4> QED BY <4>3, <4>4
    <3>2. Sour' \subseteq Sour
      BY <2>3, <3>1
    <3>3. clean' \subseteq Task /\ \A u \in clean' : u \in clean /\ tries'[u] = tries[u]
      BY <1>1
    <3> QED BY <1>1, <3>2, <3>3, SourShrinks
  <2> QED BY <2>4, <2>5
<1> QED BY <1>1, <1>6, <1>7, <1>8, <1>9 DEF CleanInv

LEMMA WritingKeepsClean ==
    ASSUME CleanInv, WholeInv', NEW t \in Task, RangeIgnored(t) \/ Stream(t) PROVE CleanInv'
<1>1. TasksInv
    BY DEF CleanInv, WholeInv
<1>2. CASE RangeIgnored(t)
  <2>1. Writes(t, <<>>, 0, TRUE) /\ trouble' = trouble + 1 /\ ~ReadThrough(t)
    <3>1. stage[t] = "request"
      BY <1>2 DEF RangeIgnored
    <3> QED BY <1>1, <1>2, <3>1, IgnoredWrites DEF ReadThrough
  <2>2. ~(Len(<<>>) >= Length)
    BY EmptyContent, Numbers
  <2> QED BY <2>1, <2>2, WriteKeepsClean
<1>3. CASE Stream(t)
  <2>1. PICK c \in {"ok", "bad"} :
          /\ Writes(t, ChunkOf(data[fd[t]], at[t] + 1, c), at[t] + 1, sum[t] /\ c = "ok")
          /\ at[t] + 1 \in 1..Length /\ data[fd[t]] \in ChunkSeq /\ fd[t] \in Inode
          /\ \/ c = "ok" /\ UNCHANGED <<trouble, clean>>
             \/ trouble' = trouble + 1 /\ clean' = clean \ {t}
    BY <1>1, <1>3, ChunkWrites
  <2>2. PICK old \in ChunkSeq, n \in 1..Length : old = data[fd[t]] /\ n = at[t] + 1
    BY <2>1
  <2> DEFINE new == ChunkOf(old, n, c)
  <2>3. new \in ChunkSeq /\ Len(new) >= n /\ Len(new) >= Len(old)
    BY ChunkFacts
  <2>4. /\ Len(old) <= n => Len(new) = n
        /\ Len(old) >= n => Len(new) = Len(old)
    BY ONLY ChunkFacts
  <2>5. new[n] = c
    BY ONLY ChunkFacts
  <2>6. \A k \in 1..Len(old) : k # n => new[k] = old[k]
    BY ONLY ChunkFacts
  <2>7. Writes(t, new, n, sum[t] /\ c = "ok")
    BY <2>1, <2>2
  <2> HIDE DEF new
  <2>8. Len(old) \in Nat /\ DOMAIN old = 1..Len(old) /\ Len(new) \in Nat /\ DOMAIN new = 1..Len(new)
    BY <2>3, ContentFacts, Numbers
  <2>9. at[t] \in Nat /\ n \in Nat /\ n <= Length /\ at[t] < Length /\ \A u \in Task : at[u] \in Nat
    <3>1. at \in [Task -> 0..Length]
      BY <1>1 DEF TasksInv, StoreTypeOK
    <3> QED BY <2>2, <3>1, Numbers
  <2>10. ~ReadThrough(t) /\ (Len(new) >= Length => n = Length \/ Len(data[fd[t]]) >= Length)
    <3>1. at[t] # Length
      BY <2>9
    <3>2. Len(new) >= Length => n = Length \/ Len(old) >= Length
      <4>1. CASE Len(old) >= n
        BY <2>4, <4>1
      <4>2. CASE ~(Len(old) >= n)
        <5>1. Len(old) <= n
          BY <2>8, <2>9, <4>2
        <5>2. Len(new) = n
          BY <2>4, <5>1
        <5> QED BY <2>9, <5>2, Numbers
      <4> QED BY <4>1, <4>2
    <3> QED BY <2>2, <3>1, <3>2 DEF ReadThrough
  <2>11. CASE trouble' = trouble + 1
    BY <2>7, <2>10, <2>11, WriteKeepsClean
  <2>12. CASE c = "ok"
    <3>1. ASSUME NEW k \in DOMAIN new, new[k] = "bad" PROVE Spoilt(fd[t])
      <4>1. k \in 1..Len(new) /\ k # n
        BY <2>5, <2>8, <2>12, <3>1
      <4>2. CASE Len(old) >= at[t]
        <5>1. k \in 1..Len(old)
          BY <2>2, <2>4, <2>8, <2>9, <4>1, <4>2
        <5>2. k \in DOMAIN old /\ old[k] = "bad"
          BY <2>6, <2>8, <3>1, <4>1, <5>1
        <5> QED BY <2>2, <5>2 DEF Spoilt
      <4>3. CASE ~(Len(old) >= at[t])
        <5>1. at[t] > Len(old)
          BY <2>8, <2>9, <4>3
        <5> QED BY <2>2, <5>1 DEF Spoilt
      <4> QED BY <4>2, <4>3
    <3>2. ASSUME NEW u \in Task \ {t}, fd[u] = fd[t], at[u] > Len(new) PROVE Spoilt(fd[t])
      <4>1. at[u] \in Nat
        BY <2>9
      <4>2. at[u] > Len(old)
        BY <2>3, <2>8, <3>2, <4>1
      <4> QED BY <2>2, <3>2, <4>2 DEF Spoilt
    <3>3. ~(n > Len(new))
      BY <2>3, <2>8, <2>9
    <3> QED BY <2>7, <2>10, <3>1, <3>2, <3>3, WriteKeepsClean
  <2> QED BY <2>1, <2>11, <2>12
<1> QED BY <1>2, <1>3

\* A try is lost to a wrong .part that goes with it.
LEMMA FinishKeepsClean == ASSUME CleanInv, WholeInv', NEW t \in Task, Finish(t) PROVE CleanInv'
<1> DEFINE h == Current(t)
<1>1. /\ TasksInv /\ TasksInv' /\ OnlyMoves(t) /\ stage[t] = "stream" /\ at[t] = Length
      /\ Opens(t) /\ fd[t] \in Inode /\ h \in Sha
      /\ fd'[t] = NoInode /\ \A u \in Task \ {t} : at'[u] = at[u]
      /\ UNCHANGED <<data, trouble, torn, edited, clean>> /\ part' = [part EXCEPT ![h] = NoInode]
      /\ \/ tries'[t] = tries[t] /\ stage'[t] # "failed"
         \/ /\ sum[t] => part[h] = NoInode
            /\ tries'[t] = tries[t] + 1 /\ (stage'[t] = "failed" => tries'[t] = MaxTries)
    BY FinishSteps DEF CleanInv, WholeInv
<1>2. /\ TornInv /\ RefusedInv /\ SourInv /\ FailedInv /\ clean \subseteq Task /\ OpenInv(t) /\ DownloadInv(t) /\ NameInv
      /\ FileTypes /\ TaskTypes
    BY <1>1, StoreTypes DEF CleanInv, WholeInv, NamesInv, TasksInv
<1>3. \A g \in Sha : part'[g] = (IF g = h THEN NoInode ELSE part[g])
    BY <1>1, <1>2 DEF FileTypes
<1>4. TornInv'
  <2>1. ASSUME NEW u \in Task, ReadThrough(u)
        PROVE  (ReadThrough(u)' /\ fd'[u] = fd[u]) \/ \A g \in Sha : part[g] = fd[u] => part'[g] = NoInode
    <3>1. CASE u = t
      BY <1>1, <1>2, <1>3, <3>1 DEF OpenInv
    <3>2. CASE u # t
      BY <1>1, <2>1, <3>2 DEF ReadThrough, OnlyMoves
    <3> QED BY <3>1, <3>2
  <2>2. \A g \in Sha : part'[g] = part[g] \/ part'[g] = NoInode
    BY <1>3
  <2> QED BY <1>1, <1>2, <2>1, <2>2, TornStays
<1>5. stage'[t] # "request"
    BY <1>1 DEF TasksInv, StoreTypeOK
<1>6. RefusedInv'
  <2>1. \A u \in Task \ {t} : Current(u)' = Current(u)
    BY <1>1, CurrentStays DEF OnlyMoves
  <2> QED BY <1>1, <1>2, <1>5, <2>1 DEF RefusedInv, OnlyMoves
<1>7. FailedInv'
    BY <1>1, <1>2 DEF FailedInv, Excused, OnlyMoves
<1>8. Sour' \subseteq Sour \ {h}
  <2>1. \A g \in Sha \ {} : \/ part'[g] = NoInode
                            \/ /\ part'[g] = part[g] /\ data'[part[g]] = data[part[g]]
                               /\ \A u \in Task : fd'[u] = part[g] => (fd[u] = part[g] /\ at'[u] = at[u]) \/ at'[u] <= Len(data[part[g]])
    <3>1. ASSUME NEW g \in Sha, part'[g] # NoInode, NEW u \in Task, fd'[u] = part[g] PROVE fd[u] = part[g] /\ at'[u] = at[u]
      <4>1. part'[g] = part[g]
        BY <1>3, <3>1
      <4>2. u # t
        BY <1>1, <3>1, <4>1
      <4> QED BY <1>1, <3>1, <4>2 DEF OnlyMoves
    <3> QED BY <1>1, <1>3, <3>1
  <2>2. Sour' \subseteq Sour
    BY <1>1, <2>1, SourWithin
  <2>3. h \notin Sour'
    <3>1. \A g \in Sour' : part'[g] # NoInode
      BY DEF Sour
    <3>2. part'[h] = NoInode
      BY <1>1, <1>3
    <3> QED BY <3>1, <3>2
  <2> QED BY <2>2, <2>3
<1>9. trouble \in Nat /\ \A u \in Task : tries[u] \in Nat
  <2>1. trouble \in 0..MaxTrouble /\ tries \in [Task -> 0..MaxTries]
    BY <1>1 DEF TasksInv, StoreTypeOK
  <2> QED BY <2>1, Numbers
<1>10. SourInv'
  <2>1. CASE t \notin clean \/ tries'[t] = tries[t]
    <3>1. \A u \in clean' : u \in clean /\ tries'[u] = tries[u]
      BY <1>1, <1>2, <2>1 DEF OnlyMoves
    <3>2. trouble' >= trouble /\ Sour' \subseteq Sour /\ clean' \subseteq Task
      BY <1>1, <1>2, <1>8, <1>9
    <3> QED BY <1>1, <1>2, <3>1, <3>2, SourShrinks
  <2>2. CASE t \in clean /\ tries'[t] # tries[t]
    <3>1. part[h] = fd[t] /\ sum[t] = \A k \in 1..at[t] : data[fd[t]][k] = "ok"
      BY <1>1, <1>2, <2>2 DEF DownloadInv
    <3>2. ~sum[t] /\ tries'[t] = tries[t] + 1
      BY <1>1, <2>2, <3>1 DEF Opens
    <3>3. PICK k \in 1..at[t] : data[fd[t]][k] # "ok"
      BY <3>1, <3>2
    <3>4. Len(data[fd[t]]) = at[t]
      BY <1>1, <1>2, <2>2 DEF DownloadInv
    <3>5. k \in DOMAIN data[fd[t]] /\ data[fd[t]][k] = "bad"
      <4>1. data[fd[t]] \in ChunkSeq
        BY <1>1, <1>2 DEF FileTypes
      <4>2. DOMAIN data[fd[t]] = 1..Len(data[fd[t]]) /\ \A j \in 1..Len(data[fd[t]]) : data[fd[t]][j] \in {"ok", "bad"}
        BY <4>1, ContentFacts
      <4> QED BY <3>3, <3>4, <4>2
    <3>6. h \in Sour
      BY <1>1, <3>1, <3>5 DEF Sour, Spoilt, Opens
    <3> HIDE DEF h
    <3>7. IsFiniteSet(Sour \ {h}) /\ Cardinality(Sour \ {h}) = Cardinality(Sour) - 1 /\ Cardinality(Sour) \in Nat
      BY <1>2, <3>6, FS_RemoveElement, FS_CardinalityType DEF SourInv
    <3>8. IsFiniteSet(Sour') /\ Cardinality(Sour') <= Cardinality(Sour) - 1 /\ Cardinality(Sour') \in Nat
      <4>1. IsFiniteSet(Sour') /\ Cardinality(Sour') <= Cardinality(Sour \ {h})
        BY <1>8, <3>7, FS_Subset
      <4> QED BY <3>7, <4>1, FS_CardinalityType
    <3>9. Cardinality(Sour') <= Cardinality(Sour) + (trouble' - trouble)
      BY <1>1, <1>9, <3>7, <3>8
    <3>10. ASSUME NEW u \in clean'
           PROVE  u \in clean /\ tries'[u] + Cardinality(Sour') <= tries[u] + Cardinality(Sour) + (trouble' - trouble)
      <4>1. u \in clean /\ tries[u] \in Nat /\ (tries'[u] = tries[u] \/ tries'[u] = tries[u] + 1)
        BY <1>1, <1>2, <1>9, <3>2, <3>10 DEF OnlyMoves
      <4> QED BY <1>1, <1>9, <3>7, <3>8, <4>1
    <3>11. clean' \subseteq Task /\ torn \subseteq torn' /\ edited \subseteq edited'
      BY <1>1, <1>2
    <3> QED BY <1>1, <1>2, <3>8, <3>9, <3>10, <3>11, SourMoves
  <2> QED BY <2>1, <2>2
<1> QED BY <1>1, <1>2, <1>4, <1>6, <1>7, <1>10 DEF CleanInv

LEMMA EditKeepsClean == ASSUME CleanInv, WholeInv', NEW h \in Sha, Edit(h) PROVE CleanInv'
<1>1. /\ TasksInv /\ TasksInv' /\ h \in Local /\ edited' = edited \cup {h} /\ trouble' = trouble + 1
      /\ \A i \in Inode : i # Scratch[h] => data'[i] = data[i]
      /\ UNCHANGED <<object, part, stage, todo, tries, fd, at, torn, clean>>
      /\ TornInv /\ RefusedInv /\ SourInv /\ FailedInv /\ clean \subseteq Task /\ NameInv /\ FileTypes
    BY EditSteps, StoreTypes DEF CleanInv, WholeInv, NamesInv, TasksInv, task
<1>2. \A g \in Sha : part[g] # NoInode => data'[part[g]] = data[part[g]]
    BY <1>1 DEF FileTypes, InodeOrNone, NameInv
<1>3. TornInv'
    BY <1>1, <1>2 DEF TornInv
<1>4. RefusedInv'
  <2>1. \A u \in Task : Current(u)' = Current(u)
    BY <1>1, CurrentStays
  <2> QED BY <1>1, <2>1 DEF RefusedInv
<1>5. FailedInv'
    BY <1>1 DEF FailedInv, Excused
<1>6. SourInv'
  <2>1. \A g \in Sha \ {} : \/ part'[g] = NoInode
                            \/ /\ part'[g] = part[g] /\ data'[part[g]] = data[part[g]]
                               /\ \A u \in Task : fd'[u] = part[g] => (fd[u] = part[g] /\ at'[u] = at[u]) \/ at'[u] <= Len(data[part[g]])
    BY <1>1, <1>2
  <2>2. Sour' \subseteq Sour
    BY <1>1, <2>1, SourWithin
  <2>3. trouble' >= trouble
    <3>1. trouble \in 0..MaxTrouble
      BY <1>1 DEF TasksInv, StoreTypeOK
    <3> QED BY <1>1, <3>1, Numbers
  <2>4. clean' \subseteq Task /\ edited \subseteq edited' /\ \A u \in clean' : u \in clean /\ tries'[u] = tries[u]
    BY <1>1
  <2> QED BY <1>1, <2>2, <2>3, <2>4, SourShrinks
<1> QED BY <1>1, <1>3, <1>4, <1>5, <1>6 DEF CleanInv

LEMMA AssembleKeepsClean == ASSUME CleanInv, WholeInv', NEW t \in Task, Assemble(t), Derived(t) = {} PROVE CleanInv'
<1>1. /\ TasksInv /\ TasksInv' /\ OnlyMoves(t) /\ stage'[t] # "failed" /\ tries' = tries
      /\ UNCHANGED <<data, part, todo, fd, at, trouble, torn, edited, clean>> /\ stage[t] = "assemble"
      /\ TornInv /\ RefusedInv /\ SourInv /\ FailedInv /\ clean \subseteq Task
    BY AssembleSteps DEF CleanInv, WholeInv, Assemble
<1>2. stage'[t] # "request" /\ \A u \in Task : Current(u)' = Current(u)
    BY <1>1, CurrentStays DEF TasksInv, StoreTypeOK
<1>3. TornInv'
  <2>1. \A u \in Task : ReadThrough(u) => ReadThrough(u)' /\ fd'[u] = fd[u]
    BY <1>1 DEF ReadThrough, OnlyMoves
  <2> QED BY <1>1, <2>1, TornStays
<1>4. RefusedInv' /\ FailedInv'
    BY <1>1, <1>2 DEF RefusedInv, FailedInv, Excused, OnlyMoves
<1>5. SourInv'
    BY <1>1 DEF SourInv, Sour, Spoilt, Excused
<1> QED BY <1>1, <1>3, <1>4, <1>5 DEF CleanInv

LEMMA StutterKeepsClean == ASSUME CleanInv, WholeInv', UNCHANGED storeVars PROVE CleanInv'
<1>1. UNCHANGED <<data, part, stage, todo, tries, fd, at, trouble, torn, edited, clean>>
      /\ TornInv /\ RefusedInv /\ SourInv /\ FailedInv /\ clean \subseteq Task
    BY DEF storeVars, files, task, ghosts, CleanInv
<1>2. \A u \in Task : Current(u)' = Current(u)
    BY <1>1, CurrentStays
<1>3. TornInv' /\ RefusedInv' /\ FailedInv'
    BY <1>1, <1>2 DEF TornInv, RefusedInv, FailedInv, Excused
<1>4. SourInv'
    BY <1>1 DEF SourInv, Sour, Spoilt, Excused
<1> QED BY <1>1, <1>3, <1>4 DEF CleanInv

LEMMA NextKeepsClean ==
    ASSUME CleanInv, [StoreNext]_storeVars, \A t \in Task : Derived(t) = {} PROVE CleanInv'
<1>1. WholeInv'
    BY NextKeepsWhole DEF CleanInv
<1>2. CASE UNCHANGED storeVars
    BY <1>1, <1>2, StutterKeepsClean
<1>3. ASSUME NEW t \in Task, Start(t) PROVE CleanInv'
    BY <1>1, <1>3, StartKeepsClean
<1>4. ASSUME NEW t \in Task,
             \/ Scan(t) \/ PresignFails(t) \/ Answered(t) \/ RangeRefused(t) \/ Drop(t)
             \/ Clone(t) \/ TakeDown(t) \/ SwapIn(t) \/ BuildFails(t) \/ RemoveTree(t)
      PROVE  CleanInv'
    BY <1>1, <1>4, QuietKeepsClean
<1>5. ASSUME NEW t \in Task, Open(t) PROVE CleanInv'
    BY <1>1, <1>5, OpenKeepsClean
<1>6. ASSUME NEW t \in Task, RangeIgnored(t) \/ Stream(t) PROVE CleanInv'
    BY <1>1, <1>6, WritingKeepsClean
<1>7. ASSUME NEW t \in Task, Finish(t) PROVE CleanInv'
    BY <1>1, <1>7, FinishKeepsClean
<1>8. ASSUME NEW t \in Task, Assemble(t) PROVE CleanInv'
    BY <1>1, <1>8, AssembleKeepsClean
<1>9. CASE Crash
    BY <1>1, <1>9, CrashKeepsClean
<1>10. ASSUME NEW h \in Sha, Edit(h) PROVE CleanInv'
    BY <1>1, <1>10, EditKeepsClean
<1> QED BY <1>2, <1>3, <1>4, <1>5, <1>6, <1>7, <1>8, <1>9, <1>10 DEF StoreNext, Step

LEMMA InitIsClean == StoreInit => CleanInv
<1> SUFFICES ASSUME StoreInit PROVE CleanInv
    OBVIOUS
<1>1. WholeInv
    BY InitIsWhole
<1>2. /\ \A h \in Sha : part[h] = NoInode
      /\ \A t \in Task : stage[t] = "idle"
      /\ clean = {} /\ trouble = 0
    BY DEF StoreInit
<1>3. Sour = {}
    BY <1>2 DEF Sour
<1>4. IsFiniteSet(Sour) /\ Cardinality(Sour) = 0
    BY <1>3, FS_EmptySet
<1>5. SourInv
    BY <1>2, <1>4 DEF SourInv
<1> QED BY <1>1, <1>2, <1>5 DEF CleanInv, TornInv, RefusedInv, FailedInv

\* A deployment whose own materialize met no fault gets its content, whatever
\* earlier attempts and other deployments left in the store: every wrong .part is
\* the work of a fault, it costs one try at most, and that try throws it away.
THEOREM CleanAttemptSucceedsHolds ==
    ASSUME \A t \in Task : Derived(t) = {} PROVE StoreSpec => []CleanAttemptSucceeds
<1>1. StoreInit => CleanInv
    BY InitIsClean
<1>2. CleanInv /\ [StoreNext]_storeVars => CleanInv'
    BY NextKeepsClean
<1>3. CleanInv => CleanAttemptSucceeds
  <2> SUFFICES ASSUME CleanInv, NEW t \in Task, stage[t] = "failed", t \in clean, ~Excused(t) PROVE trouble >= MaxTries
      BY DEF CleanAttemptSucceeds, Excused
  <2>1. tries[t] = MaxTries /\ tries[t] + Cardinality(Sour) <= trouble /\ Cardinality(Sour) \in Nat
      BY FS_CardinalityType DEF CleanInv, FailedInv, SourInv
  <2>2. trouble \in Nat
    <3>1. trouble \in 0..MaxTrouble
      BY DEF CleanInv, WholeInv, TasksInv, StoreTypeOK
    <3> QED BY <3>1, Numbers
  <2> QED BY <2>1, <2>2, Numbers
<1> QED BY <1>1, <1>2, <1>3, PTL DEF StoreSpec

-----------------------------------------------------------------------------
(* Previews: what a node keeps of them, and whose a port is.                *)

At(i) == SlotOf[i]
Flying(i) == flight[i] # "none"
Building(i) == flight[i] \notin {"none", "fetch"}

\* The state file follows the state of its slot; what is tracked, runs, is routed or
\* is being deployed has an application, which nothing deletes.
TrackInv ==
    /\ file = active
    /\ \A k \in Slot : active[k] # NoInst => At(active[k]) = k /\ k \in apps
    /\ \A k \in Slot : box[k] # NoInst => k \in apps
    /\ \A i \in Instance : route[i] # NoPort \/ Building(i) \/ row[i] = "ready" => At(i) \in apps

\* Runtime previews and session previews have ports of their own.
PortKindInv ==
    /\ \A i \in Runtime :
        /\ port[i] \in Port \cup {NoPort} /\ (Building(i) => port[i] \in Port)
        /\ active[At(i)] # NoInst => stPort[At(i)] \in Port
        /\ box[At(i)] # NoInst => boxPort[At(i)] \in Port
        /\ row[i] \notin {"building", "ready"}
    /\ \A i \in Session :
        /\ port[i] \in HostPort \cup {NoPort} /\ (row[i] \in {"ready", "running"} => port[i] \in HostPort)
        /\ active[At(i)] # NoInst => stPort[At(i)] \in HostPort
        /\ box[At(i)] # NoInst => boxPort[At(i)] \in HostPort
        /\ ~Building(i)

\* An instance that is being brought up has a row that waits for it, or was given up.
RowInv ==
    /\ \A i \in Instance : Flying(i) => row[i] \in Down \cup {"up", "stopping"}
    /\ \A i \in Instance : Flying(i) /\ row[i] \in Down => At(i) \in crossed
    /\ \A i \in Instance, j \in Instance : j \in Siblings(i) /\ row[i] = "up" =>
          row[j] # "up" /\ (Flying(j) => At(i) \in crossed)
    /\ \A i \in Instance, j \in Instance : j \in Siblings(i) /\ Flying(i) /\ Flying(j) => At(i) \in crossed

\* What the loop is at: a stop, and the rest of a sweep.
HandInv ==
    LET i == hand.inst IN
    /\ hand \in [inst : Instance \cup {NoInst}, who : Instance \cup {NoInst}, idle : BOOLEAN,
                 step : {"none", "container", "route", "clear", "report"}]
    /\ hand # NoHand =>
        /\ i \in Instance /\ hand.step # "none"
        /\ hand.step \in {"container", "route"} => hand.who # NoInst
        /\ hand.idle => hand.who = i
        /\ ~hand.idle => row[i] # "running" /\ ~Flying(i)
        /\ \A j \in Instance : At(j) = At(i) /\ Flying(j) => At(i) \in crossed
        /\ hand.who \in {i, NoInst} \/ At(i) \in crossed
        /\ hand.step = "report" /\ (At(i) \notin crossed \/ i \in Session) => active[At(i)] = NoInst
        /\ hand.step \in {"clear", "report"} /\ At(i) \notin crossed => route[i] = NoPort
        /\ hand.step \in {"route", "clear", "report"} /\ At(i) \notin crossed /\ i \notin lost => box[At(i)] # i

\* The list of a sweep has one state of a slot; that of a session preview, whose slot
\* no up replaces, is still its state.
SweepInv ==
    /\ \A st \in sweep : At(st.inst) = st.slot /\ st.slot \in apps
    /\ \A st \in sweep : st.inst \in Session => active[st.slot] = st.inst /\ stPort[st.slot] = st.at
    /\ \A st \in sweep : st.inst \in Runtime => st.at \in Port
    /\ \A st, tt \in sweep : st.slot = tt.slot => st = tt
    /\ hand # NoHand => \A st \in sweep : st.slot # At(hand.inst)

\* A slot claims a port by its state, its container, or an up in flight; two slots
\* have a claim on one port only if an up was given a port another held in flight.
Claims(k, p) ==
    \/ active[k] # NoInst /\ stPort[k] = p
    \/ box[k] # NoInst /\ boxPort[k] = p
    \/ \E i \in Instance : At(i) = k /\ Building(i) /\ port[i] = p
PortInv ==
    \A k, l \in Slot, p \in Port : k # l /\ Claims(k, p) /\ Claims(l, p) => k \in misled

\* A live session preview keeps the port its container was given, and no other
\* container has it.
SessionPortInv ==
    \A i \in Session :
        /\ row[i] \in {"ready", "running"} =>
              \A k \in Slot \ {At(i)} : box[k] # NoInst => boxPort[k] # port[i]
        /\ row[i] = "running" /\ active[At(i)] = i => stPort[At(i)] = port[i]
        /\ i \notin lost /\ (active[At(i)] = i \/ hand.inst = i) => row[i] \in {"running", "stopping"} /\ ~Flying(i)

\* The route is down or leads to the port in the state of the slot.
Home(i) == At(i) \notin misled => route[i] \in {NoPort, stPort[At(i)]}

\* An up that has wired, and one that has to report.
UpInv ==
    \A i \in Instance : At(i) \notin crossed =>
        /\ flight[i] = "track" /\ At(i) \notin misled => route[i] \in {NoPort, port[i]}
        /\ flight[i] = "report" => active[At(i)] = i /\ Home(i)

\* A preview whose row is running is tracked, or its stop has only to report.
RunInv ==
    \A i \in Instance :
        row[i] = "running" /\ i \notin lost /\ At(i) \notin crossed /\ ~Replacing(i) =>
            /\ active[At(i)] = i \/ (hand.inst = i /\ hand.step = "report")
            /\ Home(i)

\* One whose row is stopped has no container, route or state, and no sweep brings
\* them back.
StopInv ==
    \A i \in Instance :
        row[i] = "stopped" /\ i \notin lost /\ At(i) \notin crossed =>
            /\ box[At(i)] # i /\ route[i] = NoPort /\ active[At(i)] # i
            /\ \A st \in sweep : st.inst # i

PreviewInv ==
    /\ PreviewTypeOK /\ TrackInv /\ PortKindInv /\ RowInv /\ HandInv /\ SweepInv
    /\ PortInv /\ SessionPortInv /\ UpInv /\ RunInv /\ StopInv

-----------------------------------------------------------------------------
(* The operators of previews.                                               *)

\* What a goroutine or the loop reports.
Event == {"failed", "stopped", "running", "materialized", "routed"}

\* Names: a port is a number, a session preview has a slot of its own.
LEMMA PreviewNames ==
    /\ NoInst \notin Instance /\ AnyPort \subseteq Nat \ {0} /\ Port \cap HostPort = {}
    /\ Port \subseteq AnyPort /\ HostPort \subseteq AnyPort /\ NoPort = 0 /\ NoPort \notin AnyPort
    /\ Instance = Runtime \cup Session /\ Runtime \cap Session = {}
    /\ \A i \in Instance : SlotOf[i] \in Slot
    /\ \A i \in Session, j \in Instance : SlotOf[i] = SlotOf[j] => i = j
    /\ \A i \in Session : Siblings(i) = {}
    /\ \A i, j \in Instance : j \in Siblings(i) <=> j # i /\ SlotOf[j] = SlotOf[i]
    /\ \A i, j \in Instance : j \in Siblings(i) <=> i \in Siblings(j)
    /\ \A i \in Instance : Siblings(i) \subseteq Instance
BY NodePreviewsAssumption DEF Instance, AnyPort, NoPort, Slot, Siblings

\* The API's status after a report.
LEMMA AfterIs ==
    ASSUME NEW r \in Status
    PROVE  /\ After(r, "failed") = IF r \in Down THEN r ELSE "failed"
           /\ After(r, "stopped") = IF r \in {"running", "stopping"} THEN "stopped" ELSE r
           /\ After(r, "running") = IF r = "up" THEN "running" ELSE r
           /\ After(r, "materialized") = IF r = "up" THEN "building" ELSE r
           /\ After(r, "routed") = IF r = "ready" THEN "running" ELSE r
           /\ \A e \in Event : After(r, e) \in Status
BY DEF After, Status, Down, Event

\* A report moves one row, replaces a running sibling, or is lost.
LEMMA ReportMoves ==
    ASSUME NEW i \in Instance, NEW e \in Event, PreviewTypeOK, ReportTo(i, e)
    PROVE  /\ row' \in [Instance -> Status] /\ faults' \in 0..MaxFaults
           /\ lost' \in {lost, lost \cup {i}}
           /\ \A j \in Instance \ {i} : row'[j] = row[j] \/ (e = "running" /\ j \in Siblings(i) /\ row[j] = "running" /\ row'[j] = "replaced")
           /\ (row'[i] = After(row[i], e) /\ (e = "running" => \A j \in Siblings(i) : row'[j] # "running"))
              \/ (i \in lost' /\ row'[i] = row[i])
<1>. row[i] \in Status BY DEF PreviewTypeOK
<1>. After(row[i], e) \in Status BY AfterIs
<1>. "replaced" \in Status BY DEF Status, Down
<1>. MaxFaults \in Nat /\ faults \in 0..MaxFaults /\ row \in [Instance -> Status] BY NodePreviewsAssumption DEF PreviewTypeOK
<1>. i \notin Siblings(i) /\ Siblings(i) \subseteq Instance BY DEF Siblings
<1>1. CASE Fault /\ lost' = lost \cup {i} /\ UNCHANGED row
  BY <1>1 DEF Fault
<1>2. CASE /\ row' = [j \in Instance |->
                    IF j = i THEN After(row[i], e)
                    ELSE IF e = "running" /\ j \in Siblings(i) /\ row[j] = "running"
                      THEN "replaced" ELSE row[j]]
           /\ UNCHANGED <<faults, lost>>
  BY <1>2
<1>. QED BY <1>1, <1>2 DEF ReportTo

\* allocatePort gives a free port.
LEMMA FreePort ==
    ASSUME NEW k, Free(k) # {}
    PROVE  (CHOOSE q \in Free(k) : \A r \in Free(k) : q <= r) \in Free(k)
<1>1. Free(k) \in SUBSET Nat BY PreviewNames DEF Free
<1>2. \E q \in Free(k) : \A r \in Free(k) : q <= r BY <1>1, FirstExists
<1>. QED BY <1>2

-----------------------------------------------------------------------------
(* The steps of previews keep their types.                                  *)

\* The budget of faults.
LEMMA FaultMoves == ASSUME PreviewTypeOK, Fault PROVE faults' \in 0..MaxFaults
BY NodePreviewsAssumption DEF PreviewTypeOK, Fault

\* One lemma for each actor: the API and the users, a goroutine, the work loop.
LEMMA ApiKeepsTypes ==
    ASSUME PreviewTypeOK, NEW i \in Instance, Activate(i) \/ AskStop(i) \/ ApiBuilds(i)
    PROVE  PreviewTypeOK'
<1>. MaxAsks[shown] \in Nat BY NodePreviewsAssumption DEF PreviewTypeOK
<1>1. CASE Activate(i) BY <1>1 DEF PreviewTypeOK, Activate, Status, pvNode, pvUp, pvState, pvLoop
<1>2. CASE AskStop(i) BY <1>2 DEF PreviewTypeOK, AskStop, Status, pvNode, pvUp, pvState, pvLoop
<1>3. CASE ApiBuilds(i)
  <2>1. Allocable(i) \subseteq HostPort BY DEF Allocable
  <2>2. faults' \in 0..MaxFaults BY <1>3, FaultMoves DEF ApiBuilds, PreviewTypeOK
  <2>3. row' \in [Instance -> Status] BY <1>3 DEF PreviewTypeOK, ApiBuilds, Status, Down
  <2>4. SlotOf[i] \in Slot /\ HostPort \subseteq AnyPort BY PreviewNames
  <2>5. /\ box' \in [Slot -> Instance \cup {NoInst}] /\ boxPort' \in [Slot -> AnyPort \cup {NoPort}]
        /\ port' \in [Instance -> AnyPort \cup {NoPort}] /\ apps \subseteq apps' /\ apps' \subseteq Slot
    BY <1>3, <2>1, <2>4 DEF PreviewTypeOK, ApiBuilds
  <2>. QED BY <1>3, <2>2, <2>3, <2>5 DEF PreviewTypeOK, ApiBuilds, pvState, pvLoop
<1>. QED BY <1>1, <1>2, <1>3

LEMMA GoroutineKeepsTypes ==
    ASSUME PreviewTypeOK, TrackInv, PortKindInv, NEW i \in Instance, Goroutine(i)
    PROVE  PreviewTypeOK'
<1>. USE PreviewNames
<1>1. CASE UpFetch(i)
  <2>. DEFINE k == SlotOf[i]
              p == CHOOSE q \in Free(k) : \A r \in Free(k) : q <= r
  <2>1. k \in Slot /\ (Free(k) # {} => p \in Port)
    <3>1. Free(k) # {} => p \in Free(k) BY FreePort
    <3>. QED BY <3>1 DEF Free
  <2>. HIDE DEF p
  <2>2. CASE Free(k) = {}
    <3>1. UpFails(i) /\ UNCHANGED <<port, misled>> BY <1>1, <2>2 DEF UpFetch
    <3>2. row' \in [Instance -> Status] /\ faults' \in 0..MaxFaults
      BY <3>1, ReportMoves DEF UpFails, Event
    <3>. QED BY <1>1, <2>1, <3>1, <3>2 DEF UpFetch, UpFails, Land, FindOrCreateApp, PreviewTypeOK, pvState, pvLoop
  <2>3. CASE Free(k) # {}
    <3>1. /\ port' = [port EXCEPT ![i] = p] /\ flight' = [flight EXCEPT ![i] = "deploy"]
          /\ UNCHANGED <<row, faults, lost>>
      BY <1>1, <2>3 DEF UpFetch, p
    <3>. QED BY <1>1, <2>1, <2>3, <3>1 DEF UpFetch, FindOrCreateApp, PreviewTypeOK, pvState, pvLoop
  <2>. QED BY <2>2, <2>3
<1>2. CASE UpMaterialize(i)
  <2>1. row' \in [Instance -> Status] /\ faults' \in 0..MaxFaults BY <1>2, ReportMoves DEF UpMaterialize, Event
  <2>. QED BY <1>2, <2>1 DEF UpMaterialize, Land, PreviewTypeOK, pvNode, pvState, pvLoop
<1>3. CASE UpRefused(i)
  <2>1. After(row[i], "failed") \in Status BY AfterIs DEF PreviewTypeOK, Event
  <2>2. faults' \in 0..MaxFaults BY <1>3, NodePreviewsAssumption DEF UpRefused, PreviewTypeOK
  <2>. QED BY <1>3, <2>1, <2>2 DEF UpRefused, Land, PreviewTypeOK, pvNode, pvState, pvLoop
<1>4. CASE UpDeploy(i)
  <2>1. row' \in [Instance -> Status] /\ faults' \in 0..MaxFaults
    BY <1>4, ReportMoves DEF UpDeploy, UpFails, Event, PreviewTypeOK
  <2>. QED BY <1>4, <2>1 DEF UpDeploy, UpFails, Land, PreviewTypeOK, pvState, pvLoop
<1>5. CASE UpReady(i)
  <2>1. row' \in [Instance -> Status] /\ faults' \in 0..MaxFaults
    BY <1>5, ReportMoves DEF UpReady, UpFails, Event, PreviewTypeOK
  <2>. QED BY <1>5, <2>1 DEF UpReady, UpFails, Land, PreviewTypeOK, pvNode, pvState, pvLoop
<1>6. CASE UpWire(i)
  BY <1>6 DEF UpWire, PreviewTypeOK, pvApi, pvState, pvLoop
<1>7. CASE UpTrack(i)
  <2>1. SlotOf[i] \in apps BY <1>7 DEF UpTrack, TrackInv, Building, At
  <2>. QED BY <1>7, <2>1 DEF UpTrack, Track, PreviewTypeOK, pvApi, pvNode, pvLoop
<1>8. CASE UpReport(i)
  <2>1. row' \in [Instance -> Status] /\ faults' \in 0..MaxFaults BY <1>8, ReportMoves DEF UpReport, Event
  <2>. QED BY <1>8, <2>1 DEF UpReport, Land, PreviewTypeOK, pvNode, pvState, pvLoop
<1>. QED BY <1>1, <1>2, <1>3, <1>4, <1>5, <1>6, <1>7, <1>8 DEF Goroutine

LEMMA DispatchKeepsTypes ==
    ASSUME PreviewTypeOK, TrackInv, PortKindInv, NEW i \in Instance, Dispatch(i)
    PROVE  PreviewTypeOK'
<1>. USE PreviewNames
<1>1. CASE DispatchUp(i) BY <1>1 DEF DispatchUp, PreviewTypeOK, pvApi, pvNode, pvState, pvLoop
<1>2. CASE RegisterRoute(i)
  <2>1. row' \in [Instance -> Status] /\ faults' \in 0..MaxFaults
    <3>1. CASE ReportTo(i, "routed") BY <3>1, ReportMoves DEF Event
    <3>2. CASE Fault /\ row' = [row EXCEPT ![i] = "failed"] BY <3>2, FaultMoves DEF PreviewTypeOK, Status, Down
    <3>. QED BY <1>2, <3>1, <3>2 DEF RegisterRoute
  <2>2. SlotOf[i] \in apps BY <1>2 DEF RegisterRoute, TrackInv, At
  <2>. QED BY <1>2, <2>1, <2>2 DEF RegisterRoute, Track, PreviewTypeOK, pvUp, pvState, pvLoop
<1>3. CASE DispatchStop(i)
  <2>1. \A k \in Slot : active[k] # NoInst => SlotOf[active[k]] = k BY DEF PreviewTypeOK
  <2>. QED BY <1>3, <2>1 DEF DispatchStop, RuntimeTarget, SessionTarget, PreviewTypeOK, pvApi, pvNode, pvUp, pvState
<1>. QED BY <1>1, <1>2, <1>3 DEF Dispatch

\* The records of the loop.
LEMMA HandTypes ==
    ASSUME HandInv, hand.step # "none"
    PROVE  /\ hand # NoHand /\ hand.inst \in Instance /\ SlotOf[hand.inst] \in Slot
           /\ hand.who \in Instance \cup {NoInst} /\ hand.idle \in BOOLEAN
           /\ hand.step = "route" \/ hand.step = "container" => hand.who \in Instance
           /\ hand = [inst |-> hand.inst, who |-> hand.who, idle |-> hand.idle, step |-> hand.step]
BY PreviewNames DEF HandInv, NoHand

LEMMA SweepTypes ==
    ASSUME PreviewTypeOK, SweepInv, NEW st \in sweep
    PROVE  /\ st.slot \in Slot /\ st.inst \in Instance /\ st.at \in AnyPort /\ st.fails \in 0..2
           /\ SlotOf[st.inst] = st.slot /\ st.slot \in apps
BY DEF PreviewTypeOK, SweepInv, At

LEMMA LoopKeepsTypes ==
    ASSUME PreviewTypeOK, TrackInv, PortKindInv, HandInv, SweepInv, Loop
    PROVE  PreviewTypeOK'
<1>. USE PreviewNames
<1>1. CASE StopContainer
  BY <1>1, HandTypes DEF StopContainer, PreviewTypeOK, pvApi, pvUp, pvState
<1>2. CASE RemoveRoute
  BY <1>2, HandTypes DEF RemoveRoute, PreviewTypeOK, pvApi, pvUp, pvState
<1>3. CASE StopRefused
  <2>1. faults' \in 0..MaxFaults BY <1>3, FaultMoves DEF StopRefused
  <2>2. row' \in [Instance -> Status]
    BY <1>3, HandTypes, AfterIs DEF StopRefused, PreviewTypeOK, Event
  <2>. QED BY <1>3, <2>1, <2>2 DEF StopRefused, PreviewTypeOK, NoHand, pvNode, pvUp, pvState
<1>4. CASE ClearState
  BY <1>4, HandTypes DEF ClearState, Untrack, PreviewTypeOK, pvApi, pvNode, pvUp, pvState
<1>5. CASE ReportStopped
  <2>1. row' \in [Instance -> Status] /\ faults' \in 0..MaxFaults
    BY <1>5, HandTypes, ReportMoves DEF ReportStopped, Event
  <2>. QED BY <1>5, <2>1 DEF ReportStopped, PreviewTypeOK, NoHand, pvNode, pvUp, pvState
<1>6. ASSUME NEW st \in sweep, SweepOne(st) PROVE PreviewTypeOK'
  <2>. SlotOf[st.inst] \in Slot BY SweepTypes
  <2>1. sweep' \subseteq [slot : Slot, inst : Instance, at : AnyPort, fails : 0..2]
    BY <1>6 DEF SweepOne, PreviewTypeOK
  <2>2. route' \in [Instance -> AnyPort \cup {NoPort}] BY <1>6, SweepTypes DEF SweepOne, PreviewTypeOK
  <2>3. CASE Traffic(st)
    BY <1>6, <2>1, <2>2, <2>3, SweepTypes DEF SweepOne, Traffic, Count, PreviewTypeOK, pvUp
  <2>4. CASE IdleStop(st)
    BY <1>6, <2>1, <2>2, <2>4, SweepTypes DEF SweepOne, IdleStop, PreviewTypeOK, pvUp, pvState
  <2>5. CASE ProbeAlive(st)
    <3>1. CASE st.at \in Bound
      BY <1>6, <2>1, <2>2, <2>5, <3>1, SweepTypes DEF SweepOne, ProbeAlive, Count, PreviewTypeOK, pvUp
    <3>2. CASE st.at \notin Bound /\ st.fails < 2
      <4>1. st.fails + 1 \in 0..2 BY <3>2, SweepTypes
      <4>. QED BY <1>6, <2>1, <2>2, <2>5, <3>2, <4>1, SweepTypes DEF SweepOne, ProbeAlive, Count, PreviewTypeOK, pvUp
    <3>3. CASE st.at \notin Bound /\ ~(st.fails < 2)
      <4>1. row' \in [Instance -> Status] /\ faults' \in 0..MaxFaults
        BY <2>5, <3>3, SweepTypes, ReportMoves DEF ProbeAlive, Event
      <4>. QED BY <1>6, <2>1, <2>2, <2>5, <3>3, <4>1, SweepTypes DEF SweepOne, ProbeAlive, Untrack, PreviewTypeOK, pvUp
    <3>. QED BY <3>1, <3>2, <3>3
  <2>. QED BY <1>6, <2>3, <2>4, <2>5 DEF SweepOne
<1>7. ASSUME NEW st \in sweep, SweepSkips(st) PROVE PreviewTypeOK'
  <2>1. faults' \in 0..MaxFaults BY <1>7, FaultMoves DEF SweepSkips
  <2>. QED BY <1>7, <2>1 DEF SweepSkips, PreviewTypeOK, pvApi, pvNode, pvUp, pvState
<1>. QED BY <1>1, <1>2, <1>3, <1>4, <1>5, <1>6, <1>7 DEF Loop

LEMMA OthersKeepTypes ==
    ASSUME PreviewTypeOK, TrackInv, PortKindInv, HandInv, SweepInv,
           SweepIdle \/ Restart \/ CaddyReloads \/ \E k \in Slot : ContainerDies(k)
    PROVE  PreviewTypeOK'
<1>. USE PreviewNames
<1>1. CASE SweepIdle
  <2>1. \A k \in Slot : active[k] # NoInst => stPort[k] \in AnyPort
    <3>1. SUFFICES ASSUME NEW k \in Slot, active[k] # NoInst PROVE stPort[k] \in AnyPort
      OBVIOUS
    <3>2. active[k] \in Instance /\ SlotOf[active[k]] = k BY <3>1 DEF PreviewTypeOK
    <3>. QED BY <3>1, <3>2 DEF PortKindInv, At
  <2>. QED BY <1>1, <2>1 DEF SweepIdle, PreviewTypeOK, pvApi, pvNode, pvUp, pvState
<1>2. CASE Restart
  BY <1>2, FaultMoves DEF Restart, Recover, PreviewTypeOK, TrackInv, NoHand, pvApi, pvNode
<1>3. CASE CaddyReloads
  BY <1>3, FaultMoves DEF CaddyReloads, PreviewTypeOK, pvApi, pvUp, pvState, pvLoop
<1>4. ASSUME NEW k \in Slot, ContainerDies(k) PROVE PreviewTypeOK'
  BY <1>4, FaultMoves DEF ContainerDies, PreviewTypeOK, pvApi, pvUp, pvState, pvLoop
<1>. QED BY <1>1, <1>2, <1>3, <1>4
-----------------------------------------------------------------------------
(* What a step makes of rows, of goroutines and of the ghosts.              *)

\* A new up clears the state it replaces, fails, or gets a free port.
LEMMA UpFetchMoves ==
    ASSUME PreviewTypeOK, NEW i \in Instance, UpFetch(i)
    PROVE  /\ flight[i] = "fetch" /\ i \in Runtime /\ apps' = apps \cup {SlotOf[i]}
           /\ \/ /\ flight' = [flight EXCEPT ![i] = "none"] /\ ReportTo(i, "failed")
                 /\ UNCHANGED <<port, misled>>
              \/ /\ flight' = [flight EXCEPT ![i] = "deploy"]
                 /\ \E p \in Free(SlotOf[i]) :
                      /\ port' = [port EXCEPT ![i] = p]
                      /\ \A j \in Instance : j # i /\ SlotOf[j] # SlotOf[i] /\ port[j] = p /\ Building(j) =>
                            {SlotOf[i], SlotOf[j]} \subseteq misled'
                 /\ misled \subseteq misled'
                 /\ UNCHANGED <<row, faults, lost>>
           /\ UNCHANGED <<shown, asks, box, boxPort, route, pvState, pvLoop, crossed>>
<1>. DEFINE k == SlotOf[i]
            p == CHOOSE q \in Free(k) : \A r \in Free(k) : q <= r
            near == {x \in Instance \ (Siblings(i) \cup {i}) : port[x] = p /\ flight[x] \notin {"none", "fetch"}}
            also == {SlotOf[j] : j \in near}
<1>1. Free(k) # {} => p \in Free(k) BY FreePort
<1>. HIDE DEF p
<1>2. CASE Free(k) = {}
  BY <1>2 DEF UpFetch, UpFails, Land, FindOrCreateApp
<1>3. CASE Free(k) # {}
  <2>1. /\ port' = [port EXCEPT ![i] = p] /\ flight' = [flight EXCEPT ![i] = "deploy"]
        /\ misled' = (IF also = {} THEN misled ELSE misled \cup also \cup {k})
        /\ UNCHANGED <<row, faults, lost>>
    BY <1>3 DEF UpFetch, p
  <2>2. ASSUME NEW j \in Instance, j # i, SlotOf[j] # SlotOf[i], port[j] = p, Building(j)
        PROVE  {SlotOf[i], SlotOf[j]} \subseteq misled'
    <3>1. j \in near BY <2>2 DEF Siblings, Building
    <3>2. SlotOf[j] \in also BY <3>1
    <3>. QED BY <2>1, <3>2
  <2>. HIDE DEF also
  <2>. QED BY <1>1, <1>3, <2>1, <2>2 DEF UpFetch, FindOrCreateApp
<1>. QED BY <1>2, <1>3

\* An up that fails, in one lemma.
LEMMA FailMoves ==
    ASSUME PreviewTypeOK, NEW i \in Instance, UpFails(i)
    PROVE  /\ flight' = [flight EXCEPT ![i] = "none"]
           /\ row' \in [Instance -> Status] /\ lost' \in {lost, lost \cup {i}}
           /\ \A j \in Instance \ {i} : row'[j] = row[j]
           /\ row'[i] = After(row[i], "failed") \/ (i \in lost' /\ row'[i] = row[i])
           /\ row'[i] = (IF row[i] \in Down THEN row[i] ELSE "failed") \/ (i \in lost' /\ row'[i] = row[i])
<1>. row[i] \in Status BY DEF PreviewTypeOK
<1>. QED BY ReportMoves, AfterIs DEF UpFails, Land, Event

\* What a step makes of a row.
RowMoves(j) ==
    /\ row'[j] = "ready" => row[j] = "ready" \/ (ApiBuilds(j) /\ row[j] = "building" /\ At(j) \in apps')
    /\ row'[j] = "building" => row[j] = "building" \/ (UpMaterialize(j) /\ row[j] = "up")
    /\ row'[j] = "running" => row[j] = "running" \/ (UpReport(j) /\ row[j] = "up") \/ (RegisterRoute(j) /\ row[j] = "ready")
    /\ row'[j] = "up" => row[j] = "up" \/ (Activate(j) /\ row[j] \in Down)
    /\ row'[j] = "stopping" => row[j] = "stopping" \/ (AskStop(j) /\ row[j] \notin Down)
    /\ row'[j] = "stopped" => row[j] = "stopped" \/ (ReportStopped /\ hand.inst = j /\ row[j] \in {"running", "stopping"})
    /\ row[j] \in Down => row'[j] = row[j] \/ Activate(j)

\* A report leaves every other row, or replaces it.
LEMMA ReportRows ==
    ASSUME PreviewTypeOK, NEW i \in Instance, NEW e \in Event, ReportTo(i, e), NEW j \in Instance
    PROVE  \/ row'[j] = row[j]
           \/ j = i /\ row'[j] = After(row[j], e)
           \/ j # i /\ e = "running" /\ row[j] = "running" /\ row'[j] = "replaced"
BY ReportMoves

LEMMA RowsMove == ASSUME PreviewInv, PreviewNext, NEW j \in Instance PROVE RowMoves(j)
<1>. USE DEF PreviewInv
<1>. row[j] \in Status BY DEF PreviewTypeOK
<1>0. ASSUME row'[j] = row[j] PROVE RowMoves(j) BY <1>0 DEF RowMoves
<1>a. ASSUME row'[j] = After(row[j], "failed") PROVE RowMoves(j) BY <1>a, AfterIs DEF RowMoves, Down
<1>b. ASSUME row'[j] = "replaced", row[j] = "running" PROVE RowMoves(j) BY <1>b DEF RowMoves, Down
<1>1. ASSUME NEW i \in Instance, Activate(i) \/ AskStop(i) PROVE RowMoves(j)
  BY <1>1 DEF Activate, AskStop, RowMoves, PreviewTypeOK, Down
<1>2. ASSUME NEW i \in Instance, ApiBuilds(i) PROVE RowMoves(j)
  BY <1>2 DEF ApiBuilds, RowMoves, PreviewTypeOK, Down, At
<1>3. ASSUME NEW i \in Instance, DispatchUp(i) \/ UpWire(i) \/ UpTrack(i) \/ DispatchStop(i) PROVE RowMoves(j)
  BY <1>3, <1>0 DEF DispatchUp, UpWire, UpTrack, DispatchStop, pvApi
<1>4. ASSUME NEW i \in Instance, UpFetch(i) PROVE RowMoves(j)
  BY <1>4, <1>0, <1>a, UpFetchMoves, ReportRows DEF Event
<1>5. ASSUME NEW i \in Instance, UpMaterialize(i) PROVE RowMoves(j)
  BY <1>5, <1>0, ReportRows, AfterIs DEF UpMaterialize, RowMoves, Event, Down
<1>6. ASSUME NEW i \in Instance, UpRefused(i) PROVE RowMoves(j)
  BY <1>6, <1>0, <1>a DEF UpRefused, PreviewTypeOK
<1>7. ASSUME NEW i \in Instance, UpDeploy(i) \/ UpReady(i) PROVE RowMoves(j)
  BY <1>7, <1>0, <1>a, FailMoves DEF UpDeploy, UpReady
<1>8. ASSUME NEW i \in Instance, UpReport(i) PROVE RowMoves(j)
  BY <1>8, <1>0, <1>b, ReportRows, AfterIs DEF UpReport, RowMoves, Event, Down
<1>9. ASSUME NEW i \in Instance, RegisterRoute(i) PROVE RowMoves(j)
  BY <1>9, <1>0, ReportRows, AfterIs DEF RegisterRoute, RowMoves, Event, Down, PreviewTypeOK
<1>10. CASE StopContainer \/ RemoveRoute \/ ClearState
  BY <1>10, <1>0 DEF StopContainer, RemoveRoute, ClearState, pvApi
<1>11. CASE StopRefused
  BY <1>11, <1>0, <1>a, HandTypes DEF StopRefused, PreviewTypeOK
<1>12. CASE ReportStopped
  BY <1>12, <1>0, HandTypes, ReportRows, AfterIs DEF ReportStopped, RowMoves, Event, Down
<1>13. ASSUME NEW st \in sweep, SweepOne(st) PROVE RowMoves(j)
  BY <1>13, <1>0, <1>a, SweepTypes, ReportRows DEF SweepOne, Traffic, IdleStop, ProbeAlive, Event
<1>14. ASSUME NEW st \in sweep, SweepSkips(st) PROVE RowMoves(j)
  BY <1>14, <1>0 DEF SweepSkips, pvApi
<1>15. CASE SweepIdle \/ Restart \/ CaddyReloads \/ \E k \in Slot : ContainerDies(k)
  BY <1>15, <1>0 DEF SweepIdle, Restart, CaddyReloads, ContainerDies, pvApi
<1>. QED BY <1>1, <1>2, <1>3, <1>4, <1>5, <1>6, <1>7, <1>8, <1>9, <1>10, <1>11, <1>12, <1>13, <1>14, <1>15
         DEF PreviewNext, Goroutine, Dispatch, Loop
LEMMA GhostsGrow == ASSUME PreviewInv, PreviewNext PROVE lost \subseteq lost' /\ misled \subseteq misled' /\ crossed \subseteq crossed'
<1>. USE DEF PreviewInv
<1>1. ASSUME NEW i PROVE crossed \subseteq Meets(i)
  BY DEF Meets
<1>2. ASSUME NEW i, NEW e, ReportTo(i, e) PROVE lost \subseteq lost'
  BY <1>2 DEF ReportTo
<1>3. ASSUME NEW i \in Instance, Activate(i) \/ AskStop(i) \/ ApiBuilds(i) \/ DispatchUp(i) PROVE UNCHANGED <<lost, misled, crossed>>
  BY <1>3 DEF Activate, AskStop, ApiBuilds, DispatchUp
<1>4. ASSUME NEW i \in Instance, Goroutine(i)
      PROVE  lost \subseteq lost' /\ misled \subseteq misled' /\ UNCHANGED crossed
  BY <1>4, <1>2, UpFetchMoves DEF Goroutine, UpMaterialize, UpRefused, UpDeploy, UpReady, UpWire, UpTrack, UpReport, UpFails
<1>5. ASSUME NEW i \in Instance, RegisterRoute(i) \/ DispatchStop(i)
      PROVE  lost \subseteq lost' /\ crossed \subseteq crossed' /\ UNCHANGED misled
  BY <1>5, <1>1, <1>2 DEF RegisterRoute, DispatchStop
<1>6. CASE StopContainer \/ RemoveRoute \/ StopRefused \/ ClearState \/ ReportStopped
  BY <1>6, <1>1, <1>2 DEF StopContainer, RemoveRoute, StopRefused, ClearState, ReportStopped
<1>7. ASSUME NEW st \in sweep, SweepOne(st) \/ SweepSkips(st)
      PROVE  lost \subseteq lost' /\ misled \subseteq misled' /\ crossed \subseteq crossed'
  BY <1>7, <1>1, <1>2 DEF SweepOne, SweepSkips, Traffic, IdleStop, ProbeAlive
<1>8. CASE SweepIdle \/ Restart \/ CaddyReloads \/ \E k \in Slot : ContainerDies(k)
  BY <1>8 DEF SweepIdle, Restart, CaddyReloads, ContainerDies
<1>. QED BY <1>3, <1>4, <1>5, <1>6, <1>7, <1>8 DEF PreviewNext, Dispatch, Loop

\* How an up gets on.
FlightMoves(j) ==
    /\ Flying(j)' => Flying(j) \/ DispatchUp(j)
    /\ Building(j)' => Building(j) \/ UpFetch(j)
    /\ flight'[j] = "track" => flight[j] = "track" \/ UpWire(j)
    /\ flight'[j] = "report" => flight[j] = "report" \/ UpTrack(j)
    /\ flight[j] = "report" => flight'[j] = "report" \/ UpReport(j) \/ Restart
    /\ flight[j] # "none" /\ flight'[j] = "none" => Goroutine(j) \/ Restart
LEMMA FlightsMove == ASSUME PreviewInv, PreviewNext, NEW j \in Instance PROVE FlightMoves(j)
<1>. USE DEF PreviewInv
<1>0. ASSUME flight'[j] = flight[j] PROVE FlightMoves(j) BY <1>0 DEF FlightMoves, Flying, Building
<1>1. ASSUME NEW i \in Instance, Activate(i) \/ AskStop(i) \/ ApiBuilds(i) \/ RegisterRoute(i) \/ DispatchStop(i) PROVE FlightMoves(j)
  BY <1>1, <1>0 DEF Activate, AskStop, ApiBuilds, RegisterRoute, DispatchStop, pvUp
<1>2. ASSUME NEW i \in Instance, DispatchUp(i) PROVE FlightMoves(j)
  BY <1>2 DEF DispatchUp, FlightMoves, Flying, Building, PreviewTypeOK
<1>3. ASSUME NEW i \in Instance, Goroutine(i) PROVE FlightMoves(j)
  <2>1. CASE UpFetch(i) BY <2>1, UpFetchMoves DEF FlightMoves, Flying, Building, PreviewTypeOK, Goroutine
  <2>2. CASE UpDeploy(i) \/ UpReady(i)
    BY <2>2, FailMoves DEF UpDeploy, UpReady, FlightMoves, Flying, Building, PreviewTypeOK, Goroutine
  <2>3. CASE UpMaterialize(i) \/ UpRefused(i) \/ UpReport(i)
    BY <2>3 DEF UpMaterialize, UpRefused, UpReport, Land, FlightMoves, Flying, Building, PreviewTypeOK, Goroutine
  <2>4. CASE UpWire(i) \/ UpTrack(i)
    BY <2>4 DEF UpWire, UpTrack, FlightMoves, Flying, Building, PreviewTypeOK, Goroutine
  <2>. QED BY <1>3, <2>1, <2>2, <2>3, <2>4 DEF Goroutine
<1>4. CASE StopContainer \/ RemoveRoute \/ StopRefused \/ ClearState \/ ReportStopped
  BY <1>4, <1>0 DEF StopContainer, RemoveRoute, StopRefused, ClearState, ReportStopped, pvUp
<1>5. ASSUME NEW st \in sweep, SweepOne(st) \/ SweepSkips(st) PROVE FlightMoves(j)
  BY <1>5, <1>0 DEF SweepOne, SweepSkips, pvUp
<1>6. CASE SweepIdle \/ CaddyReloads \/ \E k \in Slot : ContainerDies(k)
  BY <1>6, <1>0 DEF SweepIdle, CaddyReloads, ContainerDies, pvUp
<1>7. CASE Restart
  BY <1>7 DEF Restart, FlightMoves, Flying, Building
<1>. QED BY <1>1, <1>2, <1>3, <1>4, <1>5, <1>6, <1>7 DEF PreviewNext, Dispatch, Loop

-----------------------------------------------------------------------------
(* What a slot tracks, and what a step makes of ports, states and routes.   *)

\* The state file follows the state; what is tracked, runs or is routed has an application.
LEMMA TrackKept == ASSUME PreviewInv, PreviewTypeOK', PreviewNext PROVE TrackInv'
<1>. USE PreviewNames DEF PreviewInv
<1>. \A j \in Instance : row'[j] = "ready" => row[j] = "ready" \/ At(j) \in apps'
  BY RowsMove DEF RowMoves
<1>1. ASSUME NEW i \in Instance, Activate(i) \/ AskStop(i) PROVE TrackInv'
  BY <1>1 DEF Activate, AskStop, TrackInv, Building, PreviewTypeOK, pvNode, pvUp, pvState, pvLoop, Down
<1>2. ASSUME NEW i \in Instance, ApiBuilds(i) PROVE TrackInv'
  BY <1>2 DEF ApiBuilds, TrackInv, Building, At, PreviewTypeOK, pvState, pvLoop
<1>3. ASSUME NEW i \in Instance, DispatchUp(i) PROVE TrackInv'
  BY <1>3 DEF DispatchUp, TrackInv, Building, PreviewTypeOK, pvApi, pvNode, pvState, pvLoop
<1>4. ASSUME NEW i \in Instance, UpFetch(i) PROVE TrackInv'
  BY <1>4, UpFetchMoves DEF TrackInv, Building, At, PreviewTypeOK, pvState, pvLoop
<1>5. ASSUME NEW i \in Instance, UpMaterialize(i) \/ UpRefused(i) PROVE TrackInv'
  BY <1>5 DEF UpMaterialize, UpRefused, Land, TrackInv, Building, PreviewTypeOK, pvNode, pvState, pvLoop
<1>6. ASSUME NEW i \in Instance, UpDeploy(i) PROVE TrackInv'
  BY <1>6 DEF UpDeploy, UpFails, Land, TrackInv, Building, At, PreviewTypeOK, pvState, pvLoop
<1>7. ASSUME NEW i \in Instance, UpReady(i) PROVE TrackInv'
  BY <1>7 DEF UpReady, UpFails, Land, TrackInv, Building, PreviewTypeOK, pvNode, pvState, pvLoop
<1>8. ASSUME NEW i \in Instance, UpWire(i) PROVE TrackInv'
  BY <1>8 DEF UpWire, TrackInv, Building, At, PreviewTypeOK, pvApi, pvState, pvLoop
<1>9. ASSUME NEW i \in Instance, UpTrack(i) PROVE TrackInv'
  BY <1>9 DEF UpTrack, Track, TrackInv, Building, At, PreviewTypeOK, pvApi, pvNode, pvLoop
<1>10. ASSUME NEW i \in Instance, UpReport(i) PROVE TrackInv'
  BY <1>10 DEF UpReport, Land, TrackInv, Building, PreviewTypeOK, pvNode, pvState, pvLoop
<1>11. ASSUME NEW i \in Instance, RegisterRoute(i) PROVE TrackInv'
  BY <1>11 DEF RegisterRoute, Track, TrackInv, Building, At, PreviewTypeOK, pvUp, pvState, pvLoop
<1>12. ASSUME NEW i \in Instance, DispatchStop(i) PROVE TrackInv'
  BY <1>12 DEF DispatchStop, TrackInv, Building, PreviewTypeOK, pvApi, pvNode, pvUp, pvState
<1>13. CASE StopContainer
  BY <1>13, HandTypes DEF StopContainer, TrackInv, Building, PreviewTypeOK, pvApi, pvUp, pvState
<1>14. CASE RemoveRoute
  BY <1>14, HandTypes DEF RemoveRoute, TrackInv, Building, PreviewTypeOK, pvApi, pvUp, pvState
<1>15. CASE StopRefused
  BY <1>15 DEF StopRefused, TrackInv, Building, pvNode, pvUp, pvState
<1>16. CASE ClearState
  BY <1>16, HandTypes DEF ClearState, Untrack, TrackInv, Building, PreviewTypeOK, pvApi, pvNode, pvUp, pvState
<1>17. CASE ReportStopped
  BY <1>17 DEF ReportStopped, TrackInv, Building, pvNode, pvUp, pvState
<1>18. ASSUME NEW st \in sweep, SweepOne(st) PROVE TrackInv'
  <2>2. \/ UNCHANGED <<active, file>>
        \/ active' = [active EXCEPT ![st.slot] = NoInst] /\ file' = [file EXCEPT ![st.slot] = NoInst]
    BY <1>18 DEF SweepOne, Traffic, IdleStop, ProbeAlive, Untrack, pvState
  <2>3. UNCHANGED <<apps, box, flight>> /\ route' = [route EXCEPT ![st.inst] = st.at]
    BY <1>18 DEF SweepOne, pvUp
  <2>. QED BY <2>2, <2>3, SweepTypes DEF TrackInv, Building, At, PreviewTypeOK
<1>19. ASSUME NEW st \in sweep, SweepSkips(st) PROVE TrackInv'
  BY <1>19 DEF SweepSkips, TrackInv, Building, pvApi, pvNode, pvUp, pvState
<1>20. CASE SweepIdle
  BY <1>20 DEF SweepIdle, TrackInv, Building, pvApi, pvNode, pvUp, pvState
<1>21. CASE Restart
  BY <1>21 DEF Restart, Recover, TrackInv, Building, pvApi, pvNode
<1>22. CASE CaddyReloads
  BY <1>22 DEF CaddyReloads, TrackInv, Building, pvApi, pvUp, pvState
<1>23. ASSUME NEW k \in Slot, ContainerDies(k) PROVE TrackInv'
  BY <1>23 DEF ContainerDies, TrackInv, Building, PreviewTypeOK, pvApi, pvUp, pvState
<1>. QED BY <1>1, <1>2, <1>3, <1>4, <1>5, <1>6, <1>7, <1>8, <1>9, <1>10, <1>11, <1>12, <1>13, <1>14, <1>15, <1>16,
            <1>17, <1>18, <1>19, <1>20, <1>21, <1>22, <1>23 DEF PreviewNext, Goroutine, Dispatch, Loop
\* Another slot is of other instances.
LEMMA SlotsApart ==
    /\ \A i \in Session, j \in Runtime : SlotOf[i] # SlotOf[j] /\ i # j
    /\ \A i \in Session, j \in Instance : SlotOf[i] = SlotOf[j] => i = j
    /\ \A i \in Runtime, j \in Instance : SlotOf[i] = SlotOf[j] => j \in Runtime
BY PreviewNames

\* What a step makes of a port, of the state of a slot, of its container and of a route.
PortMoves(j) ==
    /\ \/ port'[j] = port[j]
       \/ UpFetch(j) /\ port'[j] \in Free(At(j))
       \/ row[j] = "building" /\ row'[j] = "ready" /\ port'[j] \in Allocable(j)
    /\ Building(j)' /\ ~Building(j) => UpFetch(j) /\ port'[j] \in Port
    /\ row'[j] = "ready" /\ row[j] # "ready" => port'[j] \in Allocable(j)
    /\ UpFetch(j) => j \in Runtime
StateMoves(k) ==
    \/ active'[k] = active[k] /\ stPort'[k] = stPort[k]
    \/ active'[k] = NoInst /\ stPort'[k] = stPort[k] /\ ClearState /\ At(hand.inst) = k
    \/ active'[k] = NoInst /\ stPort'[k] = stPort[k]
       /\ \E st \in sweep : SweepOne(st) /\ st.slot = k /\ crossed' = Meets(st.inst) /\ ReportTo(st.inst, "failed")
    \/ \E i \in Instance : /\ At(i) = k /\ active'[k] = i /\ stPort'[k] = port[i]
                           /\ (UpTrack(i) /\ flight[i] = "track") \/ (RegisterRoute(i) /\ row[i] = "ready")
BoxMoves(k) ==
    \/ box'[k] = box[k] /\ boxPort'[k] = boxPort[k]
    \/ box'[k] = NoInst
    \/ \E i \in Instance : /\ At(i) = k /\ box'[k] = i /\ boxPort'[k] = port'[i]
                           /\ (Building(i) /\ port'[i] = port[i]) \/ (row[i] = "building" /\ port'[i] \in Allocable(i))
RouteMoves(j) ==
    \/ route'[j] = route[j]
    \/ route'[j] = NoPort
    \/ route'[j] = port[j] /\ (flight[j] = "wire" \/ (RegisterRoute(j) /\ row[j] = "ready"))
    \/ \E st \in sweep : SweepOne(st) /\ st.inst = j /\ route'[j] = st.at

LEMMA PortsMove == ASSUME PreviewInv, PreviewNext, NEW j \in Instance PROVE PortMoves(j)
<1>. USE DEF PreviewInv
<1>. UpFetch(j) => j \in Runtime BY DEF UpFetch
<1>. row'[j] = "ready" /\ row[j] # "ready" => ApiBuilds(j) /\ row[j] = "building" BY RowsMove DEF RowMoves
<1>. ApiBuilds(j) /\ row[j] = "building" /\ row'[j] = "ready" => port'[j] \in Allocable(j)
  BY DEF ApiBuilds, PreviewTypeOK
<1>1. CASE \E i \in Instance : ApiBuilds(i)
  BY <1>1 DEF ApiBuilds, PortMoves, Building, PreviewTypeOK
<1>2. CASE \E i \in Instance : UpFetch(i)
  BY <1>2, UpFetchMoves DEF PortMoves, Building, PreviewTypeOK, At, Free
<1>3. CASE UNCHANGED port
  <2>1. Building(j)' /\ ~Building(j) => UpFetch(j) BY FlightsMove DEF FlightMoves
  <2>2. UpFetch(j) => flight'[j] = "none" \/ port'[j] \in Port BY UpFetchMoves DEF PreviewTypeOK, Free
  <2>. QED BY <1>3, <2>1, <2>2 DEF PortMoves, Building
<1>4. ASSUME NEW i \in Instance, Activate(i) \/ AskStop(i) \/ Dispatch(i) PROVE UNCHANGED port
  BY <1>4 DEF Activate, AskStop, Dispatch, DispatchUp, DispatchStop, RegisterRoute, pvUp
<1>5. ASSUME NEW i \in Instance, Goroutine(i), ~UpFetch(i) PROVE UNCHANGED port
  BY <1>5 DEF Goroutine, UpMaterialize, UpRefused, UpDeploy, UpReady, UpWire, UpTrack, UpReport
<1>6. CASE Loop
  BY <1>3, <1>6 DEF Loop, StopContainer, RemoveRoute, StopRefused, ClearState, ReportStopped, SweepOne, SweepSkips, pvUp
<1>7. CASE SweepIdle \/ Restart \/ CaddyReloads \/ \E k \in Slot : ContainerDies(k)
  BY <1>3, <1>7 DEF SweepIdle, Restart, CaddyReloads, ContainerDies, pvUp
<1>. QED BY <1>1, <1>2, <1>3, <1>4, <1>5, <1>6, <1>7 DEF PreviewNext

LEMMA StatesMove == ASSUME PreviewInv, PreviewNext, NEW k \in Slot PROVE StateMoves(k)
<1>. USE DEF PreviewInv
<1>0. ASSUME active'[k] = active[k], stPort'[k] = stPort[k] PROVE StateMoves(k) BY <1>0 DEF StateMoves
<1>1. ASSUME NEW i \in Instance, UpTrack(i) \/ RegisterRoute(i) PROVE StateMoves(k)
  <2>1. UNCHANGED pvState \/ Track(i) BY <1>1 DEF UpTrack, RegisterRoute
  <2>2. (UpTrack(i) /\ flight[i] = "track") \/ (RegisterRoute(i) /\ row[i] = "ready") BY <1>1 DEF UpTrack, RegisterRoute
  <2>. QED BY <2>1, <2>2, PreviewNames DEF Track, StateMoves, At, PreviewTypeOK, pvState
<1>2. ASSUME NEW s \in Slot, Untrack(s)
      PROVE  (active'[k] = NoInst /\ s = k /\ stPort'[k] = stPort[k]) \/ (active'[k] = active[k] /\ stPort'[k] = stPort[k])
  BY <1>2 DEF Untrack, PreviewTypeOK
<1>3. ASSUME NEW i \in Instance, Activate(i) \/ AskStop(i) \/ ApiBuilds(i) \/ DispatchUp(i) \/ DispatchStop(i) PROVE UNCHANGED <<active, stPort>>
  BY <1>3 DEF Activate, AskStop, ApiBuilds, DispatchUp, DispatchStop, pvState
<1>4. ASSUME NEW i \in Instance, Goroutine(i), ~UpTrack(i) PROVE UNCHANGED <<active, stPort>>
  BY <1>4, UpFetchMoves DEF Goroutine, UpMaterialize, UpRefused, UpDeploy, UpReady, UpWire, UpReport, pvState
<1>5. CASE Loop
  <2>1. CASE ClearState
    <3>1. Untrack(At(hand.inst)) /\ At(hand.inst) \in Slot BY <2>1, HandTypes DEF ClearState, At
    <3>. QED BY <1>2, <2>1, <3>1 DEF StateMoves
  <2>2. ASSUME NEW st \in sweep, SweepOne(st) PROVE StateMoves(k)
    <3>1. \/ UNCHANGED <<active, stPort>>
          \/ Untrack(st.slot) /\ crossed' = Meets(st.inst) /\ ReportTo(st.inst, "failed")
      BY <2>2 DEF SweepOne, Traffic, IdleStop, ProbeAlive, pvState
    <3>. QED BY <1>0, <1>2, <2>2, <3>1, SweepTypes DEF StateMoves
  <2>. QED BY <1>0, <1>5, <2>1, <2>2 DEF Loop, StopContainer, RemoveRoute, StopRefused, ReportStopped, SweepSkips, pvState
<1>6. CASE SweepIdle \/ Restart \/ CaddyReloads \/ \E s \in Slot : ContainerDies(s)
  BY <1>0, <1>6 DEF SweepIdle, Restart, Recover, CaddyReloads, ContainerDies, TrackInv, pvState
<1>. QED BY <1>0, <1>1, <1>3, <1>4, <1>5, <1>6 DEF PreviewNext, Dispatch

LEMMA BoxesMove == ASSUME PreviewInv, PreviewNext, NEW k \in Slot PROVE BoxMoves(k)
<1>. USE DEF PreviewInv
<1>0. ASSUME box'[k] = box[k], boxPort'[k] = boxPort[k] PROVE BoxMoves(k) BY <1>0 DEF BoxMoves
<1>1. ASSUME NEW i \in Instance, ApiBuilds(i) PROVE BoxMoves(k)
  BY <1>1, PreviewNames DEF ApiBuilds, BoxMoves, At, PreviewTypeOK
<1>2. ASSUME NEW i \in Instance, UpDeploy(i) PROVE BoxMoves(k)
  BY <1>2, PreviewNames DEF UpDeploy, BoxMoves, At, Building, PreviewTypeOK
<1>3. CASE StopContainer \/ \E s \in Slot : ContainerDies(s)
  BY <1>3, HandTypes DEF StopContainer, ContainerDies, BoxMoves, PreviewTypeOK, pvApi
<1>4. ASSUME NEW i \in Instance, Activate(i) \/ AskStop(i) \/ Dispatch(i) PROVE UNCHANGED <<box, boxPort>>
  BY <1>4 DEF Activate, AskStop, Dispatch, DispatchUp, DispatchStop, RegisterRoute, pvNode
<1>5. ASSUME NEW i \in Instance, Goroutine(i), ~UpDeploy(i) PROVE UNCHANGED <<box, boxPort>>
  BY <1>5, UpFetchMoves DEF Goroutine, UpMaterialize, UpRefused, UpReady, UpWire, UpTrack, UpReport, pvNode
<1>6. CASE Loop /\ ~StopContainer
  BY <1>0, <1>6 DEF Loop, RemoveRoute, StopRefused, ClearState, ReportStopped, SweepOne, SweepSkips, pvNode
<1>7. CASE SweepIdle \/ Restart \/ CaddyReloads
  BY <1>0, <1>7 DEF SweepIdle, Restart, CaddyReloads, pvNode
<1>. QED BY <1>0, <1>1, <1>2, <1>3, <1>4, <1>5, <1>6, <1>7 DEF PreviewNext

LEMMA RoutesMove == ASSUME PreviewInv, PreviewNext, NEW j \in Instance PROVE RouteMoves(j)
<1>. USE DEF PreviewInv
<1>0. ASSUME route'[j] = route[j] PROVE RouteMoves(j) BY <1>0 DEF RouteMoves
<1>1. ASSUME NEW i \in Instance, UpWire(i) \/ RegisterRoute(i) PROVE RouteMoves(j)
  BY <1>1 DEF UpWire, RegisterRoute, RouteMoves, PreviewTypeOK
<1>2. CASE RemoveRoute \/ CaddyReloads
  BY <1>2, HandTypes DEF RemoveRoute, CaddyReloads, RouteMoves, PreviewTypeOK
<1>3. ASSUME NEW st \in sweep, SweepOne(st) PROVE RouteMoves(j)
  <2>1. route' = [route EXCEPT ![st.inst] = st.at] BY <1>3 DEF SweepOne
  <2>. QED BY <1>3, <2>1 DEF RouteMoves, PreviewTypeOK
<1>4. ASSUME NEW i \in Instance, Activate(i) \/ AskStop(i) \/ ApiBuilds(i) \/ DispatchUp(i) \/ DispatchStop(i) PROVE UNCHANGED route
  BY <1>4 DEF Activate, AskStop, ApiBuilds, DispatchUp, DispatchStop, pvNode
<1>5. ASSUME NEW i \in Instance, Goroutine(i), ~UpWire(i) PROVE UNCHANGED route
  BY <1>5, UpFetchMoves DEF Goroutine, UpMaterialize, UpRefused, UpDeploy, UpReady, UpTrack, UpReport, pvNode
<1>6. CASE Loop
  BY <1>0, <1>2, <1>3, <1>6 DEF Loop, StopContainer, StopRefused, ClearState, ReportStopped, SweepSkips, pvNode
<1>7. CASE SweepIdle \/ Restart \/ \E s \in Slot : ContainerDies(s)
  BY <1>0, <1>7 DEF SweepIdle, Restart, ContainerDies, pvNode
<1>. QED BY <1>0, <1>1, <1>2, <1>3, <1>4, <1>5, <1>6, <1>7 DEF PreviewNext, Dispatch

-----------------------------------------------------------------------------
(* Kinds of previews and their rows.                                        *)

\* Runtime previews have ports of the node's range, session previews of the API's.
LEMMA KindKept == ASSUME PreviewInv, PreviewTypeOK', PreviewNext PROVE PortKindInv'
<1>. USE DEF PreviewInv
<1>1. ASSUME NEW i \in Runtime
      PROVE  /\ port'[i] \in Port \cup {NoPort} /\ (Building(i)' => port'[i] \in Port)
             /\ active'[At(i)] # NoInst => stPort'[At(i)] \in Port
             /\ box'[At(i)] # NoInst => boxPort'[At(i)] \in Port
             /\ row'[i] \notin {"building", "ready"}
  <2>1. i \in Instance /\ At(i) \in Slot /\ i \notin Session BY PreviewNames DEF At
  <2>2. \A j \in Instance : At(j) = At(i) => j \in Runtime BY SlotsApart DEF At
  <2>3. Free(At(i)) \subseteq Port BY DEF Free
  <2>4. port'[i] \in Port \cup {NoPort} /\ (Building(i)' => port'[i] \in Port)
    BY <2>1, <2>3, PortsMove DEF PortMoves, PortKindInv
  <2>5. row'[i] \notin {"building", "ready"}
    BY <2>1, RowsMove DEF RowMoves, UpMaterialize, PortKindInv
  <2>6. active'[At(i)] # NoInst => stPort'[At(i)] \in Port
    BY <2>1, <2>2, StatesMove DEF StateMoves, PortKindInv, Building
  <2>7. box'[At(i)] # NoInst => boxPort'[At(i)] \in Port
    BY <2>1, <2>2, BoxesMove DEF BoxMoves, PortKindInv
  <2>. QED BY <2>4, <2>5, <2>6, <2>7
<1>2. ASSUME NEW i \in Session
      PROVE  /\ port'[i] \in HostPort \cup {NoPort} /\ (row'[i] \in {"ready", "running"} => port'[i] \in HostPort)
             /\ active'[At(i)] # NoInst => stPort'[At(i)] \in HostPort
             /\ box'[At(i)] # NoInst => boxPort'[At(i)] \in HostPort
             /\ ~Building(i)'
  <2>1. i \in Instance /\ At(i) \in Slot /\ i \notin Runtime BY PreviewNames DEF At
  <2>2. \A j \in Instance : At(j) = At(i) => j = i BY SlotsApart DEF At
  <2>3. Allocable(i) \subseteq HostPort BY DEF Allocable
  <2>4. ~Building(i) /\ ~Building(i)' BY <2>1, PortsMove DEF PortMoves, PortKindInv
  <2>5. port'[i] \in HostPort \cup {NoPort} /\ (row[i] \in {"ready", "running"} => port'[i] \in HostPort)
    BY <2>1, <2>3, PortsMove DEF PortMoves, PortKindInv
  <2>6. ~UpReport(i) BY <2>4 DEF UpReport, Building
  <2>7. row'[i] \in {"ready", "running"} => port'[i] \in HostPort
    BY <2>1, <2>3, <2>5, <2>6, PortsMove, RowsMove DEF PortMoves, RowMoves
  <2>8. active'[At(i)] # NoInst => stPort'[At(i)] \in HostPort
    BY <2>1, <2>2, <2>4, StatesMove DEF StateMoves, PortKindInv, Building
  <2>9. box'[At(i)] # NoInst => boxPort'[At(i)] \in HostPort
    BY <2>1, <2>2, <2>3, <2>4, BoxesMove DEF BoxMoves, PortKindInv
  <2>. QED BY <2>4, <2>5, <2>7, <2>8, <2>9
<1>. QED BY <1>1, <1>2 DEF PortKindInv, Building, At

\* What a stop does to the ghost of crossed slots.
LEMMA MeetsIs ==
    ASSUME NEW i \in Instance
    PROVE  \A j \in Instance : At(j) = At(i) /\ (Flying(j) \/ (j # i /\ active[At(i)] = j)) => At(i) \in Meets(i)
BY PreviewNames DEF Meets, Flying, At

\* How a row goes down.
DownMoves(j) ==
    \/ Goroutine(j) /\ Flying(j) /\ flight'[j] = "none"
    \/ row[j] = "running" /\ \E i \in Siblings(j) : UpReport(i)
    \/ row[j] = "building" \/ row[j] = "ready"
    \/ StopRefused /\ hand.inst = j /\ ~hand.idle /\ hand # NoHand /\ j \in Runtime
    \/ ReportStopped /\ hand.inst = j /\ hand # NoHand
    \/ \E st \in sweep : /\ SweepOne(st) /\ st.inst = j /\ crossed' = Meets(j)
                         /\ active'[At(j)] = NoInst /\ hand' = NoHand

LEMMA RowsGoDown ==
    ASSUME PreviewInv, PreviewNext, NEW j \in Instance, row[j] \notin Down, row'[j] \in Down
    PROVE  DownMoves(j)
<1>. USE DEF PreviewInv
<1>. row[j] \in Status BY DEF PreviewTypeOK
<1>1. ASSUME NEW i \in Instance, Activate(i) \/ AskStop(i) \/ ApiBuilds(i) PROVE DownMoves(j)
  BY <1>1 DEF Activate, AskStop, ApiBuilds, PreviewTypeOK, Down, DownMoves
<1>2. ASSUME NEW i \in Instance, Dispatch(i) PROVE DownMoves(j)
  <2>1. RegisterRoute(i) => row[j] = "ready"
    BY ReportRows, AfterIs DEF RegisterRoute, PreviewTypeOK, Event, Down
  <2>. QED BY <1>2, <2>1 DEF Dispatch, DispatchUp, DispatchStop, pvApi, DownMoves
<1>3. ASSUME NEW i \in Instance, Goroutine(i) PROVE DownMoves(j)
  <2>1. UpFetch(i) => i = j /\ flight'[j] = "none" /\ Flying(j)
    BY UpFetchMoves, ReportRows DEF Event, PreviewTypeOK, Flying
  <2>2. UpDeploy(i) \/ UpReady(i) => i = j /\ flight'[j] = "none" /\ Flying(j)
    BY FailMoves DEF UpDeploy, UpReady, PreviewTypeOK, Flying
  <2>3. UpMaterialize(i) => i = j /\ flight'[j] = "none" /\ Flying(j)
    BY ReportRows DEF UpMaterialize, Land, PreviewTypeOK, Flying, Event
  <2>4. UpReport(i) => (i = j /\ flight'[j] = "none" /\ Flying(j)) \/ (i \in Siblings(j) /\ row[j] = "running")
    BY ReportMoves, PreviewNames DEF UpReport, Land, PreviewTypeOK, Flying, Event
  <2>5. UpRefused(i) => i = j /\ flight'[j] = "none" /\ Flying(j)
    BY DEF UpRefused, Land, PreviewTypeOK, Flying
  <2>. QED BY <1>3, <2>1, <2>2, <2>3, <2>4, <2>5 DEF Goroutine, UpWire, UpTrack, pvApi, DownMoves
<1>4. CASE StopContainer \/ RemoveRoute \/ ClearState \/ StopRefused
  <2>1. StopRefused => hand.inst = j /\ ~hand.idle /\ hand # NoHand /\ j \in Runtime
    BY HandTypes DEF StopRefused, PreviewTypeOK
  <2>. QED BY <1>4, <2>1 DEF StopContainer, RemoveRoute, ClearState, pvApi, DownMoves
<1>5. CASE ReportStopped
  BY <1>5, HandTypes, ReportRows DEF ReportStopped, Event, DownMoves
<1>6. ASSUME NEW st \in sweep, SweepOne(st) \/ SweepSkips(st) PROVE DownMoves(j)
  <2>1. /\ SweepOne(st) /\ ReportTo(st.inst, "failed") /\ crossed' = Meets(st.inst)
        /\ Untrack(st.slot) /\ hand' = NoHand
    BY <1>6 DEF SweepOne, SweepSkips, Traffic, IdleStop, ProbeAlive, pvApi
  <2>2. st.inst = j BY <2>1, ReportRows, SweepTypes DEF Event
  <2>3. active'[At(j)] = NoInst BY <2>1, <2>2, SweepTypes DEF Untrack, PreviewTypeOK, At
  <2>. QED BY <2>1, <2>2, <2>3 DEF DownMoves
<1>7. CASE SweepIdle \/ Restart \/ CaddyReloads \/ \E k \in Slot : ContainerDies(k)
  BY <1>7 DEF SweepIdle, Restart, CaddyReloads, ContainerDies, pvApi
<1>. QED BY <1>1, <1>2, <1>3, <1>4, <1>5, <1>6, <1>7 DEF PreviewNext, Loop

\* A row goes down when its goroutine ends, or the slot is known to be crossed.
LEMMA DownMeets ==
    ASSUME PreviewInv, PreviewNext, NEW j \in Instance, row[j] \notin Down, row'[j] \in Down, Flying(j), Flying(j)'
    PROVE  At(j) \in crossed'
<1>. USE DEF PreviewInv
<1>1. row[j] \in {"up", "stopping"} BY DEF RowInv
<1>2. StopRefused /\ hand.inst = j /\ ~hand.idle => hand = NoHand BY DEF HandInv
<1>3. ReportStopped /\ hand.inst = j /\ hand # NoHand => At(j) \in crossed' BY DEF ReportStopped, HandInv
<1>4. crossed' = Meets(j) => At(j) \in crossed' BY MeetsIs
<1>. QED BY <1>1, <1>2, <1>3, <1>4, RowsGoDown DEF DownMoves, Flying

\* An up in flight has a row that waits for it, unless the slot is crossed.
LEMMA RowKept == ASSUME PreviewInv, PreviewTypeOK', PreviewNext PROVE RowInv'
<1>. USE DEF PreviewInv
<1>2. ASSUME NEW i \in Instance, Flying(i)'
      PROVE  row'[i] \in Down \cup {"up", "stopping"} /\ (row'[i] \in Down => At(i) \in crossed')
  <2>1. CASE Flying(i)
    <3>1. row'[i] \in Down \cup {"up", "stopping"}
      <4>1. row[i] \in Down \cup {"up", "stopping"} BY <2>1 DEF RowInv
      <4>2. ~UpMaterialize(i) /\ ~UpReport(i) BY <1>2 DEF UpMaterialize, UpReport, Land, Flying, PreviewTypeOK
      <4>3. row'[i] \in Status BY DEF PreviewTypeOK
      <4>. QED BY <4>1, <4>2, <4>3, RowsMove DEF RowMoves, Status, Down
    <3>. QED BY DownMeets, <1>2, <2>1, <3>1, GhostsGrow DEF RowInv
  <2>2. CASE ~Flying(i)
    <3>1. DispatchUp(i) BY <1>2, <2>2, FlightsMove DEF FlightMoves
    <3>. QED BY <3>1 DEF DispatchUp, pvApi, Down
  <2>. QED BY <2>1, <2>2
<1>3. ASSUME NEW i \in Instance, NEW j \in Instance, j \in Siblings(i), row'[i] = "up"
      PROVE  row'[j] # "up" /\ (Flying(j)' => At(i) \in crossed')
  <2>. i \in Siblings(j) /\ j # i /\ At(j) = At(i) BY <1>3, PreviewNames DEF At
  <2>. i \in Runtime /\ j \in Runtime BY <1>3, PreviewNames
  <2>1. CASE row[i] = "up"
    <3>1. row[j] # "up" BY <1>3, <2>1 DEF RowInv
    <3>2. ~Activate(j) BY <1>3, <2>1 DEF Activate, Down
    <3>3. row'[j] # "up" BY <3>1, <3>2, RowsMove DEF RowMoves
    <3>4. ~DispatchUp(j) BY <3>1 DEF DispatchUp
    <3>. QED BY <1>3, <2>1, <3>3, <3>4, FlightsMove, GhostsGrow DEF FlightMoves, RowInv
  <2>2. CASE row[i] # "up"
    <3>1. Activate(i) BY <1>3, <2>2, RowsMove DEF RowMoves
    <3>2. row[j] \in Down \cup {"running"} /\ row'[j] = row[j] /\ UNCHANGED <<flight, crossed>>
      BY <1>3, <3>1 DEF Activate, PreviewTypeOK, pvUp
    <3>. QED BY <3>2 DEF RowInv, Down, Flying
  <2>. QED BY <2>1, <2>2
<1>4. ASSUME NEW i \in Instance, NEW j \in Instance, j \in Siblings(i), Flying(i)', Flying(j)'
      PROVE  At(i) \in crossed'
  <2>. i \in Siblings(j) /\ j # i /\ At(j) = At(i) BY <1>4, PreviewNames DEF At
  <2>1. CASE Flying(i) /\ Flying(j) BY <1>4, <2>1, GhostsGrow DEF RowInv
  <2>2. CASE ~Flying(i)
    <3>1. DispatchUp(i) BY <1>4, <2>2, FlightsMove DEF FlightMoves
    <3>2. row[i] = "up" /\ Flying(j) BY <1>4, <3>1 DEF DispatchUp, Flying, PreviewTypeOK
    <3>. QED BY <1>4, <3>2, GhostsGrow DEF RowInv
  <2>3. CASE ~Flying(j)
    <3>1. DispatchUp(j) BY <1>4, <2>3, FlightsMove DEF FlightMoves
    <3>2. row[j] = "up" /\ Flying(i) BY <1>4, <3>1 DEF DispatchUp, Flying, PreviewTypeOK
    <3>. QED BY <1>4, <3>2, GhostsGrow DEF RowInv
  <2>. QED BY <2>1, <2>2, <2>3
<1>. QED BY <1>2, <1>3, <1>4 DEF RowInv, Siblings, At
-----------------------------------------------------------------------------
(* The loop: a stop, and the rest of a sweep.                               *)

LEMMA NoHandIs == HandInv /\ hand.step = "none" => hand = NoHand
BY DEF HandInv

LEMMA HandInvIs ==
    ASSUME hand.inst \in Instance, hand.who \in Instance \cup {NoInst}, hand.idle \in BOOLEAN,
           hand.step \in {"container", "route", "clear", "report"},
           hand = [inst |-> hand.inst, who |-> hand.who, idle |-> hand.idle, step |-> hand.step],
           hand.step \in {"container", "route"} => hand.who # NoInst,
           hand.idle => hand.who = hand.inst,
           ~hand.idle => row[hand.inst] # "running" /\ ~Flying(hand.inst),
           \A j \in Instance : At(j) = At(hand.inst) /\ Flying(j) => At(hand.inst) \in crossed,
           hand.who \in {hand.inst, NoInst} \/ At(hand.inst) \in crossed,
           hand.step = "report" /\ (At(hand.inst) \notin crossed \/ hand.inst \in Session) => active[At(hand.inst)] = NoInst,
           hand.step \in {"clear", "report"} /\ At(hand.inst) \notin crossed => route[hand.inst] = NoPort,
           hand.step \in {"route", "clear", "report"} /\ At(hand.inst) \notin crossed /\ hand.inst \notin lost
             => box[At(hand.inst)] # hand.inst
    PROVE  HandInv
BY DEF HandInv

\* While the loop is in a stop, what it has done stays done.
LEMMA HandHolds ==
    ASSUME PreviewInv, PreviewTypeOK', PreviewNext, hand # NoHand
    PROVE  LET i == hand.inst IN
           /\ ~hand.idle => row'[i] # "running" /\ flight'[i] = "none"
           /\ \A j \in Instance : At(j) = At(i) /\ Flying(j)' => At(i) \in crossed'
           /\ hand.step = "report" /\ (At(i) \notin crossed' \/ i \in Session) => active'[At(i)] = NoInst
           /\ hand.step \in {"clear", "report"} /\ At(i) \notin crossed' => route'[i] = NoPort
           /\ hand.step \in {"route", "clear", "report"} /\ At(i) \notin crossed' /\ i \notin lost' => box'[At(i)] # i
<1>. DEFINE i == hand.inst
<1>. USE DEF PreviewInv
<1>1. i \in Instance /\ At(i) \in Slot /\ crossed \subseteq crossed' /\ lost \subseteq lost'
  BY GhostsGrow, PreviewNames DEF HandInv, At
<1>2. \A j \in Instance : ~DispatchUp(j) /\ ~RegisterRoute(j)
  BY DEF DispatchUp, RegisterRoute, Idle
<1>3. \A st \in sweep : ~SweepOne(st) BY DEF SweepOne
<1>4. ~hand.idle => row[i] # "running" /\ ~Flying(i) BY DEF HandInv
<1>5. \A j \in Instance : At(j) = At(i) /\ Flying(j) => At(i) \in crossed BY DEF HandInv
<1>6. \A j \in Instance : Flying(j)' => Flying(j) BY <1>2, FlightsMove DEF FlightMoves
<1>7. \A j \in Instance : UpReport(j) => Flying(j) BY DEF UpReport, Flying
<1>8. ~hand.idle => row'[i] # "running" BY <1>1, <1>2, <1>4, <1>7, RowsMove DEF RowMoves
<1>9. hand.step = "report" /\ (At(i) \notin crossed' \/ i \in Session) => active'[At(i)] = NoInst
  <2>1. \A j \in Instance : flight[j] = "track" => Flying(j) /\ Building(j) BY DEF Flying, Building
  <2>2. i \in Session => ~Building(i) /\ \A j \in Instance : At(j) = At(i) => j = i BY <1>1, SlotsApart DEF PortKindInv, At
  <2>3. hand.step = "report" /\ (At(i) \notin crossed \/ i \in Session) => active[At(i)] = NoInst BY DEF HandInv
  <2>. QED BY <1>1, <1>2, <1>5, <2>1, <2>2, <2>3, StatesMove DEF StateMoves
<1>10. hand.step \in {"clear", "report"} /\ At(i) \notin crossed' => route'[i] = NoPort
  <2>1. hand.step \in {"clear", "report"} /\ At(i) \notin crossed => route[i] = NoPort BY DEF HandInv
  <2>2. flight[i] = "wire" => Flying(i) BY DEF Flying
  <2>. QED BY <1>1, <1>2, <1>3, <1>5, <2>1, <2>2, RoutesMove DEF RouteMoves
<1>11. hand.step \in {"route", "clear", "report"} /\ At(i) \notin crossed' /\ i \notin lost' => box'[At(i)] # i
  <2>1. hand.step \in {"route", "clear", "report"} /\ At(i) \notin crossed /\ i \notin lost => box[At(i)] # i
    BY DEF HandInv
  <2>2. \A j \in Instance : Building(j) => Flying(j) BY DEF Building, Flying
  <2>3. i \notin lost => row[i] # "building"
    BY <1>1, PreviewNames DEF SessionPortInv, PortKindInv
  <2>4. i # NoInst BY <1>1, PreviewNames
  <2>5. box'[At(i)] = i => box[At(i)] = i \/ Building(i) \/ row[i] = "building"
    BY <1>1, <2>4, BoxesMove DEF BoxMoves
  <2>. QED BY <1>1, <1>5, <2>1, <2>2, <2>3, <2>5
<1>12. ~hand.idle => row'[i] # "running" /\ flight'[i] = "none" BY <1>1, <1>4, <1>6, <1>8 DEF Flying
<1>13. \A j \in Instance : At(j) = At(i) /\ Flying(j)' => At(i) \in crossed' BY <1>1, <1>5, <1>6
<1>. QED BY <1>9, <1>10, <1>11, <1>12, <1>13

\* What a stop has undone stays undone while it is under way.
LEMMA HandKept == ASSUME PreviewInv, PreviewTypeOK', PreviewNext PROVE HandInv'
<1>. USE DEF PreviewInv
<1>1. CASE hand' = hand
  <2>1. CASE hand = NoHand BY <1>1, <2>1 DEF HandInv, NoHand
  <2>2. CASE hand # NoHand
    <3>1. hand' = hand /\ hand.inst \in Instance /\ At(hand.inst)' = At(hand.inst)
      BY <1>1, <2>2 DEF HandInv, At
    <3>. QED BY <3>1, <2>2, HandHolds, GhostsGrow DEF HandInv, Flying
  <2>. QED BY <2>1, <2>2
<1>2. CASE hand' = NoHand
  BY <1>2 DEF HandInv, NoHand
<1>3. ASSUME NEW i \in Instance, Activate(i) \/ AskStop(i) \/ ApiBuilds(i) \/ Goroutine(i) \/ DispatchUp(i) \/ RegisterRoute(i) PROVE hand' = hand
  BY <1>3, UpFetchMoves DEF Activate, AskStop, ApiBuilds, Goroutine, UpMaterialize, UpRefused, UpDeploy, UpReady, UpWire, UpTrack, UpReport,
     DispatchUp, RegisterRoute, pvLoop
<1>4. ASSUME NEW i \in Instance, DispatchStop(i) PROVE HandInv'
  <2>. DEFINE who == IF i \in Runtime THEN RuntimeTarget(i) ELSE SessionTarget(i)
  <2>1. /\ row[i] = "stopping" /\ flight[i] = "none" /\ crossed' = Meets(i)
        /\ hand' = [inst |-> i, who |-> who, idle |-> FALSE, step |-> IF who = NoInst THEN "clear" ELSE "container"]
        /\ UNCHANGED <<pvApi, pvNode, pvUp, pvState, lost>>
    BY <1>4 DEF DispatchStop
  <2>2. At(i) \in Slot /\ i # NoInst BY PreviewNames DEF At
  <2>3. who \in Instance \cup {NoInst} /\ (who # NoInst => At(who) = At(i))
        /\ (who \notin {i, NoInst} => At(i) \in crossed')
    BY <2>1, <2>2, MeetsIs DEF RuntimeTarget, SessionTarget, PreviewTypeOK, At
  <2>4. who = NoInst => At(i) \notin apps BY <2>2 DEF RuntimeTarget, SessionTarget, At
  <2>5. At(i) \notin apps => box[At(i)] = NoInst /\ route[i] = NoPort BY <2>2 DEF TrackInv
  <2>6. \A j \in Instance : At(j) = At(i) /\ Flying(j) => At(i) \in crossed' BY <2>1, MeetsIs
  <2>. HIDE DEF who
  <2>7. /\ hand'.inst = i /\ hand'.who = who /\ hand'.idle = FALSE
        /\ hand'.step = IF who = NoInst THEN "clear" ELSE "container"
    BY <2>1
  <2>8. hand' \in [inst : Instance \cup {NoInst}, who : Instance \cup {NoInst}, idle : BOOLEAN,
                   step : {"none", "container", "route", "clear", "report"}]
    BY <2>1, <2>3
  <2>9. UNCHANGED <<row, flight, active, route, box, lost>> BY <2>1 DEF pvApi, pvNode, pvUp, pvState
  <2>. QED BY <2>1, <2>2, <2>3, <2>4, <2>5, <2>6, <2>7, <2>8, <2>9 DEF HandInv, Flying, At
<1>5. CASE StopContainer
  <2>1. /\ hand' = [hand EXCEPT !.step = "route"] /\ hand.step = "container" /\ hand # NoHand
        /\ box' = [box EXCEPT ![SlotOf[hand.inst]] = NoInst]
    BY <1>5, HandTypes DEF StopContainer
  <2>2. box'[At(hand.inst)] # hand.inst BY <2>1, HandTypes, PreviewNames DEF At, PreviewTypeOK
  <2>. QED BY <2>1, <2>2, HandTypes, HandHolds, GhostsGrow DEF HandInv, At, Flying
<1>6. CASE RemoveRoute
  <2>1. /\ hand' = [hand EXCEPT !.step = "clear"] /\ hand.step = "route" /\ hand # NoHand
        /\ route' = [route EXCEPT ![hand.who] = NoPort]
    BY <1>6, HandTypes DEF RemoveRoute
  <2>2. At(hand.inst) \in crossed' \/ route'[hand.inst] = NoPort
    BY <2>1, HandTypes, GhostsGrow DEF HandInv, PreviewTypeOK
  <2>. QED BY <2>1, <2>2, HandTypes, HandHolds, GhostsGrow DEF HandInv, At, Flying
<1>7. CASE ClearState
  <2>1. /\ hand' = [hand EXCEPT !.step = "report"] /\ hand.step = "clear" /\ hand # NoHand
        /\ active' = [active EXCEPT ![SlotOf[hand.inst]] = NoInst]
    BY <1>7, HandTypes DEF ClearState, Untrack
  <2>2. active'[At(hand.inst)] = NoInst BY <2>1, HandTypes DEF At, PreviewTypeOK
  <2>. QED BY <2>1, <2>2, HandTypes, HandHolds, GhostsGrow DEF HandInv, At, Flying
<1>8. CASE StopRefused \/ ReportStopped \/ Restart
  BY <1>2, <1>8 DEF StopRefused, ReportStopped, Restart
<1>9. ASSUME NEW st \in sweep, SweepOne(st) PROVE HandInv'
  <2>1. CASE IdleStop(st)
    <3>1. /\ hand' = [inst |-> st.inst, who |-> st.inst, idle |-> TRUE, step |-> "container"]
          /\ crossed' = Meets(st.inst) /\ UNCHANGED flight
      BY <1>9, <2>1 DEF IdleStop, SweepOne, pvUp
    <3>2. \A j \in Instance : At(j) = At(st.inst) /\ Flying(j) => At(st.inst) \in crossed'
      BY <3>1, SweepTypes, MeetsIs
    <3>3. hand'.inst = st.inst /\ hand'.who = st.inst /\ hand'.idle = TRUE /\ hand'.step = "container"
      BY <3>1
    <3>4. st.inst \in Instance /\ st.inst # NoInst BY SweepTypes, PreviewNames
    <3>. QED BY <3>1, <3>2, <3>3, <3>4 DEF HandInv, Flying, At
  <2>2. CASE Traffic(st) \/ ProbeAlive(st)
    BY <1>1, <2>2 DEF Traffic, ProbeAlive
  <2>. QED BY <1>9, <2>1, <2>2 DEF SweepOne
<1>10. CASE SweepIdle \/ CaddyReloads \/ (\E k \in Slot : ContainerDies(k)) \/ \E st \in sweep : SweepSkips(st)
  BY <1>1, <1>10 DEF SweepIdle, CaddyReloads, ContainerDies, SweepSkips, pvLoop
<1>. QED BY <1>1, <1>3, <1>4, <1>5, <1>6, <1>7, <1>8, <1>9, <1>10 DEF PreviewNext, Dispatch, Loop
\* What a step makes of the list of a sweep.
LEMMA SweepsMove ==
    ASSUME PreviewInv, PreviewNext
    PROVE  \/ sweep' = sweep /\ (hand' = hand \/ hand' = NoHand \/ (hand # NoHand /\ hand'.inst = hand.inst) \/ (sweep = {} /\ hand = NoHand))
           \/ sweep' = {}
           \/ \E st \in sweep : sweep' = sweep \ {st} /\ hand = NoHand /\ (hand' = NoHand \/ hand'.inst = st.inst)
                                /\ (SweepOne(st) \/ UNCHANGED <<active, stPort>>)
           \/ SweepIdle /\ sweep = {}
<1>. USE DEF PreviewInv
<1>1. ASSUME NEW i \in Instance, Activate(i) \/ AskStop(i) \/ ApiBuilds(i) \/ Goroutine(i) \/ DispatchUp(i) \/ RegisterRoute(i)
      PROVE  UNCHANGED <<sweep, hand>>
  BY <1>1, UpFetchMoves DEF Activate, AskStop, ApiBuilds, Goroutine, UpMaterialize, UpRefused, UpDeploy, UpReady, UpWire, UpTrack, UpReport,
     DispatchUp, RegisterRoute, pvLoop
<1>2. ASSUME NEW i \in Instance, DispatchStop(i) PROVE sweep' = sweep /\ sweep = {} /\ hand = NoHand
  BY <1>2 DEF DispatchStop, Idle
<1>3. CASE StopContainer \/ RemoveRoute \/ ClearState
  BY <1>3, HandTypes DEF StopContainer, RemoveRoute, ClearState
<1>4. CASE StopRefused \/ ReportStopped
  BY <1>4 DEF StopRefused, ReportStopped
<1>5. ASSUME NEW st \in sweep, SweepOne(st)
      PROVE  sweep' = sweep \ {st} /\ hand = NoHand /\ (hand' = NoHand \/ hand'.inst = st.inst)
  BY <1>5 DEF SweepOne, Traffic, IdleStop, ProbeAlive
<1>6. ASSUME NEW st \in sweep, SweepSkips(st)
      PROVE  sweep' = sweep \ {st} /\ hand = NoHand /\ hand' = NoHand /\ UNCHANGED <<active, stPort>>
  BY <1>6 DEF SweepSkips, pvState
<1>7. SweepIdle => sweep = {} BY DEF SweepIdle, Idle
<1>8. Restart => sweep' = {} BY DEF Restart
<1>9. CaddyReloads \/ (\E k \in Slot : ContainerDies(k)) => UNCHANGED <<sweep, hand>>
  BY DEF CaddyReloads, ContainerDies, pvLoop
<1>. QED BY <1>1, <1>2, <1>3, <1>4, <1>5, <1>6, <1>7, <1>8, <1>9 DEF PreviewNext, Dispatch, Loop

\* An application is never deleted.
LEMMA AppsGrow == ASSUME PreviewInv, PreviewNext PROVE apps \subseteq apps'
<1>. USE DEF PreviewInv
<1>1. ASSUME NEW i \in Instance, Activate(i) \/ AskStop(i) \/ ApiBuilds(i) \/ Goroutine(i) \/ Dispatch(i) PROVE apps \subseteq apps'
  BY <1>1, UpFetchMoves DEF Activate, AskStop, ApiBuilds, Goroutine, UpMaterialize, UpRefused, UpDeploy, UpReady, UpWire, UpTrack, UpReport,
     Dispatch, DispatchUp, DispatchStop, RegisterRoute, pvNode
<1>2. CASE Loop
  BY <1>2 DEF Loop, StopContainer, RemoveRoute, StopRefused, ClearState, ReportStopped, SweepOne, SweepSkips, pvNode
<1>3. CASE SweepIdle \/ Restart \/ CaddyReloads \/ \E k \in Slot : ContainerDies(k)
  BY <1>3 DEF SweepIdle, Restart, CaddyReloads, ContainerDies, pvNode
<1>. QED BY <1>1, <1>2, <1>3 DEF PreviewNext

\* A sweep holds at most one state of a slot.
LEMMA SweepKept == ASSUME PreviewInv, PreviewTypeOK', PreviewNext PROVE SweepInv'
<1>. USE DEF PreviewInv
<1>1. CASE sweep' = {} BY <1>1 DEF SweepInv
<1>2. CASE SweepIdle
  <2>1. /\ sweep' = {[slot |-> k, inst |-> active[k], at |-> stPort[k], fails |-> fails[k]] :
                        k \in {s \in Slot : active[s] # NoInst}}
        /\ hand' = NoHand /\ UNCHANGED <<apps, active, stPort>>
    BY <1>2 DEF SweepIdle, Idle, pvNode, pvState
  <2>2. ASSUME NEW st \in sweep'
        PROVE  \E k \in Slot : /\ st = [slot |-> k, inst |-> active[k], at |-> stPort[k], fails |-> fails[k]]
                               /\ active[k] # NoInst
    BY <2>1
  <2>3. \A k \in Slot : active[k] # NoInst => At(active[k]) = k /\ k \in apps /\ active[k] \in Instance
    BY DEF TrackInv, PreviewTypeOK
  <2>4. \A st \in sweep' : At(st.inst) = st.slot /\ st.slot \in apps' /\ active'[st.slot] = st.inst /\ stPort'[st.slot] = st.at
                           /\ (st.inst \in Runtime => st.at \in Port)
    BY <2>1, <2>2, <2>3 DEF PortKindInv
  <2>5. \A st, tt \in sweep' : st.slot = tt.slot => st = tt BY <2>2
  <2>. QED BY <2>1, <2>4, <2>5 DEF SweepInv, At
<1>3. CASE sweep' \subseteq sweep /\ sweep # {} /\ ~Restart
  <2>1. ASSUME NEW st \in sweep', st.inst \in Session PROVE active'[st.slot] = st.inst /\ stPort'[st.slot] = st.at
    <3>1. st \in sweep /\ st.slot \in Slot /\ st.inst \in Instance /\ active[st.slot] = st.inst /\ stPort[st.slot] = st.at /\ At(st.inst) = st.slot
      BY <1>3, <2>1, SweepTypes DEF SweepInv, At
    <3>2. ClearState => At(hand.inst) # st.slot BY <3>1, HandTypes DEF ClearState, SweepInv
    <3>3. \A tt \in sweep : SweepOne(tt) => tt.slot # st.slot BY <2>1, <3>1 DEF SweepOne, SweepInv
    <3>4. \A i \in Instance : ~RegisterRoute(i) BY <1>3 DEF RegisterRoute, Idle
    <3>5. \A i \in Instance : At(i) = st.slot => flight[i] # "track"
      BY <2>1, <3>1, SlotsApart DEF PortKindInv, Building, At
    <3>. QED BY <3>1, <3>2, <3>3, <3>4, <3>5, StatesMove DEF StateMoves
  <2>2. ASSUME NEW st \in sweep', hand' # NoHand PROVE st.slot # At(hand'.inst)
    <3>1. CASE sweep' = sweep
      <4>1. hand' = hand \/ (hand # NoHand /\ hand'.inst = hand.inst)
        BY <1>3, <2>2, <3>1, SweepsMove DEF SweepIdle
      <4>2. hand # NoHand BY <2>2, <4>1
      <4>. QED BY <3>1, <4>1, <4>2 DEF SweepInv
    <3>2. CASE sweep' # sweep
      <4>1. PICK tt \in sweep : sweep' = sweep \ {tt} /\ hand'.inst = tt.inst
        BY <1>3, <2>2, <3>2, SweepsMove
      <4>. QED BY <4>1 DEF SweepInv
    <3>. QED BY <3>1, <3>2
  <2>. QED BY <1>3, <2>1, <2>2, AppsGrow DEF SweepInv, At
<1>4. CASE Restart BY <1>1, <1>4 DEF Restart
<1>. QED BY <1>1, <1>2, <1>3, <1>4, SweepsMove
-----------------------------------------------------------------------------
(* Ports.                                                                   *)

\* A slot has a claim on a port since it was allocated to an up of the slot.
LEMMA ClaimsMove ==
    ASSUME PreviewInv, PreviewNext, NEW k \in Slot, NEW p \in Port, Claims(k, p)'
    PROVE  \/ Claims(k, p)
           \/ \E i \in Instance : /\ At(i) = k /\ UpFetch(i) /\ Building(i)' /\ port'[i] = p
<1>. USE DEF PreviewInv
<1>. p \notin HostPort BY PreviewNames
<1>1. CASE active'[k] # NoInst /\ stPort'[k] = p
  <2>1. \A i \in Instance : row[i] = "ready" => port[i] \in HostPort BY PreviewNames DEF PortKindInv
  <2>2. \A i \in Instance : flight[i] = "track" => Building(i) BY DEF Building
  <2>. QED BY <1>1, <2>1, <2>2, StatesMove DEF StateMoves, Claims
<1>2. CASE box'[k] # NoInst /\ boxPort'[k] = p
  <2>1. \A i : Allocable(i) \subseteq HostPort BY DEF Allocable
  <2>. QED BY <1>2, <2>1, BoxesMove DEF BoxMoves, Claims
<1>3. ASSUME NEW i \in Instance, At(i) = k, Building(i)', port'[i] = p
      PROVE  Claims(k, p) \/ UpFetch(i)
  <2>1. CASE Building(i)
    <3>1. ~UpFetch(i) /\ row[i] # "building" BY <2>1 DEF UpFetch, Building, Flying, RowInv, Down
    <3>2. port'[i] = port[i] BY <3>1, PortsMove DEF PortMoves
    <3>. QED BY <1>3, <2>1, <3>2 DEF Claims
  <2>. QED BY <1>3, <2>1, PortsMove DEF PortMoves
<1>. QED BY <1>1, <1>2, <1>3 DEF Claims, At, Building

\* A port given to an up is free, or every slot that has it is misled.
LEMMA FetchedPort ==
    ASSUME PreviewInv, NEW i \in Instance, UpFetch(i), Building(i)'
    PROVE  /\ port'[i] \in Free(At(i))
           /\ \A j \in Instance \ {i} : flight'[j] = flight[j]
           /\ \A l \in Slot : l # At(i) /\ Claims(l, port'[i]) => {l, At(i)} \subseteq misled'
<1>. USE DEF PreviewInv
<1>1. flight' # [flight EXCEPT ![i] = "none"] BY DEF Building, PreviewTypeOK
<1>2. PICK p \in Free(SlotOf[i]) :
          /\ port' = [port EXCEPT ![i] = p]
          /\ \A j \in Instance : j # i /\ SlotOf[j] # SlotOf[i] /\ port[j] = p /\ Building(j) =>
                {SlotOf[i], SlotOf[j]} \subseteq misled'
  BY <1>1, UpFetchMoves
<1>3. \A j \in Instance \ {i} : flight'[j] = flight[j] BY UpFetchMoves DEF PreviewTypeOK
<1>4. port'[i] = p BY <1>2 DEF PreviewTypeOK
<1>5. ASSUME NEW l \in Slot, l # At(i), Claims(l, p) PROVE {l, At(i)} \subseteq misled'
  <2>1. ~(active[l] # NoInst /\ stPort[l] = p) BY <1>2, <1>5 DEF Free, At
  <2>2. ~(box[l] # NoInst /\ boxPort[l] = p) BY <1>2, <1>5 DEF Free, Bound
  <2>3. PICK j \in Instance : At(j) = l /\ Building(j) /\ port[j] = p BY <1>5, <2>1, <2>2 DEF Claims
  <2>. QED BY <1>2, <1>5, <2>3 DEF At
<1>. QED BY <1>2, <1>3, <1>4, <1>5 DEF At

\* Two slots have one port only if an up was misled.
LEMMA PortKept == ASSUME PreviewInv, PreviewNext PROVE PortInv'
<1>. USE DEF PreviewInv
<1>. SUFFICES ASSUME NEW k \in Slot, NEW l \in Slot, NEW p \in Port, k # l, Claims(k, p)', Claims(l, p)'
              PROVE  k \in misled'
  BY DEF PortInv
<1>1. CASE Claims(k, p) /\ Claims(l, p) BY <1>1, GhostsGrow DEF PortInv
<1>2. CASE ~Claims(k, p)
  <2>1. PICK i \in Instance : At(i) = k /\ UpFetch(i) /\ Building(i)' /\ port'[i] = p BY <1>2, ClaimsMove
  <2>2. Claims(l, p)
    <3>1. SUFFICES ASSUME NEW j \in Instance, At(j) = l, UpFetch(j), Building(j)' PROVE FALSE BY ClaimsMove
    <3>2. j # i BY <2>1, <3>1
    <3>3. flight'[j] = "fetch" BY <2>1, <3>1, <3>2, FetchedPort DEF UpFetch
    <3>. QED BY <3>1, <3>3 DEF Building
  <2>. QED BY <2>1, <2>2, FetchedPort
<1>3. CASE Claims(k, p) /\ ~Claims(l, p)
  <2>1. PICK i \in Instance : At(i) = l /\ UpFetch(i) /\ Building(i)' /\ port'[i] = p BY <1>3, ClaimsMove
  <2>. QED BY <1>3, <2>1, FetchedPort
<1>. QED BY <1>1, <1>2, <1>3

\* What a stop starts from.
LEMMA HandStarts ==
    ASSUME PreviewInv, PreviewNext, NEW i \in Instance, hand'.inst = i, hand.inst # i
    PROVE  DispatchStop(i) \/ \E st \in sweep : SweepOne(st) /\ IdleStop(st) /\ st.inst = i
<1>. USE DEF PreviewInv
<1>. NoHand.inst # i BY PreviewNames DEF NoHand
<1>1. ASSUME NEW j \in Instance, Activate(j) \/ AskStop(j) \/ ApiBuilds(j) \/ Goroutine(j) \/ DispatchUp(j) \/ RegisterRoute(j) PROVE FALSE
  BY <1>1, UpFetchMoves DEF Activate, AskStop, ApiBuilds, Goroutine, UpMaterialize, UpRefused, UpDeploy, UpReady, UpWire, UpTrack, UpReport,
     DispatchUp, RegisterRoute, pvLoop
<1>2. ASSUME NEW j \in Instance, DispatchStop(j) PROVE i = j BY <1>2 DEF DispatchStop
<1>3. CASE StopContainer \/ RemoveRoute \/ ClearState \/ StopRefused \/ ReportStopped
  <2>1. hand' = NoHand \/ hand'.inst = hand.inst
    BY <1>3, HandTypes DEF StopContainer, RemoveRoute, ClearState, StopRefused, ReportStopped
  <2>. QED BY <2>1
<1>4. ASSUME NEW st \in sweep, SweepOne(st) PROVE IdleStop(st) /\ st.inst = i
  BY <1>4 DEF SweepOne, Traffic, IdleStop, ProbeAlive
<1>5. CASE SweepIdle \/ Restart \/ CaddyReloads \/ (\E k \in Slot : ContainerDies(k)) \/ \E st \in sweep : SweepSkips(st)
  BY <1>5 DEF SweepIdle, Restart, CaddyReloads, ContainerDies, SweepSkips, pvLoop
<1>. QED BY <1>1, <1>2, <1>3, <1>4, <1>5 DEF PreviewNext, Dispatch, Loop

\* The port of a live session preview is the one its container was given.
LEMMA SessionPortKept == ASSUME PreviewInv, PreviewTypeOK', HandInv', SweepInv', PreviewNext PROVE SessionPortInv'
<1>. USE DEF PreviewInv
<1>. SUFFICES ASSUME NEW i \in Session
              PROVE  /\ row'[i] \in {"ready", "running"} =>
                          \A k \in Slot \ {At(i)} : box'[k] # NoInst => boxPort'[k] # port'[i]
                     /\ row'[i] = "running" /\ active'[At(i)] = i => stPort'[At(i)] = port'[i]
                     /\ i \notin lost' /\ (active'[At(i)] = i \/ hand'.inst = i) => row'[i] \in {"running", "stopping"} /\ flight'[i] = "none"
  BY DEF SessionPortInv, Flying, At
<1>1. i \in Instance /\ At(i) \in Slot /\ ~UpFetch(i) /\ ~UpReport(i) /\ flight[i] # "track"
  BY PreviewNames DEF UpFetch, UpReport, PortKindInv, Building, At
<1>2. /\ row'[i] = "ready" => row[i] = "ready" \/ (ApiBuilds(i) /\ row[i] = "building")
      /\ row'[i] = "running" => row[i] = "running" \/ (RegisterRoute(i) /\ row[i] = "ready")
  BY <1>1, RowsMove DEF RowMoves
<1>3. row[i] # "building" => port'[i] = port[i] BY <1>1, PortsMove DEF PortMoves
<1>4. ASSUME row'[i] \in {"ready", "running"}, NEW k \in Slot \ {At(i)}, box'[k] # NoInst
      PROVE  boxPort'[k] # port'[i]
  <2>1. CASE ApiBuilds(i) /\ row[i] = "building"
    <3>1. row'[i] = "ready" BY <1>2, <1>4, <2>1
    <3>2. /\ box' = [box EXCEPT ![SlotOf[i]] = i] /\ port'[i] \in Allocable(i)
          /\ boxPort' = [boxPort EXCEPT ![SlotOf[i]] = port'[i]]
      BY <1>1, <2>1, <3>1 DEF ApiBuilds, PreviewTypeOK
    <3>3. box'[k] = box[k] /\ boxPort'[k] = boxPort[k] BY <3>2 DEF At, PreviewTypeOK
    <3>. QED BY <1>4, <3>2, <3>3 DEF Allocable, Bound
  <2>2. CASE row[i] \in {"ready", "running"}
    <3>1. port'[i] = port[i] /\ port[i] \in HostPort BY <1>3, <2>2 DEF PortKindInv
    <3>2. box[k] # NoInst => boxPort[k] # port[i] BY <2>2 DEF SessionPortInv
    <3>3. ASSUME NEW j \in Instance, At(j) = k, Building(j) PROVE port[j] # port[i]
      BY <3>1, <3>3, PreviewNames DEF PortKindInv
    <3>4. ASSUME NEW j \in Instance, At(j) = k PROVE port[i] \notin Allocable(j)
      BY <1>1, <2>2, <3>4 DEF Allocable, Down
    <3>. QED BY <1>4, <3>1, <3>2, <3>3, <3>4, BoxesMove DEF BoxMoves
  <2>. QED BY <1>2, <1>4, <2>1, <2>2
<1>5. ASSUME row'[i] = "running", active'[At(i)] = i PROVE stPort'[At(i)] = port'[i]
  <2>1. CASE RegisterRoute(i) /\ row[i] = "ready"
    <3>1. Track(i)
      <4>1. ~(Fault /\ row' = [row EXCEPT ![i] = "failed"]) BY <1>1, <1>5 DEF PreviewTypeOK
      <4>. QED BY <2>1, <4>1 DEF RegisterRoute
    <3>. QED BY <1>1, <1>3, <2>1, <3>1 DEF Track, PreviewTypeOK, At
  <2>2. CASE row[i] = "running"
    <3>1. active[At(i)] = i => stPort[At(i)] = port[i] BY <2>2 DEF SessionPortInv
    <3>2. \A j \in Instance : At(j) = At(i) => j = i BY SlotsApart DEF At
    <3>. QED BY <1>1, <1>3, <1>5, <2>2, <3>1, <3>2, StatesMove, PreviewNames DEF StateMoves
  <2>. QED BY <1>2, <1>5, <2>1, <2>2
<1>6. ASSUME i \notin lost', active'[At(i)] = i \/ hand'.inst = i
      PROVE  row'[i] \in {"running", "stopping"} /\ flight'[i] = "none"
  <2>. i \notin lost /\ i # NoInst BY <1>1, <1>6, GhostsGrow, PreviewNames
  <2>1. CASE active[At(i)] = i \/ hand.inst = i
    <3>1. row[i] \in {"running", "stopping"} /\ flight[i] = "none" BY <2>1 DEF SessionPortInv, Flying
    <3>2. flight'[i] = "none" BY <1>1, <3>1, FlightsMove DEF FlightMoves, Flying, DispatchUp
    <3>3. row'[i] \notin Down
      <4>1. SUFFICES ASSUME row'[i] \in Down PROVE FALSE OBVIOUS
      <4>2. DownMoves(i) BY <1>1, <3>1, <4>1, RowsGoDown DEF Down
      <4>3. CASE ReportStopped /\ hand.inst = i /\ hand # NoHand
        <5>1. hand' = NoHand /\ UNCHANGED active /\ hand.step = "report" BY <4>3 DEF ReportStopped, pvState
        <5>2. active[At(i)] = NoInst BY <4>3, <5>1 DEF HandInv
        <5>. QED BY <1>6, <5>1, <5>2 DEF NoHand
      <4>4. CASE active'[At(i)] = NoInst /\ hand' = NoHand BY <1>6, <4>4 DEF NoHand
      <4>. QED BY <1>1, <3>1, <4>2, <4>3, <4>4, PreviewNames DEF DownMoves, Flying
    <3>4. row'[i] \in Status BY <1>1 DEF PreviewTypeOK
    <3>5. row'[i] # "building" /\ row'[i] # "up" /\ row'[i] # "ready"
      BY <1>1, <1>2, <3>1, RowsMove DEF RowMoves, Down
    <3>. QED BY <3>2, <3>3, <3>4, <3>5 DEF Status
  <2>2. CASE active'[At(i)] = i /\ active[At(i)] # i
    <3>1. \A j \in Instance : At(j) = At(i) => j = i BY SlotsApart DEF At
    <3>2. RegisterRoute(i) /\ row[i] = "ready" BY <1>1, <2>2, <3>1, StatesMove DEF StateMoves
    <3>3. flight[i] = "none" /\ UNCHANGED flight BY <3>2 DEF RegisterRoute, pvUp
    <3>4. ReportTo(i, "routed") BY <2>2, <3>2 DEF RegisterRoute, pvState
    <3>5. row'[i] = After(row[i], "routed") BY <1>1, <1>6, <3>4, ReportMoves DEF Event
    <3>6. row'[i] = "running" BY <1>1, <3>2, <3>5, AfterIs DEF PreviewTypeOK
    <3>. QED BY <3>3, <3>6
  <2>3. CASE hand'.inst = i /\ hand.inst # i
    <3>1. DispatchStop(i) \/ \E st \in sweep : SweepOne(st) /\ IdleStop(st) /\ st.inst = i
      BY <1>1, <2>3, HandStarts
    <3>2. CASE DispatchStop(i)
      BY <1>1, <3>2 DEF DispatchStop, pvApi, pvUp
    <3>3. CASE \E st \in sweep : st.inst = i
      BY <2>1, <3>3, SweepTypes DEF SweepInv, At
    <3>. QED BY <3>1, <3>2, <3>3
  <2>. QED BY <1>6, <2>1, <2>2, <2>3
<1>. QED BY <1>4, <1>5, <1>6
-----------------------------------------------------------------------------
(* Ups, running rows and stopped ones; the theorems.                        *)

\* The sweep routes by the state it holds, which is the state of the slot or makes it misled.
LEMMA SweptRoute ==
    ASSUME PreviewInv, NEW st \in sweep, SweepOne(st)
    PROVE  /\ route' = [route EXCEPT ![st.inst] = st.at]
           /\ st.slot \in misled' \/ (active[st.slot] = st.inst /\ stPort[st.slot] = st.at /\ flight[st.inst] # "track")
BY DEF SweepOne, Outdated

\* An up that wired its route tracks the port it wired.
LEMMA UpKept == ASSUME PreviewInv, PreviewNext PROVE UpInv'
<1>. USE DEF PreviewInv
<1>. SUFFICES ASSUME NEW i \in Instance, At(i) \notin crossed'
              PROVE  /\ flight'[i] = "track" /\ At(i) \notin misled' => route'[i] \in {NoPort, port'[i]}
                     /\ flight'[i] = "report" =>
                           active'[At(i)] = i /\ (At(i) \notin misled' => route'[i] \in {NoPort, stPort'[At(i)]})
  BY DEF UpInv, Home, At
<1>1. At(i) \in Slot /\ At(i) \notin crossed /\ (At(i) \notin misled' => At(i) \notin misled)
  BY GhostsGrow, PreviewNames DEF At
<1>2. flight[i] \in {"track", "report"} => Flying(i) /\ row[i] # "building" /\ row[i] # "ready"
  BY DEF Flying, RowInv, Down
<1>3. ASSUME flight'[i] = "track", At(i) \notin misled' PROVE route'[i] \in {NoPort, port'[i]}
  <2>1. CASE flight[i] = "track"
    <3>1. ~UpFetch(i) BY <2>1 DEF UpFetch
    <3>2. port'[i] = port[i] BY <1>2, <2>1, <3>1, PortsMove DEF PortMoves
    <3>3. route[i] \in {NoPort, port[i]} BY <1>1, <1>3, <2>1 DEF UpInv
    <3>4. \A st \in sweep : SweepOne(st) => st.inst # i BY <1>3, <2>1, SweptRoute, SweepTypes DEF At
    <3>. QED BY <3>2, <3>3, <3>4, RoutesMove DEF RouteMoves
  <2>2. CASE UpWire(i) BY <2>2 DEF UpWire, PreviewTypeOK
  <2>. QED BY <1>3, <2>1, <2>2, FlightsMove DEF FlightMoves
<1>4. ASSUME flight'[i] = "report"
      PROVE  active'[At(i)] = i /\ (At(i) \notin misled' => route'[i] \in {NoPort, stPort'[At(i)]})
  <2>1. CASE flight[i] = "report"
    <3>1. active[At(i)] = i /\ (At(i) \notin misled => route[i] \in {NoPort, stPort[At(i)]})
      BY <1>1, <2>1 DEF UpInv, Home
    <3>2. ClearState => At(hand.inst) # At(i)
      BY <1>1, <1>2, <2>1, HandTypes DEF ClearState, HandInv
    <3>3. \A st \in sweep : crossed' = Meets(st.inst) => st.slot # At(i)
      BY <1>2, <2>1, SweepTypes, MeetsIs DEF At
    <3>4. ASSUME NEW j \in Instance, At(j) = At(i) PROVE flight[j] # "track"
      <4>1. CASE j = i BY <2>1, <4>1
      <4>2. CASE j # i
        <5>1. j \in Siblings(i) BY <3>4, <4>2, PreviewNames DEF At
        <5>. QED BY <1>1, <1>2, <2>1, <5>1 DEF RowInv, Flying
      <4>. QED BY <4>1, <4>2
    <3>5. ASSUME NEW j \in Instance, At(j) = At(i), RegisterRoute(j), row[j] = "ready" PROVE FALSE
      <4>1. j = i BY <3>5, SlotsApart, PreviewNames DEF PortKindInv, At
      <4>. QED BY <2>1, <3>5, <4>1 DEF RegisterRoute
    <3>6. active'[At(i)] = active[At(i)] /\ stPort'[At(i)] = stPort[At(i)]
      BY <1>1, <3>2, <3>3, <3>4, <3>5, StatesMove DEF StateMoves
    <3>7. At(i) \notin misled' => \A st \in sweep : SweepOne(st) /\ st.inst = i => st.at = stPort[At(i)]
      BY SweptRoute, SweepTypes DEF At
    <3>. QED BY <1>1, <1>2, <2>1, <3>1, <3>6, <3>7, RoutesMove DEF RouteMoves
  <2>2. CASE UpTrack(i)
    <3>1. Track(i) /\ UNCHANGED route /\ flight[i] = "track" BY <2>2 DEF UpTrack, pvNode
    <3>2. active'[At(i)] = i /\ stPort'[At(i)] = port[i] BY <1>1, <3>1 DEF Track, PreviewTypeOK, At
    <3>. QED BY <1>1, <3>1, <3>2 DEF UpInv
  <2>. QED BY <1>4, <2>1, <2>2, FlightsMove DEF FlightMoves
<1>. QED BY <1>3, <1>4

\* A stop that has only to report does so, or is cut short by a restart.
LEMMA ReportEnds ==
    ASSUME PreviewInv, PreviewNext, hand.step = "report"
    PROVE  hand' = hand \/ ReportStopped \/ Restart
<1>. USE DEF PreviewInv
<1>. hand # NoHand BY DEF NoHand
<1>1. ASSUME NEW i \in Instance, Activate(i) \/ AskStop(i) \/ ApiBuilds(i) \/ Goroutine(i) PROVE hand' = hand
  BY <1>1, UpFetchMoves DEF Activate, AskStop, ApiBuilds, Goroutine, UpMaterialize, UpRefused, UpDeploy, UpReady, UpWire, UpTrack, UpReport, pvLoop
<1>2. ASSUME NEW i \in Instance PROVE ~Dispatch(i)
  BY DEF Dispatch, DispatchUp, DispatchStop, RegisterRoute, Idle
<1>3. ~StopContainer /\ ~RemoveRoute /\ ~ClearState /\ ~StopRefused /\ ~SweepIdle
  BY DEF StopContainer, RemoveRoute, ClearState, StopRefused, SweepIdle, Idle
<1>4. \A st \in sweep : ~SweepOne(st) /\ ~SweepSkips(st) BY DEF SweepOne, SweepSkips
<1>5. CaddyReloads \/ (\E k \in Slot : ContainerDies(k)) => hand' = hand BY DEF CaddyReloads, ContainerDies, pvLoop
<1>. QED BY <1>1, <1>2, <1>3, <1>4, <1>5 DEF PreviewNext, Loop

\* A running row is tracked, or its stop has only to report; its route is its state's.
LEMMA RunKept == ASSUME PreviewInv, PreviewTypeOK', PreviewNext PROVE RunInv'
<1>. USE DEF PreviewInv
<1>. SUFFICES ASSUME NEW i \in Instance, row'[i] = "running", i \notin lost', At(i) \notin crossed', ~Replacing(i)'
              PROVE  /\ active'[At(i)] = i \/ (hand'.inst = i /\ hand'.step = "report")
                     /\ At(i) \notin misled' => route'[i] \in {NoPort, stPort'[At(i)]}
  BY DEF RunInv, Home, At
<1>1. At(i) \in Slot /\ i \notin lost /\ At(i) \notin crossed /\ (At(i) \notin misled' => At(i) \notin misled)
  BY GhostsGrow, PreviewNames DEF At
<1>2. \A j \in Siblings(i) : flight'[j] # "report" /\ j \notin lost' BY DEF Replacing, Siblings
<1>3. CASE row[i] = "running"
  <2>1. ~Flying(i) BY <1>3 DEF RowInv, Down
  <2>2. ASSUME NEW j \in Siblings(i) PROVE flight[j] # "report" /\ j \notin lost
    <3>. j \in Instance /\ i \in Siblings(j) BY <2>2, PreviewNames
    <3>1. j \notin lost BY <1>2, <2>2, GhostsGrow
    <3>2. ~(flight[j] = "report" /\ Restart) BY <1>2, <2>2 DEF Restart
    <3>3. ~UpReport(j) BY <1>2, <2>2, ReportMoves DEF UpReport, Event
    <3>. QED BY <1>2, <2>2, <3>1, <3>2, <3>3, FlightsMove DEF FlightMoves
  <2>3. ~Replacing(i) BY <2>2 DEF Replacing
  <2>4. /\ active[At(i)] = i \/ (hand.inst = i /\ hand.step = "report")
        /\ At(i) \notin misled => route[i] \in {NoPort, stPort[At(i)]}
    BY <1>1, <1>3, <2>3 DEF RunInv, Home
  <2>5. ASSUME NEW j \in Instance, At(j) = At(i) PROVE ~UpTrack(j) /\ ~(RegisterRoute(j) /\ row[j] = "ready")
    <3>1. ASSUME j # i PROVE j \in Siblings(i) BY <2>5, <3>1, PreviewNames DEF At
    <3>2. ~UpTrack(j) BY <1>2, <2>1, <3>1 DEF UpTrack, Flying, PreviewTypeOK
    <3>3. row[j] = "ready" => j = i BY <2>5, SlotsApart, PreviewNames DEF PortKindInv, At
    <3>. QED BY <1>3, <3>2, <3>3
  <2>6. stPort'[At(i)] = stPort[At(i)] BY <1>1, <2>5, StatesMove DEF StateMoves
  <2>7. At(i) \notin misled' => route'[i] \in {NoPort, stPort'[At(i)]}
    <3>1. At(i) \notin misled' => \A st \in sweep : SweepOne(st) /\ st.inst = i => st.at = stPort[At(i)]
      BY SweptRoute, SweepTypes DEF At
    <3>2. flight[i] # "wire" BY <2>1 DEF Flying
    <3>. QED BY <1>1, <1>3, <2>4, <2>6, <3>1, <3>2, RoutesMove DEF RouteMoves
  <2>8. CASE active[At(i)] = i
    <3>1. CASE ClearState /\ At(hand.inst) = At(i)
      <4>1. hand.inst \in Instance /\ hand' = [hand EXCEPT !.step = "report"] /\ crossed' = Meets(hand.inst)
        BY <3>1, HandTypes DEF ClearState
      <4>2. hand.inst = i BY <2>8, <3>1, <4>1, MeetsIs
      <4>. QED BY <2>7, <4>1, <4>2, <3>1, HandTypes DEF ClearState
    <3>2. ASSUME NEW st \in sweep, SweepOne(st), st.slot = At(i), crossed' = Meets(st.inst), ReportTo(st.inst, "failed") PROVE FALSE
      <4>1. st.inst = i BY <2>8, <3>2, SweepTypes, MeetsIs DEF At
      <4>2. row'[i] = After(row[i], "failed") BY <3>2, <4>1, ReportMoves DEF Event
      <4>. QED BY <1>3, <4>2, AfterIs DEF PreviewTypeOK, Down
    <3>. QED BY <1>1, <2>5, <2>7, <2>8, <3>1, <3>2, StatesMove DEF StateMoves
  <2>9. CASE hand.inst = i /\ hand.step = "report"
    <3>1. ~Restart BY <2>9 DEF Restart
    <3>2. ~ReportStopped
      <4>1. SUFFICES ASSUME ReportStopped PROVE FALSE OBVIOUS
      <4>2. row'[i] = After(row[i], "stopped") BY <2>9, <4>1, ReportMoves DEF ReportStopped, Event
      <4>. QED BY <1>3, <4>2, AfterIs DEF PreviewTypeOK
    <3>. QED BY <2>7, <2>9, <3>1, <3>2, ReportEnds
  <2>. QED BY <2>4, <2>8, <2>9
<1>4. CASE UpReport(i)
  <2>1. UNCHANGED <<active, stPort, route>> /\ misled' = misled /\ flight[i] = "report"
    BY <1>4 DEF UpReport, pvNode, pvState
  <2>. QED BY <1>1, <2>1 DEF UpInv, Home
<1>5. CASE RegisterRoute(i) /\ row[i] = "ready"
  <2>1. ~(Fault /\ row' = [row EXCEPT ![i] = "failed"]) BY DEF PreviewTypeOK
  <2>2. Track(i) /\ route' = [route EXCEPT ![i] = port[i]] BY <1>5, <2>1 DEF RegisterRoute
  <2>. QED BY <1>1, <2>2 DEF Track, PreviewTypeOK, At
<1>. QED BY <1>3, <1>4, <1>5, RowsMove DEF RowMoves

\* A stopped row leaves nothing behind.
LEMMA StopKept == ASSUME PreviewInv, PreviewNext PROVE StopInv'
<1>. USE DEF PreviewInv
<1>. SUFFICES ASSUME NEW i \in Instance, row'[i] = "stopped", i \notin lost', At(i) \notin crossed'
              PROVE  /\ box'[At(i)] # i /\ route'[i] = NoPort /\ active'[At(i)] # i
                     /\ \A st \in sweep' : st.inst # i
  BY DEF StopInv, At
<1>1. At(i) \in Slot /\ i \notin lost /\ At(i) \notin crossed /\ i # NoInst
  BY GhostsGrow, PreviewNames DEF At
<1>2. CASE row[i] = "stopped"
  <2>1. ~Flying(i) BY <1>1, <1>2 DEF RowInv, Down
  <2>2. ~Building(i) /\ flight[i] # "wire" /\ ~UpTrack(i) BY <2>1 DEF Flying, Building, UpTrack
  <2>3. box[At(i)] # i /\ route[i] = NoPort /\ active[At(i)] # i /\ \A st \in sweep : st.inst # i
    BY <1>1, <1>2 DEF StopInv
  <2>4. box'[At(i)] # i BY <1>1, <1>2, <2>2, <2>3, BoxesMove DEF BoxMoves
  <2>5. route'[i] = NoPort BY <1>2, <2>2, <2>3, RoutesMove DEF RouteMoves
  <2>6. active'[At(i)] # i BY <1>1, <1>2, <2>2, <2>3, StatesMove DEF StateMoves
  <2>7. ASSUME NEW st \in sweep' PROVE st.inst # i
    <3>1. CASE SweepIdle
      <4>1. PICK k \in Slot : st.inst = active[k] /\ active[k] # NoInst BY <2>7, <3>1 DEF SweepIdle
      <4>. QED BY <2>3, <4>1 DEF TrackInv
    <3>. QED BY <2>3, <2>7, <3>1, SweepsMove
  <2>. QED BY <2>4, <2>5, <2>6, <2>7
<1>3. CASE ReportStopped /\ hand.inst = i
  <2>1. hand # NoHand /\ hand.step = "report" /\ UNCHANGED <<box, route, active, sweep>>
    BY <1>3, HandTypes DEF ReportStopped, pvNode, pvState
  <2>2. active[At(i)] = NoInst /\ route[i] = NoPort /\ box[At(i)] # i BY <1>1, <1>3, <2>1 DEF HandInv
  <2>3. \A st \in sweep : st.inst # i BY <1>3, <2>1 DEF SweepInv
  <2>. QED BY <1>1, <2>1, <2>2, <2>3
<1>. QED BY <1>2, <1>3, RowsMove DEF RowMoves

LEMMA PreviewStutter == ASSUME PreviewInv, UNCHANGED previewVars PROVE PreviewInv'
BY DEF PreviewInv, previewVars, pvApi, pvNode, pvUp, pvState, pvLoop, PreviewTypeOK, TrackInv, PortKindInv, RowInv, HandInv, SweepInv,
       PortInv, SessionPortInv, UpInv, RunInv, StopInv, Claims, Home, Replacing, Flying, Building, At, Siblings

LEMMA InitIsAccounted == PreviewInit => PreviewInv
<1>. SUFFICES ASSUME PreviewInit PROVE PreviewInv OBVIOUS
<1>. USE PreviewNames DEF PreviewInit, At, Flying, Building
<1>1. PreviewTypeOK
  <2>1. MaxAsks[shown] \in Nat /\ MaxFaults \in Nat BY NodePreviewsAssumption
  <2>. QED BY <2>1 DEF PreviewTypeOK, Status, Down, NoHand
<1>2. TrackInv /\ PortKindInv BY DEF TrackInv, PortKindInv
<1>3. RowInv BY DEF RowInv
<1>4. HandInv /\ SweepInv BY DEF HandInv, SweepInv, NoHand
<1>5. PortInv /\ SessionPortInv /\ UpInv BY DEF PortInv, SessionPortInv, UpInv, Claims, NoHand
<1>6. RunInv /\ StopInv BY DEF RunInv, StopInv
<1>. QED BY <1>1, <1>2, <1>3, <1>4, <1>5, <1>6 DEF PreviewInv

LEMMA PreviewNextKeeps == ASSUME PreviewInv, PreviewNext PROVE PreviewInv'
<1>1. PreviewTypeOK'
  <2>1. ASSUME NEW k \in Slot, ContainerDies(k) PROVE PreviewTypeOK' BY <2>1, OthersKeepTypes DEF PreviewInv
  <2>. QED BY <2>1, ApiKeepsTypes, GoroutineKeepsTypes, DispatchKeepsTypes, LoopKeepsTypes, OthersKeepTypes DEF PreviewInv, PreviewNext
<1>2. TrackInv' /\ PortKindInv' /\ RowInv' /\ HandInv' /\ SweepInv' BY <1>1, TrackKept, KindKept, RowKept, HandKept, SweepKept
<1>3. PortInv' /\ SessionPortInv' BY <1>1, <1>2, PortKept, SessionPortKept
<1>4. UpInv' /\ RunInv' /\ StopInv' BY <1>1, UpKept, RunKept, StopKept
<1>. QED BY <1>1, <1>2, <1>3, <1>4 DEF PreviewInv

\* The inductive invariant.
LEMMA PreviewInvHolds == PreviewSpec => []PreviewInv
BY InitIsAccounted, PreviewNextKeeps, PreviewStutter, PTL DEF PreviewSpec

\* The previews keep their types: for every number of missions, previews and ports.
THEOREM PreviewTypeCorrect == PreviewSpec => []PreviewTypeOK
<1>1. PreviewInv => PreviewTypeOK BY DEF PreviewInv
<1>. QED BY <1>1, PreviewInvHolds, PTL

\* A running preview is tracked and a stopped one is gone, but for a report that was
\* lost or a stop that met an up of the same slot.
THEOREM PreviewsAreAccountedHolds == PreviewSpec => []PreviewsAreAccounted
<1>1. ASSUME PreviewInv PROVE RunningIsWatched
  BY <1>1 DEF PreviewInv, RunInv, RunningIsWatched, At
<1>2. ASSUME PreviewInv PROVE StoppedLeavesNothing
  BY <1>2 DEF PreviewInv, StopInv, TrackInv, StoppedLeavesNothing, At
<1>. QED BY <1>1, <1>2, PreviewInvHolds, PTL DEF PreviewsAreAccounted

\* No host of a running preview leads to the container of another preview, but where
\* two ups were given one port, a sweep routed by a state that an up had replaced, or
\* a stop met an up.
THEOREM LeadsHomeHolds == PreviewSpec => []LeadsHome
<1>1. ASSUME PreviewInv, NEW i \in Instance, NEW k \in Slot, row[i] = "running", At(i) \notin misled, At(i) \notin crossed,
             i \notin lost, ~Replacing(i), box[k] # NoInst, boxPort[k] = route[i]
      PROVE  k = At(i)
  <2>. USE DEF PreviewInv
  <2>1. At(i) \in Slot BY PreviewNames DEF At
  <2>2. PICK j \in Instance : At(j) = k BY DEF Slot, At
  <2>3. boxPort[k] # NoPort BY <1>1, <2>2, PreviewNames DEF PortKindInv
  <2>4. route[i] = stPort[At(i)] BY <1>1, <2>3 DEF RunInv, Home
  <2>5. active[At(i)] = i BY <1>1, <2>3 DEF RunInv, HandInv, NoHand
  <2>6. CASE i \in Runtime
    <3>1. route[i] \in Port BY <1>1, <2>4, <2>5, <2>6, PreviewNames DEF PortKindInv
    <3>2. Claims(At(i), route[i]) /\ Claims(k, route[i]) BY <1>1, <2>4, <2>5, PreviewNames DEF Claims
    <3>. QED BY <1>1, <2>1, <3>1, <3>2 DEF PortInv
  <2>7. CASE i \in Session
    <3>1. route[i] = port[i] BY <1>1, <2>4, <2>5, <2>7 DEF SessionPortInv
    <3>. QED BY <1>1, <2>7, <3>1 DEF SessionPortInv
  <2>. QED BY <2>6, <2>7, PreviewNames
<1>2. PreviewInv => LeadsHome BY <1>1 DEF LeadsHome, At
<1>. QED BY <1>2, PreviewInvHolds, PTL

=============================================================================
