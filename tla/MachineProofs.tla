---------------------------- MODULE MachineProofs ----------------------------
(***************************************************************************)
(* Proofs about what a machine sends, keeps and is connected by: uploads of *)
(* sources (SourceUploads), local stacks (LocalPreviews), builds of a       *)
(* mission's preview (PreviewBuilds), its binary (SelfUpdate), its rules    *)
(* and settings (MachineSettings), a user node's registration and services  *)
(* (UserNode), and its connection to the server (Uplink).  For every number *)
(* of files, edits, workers, releases, messages, connections and faults.    *)
(***************************************************************************)
EXTENDS SourceUploads, LocalPreviews, PreviewBuilds, SelfUpdate, MachineSettings, UserNode, Uplink,
        FiniteSetTheorems, TLAPS

-----------------------------------------------------------------------------
(* Uploads.                                                                 *)

PackedVersion == Version \cup {None}
UploadJob == [at : {"none", "pack", "declare", "upload", "complete"}, snapshot : Nat, pack : [File -> PackedVersion],
              part : Nat, todo : SUBSET File, hands : [Hand -> File \cup {"idle", "gone"}],
              bytes : [Hand -> Version], failed : BOOLEAN]
Row == [state : {"pending", "ready", "taken", "done", "failed"}, snapshot : Nat, declared : [File -> PackedVersion]]

UploadTypes ==
    /\ tier \in Tier
    /\ project \in [File -> Version] /\ scratch \in [File -> PackedVersion] /\ edits \in Version
    /\ request \in Row /\ stored \subseteq File \X Version \X Version
    /\ offered \in Nat /\ offered <= request.snapshot
    /\ job \in [Job -> UploadJob]

\* The slot: one upload of a request at a time, of a snapshot that was offered.
ClaimInv ==
    /\ \A j \in Job : job[j].at # "none" => claimed /\ job[j].snapshot <= request.snapshot
    /\ \A i, j \in Job : i # j => job[i].at = "none" \/ job[j].at = "none"

Busy(j) == \E h \in Hand : job[j].hands[h] \in File
\* The files whose part has been declared.
Due(j, f) ==
    CASE job[j].at = "declare" -> tier = "chunked" /\ PartOf[f] < job[j].part
      [] job[j].at \in {"upload", "complete"} -> (tier = "chunked" => PartOf[f] <= job[j].part)
      [] OTHER -> FALSE

\* What is read is what was hashed: the pack is whole, an export is that of the
\* pack, and so are the bytes in the hands of a worker.
ReadInv(j) ==
    /\ job[j].at \in {"declare", "upload", "complete"} => job[j].pack \in [File -> Version] /\ job[j].part >= 1
    /\ Image => \A f \in File : job[j].pack[f] # None => scratch[f] = job[j].pack[f]
    /\ tier # "session" => \A h \in Hand : job[j].hands[h] \in File => job[j].bytes[h] = job[j].pack[job[j].hands[h]]

\* What was declared is still declared, and is stored, waits, or is being sent,
\* unless a worker failed; between parts nothing waits.
SentInv(j) ==
    /\ job[j].at \in {"pack", "declare", "complete"} => ~job[j].failed /\ job[j].todo = {} /\ ~Busy(j)
    /\ job[j].at = "complete" => job[j].part >= LastPart
    /\ \A f \in File : Due(j, f) =>
         /\ Stale(j) \/ request.declared[f] = job[j].pack[f]
         /\ \/ job[j].failed \/ (tier = "local" /\ f # Compose) \/ StoredAs(f, job[j].pack[f])
            \/ f \in job[j].todo \/ \E h \in Hand : job[j].hands[h] = f

UploadOK(j) == job[j].at # "none" => ReadInv(j) /\ SentInv(j)
UploadInv == UploadTypes /\ ClaimInv /\ ObjectsAreNamed /\ \A j \in Job : UploadOK(j)

\* The parts of a chunked declare are numbered through, and None is no version.
LEMMA PartFacts ==
    /\ \A f \in File : PartOf[f] \in Nat /\ PartOf[f] >= 1 /\ (tier = "chunked" => PartOf[f] <= LastPart)
    /\ LastPart \in Nat /\ None \notin Version /\ 0 \in Version
<1>1. PICK n \in Nat : {PartOf[f] : f \in File} = 1..n
  <2>1. Cardinality(File) \in Nat
    BY SourceUploadsAssumption, FS_CardinalityType
  <2> QED BY <2>1, SourceUploadsAssumption
<1>2. Cardinality(Parts) = n
  <2>1. Cardinality(1..n) = n
    BY <1>1, FS_Interval
  <2> QED BY <1>1, <2>1 DEF Parts
<1>3. \A f \in File : PartOf[f] \in 1..n
    BY <1>1
<1>4. None \notin Version /\ 0 \in Version
    BY SourceUploadsAssumption DEF None, Version
<1> QED BY <1>1, <1>2, <1>3, <1>4 DEF LastPart

LEMMA NoJobType == NoJob \in UploadJob /\ NoJob.at = "none" /\ NoJob.pack \in [File -> PackedVersion] /\ ~NoJob.failed
                   /\ NoJob.todo = {} /\ (\A h \in Hand : NoJob.hands[h] = "idle") /\ NoJob.part = 0
                   /\ \A f \in File : NoJob.pack[f] = None
BY PartFacts DEF NoJob, UploadJob, PackedVersion

\* Nothing is asked of the bridge at first.
LEMMA UploadInitHolds == UploadInit => UploadInv
<1> SUFFICES ASSUME UploadInit PROVE UploadInv
    OBVIOUS
<1>1. request \in Row /\ request.snapshot = 1
    BY NoJobType DEF UploadInit, Row
<1>2. job \in [Job -> UploadJob] /\ \A j \in Job : job[j].at = "none"
    BY NoJobType DEF UploadInit
<1>3. tier \in Tier /\ project \in [File -> Version] /\ scratch \in [File -> PackedVersion] /\ edits \in Version /\ offered = 0 /\ stored = {}
    BY PartFacts DEF UploadInit, PackedVersion
<1>4. UploadTypes
    BY <1>1, <1>2, <1>3 DEF UploadTypes
<1> QED BY <1>2, <1>3, <1>4 DEF UploadInv, ClaimInv, ObjectsAreNamed, UploadOK

\* The one upload moves on.
LEMMA UploadMoves ==
    ASSUME UploadInv, NEW j \in Job, job[j].at # "none", NEW s \in UploadJob, job' = [job EXCEPT ![j] = s],
           s.snapshot = job[j].snapshot, UNCHANGED <<tier, project, offered, claimed, edits>>,
           scratch' \in [File -> PackedVersion], request' \in Row, request'.snapshot = request.snapshot,
           stored' \subseteq File \X Version \X Version, ObjectsAreNamed', UploadOK(j)'
    PROVE  UploadInv'
<1>1. job' \in [Job -> UploadJob] /\ job'[j] = s /\ \A i \in Job \ {j} : job'[i] = job[i] /\ job[i].at = "none"
    BY DEF UploadInv, UploadTypes, ClaimInv
<1>2. UploadTypes'
    BY <1>1 DEF UploadInv, UploadTypes
<1>3. ClaimInv'
    BY <1>1 DEF UploadInv, ClaimInv
<1>4. \A i \in Job : UploadOK(i)'
    BY <1>1 DEF UploadOK
<1> QED BY <1>2, <1>3, <1>4 DEF UploadInv

\* It is over: nothing is in hand, and a request may be settled.
LEMMA UploadEnds ==
    ASSUME UploadInv, NEW j \in Job, job[j].at # "none", Ends(j), UNCHANGED <<tier, project, scratch, offered, edits, stored>>,
           request' \in Row, request'.snapshot = request.snapshot
    PROVE  UploadInv'
<1>1. job' \in [Job -> UploadJob] /\ \A i \in Job : job'[i].at = "none"
    BY NoJobType DEF UploadInv, UploadTypes, ClaimInv, Ends
<1>2. UploadTypes'
    BY <1>1 DEF UploadInv, UploadTypes
<1> QED BY <1>1, <1>2 DEF UploadInv, ClaimInv, ObjectsAreNamed, UploadOK

\* Edits, offers and settled rows touch no upload.
LEMMA UploadFrame ==
    ASSUME UploadInv, UNCHANGED <<tier, scratch, stored, job>>, claimed' = claimed, UploadTypes',
           request'.snapshot = request.snapshot, request'.declared = request.declared
    PROVE  UploadInv'
<1>1. \A j \in Job : Stale(j)' = Stale(j)
    BY DEF Stale
<1>2. \A j \in Job : ReadInv(j)' = ReadInv(j)
    BY DEF ReadInv, Image
<1>3. \A j \in Job : (SentInv(j) => SentInv(j)')
  <2> TAKE j \in Job
  <2>1. (\A f \in File : Due(j, f)' = Due(j, f)) /\ Busy(j)' = Busy(j) /\ LastPart' = LastPart
    BY DEF Due, Busy, LastPart
  <2>2. \A f \in File : StoredAs(f, job[j].pack[f])' = StoredAs(f, job[j].pack[f])
    BY DEF StoredAs
  <2> QED BY <1>1, <2>1, <2>2 DEF SentInv
<1>4. \A j \in Job : UploadOK(j)'
    BY <1>2, <1>3 DEF UploadInv, UploadOK
<1> QED BY <1>4 DEF UploadInv, ClaimInv, ObjectsAreNamed

\* The user, the node and the poll loop touch no upload.
LEMMA OutsideHolds ==
    ASSUME UploadInv, UserAsksAgain \/ NodeTakes \/ PollPending \/ \E f \in File : TreeChanges(f)
    PROVE  UploadInv'
<1>1. UNCHANGED <<tier, scratch, stored, claimed, job>>
    BY DEF UserAsksAgain, NodeTakes, PollPending, TreeChanges
<1>3. CASE PollPending
  <2>1. offered' = request.snapshot /\ request.snapshot \in Nat /\ UNCHANGED <<request, project, edits>>
    BY <1>3 DEF PollPending, UploadInv, UploadTypes, Row
  <2> QED BY <1>1, <2>1, UploadFrame DEF UploadInv, UploadTypes
<1>4. ASSUME NEW f \in File, TreeChanges(f) PROVE UploadInv'
  <2>1. project' \in [File -> Version] /\ edits' \in Version /\ UNCHANGED <<request, offered>>
    BY <1>4, SourceUploadsAssumption DEF TreeChanges, UploadInv, UploadTypes, Version
  <2> QED BY <1>1, <2>1, UploadFrame DEF UploadInv, UploadTypes
<1>5. CASE NodeTakes
  <2>1. /\ request' \in Row /\ request'.snapshot = request.snapshot /\ request'.declared = request.declared
        /\ UNCHANGED <<project, offered, edits>>
    BY <1>5 DEF NodeTakes, UploadInv, UploadTypes, Row
  <2> QED BY <1>1, <2>1, UploadFrame DEF UploadInv, UploadTypes
<1>6. CASE UserAsksAgain
  <2>1. /\ tier = "session" /\ request' \in Row /\ request'.snapshot = request.snapshot + 1 /\ request.snapshot \in Nat
        /\ UNCHANGED <<project, offered, edits>>
    BY <1>6, NoJobType DEF UserAsksAgain, UploadInv, UploadTypes, Row
  <2>2. UploadTypes' /\ ClaimInv' /\ ObjectsAreNamed'
    BY <1>1, <2>1 DEF UploadInv, UploadTypes, ClaimInv, ObjectsAreNamed, UploadJob
  <2>3. \A j \in Job : job[j].at # "none" => Stale(j)'
    BY <1>1, <2>1 DEF UploadInv, UploadTypes, ClaimInv, Stale, UploadJob
  <2>4. \A j \in Job : UploadOK(j)'
    BY <1>1, <2>1, <2>3 DEF UploadInv, UploadOK, ReadInv, SentInv, Due, Busy, Image, StoredAs, LastPart
  <2> QED BY <2>2, <2>4 DEF UploadInv
<1> QED BY <1>3, <1>4, <1>5, <1>6

\* An upload is started by an offer that finds the slot free, and all of them
\* are gone after a crash.
LEMMA SlotHolds == ASSUME UploadInv, StartUpload \/ UploadsCrash PROVE UploadInv'
<1>1. CASE UploadsCrash
  <2>1. job' \in [Job -> UploadJob] /\ \A i \in Job : job'[i].at = "none"
    BY <1>1, NoJobType DEF UploadsCrash
  <2>2. UploadTypes'
    BY <1>1, <2>1 DEF UploadsCrash, UploadInv, UploadTypes, Row
  <2> QED BY <1>1, <2>1, <2>2 DEF UploadsCrash, UploadInv, ClaimInv, ObjectsAreNamed, UploadOK
<1>2. CASE StartUpload /\ claimed
  <2>1. UNCHANGED <<tier, project, scratch, request, stored, edits, claimed, job>> /\ offered' = 0 /\ request.snapshot \in Nat
    BY <1>2 DEF StartUpload, UploadInv, UploadTypes, Row
  <2> QED BY <2>1, UploadFrame DEF UploadInv, UploadTypes
<1>3. CASE StartUpload /\ ~claimed
  <2>1. PICK j \in Job : job' = [job EXCEPT ![j] = [NoJob EXCEPT !.at = "pack", !.snapshot = offered]]
    BY <1>3 DEF StartUpload
  <2>2. \A i \in Job : job[i].at = "none"
    BY <1>3 DEF UploadInv, ClaimInv
  <2> DEFINE s == [NoJob EXCEPT !.at = "pack", !.snapshot = offered]
  <2>3. /\ s \in UploadJob /\ s.at = "pack" /\ s.snapshot = offered /\ ~s.failed /\ s.todo = {}
        /\ (\A h \in Hand : s.hands[h] = "idle") /\ \A f \in File : s.pack[f] = None
    BY NoJobType DEF UploadJob, UploadInv, UploadTypes
  <2>4. job' = [job EXCEPT ![j] = s]
    BY <2>1
  <2> HIDE DEF s
  <2>5. job' \in [Job -> UploadJob] /\ job'[j] = s /\ \A i \in Job \ {j} : job'[i] = job[i]
    BY <2>3, <2>4 DEF UploadInv, UploadTypes
  <2>6. UNCHANGED <<tier, project, scratch, request, stored, edits>> /\ offered' = 0 /\ claimed' = TRUE /\ request.snapshot \in Nat
    BY <1>3 DEF StartUpload, UploadInv, UploadTypes, Row
  <2>7. UploadTypes' /\ ClaimInv' /\ ObjectsAreNamed'
    BY <2>2, <2>3, <2>5, <2>6 DEF UploadInv, UploadTypes, ClaimInv, ObjectsAreNamed
  <2>8. UploadOK(j)'
    BY <2>3, <2>5, SourceUploadsAssumption DEF UploadOK, ReadInv, SentInv, Due, Busy
  <2>9. \A i \in Job \ {j} : UploadOK(i)'
    BY <2>2, <2>5 DEF UploadOK
  <2> QED BY <2>7, <2>8, <2>9 DEF UploadInv
<1> QED BY <1>1, <1>2, <1>3

\* Packing: each file is hashed as it is, and an export is of the same bytes.
LEMMA PackHolds == ASSUME UploadInv, NEW j \in Job, PackNext(j) \/ PackFails(j) \/ PackEnds(j) PROVE UploadInv'
<1>0. job[j].at = "pack" /\ job[j] \in UploadJob /\ ReadInv(j) /\ SentInv(j) /\ request \in Row /\ stored \subseteq File \X Version \X Version
      /\ scratch \in [File -> PackedVersion] /\ project \in [File -> Version] /\ ObjectsAreNamed /\ job \in [Job -> UploadJob]
    BY DEF PackNext, PackFails, PackEnds, UploadInv, UploadTypes, UploadOK
<1>1. CASE PackNext(j)
  <2>1. PICK f \in File :
          /\ job[j].pack[f] = None
          /\ job' = [job EXCEPT ![j].pack[f] = project[f]]
          /\ scratch' = IF Image THEN [scratch EXCEPT ![f] = project[f]] ELSE scratch
    BY <1>1 DEF PackNext
  <2> DEFINE s == [job[j] EXCEPT !.pack = [@ EXCEPT ![f] = project[f]]]
  <2>2. job' = [job EXCEPT ![j] = s] /\ job'[j] = s
    BY <1>0, <2>1
  <2>3. /\ s \in UploadJob /\ s.at = "pack" /\ s.snapshot = job[j].snapshot /\ s.todo = job[j].todo
        /\ s.hands = job[j].hands /\ s.failed = job[j].failed /\ s.bytes = job[j].bytes
        /\ s.pack = [job[j].pack EXCEPT ![f] = project[f]]
    BY <1>0 DEF UploadJob, PackedVersion
  <2> HIDE DEF s
  <2>4. s.pack[f] = project[f] /\ \A g \in File \ {f} : s.pack[g] = job[j].pack[g]
    BY <1>0, <2>3 DEF UploadJob
  <2>5. scratch' \in [File -> PackedVersion] /\ (Image => scratch'[f] = project[f] /\ \A g \in File \ {f} : scratch'[g] = scratch[g])
    BY <1>0, <2>1 DEF PackedVersion
  <2>6. UNCHANGED <<tier, project, request, stored, offered, claimed, edits>>
    BY <1>1 DEF PackNext
  <2>7. ReadInv(j)'
    <3>1. Image' = Image
      BY <2>6 DEF Image
    <3>2. ~\E h \in Hand : s.hands[h] \in File
      BY <1>0, <2>3 DEF SentInv, Busy
    <3>3. Image => \A g \in File : s.pack[g] # None => scratch'[g] = s.pack[g]
      BY <1>0, <2>4, <2>5 DEF ReadInv
    <3> QED BY ONLY <2>2, <2>3, <3>1, <3>2, <3>3 DEF ReadInv
  <2>8. SentInv(j)'
    BY <1>0, <2>2, <2>3 DEF SentInv, Due, Busy
  <2>9. UploadOK(j)' /\ ObjectsAreNamed' /\ stored' \subseteq File \X Version \X Version
    BY <1>0, <2>6, <2>7, <2>8 DEF UploadOK, ObjectsAreNamed
  <2>10. /\ job[j].at # "none" /\ s \in UploadJob /\ job' = [job EXCEPT ![j] = s] /\ s.snapshot = job[j].snapshot
         /\ UNCHANGED <<tier, project, offered, claimed, edits>> /\ scratch' \in [File -> PackedVersion]
         /\ request' \in Row /\ request'.snapshot = request.snapshot
    BY <1>0, <2>2, <2>3, <2>5, <2>6
  <2> QED BY ONLY UploadInv, j \in Job, <2>9, <2>10, UploadMoves
<1>2. CASE PackFails(j)
  <2>1. request' \in Row /\ request'.snapshot = request.snapshot
    BY <1>0, <1>2 DEF PackFails, Row
  <2> QED BY <1>0, <1>2, <2>1, UploadEnds DEF PackFails
<1>3. CASE PackEnds(j)
  <2> DEFINE s == [job[j] EXCEPT !.at = "declare", !.part = 1]
  <2>1. /\ s \in UploadJob /\ job' = [job EXCEPT ![j] = s] /\ job'[j] = s /\ s.at = "declare" /\ s.part = 1
        /\ s.snapshot = job[j].snapshot /\ s.todo = job[j].todo /\ s.hands = job[j].hands
        /\ s.failed = job[j].failed /\ s.bytes = job[j].bytes /\ s.pack = job[j].pack
    BY <1>0, <1>3 DEF PackEnds, UploadJob
  <2> HIDE DEF s
  <2>2. s.pack \in [File -> Version]
    BY <1>0, <1>3, <2>1 DEF PackEnds, UploadJob, PackedVersion
  <2>3. UNCHANGED <<tier, project, scratch, request, stored, offered, claimed, edits>>
    BY <1>3 DEF PackEnds
  <2>4. ReadInv(j)'
    BY <1>0, <2>1, <2>2, <2>3 DEF ReadInv, Image
  <2>5. SentInv(j)'
    BY <1>0, <2>1, PartFacts DEF SentInv, Due, Busy
  <2> QED BY <1>0, <2>1, <2>3, <2>4, <2>5, UploadMoves DEF UploadOK, ObjectsAreNamed
<1> QED BY <1>1, <1>2, <1>3

\* A declare: the first one begins anew, a later one adds its part.
LEMMA DeclareHolds == ASSUME UploadInv, NEW j \in Job, Declare(j) \/ DeclareFails(j) PROVE UploadInv'
<1>0. job[j].at = "declare" /\ job[j] \in UploadJob /\ ReadInv(j) /\ SentInv(j) /\ request \in Row /\ stored \subseteq File \X Version \X Version
      /\ scratch \in [File -> PackedVersion] /\ ObjectsAreNamed /\ job \in [Job -> UploadJob]
    BY DEF Declare, DeclareFails, UploadInv, UploadTypes, UploadOK
<1>1. CASE DeclareFails(j)
    BY <1>0, <1>1, UploadEnds DEF DeclareFails
<1>2. CASE Declare(j)
  <2> DEFINE part == {f \in File : InPart(f, job[j].part)}
             d == [f \in File |-> IF f \in part THEN job[j].pack[f] ELSE IF job[j].part = 1 THEN None ELSE request.declared[f]]
             todo == {f \in part : ~StoredAs(f, job[j].pack[f]) /\ (tier = "local" => f = Compose)}
             s == [job[j] EXCEPT !.at = "upload", !.todo = todo]
  <2>1. request' = [request EXCEPT !.declared = d] /\ job' = [job EXCEPT ![j] = s] /\ job'[j] = s
    BY <1>0, <1>2 DEF Declare
  <2>2. job[j].pack \in [File -> Version] /\ d \in [File -> PackedVersion] /\ job[j].part \in Nat /\ job[j].part >= 1
    BY <1>0 DEF ReadInv, UploadJob, Row, PackedVersion
  <2>3. request' \in Row /\ request'.snapshot = request.snapshot /\ request'.declared = d
    BY <1>0, <2>1, <2>2 DEF Row
  <2>4. /\ s \in UploadJob /\ s.at = "upload" /\ s.part = job[j].part
        /\ s.snapshot = job[j].snapshot /\ s.todo = todo /\ s.hands = job[j].hands
        /\ s.failed = job[j].failed /\ s.bytes = job[j].bytes /\ s.pack = job[j].pack
    BY <1>0 DEF UploadJob
  <2>5. UNCHANGED <<tier, project, scratch, stored, offered, claimed, edits>>
    BY <1>2 DEF Declare
  <2>6. ReadInv(j)'
    BY <1>0, <2>1, <2>2, <2>4, <2>5 DEF ReadInv, Image
  <2>7. SentInv(j)'
    <3>1. job'[j].at = "upload"
      BY <2>1, <2>4
    <3>2. ASSUME NEW f \in File, Due(j, f)'
          PROVE  /\ request'.declared[f] = job'[j].pack[f]
                 /\ (tier = "local" /\ f # Compose) \/ StoredAs(f, job[j].pack[f])' \/ f \in todo
      <4>1. PartOf[f] \in Nat /\ PartOf[f] >= 1 /\ (tier = "chunked" => PartOf[f] <= job[j].part)
        BY <2>1, <2>4, <2>5, <3>1, <3>2, PartFacts DEF Due
      <4>2. CASE f \in part
        <5>2. StoredAs(f, job[j].pack[f])' <=> StoredAs(f, job[j].pack[f])
          BY <2>1, <2>4, <2>5 DEF StoredAs
        <5> QED BY <2>1, <2>3, <2>4, <4>2, <5>2
      <4>3. CASE f \notin part
        <5>1. tier = "chunked" /\ PartOf[f] < job[j].part /\ job[j].part # 1
          BY <2>2, <4>1, <4>3 DEF InPart
        <5>2. Due(j, f)
          BY <1>0, <5>1 DEF Due
        <5>3. request.declared[f] = job[j].pack[f] /\ StoredAs(f, job[j].pack[f])
          BY <1>0, <1>2, <5>1, <5>2 DEF SentInv, Busy, Declare
        <5>4. StoredAs(f, job[j].pack[f])' <=> StoredAs(f, job[j].pack[f])
          BY <2>1, <2>4, <2>5 DEF StoredAs
        <5> QED BY <2>1, <2>3, <2>4, <4>3, <5>1, <5>3, <5>4
      <4> QED BY <4>2, <4>3
    <3> QED BY <2>1, <2>4, <2>5, <3>1, <3>2 DEF SentInv
  <2> HIDE DEF s
  <2> QED BY <1>0, <2>1, <2>3, <2>4, <2>5, <2>6, <2>7, UploadMoves DEF UploadOK, ObjectsAreNamed
<1> QED BY <1>1, <1>2

\* A worker takes a file: what it reads is what was hashed, or it is gone.
LEMMA ReadFileHolds == ASSUME UploadInv, NEW j \in Job, NEW h \in Hand, ReadFile(j, h) PROVE UploadInv'
<1>0. job[j].at = "upload" /\ job[j].hands[h] = "idle" /\ job[j] \in UploadJob /\ ReadInv(j) /\ SentInv(j) /\ request \in Row
      /\ stored \subseteq File \X Version \X Version /\ job[j].pack \in [File -> Version]
      /\ scratch \in [File -> PackedVersion] /\ project \in [File -> Version] /\ ObjectsAreNamed /\ job \in [Job -> UploadJob]
    BY DEF ReadFile, UploadInv, UploadTypes, UploadOK, ReadInv
<1>1. UNCHANGED <<tier, project, scratch, request, stored, offered, claimed, edits>>
    BY DEF ReadFile
<1> DEFINE bytes(f) == IF Image THEN scratch[f] ELSE project[f]
           gone(f) == [job[j] EXCEPT !.todo = @ \ {f}, !.hands = [@ EXCEPT ![h] = "gone"], !.failed = TRUE]
           taken(f) == [job[j] EXCEPT !.todo = @ \ {f}, !.hands = [@ EXCEPT ![h] = f], !.bytes = [@ EXCEPT ![h] = bytes(f)]]
<1>2. PICK f \in job[j].todo :
        IF tier \in {"source", "chunked"} /\ bytes(f) # job[j].pack[f] THEN job' = [job EXCEPT ![j] = gone(f)]
                                                                      ELSE job' = [job EXCEPT ![j] = taken(f)]
  <2>1. PICK f \in job[j].todo :
          IF tier \in {"source", "chunked"} /\ bytes(f) # job[j].pack[f]
          THEN job' = [job EXCEPT ![j].todo = @ \ {f}, ![j].hands[h] = "gone", ![j].failed = TRUE]
          ELSE job' = [job EXCEPT ![j].todo = @ \ {f}, ![j].hands[h] = f, ![j].bytes[h] = bytes(f)]
    BY DEF ReadFile
  <2>2. [job EXCEPT ![j].todo = @ \ {f}, ![j].hands[h] = "gone", ![j].failed = TRUE] = [job EXCEPT ![j] = gone(f)]
    BY <1>0
  <2> HIDE DEF bytes
  <2>3. [job EXCEPT ![j].todo = @ \ {f}, ![j].hands[h] = f, ![j].bytes[h] = bytes(f)] = [job EXCEPT ![j] = taken(f)]
    BY <1>0
  <2> QED BY <2>1, <2>2, <2>3
<1>3. f \in File /\ bytes(f) \in Version /\ (Image => bytes(f) = job[j].pack[f])
    BY <1>0, <1>2, PartFacts DEF UploadJob, ReadInv, Image
<1>4. CASE job' = [job EXCEPT ![j] = gone(f)]
  <2> DEFINE s == gone(f)
  <2>1. /\ s \in UploadJob /\ job'[j] = s /\ s.at = "upload" /\ s.part = job[j].part /\ s.snapshot = job[j].snapshot
        /\ s.failed /\ s.bytes = job[j].bytes /\ s.pack = job[j].pack /\ s.hands = [job[j].hands EXCEPT ![h] = "gone"]
    BY <1>0, <1>4 DEF UploadJob
  <2> HIDE DEF s
  <2>2. \A k \in Hand : s.hands[k] \in File => k # h /\ s.hands[k] = job[j].hands[k]
    BY <1>0, <2>1, SourceUploadsAssumption DEF UploadJob
  <2>3. ReadInv(j)'
    BY <1>0, <1>1, <2>1, <2>2 DEF ReadInv, Image
  <2>4. SentInv(j)'
    BY <1>0, <1>1, <2>1 DEF SentInv, Due, Stale
  <2>5. job' = [job EXCEPT ![j] = s]
    BY <1>4 DEF s
  <2> QED BY <1>0, <1>1, <2>1, <2>3, <2>4, <2>5, UploadMoves DEF UploadOK, ObjectsAreNamed
<1>5. CASE job' = [job EXCEPT ![j] = taken(f)] /\ ~(tier \in {"source", "chunked"} /\ bytes(f) # job[j].pack[f])
  <2> DEFINE s == taken(f)
  <2>1. /\ s \in UploadJob /\ job'[j] = s /\ s.at = "upload" /\ s.part = job[j].part /\ s.snapshot = job[j].snapshot
        /\ s.failed = job[j].failed /\ s.bytes = [job[j].bytes EXCEPT ![h] = bytes(f)] /\ s.pack = job[j].pack
        /\ s.hands = [job[j].hands EXCEPT ![h] = f] /\ s.todo = job[j].todo \ {f}
    BY <1>0, <1>3, <1>5 DEF UploadJob
  <2>2. job' = [job EXCEPT ![j] = s]
    BY <1>5
  <2> HIDE DEF s
  <2>3. /\ s.hands[h] = f /\ s.bytes[h] = bytes(f)
        /\ \A k \in Hand \ {h} : s.hands[k] = job[j].hands[k] /\ s.bytes[k] = job[j].bytes[k]
    BY <1>0, <2>1 DEF UploadJob
  <2>4. tier # "session" => bytes(f) = job[j].pack[f]
    BY <1>3, <1>5, SourceUploadsAssumption DEF Image, UploadInv, UploadTypes
  <2>5. ReadInv(j)'
    BY <1>0, <1>1, <2>1, <2>3, <2>4 DEF ReadInv, Image
  <2>6. SentInv(j)'
    <3>1. \A g \in File : Due(j, g)' => Due(j, g)
      BY <1>0, <1>1, <2>1 DEF Due
    <3>2. \A g \in File : StoredAs(g, job[j].pack[g])' <=> StoredAs(g, job[j].pack[g])
      BY <1>1, <2>1 DEF StoredAs
    <3>3. Stale(j)' <=> Stale(j)
      BY <1>1, <2>1 DEF Stale
    <3>4. \A g \in File : g \in job[j].todo \/ (\E k \in Hand : job[j].hands[k] = g)
                            => g \in s.todo \/ \E k \in Hand : s.hands[k] = g
      BY <1>0, <2>1, <2>3, SourceUploadsAssumption
    <3> QED BY <1>0, <1>1, <2>1, <3>1, <3>2, <3>3, <3>4 DEF SentInv
  <2> QED BY <1>0, <1>1, <2>1, <2>2, <2>5, <2>6, UploadMoves DEF UploadOK, ObjectsAreNamed
<1> QED BY <1>2, <1>4, <1>5

\* What a PUT does to the store: the object is there, under the name of its
\* content if that is what was sent, and none is gone.
LEMMA PutFacts ==
    ASSUME NEW f \in File, NEW v \in Version, NEW w \in Version, stored \subseteq File \X Version \X Version,
           ObjectsAreNamed, UNCHANGED tier, tier # "session" => w = v, Put(f, v, w)
    PROVE  /\ stored' \subseteq File \X Version \X Version /\ ObjectsAreNamed'
           /\ \A g \in File, u \in Version : StoredAs(g, u) => StoredAs(g, u)'
           /\ StoredAs(f, v)'
<1>1. \A o \in stored' : o \in stored \/ o = <<f, v, w>>
    BY DEF Put
<1>2. <<f, v, w>> \in stored'
    BY DEF Put
<1>3. \A g \in File, u \in Version, x \in Version : <<g, u, x>> \in stored => <<g, u, x>> \in stored' \/ (g = f /\ u = v)
    BY DEF Put
<1>4. <<f, v, w>> \in File \X Version \X Version /\ <<f, v, w>>[2] = v /\ <<f, v, w>>[3] = w
    OBVIOUS
<1>5. stored' \subseteq File \X Version \X Version
    BY <1>1, <1>4
<1>6. ObjectsAreNamed'
    BY <1>1, <1>4 DEF ObjectsAreNamed
<1>7. StoredAs(f, v)'
    BY <1>2 DEF StoredAs
<1>8. \A g \in File, u \in Version : StoredAs(g, u) => StoredAs(g, u)'
    BY <1>2, <1>3 DEF StoredAs
<1> QED BY <1>5, <1>6, <1>7, <1>8

\* The PUT of what a worker has in hand: stored, or the worker is gone.
LEMMA PutFileHolds == ASSUME UploadInv, NEW j \in Job, NEW h \in Hand, PutFile(j, h) PROVE UploadInv'
<1>0. job[j].at = "upload" /\ job[j].hands[h] \in File /\ job[j] \in UploadJob /\ ReadInv(j) /\ SentInv(j) /\ request \in Row
      /\ stored \subseteq File \X Version \X Version /\ job[j].pack \in [File -> Version]
      /\ scratch \in [File -> PackedVersion] /\ ObjectsAreNamed /\ job \in [Job -> UploadJob]
    BY DEF PutFile, UploadInv, UploadTypes, UploadOK, ReadInv
<1>1. UNCHANGED <<tier, project, scratch, request, offered, claimed, edits>>
    BY DEF PutFile
<1>2. PICK f \in File : f = job[j].hands[h]
    BY <1>0
<1>3. job[j].pack[f] \in Version /\ job[j].bytes[h] \in Version /\ (tier # "session" => job[j].bytes[h] = job[j].pack[f])
    BY <1>0, <1>2 DEF ReadInv, UploadJob
<1> DEFINE next(x, fail) == [job[j] EXCEPT !.hands = [@ EXCEPT ![h] = x], !.bytes = [@ EXCEPT ![h] = 0], !.failed = fail]
<1>4. PICK x \in {"idle", "gone"}, fail \in BOOLEAN :
        /\ job' = [job EXCEPT ![j] = next(x, fail)]
        /\ UNCHANGED stored \/ Put(f, job[j].pack[f], job[j].bytes[h])
        /\ fail \/ (fail = job[j].failed /\ Put(f, job[j].pack[f], job[j].bytes[h]))
  <2>1. CASE /\ Put(f, job[j].pack[f], job[j].bytes[h])
             /\ job' = [job EXCEPT ![j].hands[h] = "idle", ![j].bytes[h] = 0]
    <3>2. job[j].failed \in BOOLEAN
      BY <1>0 DEF UploadJob
    <3>3. job \in [Job -> UploadJob] /\ job' = [job EXCEPT ![j].hands[h] = "idle", ![j].bytes[h] = 0]
      BY <1>0, <2>1
    <3>1. job[j].failed \in BOOLEAN /\ job' = [job EXCEPT ![j] = next("idle", job[j].failed)]
      BY ONLY <3>2, <3>3, j \in Job, h \in Hand DEF UploadJob
    <3> HIDE DEF next
    <3> QED BY <2>1, <3>1
  <2>2. CASE /\ UNCHANGED stored \/ Put(f, job[j].pack[f], job[j].bytes[h])
             /\ job' = [job EXCEPT ![j].hands[h] = "gone", ![j].bytes[h] = 0, ![j].failed = TRUE]
    <3>2. job \in [Job -> UploadJob]
          /\ job' = [job EXCEPT ![j].hands[h] = "gone", ![j].bytes[h] = 0, ![j].failed = TRUE]
      BY <1>0, <2>2
    <3>1. job' = [job EXCEPT ![j] = next("gone", TRUE)]
      BY ONLY <3>2, j \in Job, h \in Hand DEF UploadJob
    <3> HIDE DEF next
    <3> QED BY <2>2, <3>1
  <2> QED BY <1>2, <2>1, <2>2 DEF PutFile
<1> DEFINE s == next(x, fail)
<1>5. /\ s \in UploadJob /\ job'[j] = s /\ s.at = "upload" /\ s.part = job[j].part /\ s.snapshot = job[j].snapshot
      /\ s.failed = fail /\ s.bytes = [job[j].bytes EXCEPT ![h] = 0] /\ s.pack = job[j].pack
      /\ s.hands = [job[j].hands EXCEPT ![h] = x] /\ s.todo = job[j].todo /\ job' = [job EXCEPT ![j] = s]
    BY <1>0, <1>4, PartFacts DEF UploadJob
<1> HIDE DEF s
<1>6. /\ s.hands[h] = x /\ x \notin File
      /\ \A k \in Hand \ {h} : s.hands[k] = job[j].hands[k] /\ s.bytes[k] = job[j].bytes[k]
    BY <1>0, <1>5, SourceUploadsAssumption DEF UploadJob
<1>7. /\ stored' \subseteq File \X Version \X Version /\ ObjectsAreNamed'
      /\ \A g \in File, u \in Version : StoredAs(g, u) => StoredAs(g, u)'
      /\ ~fail => StoredAs(f, job[j].pack[f])'
  <2>1. CASE Put(f, job[j].pack[f], job[j].bytes[h])
    <3>1. PICK v \in Version, w \in Version : v = job[j].pack[f] /\ w = job[j].bytes[h]
      BY <1>3
    <3>2. /\ stored' \subseteq File \X Version \X Version /\ ObjectsAreNamed'
          /\ \A g \in File, u \in Version : StoredAs(g, u) => StoredAs(g, u)'
          /\ StoredAs(f, v)'
      BY <1>0, <1>1, <1>3, <2>1, <3>1, PutFacts
    <3>3. job'[j].pack[f] = v
      BY <1>5, <3>1
    <3> QED BY <3>2, <3>3 DEF StoredAs
  <2>2. CASE UNCHANGED stored /\ fail
    BY <1>0, <1>1, <2>2 DEF ObjectsAreNamed, StoredAs
  <2> QED BY <1>4, <2>1, <2>2
<1>8. ReadInv(j)'
    BY <1>0, <1>1, <1>5, <1>6 DEF ReadInv, Image
<1>9. SentInv(j)'
  <2>1. \A g \in File : Due(j, g)' => Due(j, g)
    BY <1>0, <1>1, <1>5 DEF Due
  <2>2. \A g \in File : StoredAs(g, job[j].pack[g]) => StoredAs(g, job[j].pack[g])'
    <3> TAKE g \in File
    <3>1. job'[j].pack[g] = job[j].pack[g] /\ job[j].pack[g] \in Version
      BY <1>0, <1>5
    <3> QED BY <1>7, <3>1 DEF StoredAs
  <2>3. Stale(j)' <=> Stale(j)
    BY <1>1, <1>5 DEF Stale
  <2>4. \A g \in File : ~fail /\ (g \in job[j].todo \/ \E k \in Hand : job[j].hands[k] = g)
                          => g \in s.todo \/ (\E k \in Hand : s.hands[k] = g) \/ StoredAs(g, job[j].pack[g])'
    BY <1>2, <1>5, <1>6, <1>7
  <2> QED BY <1>0, <1>1, <1>4, <1>5, <2>1, <2>2, <2>3, <2>4 DEF SentInv
<1> QED BY <1>0, <1>1, <1>5, <1>7, <1>8, <1>9, UploadMoves DEF UploadOK

\* The workers are done: the upload goes on to its next part, is completed, or over.
LEMMA UploadsEndHolds == ASSUME UploadInv, NEW j \in Job, UploadsEnd(j) \/ Complete(j) PROVE UploadInv'
<1>0. job[j].at \in {"upload", "complete"} /\ job[j] \in UploadJob /\ ReadInv(j) /\ SentInv(j) /\ request \in Row
      /\ stored \subseteq File \X Version \X Version /\ job[j].pack \in [File -> Version] /\ job[j].part >= 1 /\ job[j].part \in Nat
      /\ scratch \in [File -> PackedVersion] /\ ObjectsAreNamed /\ job \in [Job -> UploadJob]
    BY DEF UploadsEnd, Complete, UploadInv, UploadTypes, UploadOK, ReadInv, UploadJob
<1>1. CASE Complete(j)
  <2>1. request' \in Row /\ request'.snapshot = request.snapshot
    BY <1>0, <1>1 DEF Complete, Row
  <2> QED BY <1>0, <1>1, <2>1, UploadEnds DEF Complete
<1>2. CASE UploadsEnd(j) /\ job[j].failed
    BY <1>0, <1>2, UploadEnds DEF UploadsEnd
<1>3. CASE UploadsEnd(j) /\ ~job[j].failed
  <2> DEFINE on == job[j].part < LastPart
             s == IF on THEN [job[j] EXCEPT !.at = "declare", !.part = @ + 1] ELSE [job[j] EXCEPT !.at = "complete"]
  <2>1. job' = [job EXCEPT ![j] = s] /\ job'[j] = s
    BY <1>0, <1>3 DEF UploadsEnd
  <2>2. /\ s \in UploadJob /\ s.at = (IF on THEN "declare" ELSE "complete") /\ s.part = (IF on THEN job[j].part + 1 ELSE job[j].part)
        /\ s.snapshot = job[j].snapshot /\ s.todo = job[j].todo /\ s.hands = job[j].hands
        /\ s.failed = job[j].failed /\ s.bytes = job[j].bytes /\ s.pack = job[j].pack
    <3> HIDE DEF on
    <3>1. CASE on
      <4>1. s = [job[j] EXCEPT !.at = "declare", !.part = @ + 1] /\ job[j].part + 1 \in Nat
        BY <1>0, <3>1
      <4> HIDE DEF s
      <4> QED BY <1>0, <3>1, <4>1 DEF UploadJob
    <3>2. CASE ~on
      BY <1>0, <3>2 DEF UploadJob
    <3> QED BY <3>1, <3>2
  <2> HIDE DEF s
  <2>3. UNCHANGED <<tier, project, scratch, request, stored, offered, claimed, edits>> /\ ~Busy(j) /\ job[j].todo = {} /\ job[j].at = "upload"
    BY <1>3 DEF UploadsEnd, Busy
  <2>4. ReadInv(j)'
    BY <1>0, <2>1, <2>2, <2>3 DEF ReadInv, Image
  <2>5. SentInv(j)'
    <3>1. \A f \in File : Due(j, f)' => Due(j, f)
      BY <1>0, <2>1, <2>2, <2>3, PartFacts DEF Due
    <3>2. \A f \in File : StoredAs(f, job[j].pack[f])' <=> StoredAs(f, job[j].pack[f])
      BY <2>1, <2>2, <2>3 DEF StoredAs
    <3>3. Stale(j)' <=> Stale(j)
      BY <2>1, <2>2, <2>3 DEF Stale
    <3>4. ~Busy(j)' /\ LastPart' = LastPart
      BY <2>1, <2>2, <2>3 DEF Busy, LastPart
    <3>5. job'[j].at = "complete" => job'[j].part >= LastPart'
      BY <1>0, <2>1, <2>2, <3>4, PartFacts
    <3>6. \A f \in File : \A k \in Hand : job[j].hands[k] # f
      BY <2>3 DEF Busy
    <3> QED BY <1>0, <1>3, <2>1, <2>2, <2>3, <3>1, <3>2, <3>3, <3>4, <3>5, <3>6 DEF SentInv
  <2> QED BY <1>0, <2>1, <2>2, <2>3, <2>4, <2>5, UploadMoves DEF UploadOK, ObjectsAreNamed
<1> QED BY <1>1, <1>2, <1>3

LEMMA UploadStepHolds == UploadInv /\ [UploadNext]_uploadVars => UploadInv'
<1> SUFFICES ASSUME UploadInv, [UploadNext]_uploadVars PROVE UploadInv'
    OBVIOUS
<1>1. CASE UNCHANGED uploadVars
  <2>1. UNCHANGED <<tier, project, scratch, request, stored, offered, claimed, job, edits>>
    BY <1>1 DEF uploadVars
  <2> QED BY <2>1, UploadFrame DEF UploadInv, UploadTypes
<1> QED BY <1>1, OutsideHolds, SlotHolds, PackHolds, DeclareHolds, ReadFileHolds, PutFileHolds, UploadsEndHolds DEF UploadNext

\* Every reachable state of an upload is well typed.
THEOREM UploadTypeCorrect == UploadSpec => []UploadTypeOK
<1>1. UploadInv => UploadTypeOK
    BY DEF UploadInv, UploadTypes, UploadTypeOK, Row, UploadJob, PackedVersion
<1> QED BY <1>1, UploadInitHolds, UploadStepHolds, PTL DEF UploadSpec

\* What the platform is given is what it is told (internal/deploysource): an
\* object is named by its content, and a completed upload is declared and
\* stored as a whole.
THEOREM UploadsAreTrueHolds == UploadSpec => []UploadsAreTrue
<1>1. UploadInv => UploadsAreTrue
  <2> SUFFICES ASSUME UploadInv, NEW j \in Job, job[j].at = "complete", ~Stale(j)
               PROVE  /\ request.declared = job[j].pack
                      /\ \A f \in File : (tier = "local" /\ f # Compose) \/ StoredAs(f, job[j].pack[f])
    BY DEF UploadInv, UploadsAreTrue, CompleteIsEarned
  <2>1. SentInv(j) /\ job[j] \in UploadJob /\ request \in Row
    BY DEF UploadInv, UploadOK, UploadTypes
  <2>2. \A f \in File : Due(j, f)
    BY <2>1, PartFacts DEF Due, SentInv, UploadJob
  <2>3. \A f \in File : /\ request.declared[f] = job[j].pack[f]
                        /\ (tier = "local" /\ f # Compose) \/ StoredAs(f, job[j].pack[f])
    BY <2>1, <2>2 DEF SentInv, Busy
  <2>4. request.declared = job[j].pack
    BY <2>1, <2>3 DEF Row, UploadJob
  <2> QED BY <2>3, <2>4
<1> QED BY <1>1, UploadInitHolds, UploadStepHolds, PTL DEF UploadSpec

-----------------------------------------------------------------------------
(* Local stacks.                                                            *)

Action == {"start", "stop"}
RunnerState == [at : {"idle", "start", "stop", "report"}, report : {"none", "running", "stopped", "failed"}]

StackTypes ==
    /\ wish \in {"off", "start", "stop", "running", "stopped", "failed"}
    /\ answer \in Action \cup {"none"} /\ stack \in {"down", "up", "stopped"}
    /\ runner \in [Runner -> RunnerState]

\* One action of a mission at a time, and what it is about to report is so.
SlotInv ==
    /\ \A r \in Runner : runner[r].at # "idle" => slot
    /\ \A r, q \in Runner : r # q => runner[r].at = "idle" \/ runner[q].at = "idle"
    /\ \A r \in Runner : runner[r].at = "report" =>
         /\ runner[r].report = "running" => stack = "up" \/ diedBySelf
         /\ runner[r].report = "stopped" => stack # "up"

\* An answer that was not overtaken, and an action taken from one, belong to a
\* row that still waits.
PendingRow ==
    /\ answer # "none" /\ ~overtaken => wish \in Action
    /\ ~strayed => \A r \in Runner : runner[r].at # "idle" => wish \in Action

LocalInv == StackTypes /\ SlotInv /\ PendingRow /\ SettledIsTrue

\* Nothing is asked for at first.
LEMMA LocalInitHolds == LocalInit => LocalInv
<1> SUFFICES ASSUME LocalInit PROVE LocalInv
    OBVIOUS
<1>1. runner \in [Runner -> RunnerState] /\ \A r \in Runner : runner[r].at = "idle"
    BY DEF LocalInit, NoRunner, RunnerState
<1>2. StackTypes
    BY <1>1 DEF LocalInit, StackTypes, Action
<1>3. SlotInv /\ PendingRow /\ SettledIsTrue
    BY <1>1 DEF LocalInit, SlotInv, PendingRow, SettledIsTrue
<1> QED BY <1>2, <1>3 DEF LocalInv

LEMMA LocalStepHolds == LocalInv /\ [LocalNext]_localVars => LocalInv'
<1> SUFFICES ASSUME LocalInv, [LocalNext]_localVars PROVE LocalInv'
    OBVIOUS
<1> USE DEF LocalInv, StackTypes, SlotInv, PendingRow, SettledIsTrue, Action, RunnerState
<1>1. CASE UserStarts
    BY <1>1 DEF UserStarts, strays
<1>2. CASE UserStops
    BY <1>2 DEF UserStops, strays
<1>8. CASE StackDies
    BY <1>8 DEF StackDies, strays
<1>9. CASE PollLocalPreviews
    BY <1>9 DEF PollLocalPreviews
<1>10. CASE ClaimAndRun
  <2>1. CASE slot
    BY <1>10, <2>1 DEF ClaimAndRun
  <2>2. CASE ~slot
    <3>1. PICK r \in Runner : runner' = [runner EXCEPT ![r] = [at |-> answer, report |-> "none"]]
      BY <1>10, <2>2 DEF ClaimAndRun
    <3>2. \A q \in Runner : runner[q].at = "idle"
      BY <2>2
    <3>3. runner' \in [Runner -> RunnerState] /\ runner'[r].at = answer /\ \A q \in Runner \ {r} : runner'[q] = runner[q]
      BY <1>10, <3>1 DEF ClaimAndRun
    <3>4. answer # "none" /\ answer' = "none" /\ slot' /\ strayed' = overtaken /\ answer \in Action
          /\ UNCHANGED <<wish, stack, diedBySelf, overtaken>>
      BY <1>10, <2>2 DEF ClaimAndRun
    <3>5. StackTypes'
      BY <3>3, <3>4
    <3>6. SlotInv'
      BY <3>2, <3>3, <3>4
    <3>7. PendingRow' /\ SettledIsTrue'
      BY <3>2, <3>3, <3>4
    <3> QED BY <3>5, <3>6, <3>7
  <2> QED BY <2>1, <2>2
<1>3. CASE BridgeDies
    BY <1>3 DEF BridgeDies, NoRunner, strays
<1>4. ASSUME NEW r \in Runner, ComposeUp(r) PROVE LocalInv'
  <2>1. PICK report \in {"running", "failed"} : runner' = [runner EXCEPT ![r] = [at |-> "report", report |-> report]]
    BY <1>4 DEF ComposeUp
  <2>2. /\ runner' \in [Runner -> RunnerState] /\ runner'[r].at = "report" /\ runner'[r].report = report
        /\ \A q \in Runner \ {r} : runner'[q] = runner[q] /\ runner[q].at = "idle"
    BY <1>4, <2>1 DEF ComposeUp
  <2>3. /\ report = "running" => stack' = "up" /\ stack' \in {stack, "up"} /\ diedBySelf' \in {diedBySelf, FALSE}
        /\ (stack' = stack /\ diedBySelf' = diedBySelf) \/ stack' = "up"
    BY <1>4, <2>1, <2>2 DEF ComposeUp
  <2>4. runner[r].at = "start" /\ UNCHANGED <<wish, answer, slot, overtaken, strayed>>
    BY <1>4 DEF ComposeUp, strays
  <2>5. StackTypes'
    BY <2>2, <2>3, <2>4
  <2>8. slot' /\ \A q \in Runner : runner'[q].at # "idle" => q = r
    <3>1. slot
      BY ONLY <2>4, r \in Runner, SlotInv DEF SlotInv
    <3> QED BY ONLY <2>2, <2>4, <3>1
  <2>6. SlotInv'
    BY ONLY <2>2, <2>3, <2>8, r \in Runner, report \in {"running", "failed"} DEF SlotInv
  <2>7. PendingRow' /\ SettledIsTrue'
    BY <2>2, <2>3, <2>4
  <2> QED BY <2>5, <2>6, <2>7
<1>5. ASSUME NEW r \in Runner, ComposeStop(r) PROVE LocalInv'
    BY <1>5 DEF ComposeStop, strays
<1>6. ASSUME NEW r \in Runner, ReportLocalPreview(r) PROVE LocalInv'
    BY <1>6 DEF ReportLocalPreview, NoRunner, Settles
<1>7. CASE UNCHANGED localVars
    BY <1>7 DEF localVars, strays
<1> QED BY <1>1, <1>2, <1>3, <1>4, <1>5, <1>6, <1>7, <1>8, <1>9, <1>10 DEF LocalNext

\* Every reachable state of a local stack is well typed.
THEOREM LocalTypeCorrect == LocalSpec => []LocalTypeOK
<1>1. LocalInv => LocalTypeOK
    BY DEF LocalInv, StackTypes, LocalTypeOK, RunnerState, Action
<1> QED BY <1>1, LocalInitHolds, LocalStepHolds, PTL DEF LocalSpec

\* A settled row of a local stack is true (localpreview.go: the slot of a
\* mission and the platform's check of the row): what the page says runs is up,
\* or its containers died by themselves, and what it says is stopped is not up.
THEOREM SettledIsTrueHolds == LocalSpec => []SettledIsTrue
<1>1. LocalInv => SettledIsTrue
    BY DEF LocalInv
<1> QED BY <1>1, LocalInitHolds, LocalStepHolds, PTL DEF LocalSpec

-----------------------------------------------------------------------------
(* Previews of a mission.                                                   *)

Pack == [Page -> Content \cup {Unset}]
FullPack == [Page -> Content]
BuildStep == {"none", "build", "kind", "hash", "cache", "store", "declare", "put", "open"}
BuildState == [at : BuildStep, dir : Tree, todo : SUBSET Page, pack : Pack]

BuildTypes ==
    /\ product \in [Tree -> Content] /\ output \in [Tree -> Pack]
    /\ build \in [Builder -> BuildState] /\ revive \in [Reviver -> BuildState]
    /\ DOMAIN blob \subseteq Page \X Content /\ hosted \subseteq Page \X Content
    /\ manifest \in FullPack \cup {NoPack} /\ asked \in 0..MaxRevives

\* How far a build is: what it has written, and what it has hashed.
Progress(b) ==
    LET s == build[b]
    IN  /\ s.at = "build" => \A f \in Page \ s.todo : output[s.dir][f] \in Content
        /\ s.at \in {"kind", "hash"} => output[s.dir] \in FullPack
        /\ s.at = "hash" => \A f \in Page \ s.todo : s.pack[f] \in Content
        /\ s.at \in {"cache", "store", "declare", "put"} => s.pack \in FullPack
ProgressInv == \A b \in Builder : Progress(b)

\* A blob holds what its name says, or its name is known to be spoilt.
BlobInv == \A o \in DOMAIN blob : o \in spoilt \/ blob[o] = o[2]

\* What is declared from the cache is in it: blobs are stored before their
\* manifest, and none is ever removed.
Cached(pack, F) == \A f \in F : Name(pack, f) \in DOMAIN blob
CacheInv ==
    /\ manifest # NoPack => Cached(manifest, Page)
    /\ \A r \in Reviver : /\ revive[r].pack \in FullPack \cup {NoPack}
                          /\ revive[r].at = "put" => revive[r].pack \in FullPack
                          /\ revive[r].pack # NoPack => Cached(revive[r].pack, Page)
    /\ \A b \in Builder : build[b].at = "store" => Cached(build[b].pack, Page \ build[b].todo)

BuildInv == BuildTypes /\ ProgressInv /\ BlobInv /\ CacheInv

LEMMA NoPackType == NoPack \in Pack /\ NoBuild \in BuildState /\ NoBuild.at = "none" /\ NoBuild.pack = NoPack
                    /\ 0 \in Content /\ Unset \notin Content
BY PreviewBuildsAssumption DEF NoPack, Pack, NoBuild, BuildState, BuildStep, Tree, Content, Unset

\* The machine has built nothing.
LEMMA BuildInitHolds == BuildInit => BuildInv
<1> SUFFICES ASSUME BuildInit PROVE BuildInv
    OBVIOUS
<1>5. asked = 0
    BY DEF BuildInit
<1>0. asked \in 0..MaxRevives
    BY <1>5, PreviewBuildsAssumption
<1>4. DOMAIN blob = {}
    BY DEF BuildInit
<1>3. build \in [Builder -> BuildState] /\ revive \in [Reviver -> BuildState]
    BY NoPackType DEF BuildInit
<1>1. BuildTypes
    BY <1>0, <1>3, <1>4, NoPackType DEF BuildInit, BuildTypes
<1>2. ProgressInv /\ BlobInv /\ CacheInv
    BY <1>4, NoPackType DEF BuildInit, ProgressInv, Progress, BlobInv, CacheInv
<1> QED BY <1>1, <1>2 DEF BuildInv

\* A builder starts in a free place, with a tree that is new.
LEMMA BuildStarts ==
    ASSUME BuildInv, NEW d \in Tree, StartIn(d, Products + 1), Products < MaxProducts,
           UNCHANGED <<output, revive, blob, manifest, hosted, spoilt, asked>>
    PROVE  BuildInv'
<1>1. Products + 1 \in Content
    BY PreviewBuildsAssumption DEF BuildInv, BuildTypes, Products, Content, Tree
<1>2. PICK b \in Builder : build' = [build EXCEPT ![b] = [NoBuild EXCEPT !.at = "build", !.dir = d, !.todo = Page]]
    BY DEF StartIn
<1>3. [NoBuild EXCEPT !.at = "build", !.dir = d, !.todo = Page] \in BuildState
    BY NoPackType DEF BuildState, BuildStep
<1>4. build' \in [Builder -> BuildState] /\ build'[b].at = "build" /\ build'[b].todo = Page
      /\ \A c \in Builder \ {b} : build'[c] = build[c]
    BY <1>2, <1>3, NoPackType DEF BuildInv, BuildTypes, BuildState
<1>5. product' \in [Tree -> Content]
    BY <1>1 DEF BuildInv, BuildTypes, StartIn
<1>6. BuildTypes'
    BY <1>4, <1>5 DEF BuildInv, BuildTypes
<1>7. ProgressInv'
    BY <1>4 DEF BuildInv, ProgressInv, Progress
<1>8. BlobInv' /\ CacheInv'
    BY <1>4 DEF BuildInv, BlobInv, CacheInv, Cached, Name
<1> QED BY <1>6, <1>7, <1>8 DEF BuildInv

\* A builder moves, and touches no file.
LEMMA BuilderMoves ==
    ASSUME BuildInv, NEW b \in Builder, NEW s \in BuildState, build' = [build EXCEPT ![b] = s],
           UNCHANGED <<product, output, revive, blob, manifest, spoilt, asked>>,
           hosted' \subseteq Page \X Content,
           Progress(b)', s.at = "store" => Cached(s.pack, Page \ s.todo)
    PROVE  BuildInv'
<1>1. build' \in [Builder -> BuildState] /\ build'[b] = s /\ \A c \in Builder \ {b} : build'[c] = build[c]
    BY DEF BuildInv, BuildTypes
<1>2. BuildTypes'
    BY <1>1 DEF BuildInv, BuildTypes
<1>3. \A c \in Builder \ {b} : Progress(c)'
    BY <1>1 DEF BuildInv, ProgressInv, Progress
<1>4. ProgressInv'
    BY <1>3 DEF ProgressInv
<1>5. BlobInv' /\ CacheInv'
    BY <1>1 DEF BuildInv, BlobInv, CacheInv, Cached, Name
<1> QED BY <1>2, <1>4, <1>5 DEF BuildInv

\* A build ends: well, with an error, or for nothing.
LEMMA BuildLeaves ==
    ASSUME BuildInv, NEW b \in Builder, Leave(b),
           UNCHANGED <<product, output, revive, blob, manifest, spoilt, asked, hosted>>
    PROVE  BuildInv'
<1>1. build' = [build EXCEPT ![b] = NoBuild]
    BY DEF Leave
<1>2. build'[b] = NoBuild
    BY <1>1 DEF BuildInv, BuildTypes
<1>3. Progress(b)'
    BY <1>2, NoPackType DEF Progress
<1> QED BY <1>1, <1>3, NoPackType, BuilderMoves DEF BuildInv, BuildTypes

\* A blob is added: nothing that was in the cache goes, whatever the bytes.
LEMMA BlobAdded ==
    ASSUME BuildInv, NEW b \in Builder, build[b].at = "store", NEW f \in Page, NEW bytes,
           blob' = [o \in DOMAIN blob \cup {Name(build[b].pack, f)} |->
                      IF o = Name(build[b].pack, f) THEN bytes ELSE blob[o]],
           spoilt \subseteq spoilt', bytes = build[b].pack[f] \/ Name(build[b].pack, f) \in spoilt'
    PROVE  BlobInv' /\ DOMAIN blob' = DOMAIN blob \cup {Name(build[b].pack, f)} /\ DOMAIN blob' \subseteq Page \X Content
<1>1. Name(build[b].pack, f) = <<f, build[b].pack[f]>> /\ build[b].pack[f] \in Content
    BY DEF Name, BuildInv, BuildTypes, ProgressInv, Progress, FullPack
<1> QED BY <1>1 DEF BuildInv, BuildTypes, BlobInv

\* The cache has grown, or is as it was.
LEMMA CacheGrows ==
    ASSUME BuildInv, BlobInv', DOMAIN blob \subseteq DOMAIN blob', DOMAIN blob' \subseteq Page \X Content,
           build' \in [Builder -> BuildState], ProgressInv',
           \A b \in Builder : build'[b].at = "store" => \A f \in Page \ build'[b].todo : Name(build'[b].pack, f) \in DOMAIN blob',
           revive' \in {revive, [r \in Reviver |-> NoBuild]},
           UNCHANGED <<product, output, manifest, hosted, asked>>
    PROVE  BuildInv'
<1>1. revive' \in [Reviver -> BuildState]
    BY NoPackType DEF BuildInv, BuildTypes
<1>2. BuildTypes'
    BY <1>1 DEF BuildInv, BuildTypes
<1>3. CacheInv'
    BY NoPackType DEF BuildInv, CacheInv, Cached, Name
<1> QED BY <1>2, <1>3 DEF BuildInv

\* Writing the output, file by file: a file that is written is never unwritten.
LEMMA RunBuildHolds == ASSUME BuildInv, NEW b \in Builder, RunBuild(b) PROVE BuildInv'
<1>1. PICK f \in build[b].todo :
        /\ output' = [output EXCEPT ![build[b].dir][f] = product[build[b].dir]]
        /\ build' = [build EXCEPT ![b].todo = @ \ {f}, ![b].at = IF build[b].todo = {f} THEN "kind" ELSE @]
    BY DEF RunBuild
<1>2. build[b] \in BuildState /\ build[b].at = "build" /\ f \in Page /\ build[b].dir \in Tree /\ product[build[b].dir] \in Content
    BY DEF RunBuild, BuildInv, BuildTypes, BuildState
<1>3. /\ output' \in [Tree -> Pack]
      /\ \A d \in Tree, g \in Page : output'[d][g] = output[d][g] \/ output'[d][g] \in Content
      /\ output'[build[b].dir][f] \in Content
    BY <1>1, <1>2 DEF BuildInv, BuildTypes, Pack
<1>4. /\ build' \in [Builder -> BuildState] /\ \A c \in Builder \ {b} : build'[c] = build[c]
      /\ build'[b].at = (IF build[b].todo = {f} THEN "kind" ELSE "build") /\ build'[b].todo = build[b].todo \ {f}
      /\ build'[b].dir = build[b].dir
    BY <1>1, <1>2 DEF BuildInv, BuildTypes, BuildState, BuildStep
<1>5. BuildTypes'
    BY <1>3, <1>4 DEF RunBuild, BuildInv, BuildTypes
<1>6. \A c \in Builder \ {b} : Progress(c)'
  <2> TAKE c \in Builder \ {b}
  <2>1. build'[c] = build[c] /\ build[c] \in BuildState /\ Progress(c)
    BY <1>4 DEF BuildInv, BuildTypes, ProgressInv
  <2>2. output[build[c].dir] \in FullPack => output'[build[c].dir] \in FullPack
    BY <1>3, <2>1 DEF FullPack, Pack, BuildState
  <2> QED BY <1>3, <2>1, <2>2 DEF Progress, BuildState
<1>7. Progress(b)'
  <2>1. \A g \in Page \ build'[b].todo : output'[build[b].dir][g] \in Content
    BY <1>2, <1>3, <1>4 DEF BuildInv, ProgressInv, Progress
  <2>2. build'[b].at = "kind" => output'[build[b].dir] \in FullPack
    BY <1>2, <1>3, <1>4, <2>1 DEF FullPack, Pack
  <2> QED BY <1>4, <2>1, <2>2 DEF Progress
<1>8. BlobInv' /\ CacheInv'
    BY <1>4 DEF RunBuild, BuildInv, BlobInv, CacheInv, Cached, Name
<1> QED BY <1>5, <1>6, <1>7, <1>8 DEF BuildInv, ProgressInv

\* From the built tree to a pack: each file is hashed once.
LEMMA HashHolds == ASSUME BuildInv, NEW b \in Builder, DetectAndReport(b) \/ HashFile(b) \/ StoreStarts(b) PROVE BuildInv'
<1>0. build \in [Builder -> BuildState] /\ build[b] \in BuildState /\ Progress(b)
    BY DEF BuildInv, BuildTypes, ProgressInv
<1>1. CASE DetectAndReport(b)
  <2>1. CASE Leave(b)
    BY <1>1, <2>1, BuildLeaves DEF DetectAndReport
  <2>2. CASE build' = [build EXCEPT ![b].at = "hash", ![b].todo = Page]
    <3> DEFINE s == [build[b] EXCEPT !.at = "hash", !.todo = Page]
    <3>1. s \in BuildState /\ build' = [build EXCEPT ![b] = s] /\ build'[b] = s
          /\ s.at = "hash" /\ s.todo = Page /\ s.dir = build[b].dir
      BY <1>0, <2>2 DEF BuildState, BuildStep
    <3>2. Progress(b)'
      BY <1>0, <1>1, <3>1 DEF Progress, DetectAndReport
    <3> QED BY <1>1, <3>1, <3>2, BuilderMoves DEF DetectAndReport, BuildInv, BuildTypes
  <2> QED BY <1>1, <2>1, <2>2 DEF DetectAndReport
<1>2. CASE HashFile(b)
  <2>1. PICK f \in build[b].todo :
          build' = [build EXCEPT ![b].pack[f] = output[build[b].dir][f], ![b].todo = @ \ {f},
                                 ![b].at = IF build[b].todo = {f} THEN "cache" ELSE @]
    BY <1>2 DEF HashFile
  <2>2. build[b].at = "hash" /\ f \in Page /\ output[build[b].dir][f] \in Content
    BY <1>0, <1>2 DEF HashFile, BuildState, Progress, FullPack
  <2> DEFINE s == [build[b] EXCEPT !.pack[f] = output[build[b].dir][f], !.todo = @ \ {f},
                                   !.at = IF build[b].todo = {f} THEN "cache" ELSE @]
  <2>3. build' = [build EXCEPT ![b] = s] /\ build'[b] = s
    BY <1>0, <2>1
  <2>4. /\ s \in BuildState /\ s.todo = build[b].todo \ {f} /\ s.dir = build[b].dir
        /\ s.at = (IF build[b].todo = {f} THEN "cache" ELSE "hash")
        /\ s.pack = [build[b].pack EXCEPT ![f] = output[build[b].dir][f]]
    BY <1>0, <2>2 DEF BuildState, BuildStep, Pack
  <2> HIDE DEF s
  <2>5. \A g \in Page \ s.todo : s.pack[g] \in Content
    BY <1>0, <2>2, <2>4 DEF Progress, BuildState, Pack
  <2>6. s.at = "cache" => s.pack \in FullPack
    BY <2>4, <2>5 DEF FullPack, Pack, BuildState
  <2>7. UNCHANGED <<product, output, revive, blob, manifest, spoilt, asked, hosted>>
    BY <1>2 DEF HashFile
  <2>8. Progress(b)'
    BY <1>0, <2>2, <2>3, <2>4, <2>5, <2>6, <2>7 DEF Progress
  <2> QED BY <2>3, <2>4, <2>7, <2>8, BuilderMoves DEF BuildInv, BuildTypes
<1>3. CASE StoreStarts(b)
  <2> DEFINE s == [build[b] EXCEPT !.at = "store", !.todo = Page]
  <2>1. s \in BuildState /\ build' = [build EXCEPT ![b] = s] /\ build'[b] = s
        /\ s.at = "store" /\ s.todo = Page /\ s.pack = build[b].pack
    BY <1>0, <1>3 DEF BuildState, BuildStep, StoreStarts
  <2>2. Progress(b)' /\ Cached(s.pack, Page \ s.todo)
    BY <1>0, <1>3, <2>1 DEF Progress, StoreStarts, Cached
  <2> QED BY <1>3, <2>1, <2>2, BuilderMoves DEF StoreStarts, BuildInv, BuildTypes
<1> QED BY <1>1, <1>2, <1>3

\* A blob that was being written stays in part, and its name is known for it.
LEMMA TornHolds ==
    ASSUME BuildInv, NEW b \in Builder, Torn(b)
    PROVE  BlobInv' /\ DOMAIN blob \subseteq DOMAIN blob' /\ DOMAIN blob' \subseteq Page \X Content
<1>1. CASE UNCHANGED <<blob, spoilt>>
    BY <1>1 DEF BuildInv, BuildTypes, BlobInv
<1>2. ASSUME build[b].at = "store", NEW f \in build[b].todo,
             blob' = [o \in DOMAIN blob \cup {Name(build[b].pack, f)} |-> IF o = Name(build[b].pack, f) THEN Unset ELSE blob[o]],
             spoilt' = spoilt \cup {Name(build[b].pack, f)}
      PROVE  BlobInv' /\ DOMAIN blob' = DOMAIN blob \cup {Name(build[b].pack, f)} /\ DOMAIN blob' \subseteq Page \X Content
  <2>1. f \in Page
    BY <1>2 DEF BuildInv, BuildTypes, BuildState
  <2> QED BY <1>2, <2>1, BlobAdded
<1> QED BY <1>1, <1>2 DEF Torn

\* The cache is written: blobs, then the manifest; a blob may stay behind in part.
LEMMA StoreHolds ==
    ASSUME BuildInv, NEW b \in Builder, StoreBlob(b) \/ StoreFails(b) \/ StoreManifest(b)
    PROVE  BuildInv'
<1>0. build \in [Builder -> BuildState] /\ build[b] \in BuildState /\ build[b].at = "store" /\ build[b].pack \in FullPack
      /\ build[b].todo \subseteq Page
    BY DEF BuildInv, BuildTypes, ProgressInv, Progress, BuildState, StoreBlob, StoreFails, StoreManifest
<1>1. CASE StoreBlob(b)
  <2>1. PICK f \in build[b].todo :
          /\ build' = [build EXCEPT ![b].todo = @ \ {f}]
          /\ IF Name(build[b].pack, f) \in DOMAIN blob THEN UNCHANGED <<blob, spoilt>>
             ELSE /\ blob' = [o \in DOMAIN blob \cup {Name(build[b].pack, f)} |->
                                IF o = Name(build[b].pack, f) THEN output[build[b].dir][f] ELSE blob[o]]
                  /\ spoilt' = IF output[build[b].dir][f] = Name(build[b].pack, f)[2] THEN spoilt
                               ELSE spoilt \cup {Name(build[b].pack, f)}
    BY <1>1 DEF StoreBlob
  <2>2. f \in Page /\ Name(build[b].pack, f)[2] = build[b].pack[f]
    BY <1>0, <2>1 DEF Name
  <2>3. BlobInv' /\ DOMAIN blob' = DOMAIN blob \cup {Name(build[b].pack, f)} /\ DOMAIN blob' \subseteq Page \X Content
    <3>1. CASE Name(build[b].pack, f) \in DOMAIN blob
      BY <2>1, <3>1 DEF BuildInv, BuildTypes, BlobInv
    <3>2. CASE Name(build[b].pack, f) \notin DOMAIN blob
      <4>1. spoilt \subseteq spoilt' /\ (output[build[b].dir][f] = build[b].pack[f] \/ Name(build[b].pack, f) \in spoilt')
        BY <2>1, <2>2, <3>2
      <4>2. blob' = [o \in DOMAIN blob \cup {Name(build[b].pack, f)} |->
                       IF o = Name(build[b].pack, f) THEN output[build[b].dir][f] ELSE blob[o]]
        BY <2>1, <3>2
      <4>3. build[b].at = "store" /\ f \in Page
        BY <1>0, <2>2
      <4> QED BY <4>1, <4>2, <4>3, BlobAdded
    <3> QED BY <3>1, <3>2
  <2>4. /\ build' \in [Builder -> BuildState] /\ \A c \in Builder \ {b} : build'[c] = build[c]
        /\ build'[b] = [build[b] EXCEPT !.todo = @ \ {f}]
    BY <1>0, <2>1 DEF BuildState
  <2>5. build'[b].at = "store" /\ build'[b].todo = build[b].todo \ {f} /\ build'[b].pack = build[b].pack /\ build'[b].dir = build[b].dir
    BY <1>0, <2>4 DEF BuildState
  <2>6. UNCHANGED <<product, output, manifest, hosted, asked, revive>>
    BY <1>1 DEF StoreBlob
  <2>7. ProgressInv'
    BY <1>0, <2>4, <2>5, <2>6 DEF BuildInv, ProgressInv, Progress
  <2>8. \A c \in Builder : build'[c].at = "store" => \A g \in Page \ build'[c].todo : Name(build'[c].pack, g) \in DOMAIN blob'
    BY <1>0, <2>3, <2>4, <2>5 DEF BuildInv, CacheInv, Cached
  <2> QED BY <2>3, <2>4, <2>6, <2>7, <2>8, CacheGrows
<1>2. CASE StoreFails(b)
  <2>1. BlobInv' /\ DOMAIN blob \subseteq DOMAIN blob' /\ DOMAIN blob' \subseteq Page \X Content
    BY <1>2, TornHolds DEF StoreFails
  <2>2. build' = [build EXCEPT ![b].at = "declare"]
    BY <1>2 DEF StoreFails
  <2>3. /\ build' \in [Builder -> BuildState] /\ \A c \in Builder \ {b} : build'[c] = build[c]
        /\ build'[b].at = "declare" /\ build'[b].pack = build[b].pack
    BY <1>0, <2>2 DEF BuildState, BuildStep
  <2>4. UNCHANGED <<product, output, manifest, hosted, asked, revive>>
    BY <1>2 DEF StoreFails
  <2>5. ProgressInv'
    BY <1>0, <2>3, <2>4 DEF BuildInv, ProgressInv, Progress
  <2>6. \A c \in Builder : build'[c].at = "store" => \A g \in Page \ build'[c].todo : Name(build'[c].pack, g) \in DOMAIN blob'
    BY <2>1, <2>3 DEF BuildInv, CacheInv, Cached
  <2> QED BY <2>1, <2>3, <2>4, <2>5, <2>6, CacheGrows
<1>3. CASE StoreManifest(b)
  <2>1. build' = [build EXCEPT ![b].at = "declare"]
    BY <1>3 DEF StoreManifest
  <2>2. /\ build' \in [Builder -> BuildState] /\ \A c \in Builder \ {b} : build'[c] = build[c]
        /\ build'[b].at = "declare" /\ build'[b].pack = build[b].pack
    BY <1>0, <2>1 DEF BuildState, BuildStep
  <2>3. UNCHANGED <<product, output, hosted, asked, revive, blob, spoilt>>
    BY <1>3 DEF StoreManifest
  <2>4. manifest' \in {NoPack, build[b].pack}
    BY <1>3 DEF StoreManifest
  <2>5. Cached(build[b].pack, Page)
    BY <1>0, <1>3 DEF StoreManifest, BuildInv, CacheInv, Cached
  <2>6. BuildTypes'
    BY <1>0, <2>2, <2>3, <2>4 DEF BuildInv, BuildTypes
  <2>7. ProgressInv'
    BY <1>0, <2>2, <2>3 DEF BuildInv, ProgressInv, Progress
  <2>8. BlobInv' /\ CacheInv'
    BY <2>2, <2>3, <2>4, <2>5 DEF BuildInv, BlobInv, CacheInv, Cached, Name
  <2> QED BY <2>6, <2>7, <2>8 DEF BuildInv
<1> QED BY <1>1, <1>2, <1>3

\* The upload of a pack, and the end of a build.
LEMMA UploadHolds ==
    ASSUME BuildInv, NEW b \in Builder,
           DeclarePreview(b) \/ PutPage(b) \/ CompletePreview(b) \/ UploadFails(b) \/ PreviewBuildFails(b)
    PROVE  BuildInv'
<1>0. build \in [Builder -> BuildState] /\ build[b] \in BuildState /\ Progress(b)
    BY DEF BuildInv, BuildTypes, ProgressInv
<1>1. CASE DeclarePreview(b)
  <2> DEFINE s == [build[b] EXCEPT !.at = "put", !.todo = {f \in Page : Name(build[b].pack, f) \notin hosted}]
  <2>1. s \in BuildState /\ build' = [build EXCEPT ![b] = s] /\ build'[b] = s /\ s.at = "put" /\ s.pack = build[b].pack
    BY <1>0, <1>1 DEF BuildState, BuildStep, DeclarePreview
  <2>2. Progress(b)'
    BY <1>0, <1>1, <2>1 DEF Progress, DeclarePreview
  <2> QED BY <1>1, <2>1, <2>2, BuilderMoves DEF DeclarePreview, BuildInv, BuildTypes
<1>2. CASE PutPage(b)
  <2>1. PICK f \in build[b].todo : hosted' = hosted \cup {Name(build[b].pack, f)} /\ build' = [build EXCEPT ![b].todo = @ \ {f}]
    BY <1>2 DEF PutPage
  <2>2. build[b].at = "put" /\ build[b].pack \in FullPack /\ f \in Page
    BY <1>0, <1>2, <2>1 DEF PutPage, Progress, BuildState
  <2>3. hosted' \subseteq Page \X Content
    BY <2>1, <2>2 DEF BuildInv, BuildTypes, Name, FullPack
  <2> DEFINE s == [build[b] EXCEPT !.todo = @ \ {f}]
  <2>4. s \in BuildState /\ build' = [build EXCEPT ![b] = s] /\ build'[b] = s /\ s.at = "put" /\ s.pack = build[b].pack
    BY <1>0, <2>1, <2>2 DEF BuildState
  <2>5. Progress(b)'
    BY <2>2, <2>4 DEF Progress
  <2> QED BY <1>2, <2>3, <2>4, <2>5, BuilderMoves DEF PutPage
<1>3. CASE CompletePreview(b) \/ UploadFails(b) \/ PreviewBuildFails(b)
    BY <1>3, BuildLeaves DEF CompletePreview, UploadFails, PreviewBuildFails
<1> QED BY <1>1, <1>2, <1>3

\* Revives read the cache, and change nothing of it.
LEMMA ReviveHolds ==
    ASSUME BuildInv, PollPreviewRevives \/ \E r \in Reviver : RunRevive(r) \/ RevivePage(r) \/ ReviveEnds(r)
    PROVE  BuildInv'
<1>0. /\ UNCHANGED <<product, output, build, blob, manifest, spoilt>>
      /\ revive \in [Reviver -> BuildState]
    BY DEF PollPreviewRevives, RunRevive, RevivePage, ReviveEnds, BuildInv, BuildTypes
<1>1. ASSUME NEW r \in Reviver, NEW s \in BuildState, revive' = [revive EXCEPT ![r] = s], asked' \in 0..MaxRevives,
             hosted' \subseteq Page \X Content,
             s.pack = NoPack \/ (s.pack \in FullPack /\ Cached(s.pack, Page)), s.at = "put" => s.pack \in FullPack
      PROVE  BuildInv'
  <2>1. revive' \in [Reviver -> BuildState] /\ revive'[r] = s /\ \A q \in Reviver \ {r} : revive'[q] = revive[q]
    BY <1>0, <1>1
  <2>2. BuildTypes'
    BY <1>0, <1>1, <2>1 DEF BuildInv, BuildTypes
  <2>3. ProgressInv' /\ BlobInv'
    BY <1>0 DEF BuildInv, ProgressInv, Progress, BlobInv
  <2>4. CacheInv'
    BY <1>0, <1>1, <2>1 DEF BuildInv, CacheInv, Cached, Name
  <2> QED BY <2>2, <2>3, <2>4 DEF BuildInv
<1>2. CASE PollPreviewRevives
  <2>1. asked' \in 1..MaxRevives /\ asked' \in Reviver /\ revive' = [revive EXCEPT ![asked'].at = "open"] /\ UNCHANGED hosted
    BY <1>2, PreviewBuildsAssumption DEF PollPreviewRevives, BuildInv, BuildTypes, Reviver
  <2> DEFINE s == [revive[asked'] EXCEPT !.at = "open"]
  <2>2. s \in BuildState /\ s.pack = revive[asked'].pack /\ s.at = "open" /\ revive' = [revive EXCEPT ![asked'] = s]
    BY <1>0, <2>1 DEF BuildState, BuildStep
  <2>3. s.pack = NoPack \/ (s.pack \in FullPack /\ Cached(s.pack, Page))
    BY <2>1, <2>2 DEF BuildInv, CacheInv
  <2>4. asked' \in 0..MaxRevives /\ hosted' \subseteq Page \X Content
    BY <2>1, PreviewBuildsAssumption DEF BuildInv, BuildTypes
  <2>5. PICK r \in Reviver : r = asked'
    BY <2>1
  <2> HIDE DEF s
  <2> QED BY <1>1, <2>2, <2>3, <2>4, <2>5
<1>3. ASSUME NEW r \in Reviver, RunRevive(r) PROVE BuildInv'
  <2>0. UNCHANGED <<asked, hosted>>
    BY <1>3 DEF RunRevive
  <2>1. CASE manifest = NoPack
    BY <1>1, <1>3, <2>0, <2>1, NoPackType DEF RunRevive, BuildInv, BuildTypes
  <2>2. CASE manifest # NoPack
    <3> DEFINE s == [revive[r] EXCEPT !.at = "put", !.pack = manifest, !.todo = {f \in Page : Name(manifest, f) \notin hosted}]
    <3>1. manifest \in FullPack /\ Cached(manifest, Page) /\ manifest \in Pack
      BY <2>2 DEF BuildInv, BuildTypes, CacheInv, FullPack, Pack
    <3>2. s \in BuildState /\ s.pack = manifest /\ revive' = [revive EXCEPT ![r] = s]
      BY <1>0, <1>3, <2>2, <3>1 DEF BuildState, BuildStep, RunRevive
    <3> HIDE DEF s
    <3> QED BY <1>1, <2>0, <3>1, <3>2 DEF BuildInv, BuildTypes
  <2> QED BY <2>1, <2>2
<1>4. ASSUME NEW r \in Reviver, RevivePage(r) PROVE BuildInv'
  <2>0. UNCHANGED asked /\ asked \in 0..MaxRevives /\ hosted \subseteq Page \X Content /\ revive[r] \in BuildState
    BY <1>0, <1>4 DEF RevivePage, BuildInv, BuildTypes
  <2>1. CASE revive' = [revive EXCEPT ![r] = NoBuild] /\ UNCHANGED hosted
    BY <1>1, <2>0, <2>1, NoPackType
  <2>2. ASSUME NEW f \in revive[r].todo, Name(revive[r].pack, f) \in DOMAIN blob,
               hosted' = hosted \cup {Name(revive[r].pack, f)}, revive' = [revive EXCEPT ![r].todo = @ \ {f}]
        PROVE  BuildInv'
    <3> DEFINE s == [revive[r] EXCEPT !.todo = @ \ {f}]
    <3>1. s \in BuildState /\ s.pack = revive[r].pack /\ s.at = revive[r].at /\ revive' = [revive EXCEPT ![r] = s]
      BY <1>0, <2>0, <2>2 DEF BuildState
    <3>2. hosted' \subseteq Page \X Content
      BY <2>0, <2>2 DEF BuildInv, BuildTypes
    <3>3. s.pack = NoPack \/ (s.pack \in FullPack /\ Cached(s.pack, Page))
      BY <3>1 DEF BuildInv, CacheInv
    <3>4. s.at = "put" => s.pack \in FullPack
      BY <3>1 DEF BuildInv, CacheInv
    <3> HIDE DEF s
    <3> QED BY <1>1, <2>0, <3>1, <3>2, <3>3, <3>4
  <2> QED BY <1>4, <2>1, <2>2 DEF RevivePage
<1>5. ASSUME NEW r \in Reviver, ReviveEnds(r) PROVE BuildInv'
    BY <1>1, <1>5, NoPackType DEF ReviveEnds, BuildInv, BuildTypes
<1> QED BY <1>2, <1>3, <1>4, <1>5

\* The bridge dies: at most one blob more is there in part.
LEMMA BuildsCrashHolds == ASSUME BuildInv, BuildsCrash PROVE BuildInv'
<1>1. BlobInv' /\ DOMAIN blob \subseteq DOMAIN blob' /\ DOMAIN blob' \subseteq Page \X Content
  <2>1. CASE UNCHANGED <<blob, spoilt>>
    BY <2>1 DEF BuildInv, BuildTypes, BlobInv
  <2> QED BY <2>1, TornHolds DEF BuildsCrash
<1>2. build' \in [Builder -> BuildState] /\ \A b \in Builder : build'[b] = NoBuild
    BY NoPackType DEF BuildsCrash
<1>3. ProgressInv'
    BY <1>2, NoPackType DEF ProgressInv, Progress
<1>4. \A b \in Builder : build'[b].at # "store"
    BY <1>2, NoPackType
<1> QED BY <1>1, <1>2, <1>3, <1>4, CacheGrows DEF BuildsCrash

LEMMA BuildStepHolds == BuildInv /\ [BuildNext]_buildVars => BuildInv'
<1> SUFFICES ASSUME BuildInv, [BuildNext]_buildVars PROVE BuildInv'
    OBVIOUS
<1>1. CASE MaybeBuildPreviewFromWorktree
  <2>1. CASE inFlight
    <3>1. product' \in [Tree -> Content]
      BY <1>1, <2>1, PreviewBuildsAssumption DEF MaybeBuildPreviewFromWorktree, BuildInv, BuildTypes, Products, Content, Tree
    <3> QED BY <1>1, <2>1, <3>1 DEF MaybeBuildPreviewFromWorktree, BuildInv, BuildTypes, ProgressInv, Progress,
                                    BlobInv, CacheInv, Cached, Name
  <2> QED BY <1>1, <2>1, BuildStarts DEF MaybeBuildPreviewFromWorktree, Tree
<1>2. CASE MaybeBuildPreview
    BY <1>2, BuildStarts DEF MaybeBuildPreview, Tree
<1>3. CASE UNCHANGED buildVars
    BY <1>3 DEF buildVars, BuildInv, BuildTypes, ProgressInv, Progress, BlobInv, CacheInv, Cached, Name
<1> QED BY <1>1, <1>2, <1>3, RunBuildHolds, HashHolds, StoreHolds, UploadHolds, ReviveHolds, BuildsCrashHolds DEF BuildNext

\* Every reachable state of builds, cache and revives is well typed.
THEOREM BuildTypeCorrect == BuildSpec => []BuildTypeOK
<1>1. BuildInv => BuildTypeOK
  <2> SUFFICES ASSUME BuildInv PROVE BuildTypeOK
    OBVIOUS
  <2>1. manifest \in Pack
    BY NoPackType DEF BuildInv, BuildTypes, FullPack, Pack
  <2> QED BY <2>1 DEF BuildInv, BuildTypes, BuildTypeOK, Pack, BuildState
<1> QED BY <1>1, BuildInitHolds, BuildStepHolds, PTL DEF BuildSpec

\* What a revive declares it can serve (internal/preview/cache.go: blobs by
\* their content, then the manifest), whatever builds store meanwhile.
THEOREM ReviveCanServeHolds == BuildSpec => []ReviveCanServe
<1>1. BuildInv => ReviveCanServe
    BY DEF BuildInv, BlobInv, CacheInv, Cached, Name, ReviveCanServe
<1> QED BY <1>1, BuildInitHolds, BuildStepHolds, PTL DEF BuildSpec

-----------------------------------------------------------------------------
(* The binary.                                                              *)

BinaryVersion == 0..MaxReleases
UpdateStage == {"idle", "check", "download", "stage", "backup", "away", "in", "clean"}
UpdateCommand == [at : UpdateStage, runs : BinaryVersion, release : BinaryVersion, sound : BOOLEAN,
            file : BinaryVersion \cup {Absent}, stage : BinaryVersion \cup {Absent, Partial}]

\* A file is installed, or kept as the backup, only as a whole: what is staged
\* goes in place when the copy of a verified binary is complete.
StagedInv ==
    /\ latest \in [version : BinaryVersion, sound : BOOLEAN]
    /\ command \in [Terminal -> UpdateCommand]
    /\ installed \in BinaryVersion \cup {Absent} /\ backup \in BinaryVersion \cup {Absent}
    /\ \A t \in Terminal :
         /\ command[t].at = "stage" => command[t].file \in BinaryVersion
         /\ command[t].at \in {"backup", "away", "in"} => command[t].stage \in BinaryVersion

\* One command alone: the installed binary is there until it has become the
\* backup, and the backup until the new one is in place.
OneUpdateInv ==
    ~twoAtATime =>
        /\ installed # Absent \/ backup # Absent
        /\ \A t, u \in Terminal : t # u => command[t].at = "idle" \/ command[u].at = "idle"
        /\ \A t \in Terminal :
             /\ command[t].at = "in" => backup # Absent
             /\ command[t].at \notin {"idle", "in"} => installed # Absent

UpdateInv == StagedInv /\ OneUpdateInv

-----------------------------------------------------------------------------

\* Absent and Partial are no versions.
LEMMA NoVersions == Absent \notin BinaryVersion /\ Partial \notin BinaryVersion \cup {Absent}
BY SelfUpdateAssumption DEF Absent, Partial, BinaryVersion

\* A command that has stopped has no file.
LEMMA NoCommandType == NoCommand \in UpdateCommand /\ NoCommand.at = "idle" /\ 0 \in BinaryVersion
BY SelfUpdateAssumption DEF NoCommand, UpdateCommand, UpdateStage, BinaryVersion

\* The first binary is installed.
LEMMA UpdateInitHolds == UpdateInit => UpdateInv
<1> SUFFICES ASSUME UpdateInit PROVE UpdateInv
    OBVIOUS
<1> USE NoCommandType, NoVersions DEF UpdateInit
<1>1. StagedInv
    BY DEF StagedInv
<1>2. OneUpdateInv
    BY DEF OneUpdateInv
<1> QED BY <1>1, <1>2 DEF UpdateInv

\* The steps of a command, without the step to start it.
CommandStep(t) ==
    \/ CheckUpdate(t) \/ DownloadVerified(t) \/ StageNextTo(t)
    \/ RemoveBackup(t) \/ RenameAway(t) \/ RenameIn(t) \/ CleanUp(t) \/ Interrupted(t)

\* A release changes nothing on the machine; a command is started when there is
\* an installed binary to run.
LEMMA StartKeepsUpdate ==
    ASSUME UpdateInv, Release \/ \E t \in Terminal : RunUpdate(t)
    PROVE  UpdateInv'
<1> USE NoCommandType, NoVersions DEF UpdateInv
<1>1. CASE Release
    <2>1. latest' \in [version : BinaryVersion, sound : BOOLEAN]
        BY <1>1, SelfUpdateAssumption DEF Release, StagedInv, BinaryVersion
    <2> QED BY <1>1, <2>1 DEF Release, StagedInv, OneUpdateInv
<1>2. ASSUME NEW t \in Terminal, RunUpdate(t) PROVE UpdateInv'
    <2> USE <1>2 DEF RunUpdate
    <2>1. [NoCommand EXCEPT !.at = "check", !.runs = installed] \in UpdateCommand
        BY DEF StagedInv, UpdateCommand, UpdateStage
    <2>2. StagedInv'
        BY <2>1 DEF StagedInv, UpdateCommand
    <2>3. command'[t].at = "check" /\ \A u \in Terminal : u # t => command'[u] = command[u]
        BY <2>1 DEF StagedInv, UpdateCommand
    <2>4. ~twoAtATime' =>
            ~twoAtATime /\ installed' # Absent /\ \A u \in Terminal : u # t => command'[u].at = "idle"
        BY <2>3
    <2>5. OneUpdateInv'
        BY ONLY <2>3, <2>4 DEF OneUpdateInv
    <2> QED BY <2>2, <2>5
<1> QED BY <1>1, <1>2

\* Every step of a command leaves whole files.
LEMMA StepKeepsStaged == ASSUME StagedInv, NEW t \in Terminal, CommandStep(t) PROVE StagedInv'
<1> USE NoCommandType, NoVersions DEF StagedInv, UpdateCommand, UpdateStage, Stops, GoesTo
<1>1. CASE CheckUpdate(t)
    BY <1>1 DEF CheckUpdate
<1>2. CASE DownloadVerified(t)
    BY <1>2 DEF DownloadVerified
<1>3. CASE StageNextTo(t)
    BY <1>3 DEF StageNextTo
<1>4. CASE RemoveBackup(t)
    BY <1>4 DEF RemoveBackup
<1>5. CASE RenameAway(t)
    BY <1>5 DEF RenameAway
<1>6. CASE RenameIn(t)
    BY <1>6 DEF RenameIn
<1>7. CASE CleanUp(t) \/ Interrupted(t)
    BY <1>7 DEF CleanUp, Interrupted
<1> QED BY <1>1, <1>2, <1>3, <1>4, <1>5, <1>6, <1>7 DEF CommandStep

\* What a step of a command does to where the commands are.
LEMMA StepMovesOne ==
    ASSUME StagedInv, NEW t \in Terminal, CommandStep(t)
    PROVE  /\ command[t].at # "idle" /\ UNCHANGED twoAtATime
           /\ \A u \in Terminal : u # t => command'[u] = command[u]
BY DEF CommandStep, CheckUpdate, DownloadVerified, StageNextTo, RemoveBackup, RenameAway, RenameIn,
       CleanUp, Interrupted, StagedInv, Stops, GoesTo

\* Every step of a command that is alone leaves a binary.
LEMMA StepKeepsAlone ==
    ASSUME StagedInv, OneUpdateInv, NEW t \in Terminal, CommandStep(t) PROVE OneUpdateInv'
<1> SUFFICES ASSUME ~twoAtATime PROVE OneUpdateInv'
    BY StepMovesOne DEF OneUpdateInv
<1>1. \A u \in Terminal : u # t => command[u].at = "idle" /\ command'[u].at = "idle"
    BY StepMovesOne DEF OneUpdateInv
<1>2. /\ installed # Absent \/ backup # Absent
      /\ command[t].at = "in" => backup # Absent
      /\ command[t].at \notin {"idle", "in"} => installed # Absent
    BY DEF OneUpdateInv
<1> DEFINE Left == /\ installed' # Absent \/ backup' # Absent
                   /\ command'[t].at = "in" => backup' # Absent
                   /\ command'[t].at \notin {"idle", "in"} => installed' # Absent
<1>3. Left
    <2> USE <1>2, NoCommandType, NoVersions DEF StagedInv, UpdateCommand, Stops, GoesTo
    <2>1. CASE CheckUpdate(t)
        BY <2>1 DEF CheckUpdate
    <2>2. CASE DownloadVerified(t)
        BY <2>2 DEF DownloadVerified
    <2>3. CASE StageNextTo(t)
        BY <2>3 DEF StageNextTo
    <2>4. CASE RemoveBackup(t)
        BY <2>4 DEF RemoveBackup
    <2>5. CASE RenameAway(t)
        BY <2>5 DEF RenameAway
    <2>6. CASE RenameIn(t)
        BY <2>6 DEF RenameIn
    <2>7. CASE CleanUp(t) \/ Interrupted(t)
        BY <2>7 DEF CleanUp, Interrupted
    <2> QED BY <2>1, <2>2, <2>3, <2>4, <2>5, <2>6, <2>7 DEF CommandStep
<1> QED BY <1>1, <1>3 DEF OneUpdateInv

LEMMA UpdateStepKeepsInv == UpdateInv /\ [UpdateNext]_updateVars => UpdateInv'
<1>1. ASSUME UpdateInv, UNCHANGED updateVars PROVE UpdateInv'
    BY <1>1 DEF UpdateInv, StagedInv, OneUpdateInv, updateVars
<1>2. ASSUME UpdateInv, NEW t \in Terminal, CommandStep(t) PROVE UpdateInv'
    BY <1>2, StepKeepsStaged, StepKeepsAlone DEF UpdateInv
<1> QED BY <1>1, <1>2, StartKeepsUpdate DEF UpdateNext, CommandStep

LEMMA UpdateInvariance == UpdateSpec => []UpdateInv
BY UpdateInitHolds, UpdateStepKeepsInv, PTL DEF UpdateSpec

\* The files at the two paths and the releases the commands look at have their types.
THEOREM UpdateTypeCorrect == UpdateSpec => []UpdateTypeOK
<1>1. UpdateInv => UpdateTypeOK
    BY DEF UpdateInv, StagedInv, UpdateTypeOK, UpdateCommand, BinaryVersion
<1> QED BY <1>1, UpdateInvariance, PTL

\* An update that fails or is interrupted at any step leaves a binary, the
\* installed one or its backup, and never a part of one (applyUpdateTo,
\* stageNextTo), for every number of releases, faults and commands.
THEOREM BinaryRemainsHolds == UpdateSpec => []BinaryRemains
<1>1. UpdateInv => BinaryRemains
    BY NoVersions DEF UpdateInv, StagedInv, OneUpdateInv, BinaryRemains
<1> QED BY <1>1, UpdateInvariance, PTL

-----------------------------------------------------------------------------
(* Rules and settings.                                                      *)

SettingEdit == 0..MaxSettingEdits
Ours == Actor \ {"otherMachine"}
Memory == [{"rules", "config"} -> SettingEdit]
Halves == [{"org", "user"} -> SettingEdit]
Entries == [own : Memory, other : SettingEdit]

Handler == [at : {"idle", "ask", "answered", "engine", "read", "cut", "write", "merge", "replace"},
            topic : Topic \cup {"none"}, version : SettingEdit, seen : {"none"} \cup Entries \cup Halves]

\* The steps a handler goes through.
DoingTypes ==
    /\ doing \in [Actor -> Handler]
    /\ \A a \in Actor :
         /\ doing[a].at \in {"ask", "answered"} => a \in {"rulesFetch", "orgFetch"} /\ doing[a].topic = "none"
         /\ doing[a].at = "engine" => a \in {"worker", "rulesFetch"} /\ doing[a].topic = "rules"
         /\ Saving(a) => a \in {"otherMachine", "worker", "rulesFetch"}
         /\ Saving(a) /\ a # "otherMachine" => Ruling(a)
         /\ Scanned(a) => a \in {"worker", "orgFetch"} /\ ~Ruling(a)
         /\ Ruling(a) => a \in {"worker", "rulesFetch"}
         /\ doing[a].at \in {"cut", "write"} => doing[a].seen \in Entries
         /\ doing[a].at = "replace" => doing[a].seen \in Halves

ValueTypes ==
    /\ set \in [Topic -> SettingEdit] /\ memory \in Memory /\ half \in Halves /\ scanning \in Halves
    /\ disk \in Entries /\ engine \in SettingEdit /\ userFile \in SettingEdit /\ others \in SettingEdit /\ settingEdits \in SettingEdit
FlagTypes == running \in BOOLEAN /\ cut \in BOOLEAN
Push == {"rules", "config", "user"} \X SettingEdit
QueueTypes == pushes \in Seq(Push)
StoppedInv == ~running => \A a \in Ours : doing[a].at = "idle"
StateTypes == ValueTypes /\ FlagTypes /\ QueueTypes /\ StoppedInv

\* Whatever rules are still to be handled, the last push has those of the platform.
PushInv ==
    running => \A i \in DOMAIN pushes : pushes[i][1] = "rules" =>
        \E j \in DOMAIN pushes : i <= j /\ pushes[j] = <<"rules", set["rules"]>>

\* With none to be handled, and no answer to be applied, memory has them.
RulesInv ==
    running /\ ~late /\ doing["rulesFetch"].at \notin {"ask", "answered"} =>
        \/ memory.rules = set["rules"]
        \/ \E i \in DOMAIN pushes : pushes[i][1] = "rules"

\* Without an overlap no two handlers are at one subject, and no two save.
AloneInv ==
    ~overlapped => \A a, b \in Actor : a # b =>
        ~(Saving(a) /\ Saving(b)) /\ ~(Scanned(a) /\ Scanned(b)) /\ ~(Ruling(a) /\ Ruling(b))

\* ... the engine has the rules of memory, or a handler is about to hand them over ...
EngineInv ==
    running /\ ~overlapped =>
        /\ \A a \in Actor : doing[a].at = "engine" => doing[a].version = memory.rules
        /\ engine = memory.rules \/ \E a \in Actor : doing[a].at = "engine"

\* ... the file has what is in memory, or a handler is about to save it ...
DiskInv ==
    ~overlapped =>
        /\ running => disk.own = memory \/ \E a \in Actor : Ruling(a)
        /\ disk.other = others
        /\ cut => \E a \in Actor : doing[a].at = "write"
        /\ \A a \in Actor : doing[a].at \in {"cut", "write"} =>
             IF a = "otherMachine"
             THEN doing[a].seen.other = doing[a].version /\ doing[a].seen.own = disk.own
             ELSE doing[a].seen.own = memory /\ doing[a].seen.other = disk.other

\* ... and the scanner has both halves, or a handler is about to replace them.
ScannerInv ==
    running =>
        /\ \/ half.user = userFile
           \/ Scanned("worker") /\ doing["worker"].version = half.user
        /\ Scanned("worker") => doing["worker"].version = half.user
        /\ ~overlapped =>
             /\ scanning = half \/ \E a \in Actor : Scanned(a)
             /\ \A a \in Actor : doing[a].at = "replace" => doing[a].seen = half

SettingsInv ==
    /\ StateTypes /\ DoingTypes /\ PushInv /\ RulesInv
    /\ AloneInv /\ EngineInv /\ DiskInv /\ ScannerInv

-----------------------------------------------------------------------------

\* The values a handler starts from.
LEMMA SettingsConstants ==
    /\ 0 \in SettingEdit /\ NotDoing \in Handler /\ NotDoing.at = "idle" /\ NoEntries \in Entries
    /\ [org |-> 0, user |-> 0] \in Halves
<1>1. 0 \in SettingEdit
    BY MachineSettingsAssumption DEF SettingEdit
<1>2. [rules |-> 0, config |-> 0] = [t \in {"rules", "config"} |-> 0]
    OBVIOUS
<1>3. [org |-> 0, user |-> 0] = [h \in {"org", "user"} |-> 0]
    OBVIOUS
<1> QED BY <1>1, <1>2, <1>3 DEF NotDoing, NoEntries, Handler, Entries, Memory, Halves

\* Nothing was ever set.
LEMMA SettingsInitHolds == SettingsInit => SettingsInv
<1> SUFFICES ASSUME SettingsInit PROVE SettingsInv
    OBVIOUS
<1> USE SettingsConstants DEF SettingsInit
<1>1. ValueTypes
    BY DEF ValueTypes, NoEntries, Entries
<1>2. \A a \in Actor : doing[a] = NotDoing
    OBVIOUS
<1>6. FlagTypes
    BY DEF FlagTypes
<1>8. QueueTypes
    BY DEF QueueTypes
<1>7. StoppedInv
    BY <1>2 DEF StoppedInv, Ours
<1>3. DoingTypes /\ AloneInv
    BY <1>2 DEF DoingTypes, AloneInv, Saving, Scanned, Ruling
<1>4. PushInv /\ RulesInv /\ EngineInv /\ ScannerInv
    BY DEF PushInv, RulesInv, EngineInv, ScannerInv
<1>5. DiskInv
    BY <1>2 DEF DiskInv, NoEntries
<1> QED BY <1>1, <1>3, <1>4, <1>5, <1>6, <1>7, <1>8 DEF SettingsInv, StateTypes

\* A handler that begins without an overlap is alone.
LEMMA OverlapSeen == ASSUME Overlap PROVE AloneInv' /\ (~overlapped' => ~overlapped)
BY DEF Overlap, Meet, AloneInv


\* The first push, and those behind it.
LEMMA FirstPush ==
    ASSUME pushes \in Seq(Push), pushes # <<>>
    PROVE  /\ Head(pushes)[1] \in {"rules", "config", "user"} /\ Head(pushes)[2] \in SettingEdit
           /\ Tail(pushes) \in Seq(Push) /\ 1 \in DOMAIN pushes
           /\ Head(pushes) = pushes[1]
           /\ \A i \in DOMAIN pushes : i = 1 \/ (i - 1 \in DOMAIN Tail(pushes) /\ Tail(pushes)[i - 1] = pushes[i])
           /\ \A i \in DOMAIN Tail(pushes) : i + 1 \in DOMAIN pushes /\ Tail(pushes)[i] = pushes[i + 1]
           /\ DOMAIN pushes \subseteq Nat /\ DOMAIN Tail(pushes) \subseteq Nat
<1>1. Head(pushes) \in Push /\ Head(pushes) = pushes[1]
    OBVIOUS
<1>2. Tail(pushes) \in Seq(Push) /\ 1 \in DOMAIN pushes
    OBVIOUS
<1>3. /\ DOMAIN pushes = 1..Len(pushes) /\ DOMAIN Tail(pushes) = 1..(Len(pushes) - 1) /\ Len(pushes) \in Nat
      /\ \A i \in 1..(Len(pushes) - 1) : Tail(pushes)[i] = pushes[i + 1]
    OBVIOUS
<1> QED BY <1>1, <1>2, <1>3 DEF Push

\* One more push behind the others.
LEMMA LastPush ==
    ASSUME pushes \in Seq(Push), NEW p \in Push
    PROVE  /\ Append(pushes, p) \in Seq(Push)
           /\ \E n \in DOMAIN Append(pushes, p) : Append(pushes, p)[n] = p /\ \A i \in DOMAIN Append(pushes, p) : i <= n
           /\ \A i \in DOMAIN Append(pushes, p) : Append(pushes, p)[i] = p \/ i \in DOMAIN pushes
           /\ \A i \in DOMAIN pushes : i \in DOMAIN Append(pushes, p) /\ Append(pushes, p)[i] = pushes[i]
<1>1. Append(pushes, p) \in Seq(Push)
    OBVIOUS
<1>2. /\ DOMAIN pushes = 1..Len(pushes) /\ DOMAIN Append(pushes, p) = 1..(Len(pushes) + 1) /\ Len(pushes) \in Nat
      /\ \A i \in 1..Len(pushes) : Append(pushes, p)[i] = pushes[i]
      /\ Append(pushes, p)[Len(pushes) + 1] = p
    OBVIOUS
<1> QED BY <1>1, <1>2

\* The platform: what is pushed is pushed last.
LEMMA EditSettingKeepsSettings == ASSUME SettingsInv, NEW topic \in Topic, EditSetting(topic) PROVE SettingsInv'
<1> USE SettingsConstants DEF SettingsInv, StateTypes, EditSetting, applied, onDisk, bounds
<1>0. /\ settingEdits' \in SettingEdit /\ pushes \in Seq(Push)
      /\ topic # "org" => <<topic, settingEdits'>> \in Push
    BY MachineSettingsAssumption DEF ValueTypes, SettingEdit, Topic, Push, QueueTypes
<1>12. \/ running /\ topic # "org" /\ pushes' = Append(pushes, <<topic, settingEdits'>>)
       \/ (~running \/ topic # "rules") /\ pushes' = pushes
    OBVIOUS
<1>13. set'["rules"] = IF topic = "rules" THEN settingEdits' ELSE set["rules"]
    BY DEF ValueTypes, Topic
<1>1. ValueTypes'
    BY <1>0 DEF ValueTypes
<1>2. FlagTypes'
    BY DEF FlagTypes
<1>3. QueueTypes'
    BY <1>0, <1>12, LastPush DEF QueueTypes
<1>4. StoppedInv'
    BY DEF StoppedInv, Ours, DoingTypes
<1>5. DoingTypes'
    BY DEF DoingTypes, Handler, Saving, Scanned, Ruling, ValueTypes
<1>6. PushInv'
    <2>1. CASE pushes' = pushes
        BY <1>12, <1>13, <2>1 DEF PushInv
    <2>2. CASE running /\ topic # "org" /\ pushes' = Append(pushes, <<topic, settingEdits'>>)
        <3> DEFINE p == <<topic, settingEdits'>>
        <3>1. /\ \E n \in DOMAIN pushes' : pushes'[n] = p /\ \A i \in DOMAIN pushes' : i <= n
              /\ \A i \in DOMAIN pushes' : pushes'[i] = p \/ i \in DOMAIN pushes
              /\ \A i \in DOMAIN pushes : i \in DOMAIN pushes' /\ pushes'[i] = pushes[i]
            <4>1. pushes' = Append(pushes, p) /\ p \in Push /\ pushes \in Seq(Push)
                BY <1>0, <2>2
            <4> HIDE DEF p
            <4> QED BY ONLY <4>1, LastPush
        <3>2. p[1] = topic
            OBVIOUS
        <3> HIDE DEF p
        <3>3. CASE topic = "rules"
            <4>1. p = <<"rules", set'["rules"]>>
                BY <1>13, <3>3 DEF p
            <4> QED BY <3>1, <4>1 DEF PushInv
        <3>4. CASE topic # "rules"
            BY <1>13, <2>2, <3>1, <3>2, <3>4 DEF PushInv
        <3> QED BY <3>3, <3>4
    <2> QED BY <1>12, <2>1, <2>2
<1>7. AloneInv'
    BY OverlapSeen DEF AloneInv, DoingTypes, Handler, Saving, Scanned, Ruling
<1>8. EngineInv'
    BY OverlapSeen DEF EngineInv, DoingTypes, Handler, AloneInv, Ruling
<1>9. DiskInv'
    BY OverlapSeen DEF DiskInv, DoingTypes, Handler, AloneInv, Saving, Ruling, ValueTypes, Entries
<1>10. ScannerInv'
    BY OverlapSeen DEF ScannerInv, DoingTypes, Handler, AloneInv, Scanned, ValueTypes
<1>11. RulesInv'
    <2>1. CASE pushes' = pushes
        BY <1>12, <1>13, <2>1 DEF RulesInv
    <2>2. CASE running /\ topic # "org" /\ pushes' = Append(pushes, <<topic, settingEdits'>>)
        <3> DEFINE p == <<topic, settingEdits'>>
        <3>1. /\ \E n \in DOMAIN pushes' : pushes'[n] = p
              /\ \A i \in DOMAIN pushes : i \in DOMAIN pushes' /\ pushes'[i] = pushes[i]
            <4>1. pushes' = Append(pushes, p) /\ p \in Push /\ pushes \in Seq(Push)
                BY <1>0, <2>2 DEF QueueTypes
            <4> HIDE DEF p
            <4> QED BY ONLY <4>1, LastPush
        <3>2. p[1] = topic
            OBVIOUS
        <3> HIDE DEF p
        <3> QED BY <1>13, <3>1, <3>2 DEF RulesInv
    <2> QED BY <1>12, <2>1, <2>2
<1> QED BY <1>1, <1>2, <1>3, <1>4, <1>5, <1>6, <1>7, <1>8, <1>9, <1>10, <1>11

\* Another machine's save begins.
LEMMA OtherSavesKeepsSettings == ASSUME SettingsInv, OtherSaves PROVE SettingsInv'
<1> USE SettingsConstants DEF SettingsInv, StateTypes, OtherSaves, applied, onDisk, bounds
<1>0. settingEdits' \in SettingEdit
    BY MachineSettingsAssumption DEF ValueTypes, SettingEdit
<1>12. [NotDoing EXCEPT !.at = "read", !.version = settingEdits'] \in Handler
    BY <1>0 DEF Handler
<1>1. ValueTypes'
    BY MachineSettingsAssumption DEF ValueTypes, DoingTypes, Handler, Entries, SettingEdit
<1>2. FlagTypes'
    BY DEF FlagTypes
<1>3. QueueTypes'
    BY DEF QueueTypes, Push
<1>4. StoppedInv'
    BY DEF StoppedInv, Ours, DoingTypes
<1>5. DoingTypes'
    <2>1. doing' \in [Actor -> Handler]
        BY <1>12 DEF DoingTypes
    <2>2. /\ doing'["otherMachine"].at = "read" /\ doing'["otherMachine"].topic = "none"
          /\ \A b \in Actor : b # "otherMachine" => doing'[b] = doing[b]
        BY DEF DoingTypes, Actor, NotDoing
    <2> HIDE DEF OtherSaves
    <2> QED BY <2>1, <2>2 DEF DoingTypes, Saving, Scanned, Ruling
<1>6. PushInv'
    BY DEF PushInv
<1>7. AloneInv'
    BY OverlapSeen DEF AloneInv, DoingTypes, Handler, Saving, Scanned, Ruling
<1>8. EngineInv'
    BY OverlapSeen DEF EngineInv, DoingTypes, Handler, AloneInv, Ruling
<1>9. DiskInv'
    BY OverlapSeen DEF DiskInv, DoingTypes, Handler, AloneInv, Saving, Ruling, ValueTypes, Entries
<1>10. ScannerInv'
    BY OverlapSeen DEF ScannerInv, DoingTypes, Handler, AloneInv, Scanned, ValueTypes
<1>11. RulesInv'
    BY DEF RulesInv, DoingTypes, Handler
<1> QED BY <1>1, <1>2, <1>3, <1>4, <1>5, <1>6, <1>7, <1>8, <1>9, <1>10, <1>11

\* New and Start: the file is read when nobody is writing it, and what it has is in force.
LEMMA StartBridgeKeepsSettings == ASSUME SettingsInv, StartBridge PROVE SettingsInv'
<1> USE SettingsConstants DEF SettingsInv, StateTypes, StartBridge, applied, onDisk, bounds
<1>12. [NotDoing EXCEPT !.at = "ask"] \in Handler
    BY DEF Handler
<1>0. /\ doing'["rulesFetch"].at = "ask" /\ doing'["orgFetch"].at = "ask"
      /\ doing'["rulesFetch"].topic = "none" /\ doing'["orgFetch"].topic = "none"
      /\ \A b \in Actor \ {"rulesFetch", "orgFetch"} : doing'[b] = doing[b]
      /\ doing' \in [Actor -> Handler]
    BY <1>12 DEF DoingTypes, NotDoing, Actor
<1>1. ValueTypes'
    <2>1. [org |-> 0, user |-> userFile] = [h \in {"org", "user"} |-> IF h = "org" THEN 0 ELSE userFile]
        OBVIOUS
    <2>2. half' \in Halves
        BY <2>1 DEF Halves, ValueTypes
    <2> QED BY <2>2 DEF ValueTypes, Entries, Memory
<1>2. FlagTypes'
    BY DEF FlagTypes
<1>3. QueueTypes'
    BY DEF QueueTypes, Push
<1>4. StoppedInv'
    BY DEF StoppedInv, Ours, DoingTypes
<1>5. DoingTypes'
    BY <1>0 DEF DoingTypes, Saving, Scanned, Ruling
<1>6. PushInv'
    BY DEF PushInv
<1>7. AloneInv'
    BY <1>0 DEF AloneInv, Saving, Scanned, Ruling
<1>8. EngineInv'
    BY <1>0 DEF EngineInv, StoppedInv, Ours, DoingTypes
<1>9. DiskInv'
    BY <1>0 DEF DiskInv, DoingTypes, ValueTypes, Entries, StoppedInv, Ours
<1>10. ScannerInv'
    <2>1. half' = [org |-> 0, user |-> userFile] /\ scanning' = half' /\ half'.user = userFile'
        OBVIOUS
    <2>2. ~Scanned("worker")' /\ \A b \in Actor : doing'[b].at # "replace"
        BY <1>0 DEF StoppedInv, Ours, DoingTypes, Scanned, Actor
    <2> QED BY <2>1, <2>2 DEF ScannerInv
<1>11. RulesInv'
    BY <1>0 DEF RulesInv
<1> QED BY <1>1, <1>2, <1>3, <1>4, <1>5, <1>6, <1>7, <1>8, <1>9, <1>10, <1>11

\* The platform's answer is on its way.
LEMMA AnswerKeepsSettings == ASSUME SettingsInv, NEW a \in Actor, Answer(a) PROVE SettingsInv'
<1> USE SettingsConstants DEF SettingsInv, StateTypes, Answer, applied, onDisk, bounds
<1>0. /\ doing'[a] = [doing[a] EXCEPT !.at = "answered", !.version = set[IF a = "orgFetch" THEN "org" ELSE "rules"]]
      /\ \A b \in Actor : b # a => doing'[b] = doing[b]
      /\ DOMAIN doing' = Actor
    BY DEF DoingTypes, Handler, Actor
<1>12. /\ doing'[a].at = "answered" /\ doing'[a].topic = doing[a].topic
       /\ doing'[a] \in Handler /\ doing' \in [Actor -> Handler] /\ doing[a].at = "ask" /\ a # "worker"
    <2>1. set[IF a = "orgFetch" THEN "org" ELSE "rules"] \in SettingEdit
        BY DEF ValueTypes, Topic
    <2>2. doing[a] \in Handler
        BY DEF DoingTypes
    <2>3. doing'[a] \in Handler /\ doing'[a].at = "answered" /\ doing'[a].topic = doing[a].topic
        BY <1>0, <2>1, <2>2 DEF Handler
    <2>4. doing' \in [Actor -> Handler]
        BY <2>3 DEF DoingTypes
    <2> QED BY <2>3, <2>4 DEF Actor
<1>1. ValueTypes'
    BY MachineSettingsAssumption DEF ValueTypes, DoingTypes, Handler, Entries, SettingEdit
<1>2. FlagTypes'
    BY DEF FlagTypes
<1>3. QueueTypes'
    BY DEF QueueTypes, Push
<1>4. StoppedInv'
    BY <1>0, <1>12 DEF StoppedInv, Ours
<1>5. DoingTypes'
    BY <1>0, <1>12 DEF DoingTypes, Saving, Scanned, Ruling
<1>6. PushInv'
    BY DEF PushInv
<1>7. AloneInv'
    BY <1>0, <1>12 DEF AloneInv, Saving, Scanned, Ruling
<1>8. EngineInv'
    BY <1>0, <1>12 DEF EngineInv
<1>9. DiskInv'
    BY <1>0, <1>12 DEF DiskInv, Ruling
<1>10. ScannerInv'
    BY <1>0, <1>12 DEF ScannerInv, Scanned, Actor
<1>11. RulesInv'
    <2>1. a = "rulesFetch" => doing'["rulesFetch"].at = "answered"
        BY <1>12
    <2>2. a # "rulesFetch" => doing'["rulesFetch"] = doing["rulesFetch"]
        BY <1>0 DEF Actor
    <2> QED BY <1>12, <2>1, <2>2 DEF RulesInv
<1> QED BY <1>1, <1>2, <1>3, <1>4, <1>5, <1>6, <1>7, <1>8, <1>9, <1>10, <1>11

\* The worker takes a push: memory, or the user's half, has it at once.
LEMMA HandleKeepsSettings == ASSUME SettingsInv, Handle PROVE SettingsInv'
<1> USE SettingsConstants DEF SettingsInv, StateTypes, Handle, applied, onDisk, bounds
<1> DEFINE topic == Head(pushes)[1]
           v == Head(pushes)[2]
           step == IF topic = "rules" THEN "engine" ELSE IF topic = "config" THEN "read" ELSE "merge"
<1>0. /\ topic \in {"rules", "config", "user"} /\ v \in SettingEdit /\ Tail(pushes) \in Seq(Push)
    BY FirstPush DEF QueueTypes
<1>12. /\ doing'["worker"] = [at |-> step, topic |-> topic, version |-> v, seen |-> "none"]
       /\ \A b \in Actor : b # "worker" => doing'[b] = doing[b]
       /\ DOMAIN doing' = Actor /\ doing' \in [Actor -> Handler]
    <2>1. [at |-> step, topic |-> topic, version |-> v, seen |-> "none"] \in Handler
        BY <1>0 DEF Handler, Topic
    <2>2. doing' = [doing EXCEPT !["worker"] = [at |-> step, topic |-> topic, version |-> v, seen |-> "none"]]
        BY <1>0
    <2> QED BY <2>1, <2>2 DEF DoingTypes, Actor
<1>13. /\ memory' = IF topic \in {"rules", "config"} THEN [memory EXCEPT ![topic] = v] ELSE memory
       /\ half' = IF topic = "user" THEN [half EXCEPT !.user = v] ELSE half
       /\ late' = (late /\ topic # "rules") /\ running /\ running' /\ pushes' = Tail(pushes)
       /\ UNCHANGED <<set, engine, scanning, disk, cut, userFile, others, settingEdits>>
       /\ Overlap /\ doing["worker"].at = "idle"
    OBVIOUS
<1>14. /\ doing'["worker"].at = step /\ doing'["worker"].topic = topic /\ doing'["worker"].version = v
       /\ "worker" \in Actor
    BY <1>12 DEF Actor
<1>15. AloneInv' /\ (~overlapped' => ~overlapped)
    BY <1>13, OverlapSeen
<1> HIDE DEF topic, v, Handle
<1>20. step \in {"engine", "read", "merge"} /\ (step = "engine" <=> topic = "rules") /\ (step = "merge" <=> topic = "user")
    BY <1>0
<1> HIDE DEF step
<1>1. ValueTypes'
    BY <1>0, <1>13 DEF ValueTypes, Memory, Halves
<1>2. FlagTypes'
    BY <1>13 DEF FlagTypes
<1>3. QueueTypes'
    BY <1>0, <1>13 DEF QueueTypes
<1>4. StoppedInv'
    BY <1>13 DEF StoppedInv
<1>5. DoingTypes'
    BY <1>0, <1>12, <1>14, <1>20 DEF DoingTypes, Saving, Scanned, Ruling
<1>6. PushInv'
    <2>1. pushes # <<>> /\ pushes \in Seq(Push)
        BY DEF QueueTypes, Handle
    <2> SUFFICES ASSUME NEW i \in DOMAIN pushes', pushes'[i][1] = "rules"
                 PROVE  \E j \in DOMAIN pushes' : i <= j /\ pushes'[j] = <<"rules", set'["rules"]>>
        BY DEF PushInv
    <2>2. i + 1 \in DOMAIN pushes /\ pushes[i + 1] = pushes'[i] /\ i \in Nat
        BY <1>13, <2>1, FirstPush
    <2>3. PICK j \in DOMAIN pushes : i + 1 <= j /\ pushes[j] = <<"rules", set["rules"]>>
        BY <1>13, <2>2 DEF PushInv
    <2>4. j \in Nat /\ j - 1 \in DOMAIN pushes' /\ pushes'[j - 1] = pushes[j] /\ j # 1
        BY <1>13, <2>1, <2>2, <2>3, FirstPush
    <2>5. i <= j - 1
        BY <2>2, <2>3, <2>4
    <2> QED BY <1>13, <2>3, <2>4, <2>5
<1>7. AloneInv'
    BY <1>15
<1>8. EngineInv'
    <2> SUFFICES ASSUME ~overlapped'
                 PROVE  /\ \A a \in Actor : doing'[a].at = "engine" => doing'[a].version = memory'.rules
                        /\ engine' = memory'.rules \/ \E a \in Actor : doing'[a].at = "engine"
        BY DEF EngineInv
    <2>1. topic = "rules" => memory'.rules = v
        BY <1>13 DEF ValueTypes, Memory
    <2>2. topic # "rules" => memory'.rules = memory.rules
        BY <1>0, <1>13 DEF ValueTypes, Memory
    <2>3. \A a \in Actor : a # "worker" /\ doing[a].at = "engine" => Ruling(a)'
        BY <1>12 DEF DoingTypes, Ruling
    <2>4. topic # "user" => Ruling("worker")'
        BY <1>0, <1>14, <1>20 DEF Ruling
    <2>5. topic # "user" => \A a \in Actor : a # "worker" => doing[a].at # "engine"
        BY <1>14, <1>15, <2>3, <2>4 DEF AloneInv
    <2> QED BY <1>0, <1>12, <1>13, <1>14, <1>15, <1>20, <2>1, <2>2, <2>5 DEF EngineInv
<1>9. DiskInv'
    <2> SUFFICES ASSUME ~overlapped' PROVE DiskInv'
        BY DEF DiskInv
    <2>1. topic = "user" \/ Ruling("worker")'
        BY <1>0, <1>14, <1>20 DEF Ruling
    <2>2. topic = "user" => memory' = memory
        BY <1>13
    <2>3. \A a \in Actor : Ruling(a) /\ a # "worker" => Ruling(a)'
        BY <1>12 DEF Ruling
    <2>4. ~Ruling("worker")
        BY <1>13 DEF Ruling
    <2>5. \A a \in Actor : doing'[a].at \in {"cut", "write"} =>
              a # "worker" /\ doing'[a] = doing[a] /\ (a # "otherMachine" => Ruling(a))
        BY <1>12, <1>14, <1>20 DEF DoingTypes, Saving
    <2>6. Ruling("worker")' => \A a \in Actor : a # "worker" => ~Ruling(a)
        BY <1>14, <1>15, <2>3 DEF AloneInv
    <2>7. \A a \in Actor : doing[a].at = "write" => a # "worker"
        BY <1>13
    <2> QED BY <1>12, <1>13, <1>14, <1>15, <2>1, <2>2, <2>3, <2>4, <2>5, <2>6, <2>7 DEF DiskInv
<1>10. ScannerInv'
    <2>1. ~Scanned("worker")
        BY <1>13 DEF Scanned
    <2>2. Scanned("worker")' <=> topic = "user"
        BY <1>14, <1>20 DEF Scanned
    <2>3. (topic = "user" => half'.user = v) /\ (topic # "user" => half' = half)
        BY <1>13 DEF ValueTypes, Halves
    <2>4. \A a \in Actor : a # "worker" => (Scanned(a)' <=> Scanned(a))
        BY <1>12 DEF Scanned
    <2>5. ~overlapped' /\ topic = "user" => \A a \in Actor : a # "worker" => ~Scanned(a)
        BY <1>14, <1>15, <2>2, <2>4 DEF AloneInv
    <2>6. \A a \in Actor : doing'[a].at = "replace" => a # "worker" /\ doing'[a] = doing[a] /\ Scanned(a)
        BY <1>12, <1>14, <1>20 DEF Scanned
    <2> QED BY <1>13, <1>14, <1>15, <2>1, <2>2, <2>3, <2>4, <2>5, <2>6 DEF ScannerInv
<1>11. RulesInv'
    <2>1. topic = "rules" => memory'.rules = v
        BY <1>13 DEF ValueTypes, Memory
    <2>2. topic # "rules" => memory'.rules = memory.rules
        BY <1>0, <1>13 DEF ValueTypes, Memory
    <2>3. Head(pushes) = pushes[1] /\ pushes[1][1] = topic /\ pushes[1][2] = v
        BY FirstPush DEF QueueTypes, topic, v, Handle
    <2>4. CASE topic = "rules"
        <3>1. PICK j \in DOMAIN pushes : 1 <= j /\ pushes[j] = <<"rules", set["rules"]>>
            BY <1>13, <2>3, <2>4, FirstPush DEF PushInv, QueueTypes, Handle
        <3>2. CASE j = 1
            BY <1>13, <2>1, <2>3, <2>4, <3>1, <3>2 DEF RulesInv
        <3>3. CASE j # 1
            <4>1. pushes # <<>> /\ pushes \in Seq(Push)
                BY DEF QueueTypes, Handle
            <4>2. j - 1 \in DOMAIN pushes' /\ pushes'[j - 1] = pushes[j]
                BY <1>13, <3>3, <4>1, FirstPush
            <4>3. pushes'[j - 1][1] = "rules"
                BY <3>1, <4>2
            <4> QED BY <4>2, <4>3 DEF RulesInv
        <3> QED BY <3>2, <3>3
    <2>5. CASE topic # "rules"
        <3>1. doing'["rulesFetch"] = doing["rulesFetch"]
            BY <1>12 DEF Actor
        <3>2. \A i \in DOMAIN pushes : pushes[i][1] = "rules" => i - 1 \in DOMAIN pushes' /\ pushes'[i - 1][1] = "rules"
            BY <1>13, <2>3, <2>5, FirstPush DEF QueueTypes, Handle
        <3> QED BY <1>13, <2>2, <2>5, <3>1, <3>2 DEF RulesInv
    <2> QED BY <2>4, <2>5
<1> QED BY <1>1, <1>2, <1>3, <1>4, <1>5, <1>6, <1>7, <1>8, <1>9, <1>10, <1>11

\* The answer to the start's request for the rules: if it is alone, what it writes to memory
\* is what it hands to the engine.
LEMMA SyncRulesFromAPIKeepsSettings == ASSUME SettingsInv, SyncRulesFromAPI PROVE SettingsInv'
<1> USE SettingsConstants DEF SettingsInv, StateTypes, SyncRulesFromAPI, applied, onDisk, bounds, Does, SettingFault
<1> DEFINE v == doing["rulesFetch"].version
<1>12. v \in SettingEdit /\ doing["rulesFetch"] \in Handler /\ "rulesFetch" \in Actor
    BY DEF DoingTypes, Handler, Actor
<1>13. /\ ~Ruling("rulesFetch") /\ ~Saving("rulesFetch") /\ ~Scanned("rulesFetch")
       /\ doing["rulesFetch"].at \notin {"engine", "idle"}
    BY <1>12 DEF DoingTypes, Ruling, Saving, Scanned
<1>0. /\ \A b \in Actor : b # "rulesFetch" => doing'[b] = doing[b]
      /\ doing' \in [Actor -> Handler]
      /\ \/ /\ doing'["rulesFetch"].at = "engine" /\ doing'["rulesFetch"].topic = "rules"
            /\ doing'["rulesFetch"].version = v /\ memory' = [memory EXCEPT !.rules = v]
            /\ late' = (v # set["rules"])
         \/ doing'["rulesFetch"] = NotDoing /\ memory' = memory /\ late' = TRUE
    <2>1. CASE /\ memory' = [memory EXCEPT !.rules = v] /\ late' = (v # set["rules"])
               /\ doing' = [doing EXCEPT !["rulesFetch"].at = "engine", !["rulesFetch"].topic = "rules"]
        <3>1. [doing["rulesFetch"] EXCEPT !.at = "engine", !.topic = "rules"] \in Handler
            BY <1>12 DEF Handler, Topic
        <3>2. doing'["rulesFetch"] = [doing["rulesFetch"] EXCEPT !.at = "engine", !.topic = "rules"]
            BY <1>12, <2>1 DEF DoingTypes
        <3> QED BY <1>12, <2>1, <3>1, <3>2 DEF DoingTypes, Handler
    <2>2. CASE doing' = [doing EXCEPT !["rulesFetch"] = NotDoing] /\ late' = TRUE /\ memory' = memory
        BY <1>12, <2>2 DEF DoingTypes
    <2> QED BY <2>1, <2>2
<1>14. AloneInv' /\ (~overlapped' => ~overlapped)
    BY OverlapSeen
<1>15. /\ UNCHANGED <<set, pushes, running, engine, half, scanning, disk, cut, userFile, others, settingEdits>>
       /\ running
    <2>1. doing["rulesFetch"].at # "idle"
        BY <1>13
    <2> QED BY <1>12, <2>1 DEF StoppedInv, Ours, Actor, FlagTypes
<1>16. /\ memory' \in Memory
       /\ doing'["rulesFetch"].at = "engine" => memory'.rules = v /\ doing'["rulesFetch"].version = v /\ Ruling("rulesFetch")'
       /\ doing'["rulesFetch"].at # "engine" => memory' = memory
       /\ ~Saving("rulesFetch")' /\ ~Scanned("rulesFetch")'
    BY <1>0, <1>12, SettingsConstants DEF ValueTypes, Memory, Saving, Scanned, Ruling
<1> HIDE DEF SyncRulesFromAPI, v
<1>1. ValueTypes'
    BY <1>15, <1>16 DEF ValueTypes
<1>2. FlagTypes'
    BY <1>15 DEF FlagTypes
<1>3. QueueTypes'
    BY <1>15 DEF QueueTypes
<1>4. StoppedInv'
    BY <1>15 DEF StoppedInv
<1>5. DoingTypes'
    BY <1>0, <1>16 DEF DoingTypes, Saving, Scanned, Ruling
<1>6. PushInv'
    BY <1>15 DEF PushInv
<1>7. AloneInv'
    BY <1>14
<1>8. EngineInv'
    <2>1. CASE doing'["rulesFetch"].at = "engine"
        <3>1. ~overlapped' => \A a \in Actor : a # "rulesFetch" => doing'[a].at # "engine"
            BY <1>0, <1>12, <1>14, <1>16, <2>1 DEF AloneInv, Ruling, DoingTypes
        <3> QED BY <1>12, <1>16, <2>1, <3>1 DEF EngineInv
    <2>2. CASE doing'["rulesFetch"].at # "engine"
        BY <1>0, <1>13, <1>14, <1>15, <1>16, <2>2 DEF EngineInv
    <2> QED BY <2>1, <2>2
<1>9. DiskInv'
    <2>1. \A a \in Actor : a # "rulesFetch" => (Ruling(a)' <=> Ruling(a)) /\ (Saving(a)' <=> Saving(a))
        BY <1>0 DEF Ruling, Saving
    <2>2. \A a \in Actor : doing'[a].at \in {"cut", "write"} => a # "rulesFetch" /\ Saving(a)
        BY <1>0, <1>16 DEF Saving
    <2>3. \A a \in Actor : Saving(a) /\ a # "otherMachine" => Ruling(a)
        BY DEF DoingTypes
    <2>4. CASE doing'["rulesFetch"].at = "engine"
        <3>1. ~overlapped' => \A a \in Actor : doing'[a].at \in {"cut", "write"} => a = "otherMachine"
            BY <1>12, <1>14, <1>16, <2>1, <2>2, <2>3, <2>4 DEF AloneInv
        <3>2. \A a \in Actor : doing[a].at = "write" => a # "rulesFetch"
            BY <1>13 DEF Saving
        <3> QED BY <1>0, <1>12, <1>14, <1>15, <1>16, <2>4, <3>1, <3>2 DEF DiskInv
    <2>5. CASE doing'["rulesFetch"].at # "engine"
        <3>1. \A a \in Actor : doing[a].at = "write" => a # "rulesFetch"
            BY <1>13 DEF Saving
        <3> QED BY <1>0, <1>13, <1>14, <1>15, <1>16, <2>1, <2>2, <2>5, <3>1 DEF DiskInv
    <2> QED BY <2>4, <2>5
<1>10. ScannerInv'
    <2>1. doing'["worker"] = doing["worker"] /\ \A a \in Actor : Scanned(a)' <=> Scanned(a)
        BY <1>0, <1>13, <1>16 DEF Scanned, Actor
    <2>2. \A a \in Actor : doing'[a].at = "replace" => doing'[a] = doing[a]
        BY <1>0, <1>16 DEF Scanned
    <2> QED BY <1>14, <1>15, <2>1, <2>2 DEF ScannerInv, Actor
<1>11. RulesInv'
    BY <1>0, <1>15, <1>16 DEF RulesInv
<1> QED BY <1>1, <1>2, <1>3, <1>4, <1>5, <1>6, <1>7, <1>8, <1>9, <1>10, <1>11

\* The answer for the admin's half, or an empty half: it is about to be merged.
LEMMA SyncOrgScannerRulesFromAPIKeepsSettings == ASSUME SettingsInv, SyncOrgScannerRulesFromAPI PROVE SettingsInv'
<1> USE SettingsConstants DEF SettingsInv, StateTypes, SyncOrgScannerRulesFromAPI, applied, onDisk, bounds, Does, SettingFault
<1>12. doing["orgFetch"] \in Handler /\ "orgFetch" \in Actor
    BY DEF DoingTypes, Handler, Actor
<1>13. /\ ~Ruling("orgFetch") /\ ~Saving("orgFetch") /\ ~Scanned("orgFetch")
       /\ doing["orgFetch"].at \notin {"engine", "idle"}
    BY <1>12 DEF DoingTypes, Ruling, Saving, Scanned
<1>0. /\ \A b \in Actor : b # "orgFetch" => doing'[b] = doing[b]
      /\ doing' \in [Actor -> Handler]
      /\ doing'["orgFetch"].at = "merge" /\ doing'["orgFetch"].topic = "org"
    <2>1. [doing["orgFetch"] EXCEPT !.at = "merge", !.topic = "org"] \in Handler
        BY <1>12 DEF Handler, Topic
    <2>2. doing'["orgFetch"] = [doing["orgFetch"] EXCEPT !.at = "merge", !.topic = "org"]
        BY <1>12 DEF DoingTypes
    <2> QED BY <1>12, <2>1, <2>2 DEF DoingTypes, Handler
<1>14. AloneInv' /\ (~overlapped' => ~overlapped)
    BY OverlapSeen
<1>15. /\ UNCHANGED <<set, pushes, running, memory, engine, scanning, disk, cut, userFile, late, others, settingEdits>>
       /\ running
    <2>1. doing["orgFetch"].at # "idle"
        BY <1>13
    <2> QED BY <1>12, <2>1 DEF StoppedInv, Ours, Actor, FlagTypes
<1>16. half' \in Halves /\ half'.user = half.user
    BY <1>12, SettingsConstants DEF ValueTypes, Halves, Handler
<1>17. Scanned("orgFetch")' /\ ~Ruling("orgFetch")' /\ ~Saving("orgFetch")'
    BY <1>0 DEF Scanned, Ruling, Saving
<1>18. \A b \in Actor : b # "orgFetch" =>
           (Scanned(b)' <=> Scanned(b)) /\ (Ruling(b)' <=> Ruling(b)) /\ (Saving(b)' <=> Saving(b))
    BY <1>0 DEF Scanned, Ruling, Saving
<1> HIDE DEF SyncOrgScannerRulesFromAPI
<1>1. ValueTypes'
    BY <1>15, <1>16 DEF ValueTypes
<1>2. FlagTypes'
    BY <1>15 DEF FlagTypes
<1>3. QueueTypes'
    BY <1>15 DEF QueueTypes
<1>4. StoppedInv'
    BY <1>15 DEF StoppedInv
<1>5. DoingTypes'
    BY <1>0, <1>17 DEF DoingTypes, Saving, Scanned, Ruling
<1>6. PushInv'
    BY <1>15 DEF PushInv
<1>7. AloneInv'
    BY <1>14
<1>8. EngineInv'
    BY <1>0, <1>13, <1>14, <1>15 DEF EngineInv
<1>9. DiskInv'
    <2>1. \A a \in Actor : doing'[a].at \in {"cut", "write"} => a # "orgFetch"
        BY <1>0
    <2>2. \A a \in Actor : doing[a].at = "write" => a # "orgFetch"
        BY <1>13 DEF Saving
    <2> QED BY <1>0, <1>13, <1>14, <1>15, <1>18, <2>1, <2>2 DEF DiskInv
<1>10. ScannerInv'
    <2>1. doing'["worker"] = doing["worker"] /\ (Scanned("worker")' <=> Scanned("worker"))
        BY <1>0, <1>18 DEF Actor
    <2>2. ~overlapped' => \A a \in Actor : doing'[a].at # "replace"
        BY <1>0, <1>12, <1>14, <1>17 DEF AloneInv, Scanned
    <2> QED BY <1>12, <1>14, <1>15, <1>16, <1>17, <2>1, <2>2 DEF ScannerInv
<1>11. RulesInv'
    <2>1. doing'["rulesFetch"] = doing["rulesFetch"]
        BY <1>0 DEF Actor
    <2> QED BY <1>15, <2>1 DEF RulesInv
<1> QED BY <1>1, <1>2, <1>3, <1>4, <1>5, <1>6, <1>7, <1>8, <1>9, <1>10, <1>11

\* The engine has the rules of the handler.
LEMMA UpdateRulesKeepsSettings == ASSUME SettingsInv, NEW a \in Actor, UpdateRules(a) PROVE SettingsInv'
<1> USE SettingsConstants DEF SettingsInv, StateTypes, UpdateRules, applied, onDisk, bounds, Does, SettingFault
<1>1. ValueTypes'
    BY MachineSettingsAssumption DEF ValueTypes, DoingTypes, Handler, Entries, SettingEdit
<1>2. FlagTypes'
    BY DEF FlagTypes
<1>3. QueueTypes'
    BY DEF QueueTypes, Push
<1>4. StoppedInv'
    BY DEF StoppedInv, Ours, DoingTypes
<1>5. DoingTypes'
    BY DEF DoingTypes, Handler, Saving, Scanned, Ruling, ValueTypes
<1>6. PushInv'
    BY DEF PushInv
<1>7. AloneInv'
    BY OverlapSeen DEF AloneInv, DoingTypes, Handler, Saving, Scanned, Ruling
<1>8. EngineInv'
    BY OverlapSeen DEF EngineInv, DoingTypes, Handler, AloneInv, Ruling
<1>9. DiskInv'
    BY OverlapSeen DEF DiskInv, DoingTypes, Handler, AloneInv, Saving, Ruling, ValueTypes, Entries
<1>10. ScannerInv'
    BY OverlapSeen DEF ScannerInv, DoingTypes, Handler, AloneInv, Scanned, ValueTypes
<1>11. RulesInv'
    BY DEF RulesInv, DoingTypes, Handler
<1> QED BY <1>1, <1>2, <1>3, <1>4, <1>5, <1>6, <1>7, <1>8, <1>9, <1>10, <1>11

\* The halves are merged as they are now ...
LEMMA MergeScannerRulesKeepsSettings == ASSUME SettingsInv, NEW a \in Actor, MergeScannerRules(a) PROVE SettingsInv'
<1> USE SettingsConstants DEF SettingsInv, StateTypes, MergeScannerRules, applied, onDisk, bounds, Does, SettingFault
<1>1. ValueTypes'
    BY MachineSettingsAssumption DEF ValueTypes, DoingTypes, Handler, Entries, SettingEdit
<1>2. FlagTypes'
    BY DEF FlagTypes
<1>3. QueueTypes'
    BY DEF QueueTypes, Push
<1>4. StoppedInv'
    BY DEF StoppedInv, Ours, DoingTypes
<1>5. DoingTypes'
    BY DEF DoingTypes, Handler, Saving, Scanned, Ruling, ValueTypes
<1>6. PushInv'
    BY DEF PushInv
<1>7. AloneInv'
    BY OverlapSeen DEF AloneInv, DoingTypes, Handler, Saving, Scanned, Ruling
<1>8. EngineInv'
    BY OverlapSeen DEF EngineInv, DoingTypes, Handler, AloneInv, Ruling
<1>9. DiskInv'
    BY OverlapSeen DEF DiskInv, DoingTypes, Handler, AloneInv, Saving, Ruling, ValueTypes, Entries
<1>10. ScannerInv'
    BY OverlapSeen DEF ScannerInv, DoingTypes, Handler, AloneInv, Scanned, ValueTypes
<1>11. RulesInv'
    BY DEF RulesInv, DoingTypes, Handler
<1> QED BY <1>1, <1>2, <1>3, <1>4, <1>5, <1>6, <1>7, <1>8, <1>9, <1>10, <1>11

\* ... and replace what the scanner had: alone, the halves are still those that were merged.
LEMMA ReplaceCustomRulesKeepsSettings == ASSUME SettingsInv, NEW a \in Actor, ReplaceCustomRules(a) PROVE SettingsInv'
<1> USE SettingsConstants DEF SettingsInv, StateTypes, ReplaceCustomRules, applied, onDisk, bounds, Does, SettingFault
<1>1. ValueTypes'
    BY MachineSettingsAssumption DEF ValueTypes, DoingTypes, Handler, Entries, SettingEdit
<1>2. FlagTypes'
    BY DEF FlagTypes
<1>3. QueueTypes'
    BY DEF QueueTypes, Push
<1>4. StoppedInv'
    BY DEF StoppedInv, Ours, DoingTypes
<1>5. DoingTypes'
    BY DEF DoingTypes, Handler, Saving, Scanned, Ruling, ValueTypes
<1>6. PushInv'
    BY DEF PushInv
<1>7. AloneInv'
    BY OverlapSeen DEF AloneInv, DoingTypes, Handler, Saving, Scanned, Ruling
<1>8. EngineInv'
    BY OverlapSeen DEF EngineInv, DoingTypes, Handler, AloneInv, Ruling
<1>9. DiskInv'
    <2>1. /\ doing'[a] = NotDoing /\ \A b \in Actor : b # a => doing'[b] = doing[b]
        BY DEF DoingTypes
    <2>2. ~Ruling(a)
        BY DEF DoingTypes, Scanned
    <2>3. \A b \in Actor : b # a => (Ruling(b)' <=> Ruling(b))
        BY <2>1 DEF Ruling
    <2>4. \A b \in Actor : doing'[b].at \in {"cut", "write"} => b # a
        BY <2>1
    <2> QED BY <2>1, <2>2, <2>3, <2>4 DEF DiskInv
<1>10. ScannerInv'
    BY OverlapSeen DEF ScannerInv, DoingTypes, Handler, AloneInv, Scanned, ValueTypes
<1>11. RulesInv'
    BY DEF RulesInv, DoingTypes, Handler
<1> QED BY <1>1, <1>2, <1>3, <1>4, <1>5, <1>6, <1>7, <1>8, <1>9, <1>10, <1>11

\* A save reads the file, and sets its own entry.
LEMMA LoadFileKeepsSettings == ASSUME SettingsInv, NEW a \in Actor, LoadFile(a) PROVE SettingsInv'
<1> USE SettingsConstants DEF SettingsInv, StateTypes, LoadFile, applied, onDisk, bounds, Does, SettingFault
<1> DEFINE file == IF cut THEN NoEntries ELSE disk
           w == IF a = "otherMachine" THEN [file EXCEPT !.other = doing[a].version] ELSE [file EXCEPT !.own = memory]
<1>12. doing[a] \in Handler /\ w \in Entries
    BY DEF DoingTypes, Handler, ValueTypes, Entries
<1>0. /\ doing' \in [Actor -> Handler] /\ \A b \in Actor : b # a => doing'[b] = doing[b]
      /\ doing'[a].at = "cut" /\ doing'[a].topic = doing[a].topic /\ doing'[a].seen = w
    <2>1. [doing[a] EXCEPT !.at = "cut", !.seen = w] \in Handler
        BY <1>12 DEF Handler
    <2>2. doing' = [doing EXCEPT ![a] = [doing[a] EXCEPT !.at = "cut", !.seen = w]]
        BY DEF DoingTypes
    <2> QED BY <1>12, <2>1, <2>2 DEF DoingTypes, Handler
<1>13. Saving(a) /\ Saving(a)' /\ ~Scanned(a) /\ ~Scanned(a)' /\ (Ruling(a)' <=> Ruling(a))
    BY <1>0 DEF Saving, Scanned, Ruling
<1>1. ValueTypes'
    BY MachineSettingsAssumption DEF ValueTypes, DoingTypes, Handler, Entries, SettingEdit
<1>2. FlagTypes'
    BY DEF FlagTypes
<1>3. QueueTypes'
    BY DEF QueueTypes, Push
<1>4. StoppedInv'
    BY DEF StoppedInv, Ours, DoingTypes
<1>5. DoingTypes'
    <2> HIDE DEF w, LoadFile
    <2> QED BY <1>0, <1>12, <1>13 DEF DoingTypes, Saving, Scanned, Ruling
<1>6. PushInv'
    BY DEF PushInv
<1>7. AloneInv'
    BY OverlapSeen DEF AloneInv, DoingTypes, Handler, Saving, Scanned, Ruling
<1>8. EngineInv'
    BY OverlapSeen DEF EngineInv, DoingTypes, Handler, AloneInv, Ruling
<1>9. DiskInv'
    BY OverlapSeen DEF DiskInv, DoingTypes, Handler, AloneInv, Saving, Ruling, ValueTypes, Entries
<1>10. ScannerInv'
    <2>1. \A b \in Actor : Scanned(b)' <=> Scanned(b)
        BY <1>0, <1>13 DEF Scanned
    <2>2. Scanned("worker") => doing'["worker"] = doing["worker"]
        BY <1>0, <1>13 DEF Actor
    <2>3. \A b \in Actor : doing'[b].at = "replace" => doing'[b] = doing[b]
        BY <1>0
    <2>4. UNCHANGED <<running, half, userFile, scanning, overlapped>>
        OBVIOUS
    <2> HIDE DEF LoadFile, w
    <2> QED BY <2>1, <2>2, <2>3, <2>4 DEF ScannerInv, Actor
<1>11. RulesInv'
    <2>1. doing["rulesFetch"].at \notin {"ask", "answered"} \/ doing'["rulesFetch"] = doing["rulesFetch"]
        BY <1>0 DEF Actor
    <2>2. UNCHANGED <<running, late, memory, set, pushes>>
        OBVIOUS
    <2> QED BY <2>1, <2>2 DEF RulesInv
<1> QED BY <1>1, <1>2, <1>3, <1>4, <1>5, <1>6, <1>7, <1>8, <1>9, <1>10, <1>11

\* The file is cut ...
LEMMA TruncateKeepsSettings == ASSUME SettingsInv, NEW a \in Actor, Truncate(a) PROVE SettingsInv'
<1> USE SettingsConstants DEF SettingsInv, StateTypes, Truncate, applied, onDisk, bounds, Does, SettingFault
<1>1. ValueTypes'
    BY MachineSettingsAssumption DEF ValueTypes, DoingTypes, Handler, Entries, SettingEdit
<1>2. FlagTypes'
    BY DEF FlagTypes
<1>3. QueueTypes'
    BY DEF QueueTypes, Push
<1>4. StoppedInv'
    BY DEF StoppedInv, Ours, DoingTypes
<1>5. DoingTypes'
    BY DEF DoingTypes, Handler, Saving, Scanned, Ruling, ValueTypes
<1>6. PushInv'
    BY DEF PushInv
<1>7. AloneInv'
    BY OverlapSeen DEF AloneInv, DoingTypes, Handler, Saving, Scanned, Ruling
<1>8. EngineInv'
    BY OverlapSeen DEF EngineInv, DoingTypes, Handler, AloneInv, Ruling
<1>9. DiskInv'
    BY OverlapSeen DEF DiskInv, DoingTypes, Handler, AloneInv, Saving, Ruling, ValueTypes, Entries
<1>10. ScannerInv'
    BY OverlapSeen DEF ScannerInv, DoingTypes, Handler, AloneInv, Scanned, ValueTypes
<1>11. RulesInv'
    BY DEF RulesInv, DoingTypes, Handler
<1> QED BY <1>1, <1>2, <1>3, <1>4, <1>5, <1>6, <1>7, <1>8, <1>9, <1>10, <1>11

\* ... and whole again: with both entries, as no other save came between.
LEMMA WriteFileKeepsSettings == ASSUME SettingsInv, NEW a \in Actor, WriteFile(a) PROVE SettingsInv'
<1> USE SettingsConstants DEF SettingsInv, StateTypes, WriteFile, applied, onDisk, bounds, Does, SettingFault
<1>1. ValueTypes'
    BY MachineSettingsAssumption DEF ValueTypes, DoingTypes, Handler, Entries, SettingEdit
<1>2. FlagTypes'
    BY DEF FlagTypes
<1>3. QueueTypes'
    BY DEF QueueTypes, Push
<1>4. StoppedInv'
    BY DEF StoppedInv, Ours, DoingTypes
<1>5. DoingTypes'
    BY DEF DoingTypes, Handler, Saving, Scanned, Ruling, ValueTypes
<1>6. PushInv'
    BY DEF PushInv
<1>7. AloneInv'
    BY OverlapSeen DEF AloneInv, DoingTypes, Handler, Saving, Scanned, Ruling
<1>8. EngineInv'
    BY OverlapSeen DEF EngineInv, DoingTypes, Handler, AloneInv, Ruling
<1>9. DiskInv'
    BY OverlapSeen DEF DiskInv, DoingTypes, Handler, AloneInv, Saving, Ruling, ValueTypes, Entries
<1>10. ScannerInv'
    BY OverlapSeen DEF ScannerInv, DoingTypes, Handler, AloneInv, Scanned, ValueTypes
<1>11. RulesInv'
    BY DEF RulesInv, DoingTypes, Handler
<1> QED BY <1>1, <1>2, <1>3, <1>4, <1>5, <1>6, <1>7, <1>8, <1>9, <1>10, <1>11

\* The bridge dies: a save it was writing counts as cut short.
LEMMA BridgeStopsKeepsSettings == ASSUME SettingsInv, BridgeStops PROVE SettingsInv'
<1> USE SettingsConstants DEF SettingsInv, StateTypes, BridgeStops, applied, onDisk, bounds, SettingFault
<1>0. /\ doing'["otherMachine"] = doing["otherMachine"]
      /\ \A a \in Actor : a # "otherMachine" => doing'[a] = NotDoing
    BY DEF Actor
<1>12. /\ \A a \in Actor : Saving(a)' \/ Scanned(a)' \/ doing'[a].at \in {"engine", "cut", "write", "replace"}
                           => a = "otherMachine"
       /\ \A a \in Actor : ~Ruling(a)' /\ ~Scanned(a)' /\ doing'[a].at \notin {"engine", "replace"}
    <2>1. ~Ruling("otherMachine") /\ ~Scanned("otherMachine") /\ doing["otherMachine"].at \notin {"engine", "replace"}
        BY DEF DoingTypes, Actor, Scanned
    <2>2. \A a \in Actor : a # "otherMachine" => doing'[a].at = "idle"
        BY <1>0
    <2> HIDE DEF BridgeStops
    <2> QED BY <1>0, <2>1, <2>2 DEF Saving, Scanned, Ruling, Actor
<1>13. UNCHANGED <<set, memory, engine, half, scanning, disk, cut, userFile, late, others>> /\ ~running'
    OBVIOUS
<1>14. ~overlapped' => ~overlapped /\ \A a \in Actor : doing[a].at = "write" => a = "otherMachine"
    OBVIOUS
<1>1. ValueTypes'
    BY MachineSettingsAssumption DEF ValueTypes
<1>2. FlagTypes'
    BY DEF FlagTypes
<1>3. QueueTypes'
    BY DEF QueueTypes, Push
<1>4. StoppedInv'
    BY <1>0 DEF StoppedInv, Ours
<1>5. DoingTypes'
    BY <1>0, <1>12 DEF DoingTypes, Saving, Scanned, Ruling, Actor
<1>6. PushInv' /\ RulesInv' /\ EngineInv' /\ ScannerInv'
    BY <1>13 DEF PushInv, RulesInv, EngineInv, ScannerInv
<1>7. AloneInv'
    BY <1>12 DEF AloneInv
<1>9. DiskInv'
    <2> SUFFICES ASSUME ~overlapped' PROVE DiskInv'
        BY DEF DiskInv
    <2>1. cut' => \E a \in Actor : doing'[a].at = "write"
        BY <1>0, <1>13, <1>14 DEF DiskInv
    <2>2. disk'.other = others'
        BY <1>13, <1>14 DEF DiskInv
    <2>3. ASSUME NEW a \in Actor, doing'[a].at \in {"cut", "write"}
          PROVE  a = "otherMachine" /\ doing'[a].seen.other = doing'[a].version /\ doing'[a].seen.own = disk'.own
        <3>1. a = "otherMachine" /\ doing'[a] = doing[a]
            BY <1>0, <1>12, <2>3
        <3> QED BY <1>13, <1>14, <2>3, <3>1 DEF DiskInv
    <2> HIDE DEF BridgeStops
    <2> QED BY <1>13, <2>1, <2>2, <2>3 DEF DiskInv
<1> QED BY <1>1, <1>2, <1>3, <1>4, <1>5, <1>6, <1>7, <1>9

\* A step that changes nothing.
LEMMA SettingsStutterHolds == ASSUME SettingsInv, UNCHANGED settingVars PROVE SettingsInv'
<1> USE DEF SettingsInv, StateTypes, settingVars
<1>1. ValueTypes' /\ QueueTypes' /\ StoppedInv'
    BY DEF ValueTypes, QueueTypes, StoppedInv
<1>2. FlagTypes'
    BY DEF FlagTypes
<1>3. DoingTypes' /\ AloneInv'
    BY DEF DoingTypes, AloneInv, Saving, Scanned, Ruling
<1>4. PushInv' /\ RulesInv' /\ EngineInv'
    BY DEF PushInv, RulesInv, EngineInv
<1>5. DiskInv' /\ ScannerInv'
    BY DEF DiskInv, ScannerInv, Scanned, Ruling
<1> QED BY <1>1, <1>2, <1>3, <1>4, <1>5

\* Every step keeps the invariant.
LEMMA SettingsStep == ASSUME SettingsInv, [SettingsNext]_settingVars PROVE SettingsInv'
<1>1. CASE \E topic \in Topic : EditSetting(topic)
    BY <1>1, EditSettingKeepsSettings
<1>2. CASE OtherSaves
    BY <1>2, OtherSavesKeepsSettings
<1>3. CASE StartBridge
    BY <1>3, StartBridgeKeepsSettings
<1>4. CASE Handle
    BY <1>4, HandleKeepsSettings
<1>5. CASE SyncRulesFromAPI
    BY <1>5, SyncRulesFromAPIKeepsSettings
<1>6. CASE SyncOrgScannerRulesFromAPI
    BY <1>6, SyncOrgScannerRulesFromAPIKeepsSettings
<1>7. CASE BridgeStops
    BY <1>7, BridgeStopsKeepsSettings
<1>8. ASSUME NEW a \in Actor, Answer(a) PROVE SettingsInv'
    BY <1>8, AnswerKeepsSettings
<1>9. ASSUME NEW a \in Actor, UpdateRules(a) PROVE SettingsInv'
    BY <1>9, UpdateRulesKeepsSettings
<1>10. ASSUME NEW a \in Actor, MergeScannerRules(a) PROVE SettingsInv'
    BY <1>10, MergeScannerRulesKeepsSettings
<1>11. ASSUME NEW a \in Actor, ReplaceCustomRules(a) PROVE SettingsInv'
    BY <1>11, ReplaceCustomRulesKeepsSettings
<1>12. ASSUME NEW a \in Actor, LoadFile(a) PROVE SettingsInv'
    BY <1>12, LoadFileKeepsSettings
<1>13. ASSUME NEW a \in Actor, Truncate(a) PROVE SettingsInv'
    BY <1>13, TruncateKeepsSettings
<1>14. ASSUME NEW a \in Actor, WriteFile(a) PROVE SettingsInv'
    BY <1>14, WriteFileKeepsSettings
<1>15. CASE UNCHANGED settingVars
    BY <1>15, SettingsStutterHolds
<1> QED BY <1>1, <1>2, <1>3, <1>4, <1>5, <1>6, <1>7, <1>8, <1>9, <1>10, <1>11, <1>12, <1>13, <1>14, <1>15 DEF SettingsNext

LEMMA SettingsAlways == SettingsSpec => []SettingsInv
<1>1. SettingsInv /\ [SettingsNext]_settingVars => SettingsInv'
    BY SettingsStep
<1> QED BY <1>1, SettingsInitHolds, PTL DEF SettingsSpec

\* Versions stay within the edits made, the file keeps its two entries, and what
\* the scanner and the engine have is a version that was set (internal/bridge/bridge.go,
\* internal/config/config.go).
THEOREM SettingsTypeCorrect == SettingsSpec => []SettingsTypeOK
<1>1. SettingsInv => SettingsTypeOK
    <2>1. SettingsInv => cut \in BOOLEAN
        BY DEF SettingsInv, StateTypes, FlagTypes
    <2>2. SettingsInv => ValueTypes
        BY DEF SettingsInv, StateTypes
    <2>3. ValueTypes => /\ set \in [Topic -> 0..MaxSettingEdits] /\ engine \in 0..MaxSettingEdits
                        /\ memory \in [{"rules", "config"} -> 0..MaxSettingEdits]
                        /\ half \in [{"org", "user"} -> 0..MaxSettingEdits]
                        /\ scanning \in [{"org", "user"} -> 0..MaxSettingEdits]
                        /\ disk.other \in 0..MaxSettingEdits
        BY DEF ValueTypes, SettingEdit, Memory, Halves, Entries
    <2> QED BY <2>1, <2>2, <2>3 DEF SettingsTypeOK
<1> QED BY <1>1, SettingsAlways, PTL

\* At rest, and unless two handlers or two saves overlapped, the engine, memory, the
\* file and the platform have the same rules, the scanner has both halves, and the
\* other machine's entry is as that machine wrote it.
THEOREM SettingsAgreeHolds == SettingsSpec => []SettingsAgree
<1>1. SettingsInv => SettingsAgree
    <2> SUFFICES ASSUME SettingsInv, running, pushes = <<>>, ~overlapped, \A a \in Actor : doing[a].at = "idle"
                 PROVE  /\ engine = memory.rules /\ disk.own = memory /\ ~cut
                        /\ late \/ memory.rules = set["rules"]
                        /\ scanning = half /\ half.user = userFile
                        /\ disk.other = others
        BY DEF SettingsAgree
    <2> USE DEF SettingsInv
    <2>1. \A a \in Actor : ~Ruling(a) /\ ~Scanned(a)
        BY DEF Ruling, Scanned
    <2>2. engine = memory.rules
        BY DEF EngineInv
    <2>3. disk.own = memory /\ ~cut /\ disk.other = others
        BY <2>1 DEF DiskInv
    <2>4. late \/ memory.rules = set["rules"]
        BY DEF RulesInv, Actor
    <2>5. scanning = half /\ half.user = userFile
        BY <2>1 DEF ScannerInv, Actor
    <2> QED BY <2>2, <2>3, <2>4, <2>5
<1> QED BY <1>1, SettingsAlways, PTL

-----------------------------------------------------------------------------
(* A user node.                                                             *)

\* A registration goes on to a node that the platform may still issue, and
\* then to the one it issued; the credentials in the file are that one's.
EnrolInv ==
    /\ enrol.at \in {"redeemed", "bound"} => issued < MaxNodes
    /\ enrol.at \in {"confirmed", "saved"} => enrol.node # 0
    /\ enrol.at = "saved" => enrol.node = creds

\* The start goes on only with the wanted Caddyfile, then the pinned binary.
StartInv ==
    /\ daemon.at \in {"binary", "start", "up"} => scaffold = wanted
    /\ daemon.at = "start" => cached = "good"

\* What a daemon that is down remembers.
DownInv ==
    daemon.at = "down" =>
        (\A h \in Handshake : asking[h] = Quiet) /\ (\A l \in Label : allowed[l] = 0)

\* A label has lapsed for no longer than the answer about it has taken, and
\* for no longer than a question may take and the answer has been remembered.
LapseInv ==
    /\ \A l \in Label : daemon.at # "down" /\ readyOn[l] = daemon.node => lapsed[l] = 0
    /\ \A h \in Handshake : asking[h].at = "yes" /\ asking[h].age <= AskDeadline =>
           lapsed[asking[h].label] <= asking[h].age
    /\ \A l \in Label : allowed[l] > 0 => lapsed[l] + allowed[l] <= AskDeadline + AskCacheTTL + 1

\* The invariant, by what registers, what serves and what asks.
RegisterPart == RegisterTypes /\ EnrolInv /\ MarkerFollowsCredentials
CaddyPart == DaemonTypes /\ StartInv /\ ProxyTypes /\ ManagedCaddyIsOurs
AskPart == AskTypes /\ DownInv /\ LapseInv /\ CertificatesAreVouchedFor

UserNodeInv == RegisterPart /\ CaddyPart /\ AskPart /\ nodeFaults \in 0..MaxNodeFaults

-----------------------------------------------------------------------------

\* No question is pending.
LEMMA QuietType ==
    /\ Quiet \in [at : {"none", "asked", "yes", "no"}, label : Label, age : 0..AskDeadline + 1]
    /\ Quiet.at = "none" /\ Quiet.age = 0
<1>1. (CHOOSE l \in Label : TRUE) \in Label
    BY UserNodeAssumption
<1>2. 0 \in 0..AskDeadline + 1
    BY UserNodeAssumption
<1> QED BY <1>1, <1>2 DEF Quiet

\* A machine that is not registered.
LEMMA UserNodeInitHolds == UserNodeInit => UserNodeInv
<1> SUFFICES ASSUME UserNodeInit PROVE UserNodeInv
    OBVIOUS
<1> USE UserNodeAssumption, QuietType DEF UserNodeInit
<1>1. RegisterTypes
    <2>1. readyOn \in [Label -> 0..issued] /\ issued \in 0..MaxNodes
        OBVIOUS
    <2>2. enrol \in [at : {"idle", "redeemed", "bound", "confirmed", "saved"}, node : 0..issued]
        OBVIOUS
    <2>3. creds \in 0..issued /\ marker \in 0..issued
        OBVIOUS
    <2>4. mismarked \in BOOLEAN
        OBVIOUS
    <2> QED BY <2>1, <2>2, <2>3, <2>4 DEF RegisterTypes
<1>2. DaemonTypes
    BY DEF DaemonTypes
<1>3. ProxyTypes
    BY DEF ProxyTypes, NoProxy
<1>4. AskTypes
    BY DEF AskTypes, Longest
<1>5. EnrolInv /\ StartInv
    BY DEF EnrolInv, StartInv
<1>6. DownInv /\ LapseInv /\ CertificatesAreVouchedFor
    BY DEF DownInv, LapseInv, CertificatesAreVouchedFor
<1>7. MarkerFollowsCredentials /\ ManagedCaddyIsOurs
    BY DEF MarkerFollowsCredentials, LocalNodeID, ManagedCaddyIsOurs, NoProxy
<1>8. nodeFaults \in 0..MaxNodeFaults
    OBVIOUS
<1> QED BY <1>1, <1>2, <1>3, <1>4, <1>5, <1>6, <1>7, <1>8
           DEF UserNodeInv, RegisterPart, CaddyPart, AskPart

\* Faults are counted up to their bound.
LEMMA FaultsStayBounded ==
    ASSUME nodeFaults \in 0..MaxNodeFaults, NodeFault \/ UNCHANGED nodeFaults
    PROVE  nodeFaults' \in 0..MaxNodeFaults
BY UserNodeAssumption DEF NodeFault

\* Steps that leave a part of the state alone keep that part.
LEMMA CaddyPartStays ==
    ASSUME CaddyPart, UNCHANGED <<startVars, hostVars, proxy>>, creds # 0 => creds' # 0,
           issued \in Nat, issued' \in Nat, issued <= issued'
    PROVE  CaddyPart'
BY DEF CaddyPart, DaemonTypes, StartInv, ProxyTypes, ManagedCaddyIsOurs, startVars, hostVars
LEMMA AskPartStays ==
    ASSUME AskPart, UNCHANGED <<daemon, readyOn, askVars>> PROVE AskPart'
BY DEF AskPart, AskTypes, DownInv, LapseInv, CertificatesAreVouchedFor, askVars
LEMMA RegisterPartStays ==
    ASSUME RegisterPart, UNCHANGED <<platformVars, enrolVars>> PROVE RegisterPart'
BY DEF RegisterPart, RegisterTypes, EnrolInv, MarkerFollowsCredentials, LocalNodeID, platformVars, enrolVars

-----------------------------------------------------------------------------
(* Registration. *)

\* The register command: the platform issues at most MaxNodes nodes, and the
\* credentials and the node-id file are those of a node it issued.
RegisterStep ==
    \/ Redeem \/ BindProbes \/ RegisterDies
    \/ \E bad \in BOOLEAN : Confirm(bad) \/ WriteCredentials(bad) \/ WriteNodeIDMarker(bad)

\* What a step of the command does to the platform and the machine.
RegisterEffect ==
    /\ RegisterPart' /\ issued \in Nat /\ issued' \in Nat /\ issued <= issued'
    /\ creds # 0 => creds' # 0

LEMMA RegisterStepEffect == ASSUME RegisterPart, RegisterStep PROVE RegisterEffect
<1> USE UserNodeAssumption
    DEF RegisterEffect, RegisterPart, RegisterTypes, EnrolInv, MarkerFollowsCredentials, LocalNodeID,
        EnrolAt, platformVars
<1>1. CASE Redeem
    BY <1>1 DEF Redeem
<1>2. CASE BindProbes
    BY <1>2 DEF BindProbes
<1>3. CASE RegisterDies
    <2>1. RegisterTypes'
        <3>1. issued' = issued /\ readyOn' = readyOn /\ creds' = creds
            BY <1>3 DEF RegisterDies
        <3>2. enrol' \in [at : {"idle", "redeemed", "bound", "confirmed", "saved"}, node : 0..issued']
            BY <1>3 DEF RegisterDies
        <3>3. marker' \in 0..issued'
            BY <1>3 DEF RegisterDies
        <3>4. mismarked' \in BOOLEAN
            BY <1>3 DEF RegisterDies
        <3> QED BY <3>1, <3>2, <3>3, <3>4
    <2>2. EnrolInv' /\ MarkerFollowsCredentials'
        BY <1>3 DEF RegisterDies
    <2> QED BY <1>3, <2>1, <2>2 DEF RegisterDies
<1>4. ASSUME NEW bad \in BOOLEAN, Confirm(bad) PROVE RegisterEffect
    BY <1>4 DEF Confirm
<1>5. ASSUME NEW bad \in BOOLEAN, WriteCredentials(bad) PROVE RegisterEffect
    BY <1>5 DEF WriteCredentials
<1>6. ASSUME NEW bad \in BOOLEAN, WriteNodeIDMarker(bad) PROVE RegisterEffect
    BY <1>6 DEF WriteNodeIDMarker
<1> QED BY <1>1, <1>2, <1>3, <1>4, <1>5, <1>6 DEF RegisterStep

LEMMA RegisterStepKeepsNode == ASSUME UserNodeInv, RegisterStep PROVE UserNodeInv'
<1>1. UNCHANGED <<readyOn, startVars, hostVars, proxy, askVars>>
    BY DEF RegisterStep, Redeem, BindProbes, RegisterDies, Confirm, WriteCredentials, WriteNodeIDMarker, platformVars
<1>2. nodeFaults' \in 0..MaxNodeFaults
    BY FaultsStayBounded
       DEF UserNodeInv, RegisterStep, Redeem, BindProbes, RegisterDies, Confirm, WriteCredentials, WriteNodeIDMarker, Perhaps
<1>3. RegisterEffect
    BY RegisterStepEffect DEF UserNodeInv
<1>4. CaddyPart'
    BY <1>1, <1>3, CaddyPartStays DEF UserNodeInv, RegisterEffect
<1>5. AskPart'
    BY <1>1, AskPartStays DEF UserNodeInv, startVars
<1> QED BY <1>2, <1>3, <1>4, <1>5 DEF UserNodeInv, RegisterEffect

-----------------------------------------------------------------------------
(* The daemon, its Caddy and the operator. *)

\* A running daemon goes on with its start.
StartStep == BindAsk \/ EnsureNodeCaddyfile \/ EnsureCaddy \/ StartManagedCaddy

LEMMA StartStepKeepsNode == ASSUME UserNodeInv, StartStep PROVE UserNodeInv'
<1> USE DEF UserNodeInv
<1>1. /\ UNCHANGED <<platformVars, enrolVars, wanted, hostVars, askVars, nodeFaults>>
      /\ daemon.at # "down"
      /\ \E step \in {"scaffold", "binary", "start", "up"} : DaemonAt(step)
    BY DEF StartStep, BindAsk, EnsureNodeCaddyfile, EnsureCaddy, StartManagedCaddy
<1>2. RegisterPart'
    BY <1>1, RegisterPartStays
<1>3. daemon'.at # "down" /\ daemon'.node = daemon.node
    BY <1>1 DEF DaemonAt, CaddyPart, DaemonTypes
<1>4. AskPart'
    BY <1>1, <1>3 DEF AskPart, AskTypes, DownInv, LapseInv, CertificatesAreVouchedFor, platformVars, askVars
<1>5. CaddyPart'
    <2> USE DEF CaddyPart, DaemonTypes, StartInv, ProxyTypes, ManagedCaddyIsOurs, DaemonAt, enrolVars, platformVars, hostVars
    <2>1. CASE BindAsk
        BY <2>1 DEF BindAsk
    <2>2. CASE EnsureNodeCaddyfile
        BY <2>2 DEF EnsureNodeCaddyfile
    <2>3. CASE EnsureCaddy
        BY <2>3 DEF EnsureCaddy
    <2>4. CASE StartManagedCaddy
        BY <2>4 DEF StartManagedCaddy
    <2> QED BY <2>1, <2>2, <2>3, <2>4 DEF StartStep
<1> QED BY <1>1, <1>2, <1>4, <1>5

\* A daemon starts with nothing remembered, and counts every label that is not
\* ready on its node as lapsed for good.
LEMMA StartDaemonKeepsNode == ASSUME UserNodeInv, StartDaemon PROVE UserNodeInv'
<1> USE DEF UserNodeInv, StartDaemon
<1>1. RegisterPart'
    BY RegisterPartStays
<1>2. CaddyPart'
    BY DEF CaddyPart, DaemonTypes, StartInv, ProxyTypes, ManagedCaddyIsOurs, Loadable,
           RegisterPart, RegisterTypes, platformVars, enrolVars, hostVars
<1>3. Longest \in 0..Longest /\ 0 \in 0..Longest
    BY UserNodeAssumption DEF Longest
<1>4. daemon'.at # "down" /\ daemon'.node = creds
    OBVIOUS
<1>5. AskPart'
    BY <1>3, <1>4, QuietType
       DEF AskPart, AskTypes, DownInv, LapseInv, CertificatesAreVouchedFor, platformVars
<1> QED BY <1>1, <1>2, <1>5

\* A daemon that ends forgets what it was asked; its Caddy ends with it, or is
\* nobody's any more.
LEMMA DaemonEndsKeepsNode == ASSUME UserNodeInv, DaemonStops \/ DaemonKilled PROVE UserNodeInv'
<1> USE DEF UserNodeInv, DaemonStops, DaemonKilled
<1>1. RegisterPart'
    BY RegisterPartStays
<1>2. nodeFaults' \in 0..MaxNodeFaults
    BY FaultsStayBounded
<1>3. CaddyPart'
    BY DEF CaddyPart, DaemonTypes, StartInv, ProxyTypes, ManagedCaddyIsOurs, NoProxy,
           RegisterPart, RegisterTypes, platformVars, enrolVars, hostVars
<1>4. AskPart'
    <2>1. 0 \in 0..Longest /\ 0 \in 0..AskCacheTTL + 1
        BY UserNodeAssumption DEF Longest
    <2> QED BY <2>1, QuietType
       DEF AskPart, AskTypes, DownInv, LapseInv, CertificatesAreVouchedFor, Silenced
<1> QED BY <1>1, <1>2, <1>3, <1>4

\* The operator touches the daemon's files only while it is down.
LEMMA OperatesKeepsNode == ASSUME UserNodeInv, Operates PROVE UserNodeInv'
<1> USE DEF UserNodeInv, Operates
<1>1. RegisterPart'
    BY RegisterPartStays
<1>2. nodeFaults' \in 0..MaxNodeFaults
    BY FaultsStayBounded
<1>3. CaddyPart'
    BY DEF CaddyPart, DaemonTypes, StartInv, ProxyTypes, ManagedCaddyIsOurs, NoProxy, platformVars, enrolVars
<1>4. AskPart'
    BY AskPartStays DEF platformVars
<1> QED BY <1>1, <1>2, <1>3, <1>4

-----------------------------------------------------------------------------
(* The questions about certificates. *)

\* A deployment becomes ready on a node, or is gone from one.
LEMMA LabelMovesKeepsNode == ASSUME UserNodeInv, NEW l \in Label, LabelMoves(l) PROVE UserNodeInv'
<1> USE DEF UserNodeInv, LabelMoves
<1>1. RegisterPart'
    BY DEF RegisterPart, RegisterTypes, EnrolInv, MarkerFollowsCredentials, LocalNodeID, enrolVars
<1>2. CaddyPart'
    BY CaddyPartStays DEF RegisterPart, RegisterTypes, enrolVars
<1>3. AskPart'
    <2>1. 0 \in 0..Longest
        BY UserNodeAssumption DEF Longest
    <2>2. AskTypes'
        BY <2>1 DEF AskPart, AskTypes
    <2>3. DownInv' /\ CertificatesAreVouchedFor'
        BY DEF AskPart, DownInv, CertificatesAreVouchedFor, startVars
    <2>4. \A k \in Label : /\ k # l => readyOn'[k] = readyOn[k] /\ lapsed'[k] = lapsed[k]
                           /\ lapsed'[k] \in {0, lapsed[k]} /\ lapsed[k] \in Nat
        BY DEF AskPart, AskTypes, RegisterPart, RegisterTypes, Longest
    <2>5. daemon'.at # "down" /\ readyOn'[l] = daemon.node => lapsed'[l] = 0
        BY DEF AskPart, AskTypes, startVars
    <2>6. \A h \in Handshake : asking'[h] = asking[h] /\ asking[h].label \in Label /\ asking[h].age \in Nat
        BY UserNodeAssumption DEF AskPart, AskTypes
    <2>7. \A k \in Label : allowed'[k] = allowed[k] /\ allowed[k] \in Nat
        BY UserNodeAssumption DEF AskPart, AskTypes
    <2>8. LapseInv'
        <3>1. daemon' = daemon
            BY DEF startVars
        <3>2. \A k \in Label : daemon'.at # "down" /\ readyOn'[k] = daemon'.node => lapsed'[k] = 0
            BY <2>4, <2>5, <3>1 DEF AskPart, LapseInv
        <3>3. \A h \in Handshake : asking'[h].at = "yes" /\ asking'[h].age <= AskDeadline =>
                  lapsed'[asking'[h].label] <= asking'[h].age
            BY <2>4, <2>6 DEF AskPart, LapseInv
        <3>4. \A k \in Label : allowed'[k] > 0 => lapsed'[k] + allowed'[k] <= AskDeadline + AskCacheTTL + 1
            BY UserNodeAssumption, <2>4, <2>7 DEF AskPart, LapseInv
        <3> QED BY <3>2, <3>3, <3>4 DEF LapseInv
    <2> QED BY <2>2, <2>3, <2>8 DEF AskPart
<1> QED BY <1>1, <1>2, <1>3

\* A question is asked, answered and ended; only one that ends in time with a
\* yes is followed by a certificate.
AskStep ==
    \/ \E l \in Label, h \in Handshake : CaddyAsks(h, l)
    \/ \E h \in Handshake : PlatformAnswers(h) \/ AskEnds(h)

\* A label whose yes is remembered, or arrives in time, has not lapsed too long.
LEMMA AskStepKeepsAsk == ASSUME AskPart, AskStep PROVE AskPart'
<1> USE UserNodeAssumption, QuietType
<1>1. ASSUME NEW l \in Label, NEW h \in Handshake, CaddyAsks(h, l) PROVE AskPart'
    <2> USE <1>1 DEF CaddyAsks, AskPart
    <2>1. daemon.at # "down" /\ UNCHANGED <<readyOn, daemon, allowed, lapsed>>
        BY DEF platformVars, startVars
    <2>2. unvouched' = {}
        BY DEF CachedAllowed, Certify, LapseInv, AskTypes, CertificatesAreVouchedFor
    <2>3. AskTypes'
        <3>1. 0 \in 0..AskDeadline + 1
            OBVIOUS
        <3> QED BY <2>1, <2>2, <3>1 DEF AskTypes
    <2>4. \A g \in Handshake : asking'[g].at = "yes" => asking'[g] = asking[g]
        BY DEF AskTypes
    <2> QED BY <2>1, <2>2, <2>3, <2>4 DEF DownInv, LapseInv, CertificatesAreVouchedFor
<1>2. ASSUME NEW h \in Handshake, PlatformAnswers(h) PROVE AskPart'
    <2> USE <1>2 DEF PlatformAnswers, AskPart
    <2>1. daemon.at # "down" /\ UNCHANGED <<readyOn, daemon, allowed, lapsed, unvouched>>
        BY DEF platformVars, startVars, DownInv
    <2>2. AskTypes'
        BY <2>1 DEF AskTypes
    <2>3. \A g \in Handshake : asking'[g].at = "yes" /\ asking'[g] # asking[g] =>
              g = h /\ asking'[g].label = asking[g].label /\ asking'[g].age = asking[g].age
              /\ asking[g].label \in Label /\ asking[g].age >= 0
              /\ readyOn[asking[g].label] = daemon.node
        BY DEF AskTypes
    <2>4. \A g \in Handshake : asking'[g].at = "yes" /\ asking'[g].age <= AskDeadline =>
              lapsed'[asking'[g].label] <= asking'[g].age
        <3> SUFFICES ASSUME NEW g \in Handshake, asking'[g].at = "yes", asking'[g].age <= AskDeadline
                     PROVE  lapsed'[asking'[g].label] <= asking'[g].age
            OBVIOUS
        <3>1. CASE asking'[g] = asking[g]
            BY <2>1, <3>1 DEF LapseInv
        <3>2. CASE asking'[g] # asking[g]
            BY <2>1, <2>3, <3>2 DEF LapseInv
        <3> QED BY <3>1, <3>2
    <2> QED BY <2>1, <2>2, <2>4 DEF DownInv, LapseInv, CertificatesAreVouchedFor
<1>3. ASSUME NEW h \in Handshake, AskEnds(h) PROVE AskPart'
    <2> USE <1>3 DEF AskEnds, AskPart
    <2>1. daemon.at # "down" /\ UNCHANGED <<readyOn, daemon, lapsed>>
        BY DEF platformVars, startVars, DownInv
    <2>2. unvouched' = {}
        BY DEF Certify, LapseInv, AskTypes, CertificatesAreVouchedFor
    <2>3. AskTypes'
        BY <2>1, <2>2 DEF AskTypes, Remember
    <2>4. \A g \in Handshake : asking'[g].at = "yes" => asking'[g] = asking[g]
        BY DEF AskTypes
    <2>5. \A l \in Label : allowed'[l] > 0 => lapsed'[l] + allowed'[l] <= AskDeadline + AskCacheTTL + 1
        BY <2>1 DEF AskTypes, LapseInv, Remember
    <2> QED BY <2>1, <2>2, <2>3, <2>4, <2>5 DEF DownInv, LapseInv, CertificatesAreVouchedFor
<1> QED BY <1>1, <1>2, <1>3 DEF AskStep

LEMMA AskStepKeepsNode == ASSUME UserNodeInv, AskStep PROVE UserNodeInv'
<1>1. UNCHANGED <<platformVars, enrolVars, startVars, hostVars, proxy, nodeFaults>>
    BY DEF AskStep, CaddyAsks, PlatformAnswers, AskEnds
<1>2. RegisterPart'
    BY <1>1, RegisterPartStays DEF UserNodeInv
<1>3. CaddyPart'
    BY <1>1, CaddyPartStays DEF UserNodeInv, RegisterPart, RegisterTypes, platformVars, enrolVars
<1> QED BY <1>1, <1>2, <1>3, AskStepKeepsAsk DEF UserNodeInv

\* A tick ages the questions and the remembered answers as it ages a label that
\* is not ready here.
LEMMA NodeTickKeepsNode == ASSUME UserNodeInv, NodeTick PROVE UserNodeInv'
<1> USE DEF UserNodeInv, NodeTick
<1>1. RegisterPart'
    BY RegisterPartStays
<1>2. CaddyPart'
    BY CaddyPartStays DEF RegisterPart, RegisterTypes, platformVars, enrolVars
<1>3. AskPart'
    <2> USE UserNodeAssumption DEF AskPart, AskTypes, platformVars, startVars
    <2>1. \A l \in Label : lapsed'[l] \in 0..Longest /\ lapsed'[l] <= lapsed[l] + 1
        BY DEF Longest
    <2>2. \A l \in Label : /\ allowed'[l] \in 0..AskCacheTTL + 1
                           /\ allowed'[l] > 0 => allowed[l] > 0 /\ allowed'[l] = allowed[l] - 1
        OBVIOUS
    <2>3. \A h \in Handshake :
              /\ asking'[h] \in [at : {"none", "asked", "yes", "no"}, label : Label, age : 0..AskDeadline + 1]
              /\ asking'[h].at = "yes" /\ asking'[h].age <= AskDeadline =>
                    /\ asking[h].at = "yes" /\ asking'[h].label = asking[h].label
                    /\ asking'[h].age = asking[h].age + 1
        OBVIOUS
    <2>4. AskTypes'
        BY <2>1, <2>2, <2>3
    <2>5. \A l \in Label : allowed'[l] > 0 => lapsed'[l] + allowed'[l] <= AskDeadline + AskCacheTTL + 1
        BY <2>1, <2>2 DEF LapseInv, Longest
    <2>6. \A h \in Handshake : asking'[h].at = "yes" /\ asking'[h].age <= AskDeadline =>
              lapsed'[asking'[h].label] <= asking'[h].age
        BY <2>1, <2>3 DEF LapseInv, Longest
    <2> QED BY <2>4, <2>5, <2>6 DEF DownInv, LapseInv, CertificatesAreVouchedFor
<1> QED BY <1>1, <1>2, <1>3

-----------------------------------------------------------------------------

LEMMA UserNodeStepKeepsInv == UserNodeInv /\ [UserNodeNext]_userNodeVars => UserNodeInv'
<1>1. ASSUME UserNodeInv, UNCHANGED userNodeVars PROVE UserNodeInv'
    <2> USE <1>1 DEF UserNodeInv, userNodeVars
    <2>1. RegisterPart'
        BY RegisterPartStays
    <2>2. CaddyPart'
        BY CaddyPartStays DEF RegisterPart, RegisterTypes, platformVars, enrolVars
    <2>3. AskPart'
        BY AskPartStays DEF platformVars, startVars
    <2> QED BY <2>1, <2>2, <2>3
<1>2. ASSUME UserNodeInv, UserNodeNext PROVE UserNodeInv'
    BY <1>2, RegisterStepKeepsNode, StartStepKeepsNode, StartDaemonKeepsNode, DaemonEndsKeepsNode,
       OperatesKeepsNode, LabelMovesKeepsNode, AskStepKeepsNode, NodeTickKeepsNode
       DEF UserNodeNext, RegisterStep, StartStep, AskStep
<1> QED BY <1>1, <1>2

LEMMA UserNodeInvariance == UserNodeSpec => []UserNodeInv
BY UserNodeInitHolds, UserNodeStepKeepsInv, PTL DEF UserNodeSpec

\* The files, the daemon, its Caddy and the questions have their types: the
\* daemon runs only with credentials of a node the platform issued.
THEOREM UserNodeTypeCorrect == UserNodeSpec => []UserNodeTypeOK
<1>1. UserNodeInv => UserNodeTypeOK
    BY DEF UserNodeInv, UserNodeTypeOK, RegisterPart, CaddyPart, AskPart
<1> QED BY <1>1, UserNodeInvariance, PTL

\* Certificates only for labels that are vouched for, the bridge takes the
\* machine for no other node than its own, and the managed Caddy is the pinned
\* one on the daemon's configuration, for every number of labels, handshakes,
\* registrations and crashes, and every deadline and time to live.
THEOREM NodeIsVouchedForHolds == UserNodeSpec => []NodeIsVouchedFor
<1>1. UserNodeInv => NodeIsVouchedFor
    BY DEF UserNodeInv, NodeIsVouchedFor, RegisterPart, CaddyPart, AskPart
<1> QED BY <1>1, UserNodeInvariance, PTL

-----------------------------------------------------------------------------
(* The connection to the server.  Two invariants: the socket that is not   *)
(* closed is b.conn, and only a readLoop without a connection dials; and a *)
(* message is in at most one place at a time, with its write, if there was *)
(* one, behind it.                                                         *)


\* Only a readLoop without a connection dials; any other socket is closed.
\* Outside a flush there is nothing to be flushed.
LinkInv ==
    /\ pc[ReadLoop] = "dial" => conn = NoConn
    /\ \A c \in Conn : link[c] # "closed" <=> c = conn
    /\ pc[ReadLoop] # "flush" => flushing = <<>>

Distinct(q) == \A i, j \in DOMAIN q : q[i] = q[j] => i = j

\* A message that waits was never written, and waits in one place only.
MessageInv ==
    /\ \A m \in Msg :
         /\ sent[m] <= 1
         /\ st[m] \in {"new", "holding"} => sent[m] = 0
         /\ InSeq(m, offline) \/ InSeq(m, flushing) => st[m] = "kept" /\ sent[m] = 0
         /\ ~(InSeq(m, offline) /\ InSeq(m, flushing))
    /\ Distinct(offline) /\ Distinct(flushing)
    /\ NoSilentLoss

UplinkInv == TypeOK /\ LinkInv /\ MessageInv

-----------------------------------------------------------------------------
(* Sequences of messages.                                                   *)

\* A message is added at the end.
LEMMA AppendedMessages ==
    ASSUME NEW q \in Seq(Msg), NEW m \in Msg
    PROVE  /\ Append(q, m) \in Seq(Msg)
           /\ \A x : InSeq(x, Append(q, m)) <=> InSeq(x, q) \/ x = m
           /\ Distinct(q) /\ ~InSeq(m, q) => Distinct(Append(q, m))
<1>1. Append(q, m) \in Seq(Msg)
    OBVIOUS
<1>2. /\ Len(q) \in Nat /\ DOMAIN q = 1..Len(q) /\ DOMAIN Append(q, m) = 1..(Len(q) + 1)
      /\ \A i \in 1..Len(q) : Append(q, m)[i] = q[i]
      /\ Append(q, m)[Len(q) + 1] = m
    OBVIOUS
<1> HIDE DEF Msg
<1>3. \A x : InSeq(x, Append(q, m)) <=> InSeq(x, q) \/ x = m
    BY <1>2 DEF InSeq
<1>4. ASSUME Distinct(q), ~InSeq(m, q) PROVE Distinct(Append(q, m))
    BY <1>2, <1>4 DEF InSeq, Distinct
<1> QED BY <1>1, <1>3, <1>4

\* The oldest are given up.
LEMMA YoungerMessages ==
    ASSUME NEW q \in Seq(Msg), NEW k \in Nat \ {0}
    PROVE  /\ SubSeq(q, k, Len(q)) \in Seq(Msg)
           /\ \A x : InSeq(x, SubSeq(q, k, Len(q))) => InSeq(x, q)
           /\ Distinct(q) => Distinct(SubSeq(q, k, Len(q)))
<1> DEFINE r == SubSeq(q, k, Len(q))
<1>1. /\ r \in Seq(Msg) /\ Len(q) \in Nat /\ DOMAIN q = 1..Len(q)
      /\ DOMAIN r = 1..(IF k <= Len(q) THEN Len(q) - k + 1 ELSE 0)
      /\ \A i \in DOMAIN r : r[i] = q[i + k - 1]
    OBVIOUS
<1> HIDE DEF r
<1>2. \A i \in DOMAIN r : i \in Nat /\ i + k - 1 \in DOMAIN q
    BY <1>1
<1>3. \A x : InSeq(x, r) => InSeq(x, q)
    BY <1>1, <1>2 DEF InSeq
<1>4. ASSUME Distinct(q) PROVE Distinct(r)
    BY <1>1, <1>2, <1>4 DEF Distinct
<1> QED BY <1>1, <1>3, <1>4 DEF r

\* The first is taken.
LEMMA FirstMessage ==
    ASSUME NEW q \in Seq(Msg), q # <<>>
    PROVE  /\ Tail(q) \in Seq(Msg) /\ Head(q) \in Msg
           /\ \A x : InSeq(x, q) <=> InSeq(x, Tail(q)) \/ x = Head(q)
           /\ Distinct(q) => Distinct(Tail(q)) /\ ~InSeq(Head(q), Tail(q))
<1>1. /\ Tail(q) \in Seq(Msg) /\ Head(q) \in Msg /\ Len(q) \in Nat \ {0} /\ DOMAIN q = 1..Len(q)
      /\ DOMAIN Tail(q) = 1..(Len(q) - 1) /\ \A i \in 1..(Len(q) - 1) : Tail(q)[i] = q[i + 1]
      /\ Head(q) = q[1]
    OBVIOUS
<1> HIDE DEF Msg
<1>2. \A i \in DOMAIN Tail(q) : i \in Nat /\ i + 1 \in DOMAIN q /\ Tail(q)[i] = q[i + 1] /\ i + 1 # 1
    BY <1>1
<1>3. ASSUME NEW i \in DOMAIN q, i # 1 PROVE i - 1 \in DOMAIN Tail(q) /\ Tail(q)[i - 1] = q[i]
    <2>1. i \in Nat /\ i - 1 \in 1..(Len(q) - 1) /\ (i - 1) + 1 = i
        BY <1>1, <1>3
    <2> QED BY <1>1, <2>1
<1>4. \A x : InSeq(x, q) <=> InSeq(x, Tail(q)) \/ x = Head(q)
    <2> TAKE x
    <2>1. ASSUME NEW i \in DOMAIN q, q[i] = x PROVE InSeq(x, Tail(q)) \/ x = Head(q)
        BY <1>1, <1>3, <2>1 DEF InSeq
    <2>2. ASSUME InSeq(x, Tail(q)) \/ x = Head(q) PROVE InSeq(x, q)
        <3>1. 1 \in DOMAIN q
            BY <1>1
        <3> QED BY <1>1, <1>2, <2>2, <3>1 DEF InSeq
    <2> QED BY <2>1, <2>2 DEF InSeq
<1>5. ASSUME Distinct(q) PROVE Distinct(Tail(q)) /\ ~InSeq(Head(q), Tail(q))
    BY <1>1, <1>2, <1>5 DEF Distinct, InSeq
<1> QED BY <1>1, <1>4, <1>5

\* None waits in an empty buffer.
LEMMA EmptyBuffer == <<>> \in Seq(Msg) /\ Distinct(<<>>) /\ \A x : ~InSeq(x, <<>>)
BY DEF Distinct, InSeq

\* bufferOffline: the message is in the buffer, and whoever is not any more is lost.
LEMMA PushedMessages ==
    ASSUME offline \in Seq(Msg), NEW m \in Msg, Distinct(offline), ~InSeq(m, offline)
    PROVE  /\ Pushed(m) \in Seq(Msg) /\ Distinct(Pushed(m)) /\ InSeq(m, Pushed(m))
           /\ \A x : InSeq(x, Pushed(m)) => InSeq(x, offline) \/ x = m
           /\ \A x \in Msg : InSeq(x, offline) => InSeq(x, Pushed(m)) \/ x \in Lost(Pushed(m))
<1>1. CASE Len(offline) >= OfflineMax
    <2> DEFINE q == SubSeq(offline, OfflineMax \div 2 + 1, Len(offline))
    <2>1. OfflineMax \div 2 + 1 \in Nat \ {0}
        BY UplinkAssumption
    <2>2. q \in Seq(Msg) /\ Distinct(q) /\ \A x : InSeq(x, q) => InSeq(x, offline)
        BY <2>1, YoungerMessages
    <2>3. Pushed(m) = Append(q, m)
        BY <1>1 DEF Pushed
    <2> HIDE DEF q
    <2> QED BY <2>2, <2>3, AppendedMessages DEF Lost
<1>2. CASE ~(Len(offline) >= OfflineMax)
    <2>1. Pushed(m) = Append(offline, m)
        BY <1>2 DEF Pushed
    <2> QED BY <2>1, AppendedMessages DEF Lost
<1> QED BY <1>1, <1>2

-----------------------------------------------------------------------------
(* The connection.                                                          *)

\* Start has connected, and nothing was sent.
LEMMA UplinkInit == Init => UplinkInv
<1> SUFFICES ASSUME Init PROVE UplinkInv
    OBVIOUS
<1> USE UplinkAssumption DEF Init
<1>1. LinkTypes
    BY DEF LinkTypes, LinkState, Reconnector, ReadLoopPc, ReconnectPc
<1>2. StateFlags
    BY DEF StateFlags
<1>3. OutageTypes
    BY DEF OutageTypes
<1>4. MessageTypes
    BY EmptyBuffer DEF MessageTypes
<1>5. LinkInv
    BY DEF LinkInv, Reconnector
<1>6. MessageInv
    BY EmptyBuffer DEF MessageInv, NoSilentLoss
<1> QED BY <1>1, <1>2, <1>3, <1>4, <1>5, <1>6 DEF UplinkInv, TypeOK

\* A socket is let go of with its connection: only one that is being dialled is open.
LEMMA LinkStep == ASSUME UplinkInv, [Next]_vars PROVE (LinkTypes /\ LinkInv)'
<1> USE UplinkAssumption DEF UplinkInv, TypeOK, LinkTypes, LinkInv, Goto, LinkState, Reconnector, ReadLoopPc, ReconnectPc, msgvars
<1>1. CASE Top
    BY <1>1 DEF Top
<1>2. CASE DialFails
    BY <1>2 DEF DialFails
<1>3. ASSUME NEW c \in Conn, Dial(c) PROVE (LinkTypes /\ LinkInv)'
    BY <1>3 DEF Dial
<1>4. CASE Welcome
    BY <1>4 DEF Welcome
<1>5. CASE FlushOne
    BY <1>5 DEF FlushOne, Written
<1>6. CASE FlushBack
    BY <1>6 DEF FlushBack
<1>7. CASE FlushFails
    BY <1>7 DEF FlushFails, WriteFailed
<1>8. CASE FlushEnd
    BY <1>8 DEF FlushEnd
<1>9. CASE Notify
    BY <1>9 DEF Notify, WriteFailed
<1>10. CASE Read
    BY <1>10 DEF Read
<1>11. CASE Frame
    BY <1>11 DEF Frame
<1>12. CASE ReadFails
    BY <1>12 DEF ReadFails
<1>13. CASE ReadConflict
    BY <1>13 DEF ReadConflict
<1>14. CASE ReadPermanent
    BY <1>14 DEF ReadPermanent
<1>15. ASSUME NEW r \in Reconnector, DropConn(r) PROVE (LinkTypes /\ LinkInv)'
    BY <1>15 DEF DropConn
<1>16. ASSUME NEW r \in Reconnector, ResetBudget(r) PROVE (LinkTypes /\ LinkInv)'
    BY <1>16 DEF ResetBudget
<1>17. ASSUME NEW b \in Beat, Suspended(b) PROVE (LinkTypes /\ LinkInv)'
    BY <1>17 DEF Suspended
<1>18. ASSUME NEW b \in Beat, BeatStart(b) PROVE (LinkTypes /\ LinkInv)'
    BY <1>18 DEF BeatStart
<1>19. ASSUME NEW b \in Beat, BeatOk(b) PROVE (LinkTypes /\ LinkInv)'
    BY <1>19 DEF BeatOk
<1>20. ASSUME NEW b \in Beat, BeatFails(b) PROVE (LinkTypes /\ LinkInv)'
    BY <1>20 DEF BeatFails
<1>21. ASSUME NEW m \in Msg, SendMessage(m) PROVE (LinkTypes /\ LinkInv)'
    BY <1>21 DEF SendMessage, Written, WriteFailed
<1>22. ASSUME NEW m \in Msg, BufferOffline(m) PROVE (LinkTypes /\ LinkInv)'
    BY <1>22 DEF BufferOffline
<1>23. ASSUME NEW c \in Conn, Break(c) PROVE (LinkTypes /\ LinkInv)'
    BY <1>23 DEF Break
<1>24. CASE BudgetRunsOut
    BY <1>24 DEF BudgetRunsOut
<1>25. CASE UNCHANGED vars
    BY <1>25 DEF vars
<1> QED BY <1>1, <1>2, <1>3, <1>4, <1>5, <1>6, <1>7, <1>8, <1>9, <1>10, <1>11, <1>12, <1>13, <1>14, <1>15, <1>16, <1>17, <1>18, <1>19, <1>20, <1>21, <1>22, <1>23, <1>24, <1>25
        DEF Next, ReadLoopStep, BeatStep, Reconnect, Reconnector

\* standby and slowRetry stay flags.
LEMMA FlagStep == ASSUME UplinkInv, [Next]_vars PROVE StateFlags'
<1> USE DEF UplinkInv, TypeOK, StateFlags
<1>1. CASE Top
    BY <1>1 DEF Top
<1>2. CASE Welcome
    BY <1>2 DEF Welcome
<1>3. CASE ReadConflict
    BY <1>3 DEF ReadConflict
<1>4. CASE UNCHANGED <<standby, slow>>
    BY <1>4
<1>5. Top \/ Welcome \/ ReadConflict \/ UNCHANGED <<standby, slow>>
    BY DEF Next, ReadLoopStep, BeatStep, Reconnect, vars, msgvars, DialFails, Dial, FlushOne, FlushBack, FlushEnd, Read, Frame, ReadFails,
           ReadPermanent, BeatStart, BeatOk, BeatFails, BufferOffline, Break, BudgetRunsOut,
           SendMessage, FlushFails, Notify, DropConn, ResetBudget, Suspended
<1> QED BY <1>1, <1>2, <1>3, <1>4, <1>5

\* What is remembered of the last disconnect.
LEMMA OutageStep == ASSUME UplinkInv, [Next]_vars PROVE OutageTypes'
<1> USE DEF UplinkInv, TypeOK, OutageTypes
<1>1. \A f, g \in BOOLEAN : [fresh |-> f, conflict |-> g] \in [fresh : BOOLEAN, conflict : BOOLEAN]
    OBVIOUS
<1>2. [outage EXCEPT !.fresh = TRUE] \in [fresh : BOOLEAN, conflict : BOOLEAN]
    OBVIOUS
<1>3. \/ outage' = outage \/ outage' = [outage EXCEPT !.fresh = TRUE]
      \/ outage' = [fresh |-> FALSE, conflict |-> FALSE]
      \/ outage' = [fresh |-> FALSE, conflict |-> TRUE]
      \/ outage' = [fresh |-> TRUE, conflict |-> FALSE]
    BY DEF Next, ReadLoopStep, BeatStep, Reconnect, vars, msgvars, DialFails, Dial, FlushOne, FlushBack, FlushEnd, Read, Frame, ReadFails,
           ReadPermanent, BeatStart, BeatOk, BeatFails, BufferOffline, Break, BudgetRunsOut,
           Top, Welcome, ReadConflict, SendMessage, FlushFails, Notify, DropConn, ResetBudget, Suspended
<1> QED BY <1>1, <1>2, <1>3

-----------------------------------------------------------------------------
(* The messages.                                                            *)

\* Most steps do not touch a message.
LEMMA MessagesUntouched == ASSUME MessageTypes, MessageInv, UNCHANGED msgvars PROVE (MessageTypes /\ MessageInv)'
BY DEF MessageTypes, MessageInv, NoSilentLoss, InSeq, Distinct, msgvars

\* A message is written, or its write failed, or it waits for the buffer.
LEMMA SendMessageHolds ==
    ASSUME MessageTypes, MessageInv, NEW m \in Msg, SendMessage(m) PROVE (MessageTypes /\ MessageInv)'
<1>1. /\ UNCHANGED <<offline, flushing, evicted, abandoned>>
      /\ st[m] = "new"
      /\ \/ sent' = [sent EXCEPT ![m] = @ + 1] /\ st' = [st EXCEPT ![m] = "returned"]
         \/ sent' = sent /\ st' = [st EXCEPT ![m] = "returned"]
         \/ sent' = sent /\ st' = [st EXCEPT ![m] = "holding"]
    BY DEF SendMessage
<1> HIDE DEF Msg
<1>2. MessageTypes'
    BY <1>1 DEF MessageTypes
<1>3. /\ \A x \in Msg : x # m => sent'[x] = sent[x] /\ st'[x] = st[x]
      /\ sent'[m] \in {0, 1} /\ (st'[m] = "holding" => sent'[m] = 0) /\ st'[m] \in {"returned", "holding"}
      /\ ~InSeq(m, offline) /\ ~InSeq(m, flushing)
    BY <1>1 DEF MessageTypes, MessageInv
<1>4. \A x : (InSeq(x, offline)' <=> InSeq(x, offline)) /\ (InSeq(x, flushing)' <=> InSeq(x, flushing))
    BY <1>1 DEF InSeq
<1>5. Distinct(offline)' /\ Distinct(flushing)'
    BY <1>1 DEF MessageInv, Distinct
<1>6. NoSilentLoss'
    BY <1>1, <1>3, <1>4 DEF MessageInv, NoSilentLoss
<1>7. \A x \in Msg : /\ sent'[x] <= 1
                     /\ st'[x] \in {"new", "holding"} => sent'[x] = 0
                     /\ InSeq(x, offline)' \/ InSeq(x, flushing)' => st'[x] = "kept" /\ sent'[x] = 0
                     /\ ~(InSeq(x, offline)' /\ InSeq(x, flushing)')
    BY <1>3, <1>4 DEF MessageInv
<1> QED BY <1>2, <1>5, <1>6, <1>7 DEF MessageInv

\* The buffer takes a message that waited for it.
LEMMA BufferOfflineHolds ==
    ASSUME MessageTypes, MessageInv, NEW m \in Msg, BufferOffline(m) PROVE (MessageTypes /\ MessageInv)'
<1>1. /\ UNCHANGED <<sent, flushing, abandoned>>
      /\ st[m] = "holding" /\ st' = [st EXCEPT ![m] = "kept"]
      /\ offline' = Pushed(m) /\ evicted' = evicted \cup Lost(offline')
    BY DEF BufferOffline
<1>2. ~InSeq(m, offline) /\ ~InSeq(m, flushing) /\ sent[m] = 0
    BY <1>1 DEF MessageInv
<1>3. /\ offline' \in Seq(Msg) /\ Distinct(offline') /\ InSeq(m, offline')
      /\ \A x : InSeq(x, offline') => InSeq(x, offline) \/ x = m
      /\ \A x \in Msg : InSeq(x, offline) => InSeq(x, offline') \/ x \in evicted'
    BY <1>1, <1>2, PushedMessages DEF MessageTypes, MessageInv
<1> HIDE DEF Msg
<1>4. MessageTypes'
    BY <1>1, <1>3 DEF MessageTypes, Lost
<1>5. /\ \A x \in Msg : x # m => st'[x] = st[x]
      /\ st'[m] = "kept"
    BY <1>1 DEF MessageTypes
<1>6. /\ \A x : InSeq(x, flushing)' <=> InSeq(x, flushing)
      /\ Distinct(flushing)'
    BY <1>1 DEF InSeq, MessageInv, Distinct
<1>7. NoSilentLoss'
    BY <1>1, <1>3, <1>5, <1>6 DEF MessageInv, NoSilentLoss
<1>8. \A x \in Msg : /\ sent'[x] <= 1
                     /\ st'[x] \in {"new", "holding"} => sent'[x] = 0
                     /\ InSeq(x, offline') \/ InSeq(x, flushing') => st'[x] = "kept" /\ sent'[x] = 0
                     /\ ~(InSeq(x, offline') /\ InSeq(x, flushing'))
    BY <1>1, <1>2, <1>3, <1>5, <1>6 DEF MessageInv
<1> QED BY <1>3, <1>4, <1>6, <1>7, <1>8 DEF MessageInv

\* The flush takes the buffer as a whole.
LEMMA WelcomeHolds ==
    ASSUME MessageTypes, MessageInv, flushing = <<>>, Welcome PROVE (MessageTypes /\ MessageInv)'
<1>1. UNCHANGED <<st, sent, evicted, abandoned>> /\ flushing' = offline /\ offline' = <<>>
    BY DEF Welcome
<1>2. \A x : ~InSeq(x, <<>>)
    BY EmptyBuffer
<1>3. MessageTypes'
    BY <1>1, EmptyBuffer DEF MessageTypes
<1>4. NoSilentLoss'
    BY <1>1, <1>2 DEF MessageInv, NoSilentLoss
<1> QED BY <1>1, <1>2, <1>3, <1>4, EmptyBuffer DEF MessageInv

\* What the flush has in hand waits nowhere else.
LEMMA FlushInHand ==
    ASSUME MessageTypes, MessageInv, flushing # <<>>
    PROVE  /\ Head(flushing) \in Msg /\ Tail(flushing) \in Seq(Msg) /\ Distinct(Tail(flushing))
           /\ st[Head(flushing)] = "kept" /\ sent[Head(flushing)] = 0
           /\ ~InSeq(Head(flushing), offline) /\ ~InSeq(Head(flushing), Tail(flushing))
           /\ \A x : InSeq(x, flushing) <=> InSeq(x, Tail(flushing)) \/ x = Head(flushing)
<1>1. /\ Head(flushing) \in Msg /\ Tail(flushing) \in Seq(Msg) /\ Distinct(Tail(flushing))
      /\ \A x : InSeq(x, flushing) <=> InSeq(x, Tail(flushing)) \/ x = Head(flushing)
      /\ ~InSeq(Head(flushing), Tail(flushing))
    BY FirstMessage DEF MessageTypes, MessageInv
<1> QED BY <1>1 DEF MessageInv

\* The flush writes its first message ...
LEMMA FlushOneHolds ==
    ASSUME MessageTypes, MessageInv, FlushOne PROVE (MessageTypes /\ MessageInv)'
<1> DEFINE h == Head(flushing)
<1>1. /\ UNCHANGED <<st, offline, evicted, abandoned>> /\ flushing # <<>> /\ flushing' = Tail(flushing)
      /\ sent' = [sent EXCEPT ![h] = @ + 1]
    BY DEF FlushOne
<1>2. /\ h \in Msg /\ flushing' \in Seq(Msg) /\ Distinct(flushing') /\ st[h] = "kept" /\ sent[h] = 0
      /\ ~InSeq(h, offline) /\ ~InSeq(h, flushing')
      /\ \A x : InSeq(x, flushing) <=> InSeq(x, flushing') \/ x = h
    BY <1>1, FlushInHand
<1> HIDE DEF h, Msg
<1>3. MessageTypes'
    BY <1>1, <1>2 DEF MessageTypes
<1>4. sent'[h] = 1 /\ \A x \in Msg : x # h => sent'[x] = sent[x]
    BY <1>1, <1>2 DEF MessageTypes
<1>5. NoSilentLoss'
    BY <1>1, <1>2, <1>4 DEF MessageInv, NoSilentLoss
<1> QED BY <1>1, <1>2, <1>3, <1>4, <1>5 DEF MessageInv

\* ... or gives it back to the buffer ...
LEMMA FlushBackHolds ==
    ASSUME MessageTypes, MessageInv, FlushBack PROVE (MessageTypes /\ MessageInv)'
<1> DEFINE h == Head(flushing)
<1>1. /\ UNCHANGED <<st, sent, abandoned>> /\ flushing # <<>> /\ flushing' = Tail(flushing)
      /\ \/ offline' = Pushed(h) /\ evicted' = evicted \cup Lost(offline')
         \/ offline' = offline /\ evicted' = evicted \cup {h}
    BY DEF FlushBack
<1>2. /\ h \in Msg /\ flushing' \in Seq(Msg) /\ Distinct(flushing') /\ st[h] = "kept" /\ sent[h] = 0
      /\ ~InSeq(h, offline) /\ ~InSeq(h, flushing')
      /\ \A x : InSeq(x, flushing) <=> InSeq(x, flushing') \/ x = h
    BY <1>1, FlushInHand
<1>3. /\ offline' \in Seq(Msg) /\ Distinct(offline') /\ (InSeq(h, offline') \/ h \in evicted')
      /\ \A x : InSeq(x, offline') => InSeq(x, offline) \/ x = h
      /\ \A x \in Msg : InSeq(x, offline) => InSeq(x, offline') \/ x \in evicted'
      /\ evicted \subseteq evicted' /\ evicted' \subseteq Msg
    <2> HIDE DEF h
    <2>1. CASE offline' = Pushed(h) /\ evicted' = evicted \cup Lost(offline')
        BY <1>2, <2>1, PushedMessages DEF MessageTypes, MessageInv, Lost
    <2>2. CASE offline' = offline /\ evicted' = evicted \cup {h}
        BY <1>2, <2>2 DEF MessageTypes, MessageInv
    <2> QED BY <1>1, <2>1, <2>2
<1> HIDE DEF h, Msg
<1>4. MessageTypes'
    BY <1>1, <1>2, <1>3 DEF MessageTypes
<1>5. NoSilentLoss'
    BY <1>1, <1>2, <1>3 DEF MessageInv, NoSilentLoss
<1>6. \A x \in Msg : /\ sent'[x] <= 1
                     /\ st'[x] \in {"new", "holding"} => sent'[x] = 0
                     /\ InSeq(x, offline') \/ InSeq(x, flushing') => st'[x] = "kept" /\ sent'[x] = 0
                     /\ ~(InSeq(x, offline') /\ InSeq(x, flushing'))
    BY <1>1, <1>2, <1>3 DEF MessageInv
<1> QED BY <1>2, <1>3, <1>4, <1>5, <1>6 DEF MessageInv

\* ... or fails with it, and the messages behind it are gone.
LEMMA FlushFailsHolds ==
    ASSUME MessageTypes, MessageInv, FlushFails PROVE (MessageTypes /\ MessageInv)'
<1> DEFINE h == Head(flushing)
<1>1. /\ UNCHANGED <<st, sent, evicted>> /\ flushing # <<>> /\ flushing' = <<>>
      /\ offline' = Append(offline, h)
      /\ abandoned' = abandoned \cup {m \in Msg : InSeq(m, Tail(flushing))}
    BY DEF FlushFails
<1>2. /\ h \in Msg /\ st[h] = "kept" /\ sent[h] = 0 /\ ~InSeq(h, offline)
      /\ \A x : InSeq(x, flushing) <=> InSeq(x, Tail(flushing)) \/ x = h
    BY <1>1, FlushInHand
<1> HIDE DEF h
<1>3. /\ offline' \in Seq(Msg) /\ Distinct(offline')
      /\ \A x : InSeq(x, offline') <=> InSeq(x, offline) \/ x = h
    BY <1>1, <1>2, AppendedMessages DEF MessageTypes, MessageInv
<1>4. flushing' \in Seq(Msg) /\ Distinct(flushing') /\ \A x : ~InSeq(x, flushing')
    BY <1>1, EmptyBuffer
<1> HIDE DEF Msg
<1>5. MessageTypes'
    BY <1>1, <1>3, <1>4 DEF MessageTypes
<1>6. NoSilentLoss'
    BY <1>1, <1>2, <1>3, <1>4 DEF MessageInv, NoSilentLoss
<1> QED BY <1>1, <1>2, <1>3, <1>4, <1>5, <1>6 DEF MessageInv

\* Whatever is done, a message is in one place.
LEMMA MessageStep == ASSUME UplinkInv, [Next]_vars PROVE (MessageTypes /\ MessageInv)'
<1> USE DEF UplinkInv, TypeOK
<1>1. CASE Welcome
    BY <1>1, WelcomeHolds DEF LinkInv, Welcome
<1>2. CASE FlushOne
    BY <1>2, FlushOneHolds
<1>3. CASE FlushBack
    BY <1>3, FlushBackHolds
<1>4. CASE FlushFails
    BY <1>4, FlushFailsHolds
<1>5. ASSUME NEW m \in Msg, SendMessage(m) PROVE (MessageTypes /\ MessageInv)'
    BY <1>5, SendMessageHolds
<1>6. ASSUME NEW m \in Msg, BufferOffline(m) PROVE (MessageTypes /\ MessageInv)'
    BY <1>6, BufferOfflineHolds
<1>7. CASE UNCHANGED msgvars
    BY <1>7, MessagesUntouched
<1>8. \/ Welcome \/ FlushOne \/ FlushBack \/ FlushFails \/ UNCHANGED msgvars
      \/ \E m \in Msg : SendMessage(m) \/ BufferOffline(m)
    BY DEF Next, ReadLoopStep, BeatStep, Reconnect, vars, Top, DialFails, Dial, FlushEnd, Notify, Read, Frame, ReadFails,
           ReadConflict, ReadPermanent, DropConn, ResetBudget, Suspended, BeatStart, BeatOk, BeatFails, Break, BudgetRunsOut
<1> QED BY <1>1, <1>2, <1>3, <1>4, <1>5, <1>6, <1>7, <1>8

-----------------------------------------------------------------------------

LEMMA UplinkAlways == Spec => []UplinkInv
<1>1. UplinkInv /\ [Next]_vars => UplinkInv'
    BY LinkStep, FlagStep, OutageStep, MessageStep DEF UplinkInv, TypeOK
<1> QED BY <1>1, UplinkInit, PTL DEF Spec

\* The connection, readLoop and the heartbeats, the buffer and the counters stay
\* within their types; in particular there are never more conflict retries than
\* maxInstanceConflictRetries (internal/bridge/bridge.go, instance_conflict.go).
THEOREM UplinkTypeCorrect == Spec => []TypeOK
<1>1. UplinkInv => TypeOK
    BY DEF UplinkInv
<1> QED BY <1>1, UplinkAlways, PTL

\* At most one socket lives, b.conn: readLoop, the heartbeats and the senders close
\* what they let go of, and readLoop dials only when there is none.
THEOREM OneConnectionHolds == Spec => []OneConnection
<1>1. UplinkInv => OneConnection
    BY DEF UplinkInv, TypeOK, LinkTypes, LinkInv, OneConnection
<1> QED BY <1>1, UplinkAlways, PTL

\* However often the connection is lost in the middle of a flush, no message is
\* written twice (sendMessage, bufferOffline, flushOffline).
THEOREM AtMostOnceHolds == Spec => []AtMostOnce
<1>1. UplinkInv => AtMostOnce
    BY DEF UplinkInv, MessageInv, AtMostOnce
<1> QED BY <1>1, UplinkAlways, PTL

\* A message that was buffered is written, or waits, or is accounted for: pushed out
\* by newer ones, too old, or behind the failed write of a flush.
THEOREM NoSilentLossHolds == Spec => []NoSilentLoss
<1>1. UplinkInv => NoSilentLoss
    BY DEF UplinkInv, MessageInv
<1> QED BY <1>1, UplinkAlways, PTL

=============================================================================
