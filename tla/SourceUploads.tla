---------------------------- MODULE SourceUploads -----------------------------
(***************************************************************************)
(* How a tree of the user's leaves the machine (internal/deploysource): a    *)
(* deployment or a session preview the user asked for is found by a poll     *)
(* loop of the bridge, packed, declared to the platform, uploaded by a pool  *)
(* of workers to an object store that names objects by their content, and    *)
(* completed.  Nothing is retried: the platform goes on offering the request. *)
(*                                                                         *)
(* The tiers differ in what they pack: "source" and "chunked" (a large tree, *)
(* declared in parts) the tree of the project, "session" the directory of a  *)
(* session, which has a snapshot number the user can supersede, "image" and  *)
(* "local" the images built from the tree into a scratch directory, of which *)
(* "local" uploads the compose file alone.                                 *)
(***************************************************************************)
EXTENDS Naturals, FiniteSets

CONSTANTS
    File,         \* files of the project; one image each for the image tiers
    Compose,      \* the compose file among them
    PartOf,       \* PartOf[f]: the part of a chunked declare that has the file
    Tier,         \* tiers considered
    Hand,         \* workers of the upload pool
    MaxEdits,     \* bound: edits of the project
    MaxClicks,    \* bound: times the user asks for a session preview
    MaxFailures   \* bound: failed or unanswered requests, and crashes

ASSUME SourceUploadsAssumption ==
    /\ Tier \subseteq {"source", "chunked", "image", "local", "session"}
    /\ Compose \in File /\ "idle" \notin File /\ "gone" \notin File
    /\ IsFiniteSet(File) /\ \E n \in 1..Cardinality(File) : {PartOf[f] : f \in File} = 1..n
    /\ MaxEdits \in Nat /\ MaxClicks \in Nat /\ MaxFailures \in Nat

Version == 0..MaxEdits
None == MaxEdits + 1
Parts == {PartOf[f] : f \in File}
Job == 1..2

VARIABLES
    tier,      \* the tier of the request
    project,   \* project[f]: version of the file on disk
    scratch,   \* scratch[f]: the exported image, for the image tiers
    request,   \* the platform's row: its state, its snapshot, what was declared
    stored,    \* the object store: <<f, v, w>>: under the name of version v of f are the bytes of w
    offered,   \* the snapshot in the answer of the last poll, or 0
    claimed,   \* the request's in-flight slot
    job,       \* job[j]: an upload
    edits, failures

uploadVars == <<tier, project, scratch, request, stored, offered, claimed, job, edits, failures>>

NoJob == [at |-> "none", snapshot |-> 0, pack |-> [f \in File |-> None], part |-> 0,
          todo |-> {}, hands |-> [h \in Hand |-> "idle"], bytes |-> [h \in Hand |-> 0], failed |-> FALSE]

Image == tier \in {"image", "local"}
LastPart == IF tier = "chunked" THEN Cardinality(Parts) ELSE 1
InPart(f, n) == tier = "chunked" => PartOf[f] = n
StoredAs(f, v) == \E w \in Version : <<f, v, w>> \in stored
Trouble == failures < MaxFailures /\ failures' = failures + 1
Stale(j) == tier = "session" /\ job[j].snapshot # request.snapshot
Ends(j) == job' = [job EXCEPT ![j] = NoJob] /\ claimed' = FALSE

-----------------------------------------------------------------------------
(* The user and the platform.                                               *)

\* A click on "preview", also while the last one is being packed.
UserAsksAgain ==
    /\ tier = "session" /\ request.snapshot < MaxClicks
    /\ request' = [state |-> "pending", snapshot |-> request.snapshot + 1, declared |-> NoJob.pack]
    /\ UNCHANGED <<tier, project, scratch, stored, offered, claimed, job, edits, failures>>

\* An edit of a file, by the user or an agent.
TreeChanges(f) ==
    /\ edits < MaxEdits /\ edits' = edits + 1
    /\ project' = [project EXCEPT ![f] = edits']
    /\ UNCHANGED <<tier, scratch, request, stored, offered, claimed, job, failures>>

\* The hosting node takes a completed deployment.
NodeTakes ==
    /\ request.state = "ready" /\ request' = [request EXCEPT !.state = "taken"]
    /\ UNCHANGED <<tier, project, scratch, stored, offered, claimed, job, edits, failures>>

-----------------------------------------------------------------------------
(* The poll loop.                                                           *)

\* GetPendingHostedDeploys, GetPendingSessionPreviews: a deployment is offered
\* until a node has taken it.
PollPending ==
    /\ offered = 0 /\ request.state \in {"pending", "ready"}
    /\ offered' = request.snapshot
    /\ UNCHANGED <<tier, project, scratch, request, stored, claimed, job, edits, failures>>

\* Mutant: an upload is started for every offer.
StartUnclaimed ==
    /\ offered # 0 /\ offered' = 0
    /\ \E j \in Job :
         /\ job[j].at = "none"
         /\ job' = [job EXCEPT ![j] = [NoJob EXCEPT !.at = "pack", !.snapshot = offered]]
    /\ UNCHANGED <<tier, project, scratch, request, stored, claimed, edits, failures>>

\* claimDeploySource, claimSessionPreview: one upload of a request at a time.
StartUpload ==
    /\ offered # 0 /\ offered' = 0
    /\ IF claimed THEN UNCHANGED <<claimed, job>>
       ELSE /\ claimed' = TRUE
            /\ \E j \in Job :
                 /\ job[j].at = "none"
                 /\ job' = [job EXCEPT ![j] = [NoJob EXCEPT !.at = "pack", !.snapshot = offered]]
    /\ UNCHANGED <<tier, project, scratch, request, stored, edits, failures>>

-----------------------------------------------------------------------------
(* One upload.                                                              *)

\* packPaths hashes a file; buildAndSave builds an image, saves it over the one
\* that is there and hashes that.
PackNext(j) ==
    /\ job[j].at = "pack"
    /\ \E f \in File :
         /\ job[j].pack[f] = None
         /\ job' = [job EXCEPT ![j].pack[f] = project[f]]
         /\ scratch' = IF Image THEN [scratch EXCEPT ![f] = project[f]] ELSE scratch
    /\ UNCHANGED <<tier, project, request, stored, offered, claimed, edits, failures>>

\* A tree that is too large, an image that does not build: the upload is over,
\* and a session preview is failed, unless it was superseded.
PackFails(j) ==
    /\ job[j].at = "pack" /\ Trouble /\ Ends(j)
    /\ request' = IF tier = "session" /\ ~Stale(j) THEN [request EXCEPT !.state = "failed"] ELSE request
    /\ UNCHANGED <<tier, project, scratch, stored, offered, edits>>

PackEnds(j) ==
    /\ job[j].at = "pack" /\ \A f \in File : job[j].pack[f] # None
    /\ job' = [job EXCEPT ![j].at = "declare", ![j].part = 1]
    /\ UNCHANGED <<tier, project, scratch, request, stored, offered, claimed, edits, failures>>

\* The declare of the pack, or of its next part: the answer names the objects
\* that are not there yet.  The first part of a chunked declare begins anew.
Declare(j) ==
    /\ job[j].at = "declare" /\ ~Stale(j)
    /\ LET part == {f \in File : InPart(f, job[j].part)}
       IN  /\ request' = [request EXCEPT !.declared = [f \in File |-> IF f \in part THEN job[j].pack[f]
                                                             ELSE IF job[j].part = 1 THEN None ELSE @[f]]]
           /\ job' = [job EXCEPT ![j].at = "upload",
                                 ![j].todo = {f \in part : ~StoredAs(f, job[j].pack[f]) /\ (tier = "local" => f = Compose)}]
    /\ UNCHANGED <<tier, project, scratch, stored, offered, claimed, edits, failures>>

\* An error, or the snapshot is superseded: the upload is dropped.
DeclareFails(j) ==
    /\ job[j].at = "declare" /\ Ends(j)
    /\ IF Stale(j) THEN UNCHANGED failures ELSE Trouble
    /\ UNCHANGED <<tier, project, scratch, request, stored, offered, edits>>

\* uploadAll: a worker takes a file and reads it; RunSourceUpload does not
\* upload a file that has changed since it was packed.  A worker that fails is
\* gone, and the feeder stops, though not at once.
ReadFile(j, h) ==
    /\ job[j].at = "upload" /\ job[j].hands[h] = "idle"
    /\ \E f \in job[j].todo :
         LET bytes == IF Image THEN scratch[f] ELSE project[f]
         IN  job' = IF tier \in {"source", "chunked"} /\ bytes # job[j].pack[f]
                    THEN [job EXCEPT ![j].todo = @ \ {f}, ![j].hands[h] = "gone", ![j].failed = TRUE]
                    ELSE [job EXCEPT ![j].todo = @ \ {f}, ![j].hands[h] = f, ![j].bytes[h] = bytes]
    /\ UNCHANGED <<tier, project, scratch, request, stored, offered, claimed, edits, failures>>

\* The PUT to the object's name.
Put(f, v, w) == stored' = {o \in stored : o[1] # f \/ o[2] # v} \cup {<<f, v, w>>}

PutFile(j, h) ==
    /\ job[j].at = "upload" /\ job[j].hands[h] \in File
    /\ LET f == job[j].hands[h]
       IN  \/ /\ Put(f, job[j].pack[f], job[j].bytes[h])
              /\ job' = [job EXCEPT ![j].hands[h] = "idle", ![j].bytes[h] = 0]
              /\ UNCHANGED failures
           \/ /\ Trouble                                    \* it may have landed all the same
              /\ (UNCHANGED stored \/ Put(f, job[j].pack[f], job[j].bytes[h]))
              /\ job' = [job EXCEPT ![j].hands[h] = "gone", ![j].bytes[h] = 0, ![j].failed = TRUE]
    /\ UNCHANGED <<tier, project, scratch, request, offered, claimed, edits>>

\* The workers are done: with an error the upload is over, else the next part
\* is declared, or the whole is completed.
UploadsEnd(j) ==
    /\ job[j].at = "upload" /\ \A h \in Hand : job[j].hands[h] \notin File
    /\ IF job[j].failed THEN Ends(j)
       ELSE /\ job[j].todo = {} /\ UNCHANGED claimed
            /\ IF job[j].part < LastPart
                 THEN job' = [job EXCEPT ![j].at = "declare", ![j].part = @ + 1]
                 ELSE job' = [job EXCEPT ![j].at = "complete"]
    /\ UNCHANGED <<tier, project, scratch, request, stored, offered, edits, failures>>

\* complete: accepted, refused, superseded, or accepted without an answer.
Complete(j) ==
    /\ job[j].at = "complete" /\ Ends(j)
    /\ \/ /\ ~Stale(j) /\ failures' \in {failures, failures + 1} /\ failures' <= MaxFailures
          /\ request' = [request EXCEPT !.state = IF tier = "session" THEN "done" ELSE IF @ = "taken" THEN @ ELSE "ready"]
       \/ Stale(j) /\ UNCHANGED <<request, failures>>
       \/ Trouble /\ UNCHANGED request
    /\ UNCHANGED <<tier, project, scratch, stored, offered, edits>>

\* The bridge is restarted: its uploads are gone, its exports are not.
UploadsCrash ==
    /\ Trouble
    /\ job' = [j \in Job |-> NoJob] /\ claimed' = FALSE /\ offered' = 0
    /\ UNCHANGED <<tier, project, scratch, request, stored, edits>>

-----------------------------------------------------------------------------

UploadInit ==
    /\ tier \in Tier
    /\ project = [f \in File |-> 0] /\ scratch = [f \in File |-> None]
    /\ request = [state |-> "pending", snapshot |-> 1, declared |-> NoJob.pack]
    /\ stored = {} /\ offered = 0 /\ claimed = FALSE
    /\ job = [j \in Job |-> NoJob] /\ edits = 0 /\ failures = 0

UploadNext ==
    \/ UserAsksAgain \/ NodeTakes \/ PollPending \/ StartUpload \/ UploadsCrash
    \/ \E f \in File : TreeChanges(f)
    \/ \E j \in Job :
         \/ PackNext(j) \/ PackFails(j) \/ PackEnds(j) \/ Declare(j) \/ DeclareFails(j)
         \/ UploadsEnd(j) \/ Complete(j)
         \/ \E h \in Hand : ReadFile(j, h) \/ PutFile(j, h)

UploadSpec == UploadInit /\ [][UploadNext]_uploadVars

-----------------------------------------------------------------------------
(* Properties.                                                              *)

UploadTypeOK ==
    /\ project \in [File -> Version] /\ scratch \in [File -> Version \cup {None}]
    /\ request.state \in {"pending", "ready", "taken", "done", "failed"}
    /\ request.declared \in [File -> Version \cup {None}]
    /\ stored \subseteq File \X Version \X Version
    /\ \A j \in Job :
         /\ job[j].at \in {"none", "pack", "declare", "upload", "complete"}
         /\ job[j].todo \subseteq File /\ job[j].hands \in [Hand -> File \cup {"idle", "gone"}]

\* What the platform holds under the name of a content is that content, though
\* the user goes on editing and images are built again over the exports that
\* are being uploaded.  A wrong object would stay: a declare does not ask for
\* what is there.  Excused: a session's directory, which is uploaded as it is
\* when it is read.
ObjectsAreNamed == tier # "session" => \A o \in stored : o[2] = o[3]

\* An upload is completed when every file of one and the same pack is declared
\* and, but for the images of the local tier, stored: through parts, retries,
\* crashes, failing workers and offers that come while it runs.  Excused: a
\* snapshot the user has superseded.
CompleteIsEarned ==
    \A j \in Job :
      job[j].at = "complete" /\ ~Stale(j)
        => /\ request.declared = job[j].pack
           /\ \A f \in File : (tier = "local" /\ f # Compose) \/ StoredAs(f, job[j].pack[f])

\* What the platform is given is what it is told.
UploadsAreTrue == ObjectsAreNamed /\ CompleteIsEarned

=============================================================================
