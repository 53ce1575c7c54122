---------------------------- MODULE PreviewBuilds -----------------------------
(***************************************************************************)
(* Static and packed previews of a mission (internal/preview): a task that    *)
(* ends well has its worktree built, a merge has the integration worktree     *)
(* built; the output is hashed into a manifest, kept in a cache on the        *)
(* machine that names blobs by their content, and uploaded.  A revive uploads *)
(* again from the cache, without a build.  Task builds of a mission take an    *)
(* in-flight slot, builds of a merge do not, so two merges in a row build in   *)
(* one directory at a time.                                                  *)
(***************************************************************************)
EXTENDS Naturals, FiniteSets

CONSTANTS
    Page,           \* files of a build's output
    MaxProducts,    \* bound: tasks that end and merges that succeed
    MaxRevives,     \* bound: revives the user asks for
    MaxBuildFaults  \* bound: failed builds, disk and network errors, crashes

ASSUME PreviewBuildsAssumption ==
    MaxProducts \in Nat /\ MaxRevives \in Nat /\ MaxBuildFaults \in Nat

Tree == {"task", "merge"}
Content == 0..MaxProducts
Unset == MaxProducts + 1
NoPack == [f \in Page |-> Unset]
Builder == 1..2
Reviver == 1..MaxRevives

VARIABLES
    kind,        \* what the tree is: "static", "runtime", or "" (no preview)
    product,     \* product[d]: version of the source in worktree d
    output,      \* output[d][f]: version of the built file on disk
    inFlight,    \* the mission's slot
    build,       \* build[b]: a preview.RunAndUpload
    revive,      \* revive[r]: a preview.RunRevive
    blob,        \* the cache: name <<f, v>> |-> the bytes under it, a version or "torn"
    manifest,    \* the mission's cached manifest, or NoPack
    hosted,      \* the platform: names <<f, v>> stored
    page,        \* the pack the platform shows, or NoPack
    spoilt,      \* ghost: names whose bytes were cut short or rebuilt before they were copied
    buildFaults, asked

buildVars == <<kind, product, output, inFlight, build, revive, blob, manifest, hosted, page, spoilt, buildFaults, asked>>

NoBuild == [at |-> "none", dir |-> "task", todo |-> {}, pack |-> NoPack]
BuildFault == buildFaults < MaxBuildFaults /\ buildFaults' = buildFaults + 1
Locked == \E b \in Builder : build[b].at = "store"      \* Cache.mu
Name(pack, f) == <<f, pack[f]>>
Products == product["task"] + product["merge"]

-----------------------------------------------------------------------------
(* What starts a build.                                                     *)

StartIn(d, v) ==
    \E b \in Builder :
      /\ build[b].at = "none"
      /\ product' = [product EXCEPT ![d] = v]
      /\ build' = [build EXCEPT ![b] = [NoBuild EXCEPT !.at = "build", !.dir = d, !.todo = Page]]

\* A task ends with exit code 0 in its worktree; a build in flight skips it.
MaybeBuildPreviewFromWorktree ==
    /\ Products < MaxProducts
    /\ IF inFlight THEN /\ product' = [product EXCEPT !["task"] = Products + 1]
                        /\ UNCHANGED <<build, inFlight>>
       ELSE StartIn("task", Products + 1) /\ inFlight' = TRUE
    /\ UNCHANGED <<kind, output, revive, blob, manifest, hosted, page, spoilt, buildFaults, asked>>

\* A merge succeeds.
MaybeBuildPreview ==
    /\ Products < MaxProducts /\ StartIn("merge", Products + 1)
    /\ UNCHANGED <<kind, output, inFlight, revive, blob, manifest, hosted, page, spoilt, buildFaults, asked>>

-----------------------------------------------------------------------------
(* One build.                                                               *)

Leave(b) ==
    /\ build' = [build EXCEPT ![b] = NoBuild]
    /\ inFlight' = IF build[b].dir = "task" THEN FALSE ELSE inFlight

\* RunBuild writes the output, file by file.  A static tree without a build
\* script is served as it is, which is the same in one step.
RunBuild(b) ==
    /\ build[b].at = "build"
    /\ \E f \in build[b].todo :
         /\ output' = [output EXCEPT ![build[b].dir][f] = product[build[b].dir]]
         /\ build' = [build EXCEPT ![b].todo = @ \ {f}, ![b].at = IF build[b].todo = {f} THEN "kind" ELSE @]
    /\ UNCHANGED <<kind, product, inFlight, revive, blob, manifest, hosted, page, spoilt, buildFaults, asked>>

\* It fails, runs into its time limit, or has an output without index.html.
PreviewBuildFails(b) ==
    /\ build[b].at \in {"build", "kind"} /\ BuildFault /\ Leave(b)
    /\ UNCHANGED <<kind, product, output, revive, blob, manifest, hosted, page, spoilt, asked>>

\* DetectArtifactKind, and the gate: a server tree has a preview of a merge
\* only.  PackNextStandalone copies into the tree and writes runtime.json.
DetectAndReport(b) ==
    /\ build[b].at = "kind"
    /\ IF kind = "" \/ (kind = "runtime" /\ build[b].dir # "merge")
         THEN Leave(b)
         ELSE /\ build' = [build EXCEPT ![b].at = "hash", ![b].todo = Page] /\ UNCHANGED inFlight
    /\ UNCHANGED <<kind, product, output, revive, blob, manifest, hosted, page, spoilt, buildFaults, asked>>

\* BuildManifest hashes a file.
HashFile(b) ==
    /\ build[b].at = "hash"
    /\ \E f \in build[b].todo :
         build' = [build EXCEPT ![b].pack[f] = output[build[b].dir][f], ![b].todo = @ \ {f},
                                ![b].at = IF build[b].todo = {f} THEN "cache" ELSE @]
    /\ UNCHANGED <<kind, product, output, inFlight, revive, blob, manifest, hosted, page, spoilt, buildFaults, asked>>

\* Cache.Store takes the lock.
StoreStarts(b) ==
    /\ build[b].at = "cache" /\ ~Locked
    /\ build' = [build EXCEPT ![b].at = "store", ![b].todo = Page]
    /\ UNCHANGED <<kind, product, output, inFlight, revive, blob, manifest, hosted, page, spoilt, buildFaults, asked>>

\* A blob that is there by name is not written again.
StoreBlob(b) ==
    /\ build[b].at = "store"
    /\ \E f \in build[b].todo :
         LET name == Name(build[b].pack, f)   bytes == output[build[b].dir][f]
         IN  /\ build' = [build EXCEPT ![b].todo = @ \ {f}]
             /\ IF name \in DOMAIN blob THEN UNCHANGED <<blob, spoilt>>
                ELSE /\ blob' = [o \in DOMAIN blob \cup {name} |-> IF o = name THEN bytes ELSE blob[o]]
                     /\ spoilt' = IF bytes = name[2] THEN spoilt ELSE spoilt \cup {name}
    /\ UNCHANGED <<kind, product, output, inFlight, revive, manifest, hosted, page, buildFaults, asked>>

\* What is left of a blob whose write fails or is interrupted.
Torn(b) ==
    \/ UNCHANGED <<blob, spoilt>>
    \/ /\ build[b].at = "store"
       /\ \E f \in build[b].todo :
            LET name == Name(build[b].pack, f)
            IN  /\ name \notin DOMAIN blob
                /\ blob' = [o \in DOMAIN blob \cup {name} |-> IF o = name THEN Unset ELSE blob[o]]
                /\ spoilt' = spoilt \cup {name}

\* An error of the cache does not stop the upload, and leaves the manifest.
StoreFails(b) ==
    /\ build[b].at = "store" /\ BuildFault /\ Torn(b)
    /\ build' = [build EXCEPT ![b].at = "declare"]
    /\ UNCHANGED <<kind, product, output, inFlight, revive, manifest, hosted, page, asked>>

\* Mutant: the manifest does not wait for the blobs.
ManifestFirst(b) ==
    /\ build[b].at = "store" /\ manifest' = build[b].pack
    /\ build' = [build EXCEPT ![b].at = IF build[b].todo = {} THEN "declare" ELSE @]
    /\ UNCHANGED <<kind, product, output, inFlight, revive, blob, hosted, page, spoilt, buildFaults, asked>>

\* Store ends with the manifest, which may be cut short like a blob.
StoreManifest(b) ==
    /\ build[b].at = "store" /\ build[b].todo = {}
    /\ \/ manifest' = build[b].pack /\ UNCHANGED buildFaults
       \/ BuildFault /\ manifest' = NoPack
    /\ build' = [build EXCEPT ![b].at = "declare"]
    /\ UNCHANGED <<kind, product, output, inFlight, revive, blob, hosted, page, spoilt, asked>>

\* Upload: declare, put what the platform does not have, complete.  The first
\* error ends it.
DeclarePreview(b) ==
    /\ build[b].at = "declare"
    /\ build' = [build EXCEPT ![b].at = "put", ![b].todo = {f \in Page : Name(build[b].pack, f) \notin hosted}]
    /\ UNCHANGED <<kind, product, output, inFlight, revive, blob, manifest, hosted, page, spoilt, buildFaults, asked>>

PutPage(b) ==
    /\ build[b].at = "put"
    /\ \E f \in build[b].todo :
         /\ hosted' = hosted \cup {Name(build[b].pack, f)}
         /\ build' = [build EXCEPT ![b].todo = @ \ {f}]
    /\ UNCHANGED <<kind, product, output, inFlight, revive, blob, manifest, page, spoilt, buildFaults, asked>>

CompletePreview(b) ==
    /\ build[b].at = "put" /\ build[b].todo = {} /\ page' = build[b].pack /\ Leave(b)
    /\ UNCHANGED <<kind, product, output, revive, blob, manifest, hosted, spoilt, buildFaults, asked>>

UploadFails(b) ==
    /\ build[b].at \in {"declare", "put"} /\ BuildFault /\ Leave(b)
    /\ UNCHANGED <<kind, product, output, revive, blob, manifest, hosted, page, spoilt, asked>>

-----------------------------------------------------------------------------
(* A revive, and a restart.                                                 *)

\* pollPreviewRevives starts one for every offer, also one that is offered again.
PollPreviewRevives ==
    /\ asked < MaxRevives /\ asked' = asked + 1
    /\ revive' = [revive EXCEPT ![asked'].at = "open"]
    /\ UNCHANGED <<kind, product, output, inFlight, build, blob, manifest, hosted, page, spoilt, buildFaults>>

\* RunRevive: the manifest, if one is cached and can be read, is declared.
RunRevive(r) ==
    /\ revive[r].at = "open" /\ ~Locked
    /\ revive' = IF manifest = NoPack THEN [revive EXCEPT ![r] = NoBuild]
                 ELSE [revive EXCEPT ![r].at = "put", ![r].pack = manifest,
                                     ![r].todo = {f \in Page : Name(manifest, f) \notin hosted}]
    /\ UNCHANGED <<kind, product, output, inFlight, build, blob, manifest, hosted, page, spoilt, buildFaults, asked>>

\* A blob that is not there ends it.
RevivePage(r) ==
    /\ revive[r].at = "put" /\ ~Locked
    /\ \E f \in revive[r].todo :
         IF Name(revive[r].pack, f) \in DOMAIN blob
         THEN /\ hosted' = hosted \cup {Name(revive[r].pack, f)}
              /\ revive' = [revive EXCEPT ![r].todo = @ \ {f}]
         ELSE revive' = [revive EXCEPT ![r] = NoBuild] /\ UNCHANGED hosted
    /\ UNCHANGED <<kind, product, output, inFlight, build, blob, manifest, page, spoilt, buildFaults, asked>>

ReviveEnds(r) ==
    /\ revive[r].at = "put"
    /\ \/ revive[r].todo = {} /\ page' = revive[r].pack /\ UNCHANGED buildFaults
       \/ BuildFault /\ UNCHANGED page
    /\ revive' = [revive EXCEPT ![r] = NoBuild]
    /\ UNCHANGED <<kind, product, output, inFlight, build, blob, manifest, hosted, spoilt, asked>>

BuildsCrash ==
    /\ BuildFault
    /\ UNCHANGED <<blob, spoilt>> \/ \E b \in Builder : Torn(b)
    /\ build' = [b \in Builder |-> NoBuild] /\ revive' = [r \in Reviver |-> NoBuild] /\ inFlight' = FALSE
    /\ UNCHANGED <<kind, product, output, manifest, hosted, page, asked>>

-----------------------------------------------------------------------------

BuildInit ==
    /\ kind \in {"static", "runtime", ""}
    /\ product = [d \in Tree |-> 0] /\ output = [d \in Tree |-> NoPack] /\ inFlight = FALSE
    /\ build = [b \in Builder |-> NoBuild] /\ revive = [r \in Reviver |-> NoBuild]
    /\ blob = [o \in {} |-> 0] /\ manifest = NoPack /\ hosted = {} /\ page = NoPack
    /\ spoilt = {} /\ buildFaults = 0 /\ asked = 0

BuildNext ==
    \/ MaybeBuildPreviewFromWorktree \/ MaybeBuildPreview \/ PollPreviewRevives \/ BuildsCrash
    \/ \E b \in Builder :
         \/ RunBuild(b) \/ PreviewBuildFails(b) \/ DetectAndReport(b) \/ HashFile(b) \/ StoreStarts(b)
         \/ StoreBlob(b) \/ StoreFails(b) \/ StoreManifest(b) \/ DeclarePreview(b) \/ PutPage(b)
         \/ CompletePreview(b) \/ UploadFails(b)
    \/ \E r \in Reviver : RunRevive(r) \/ RevivePage(r) \/ ReviveEnds(r)

BuildSpec == BuildInit /\ [][BuildNext]_buildVars

-----------------------------------------------------------------------------
(* Properties.                                                              *)

BuildTypeOK ==
    /\ product \in [Tree -> Content] /\ output \in [Tree -> [Page -> Content \cup {Unset}]]
    /\ DOMAIN blob \subseteq Page \X Content /\ hosted \subseteq Page \X Content
    /\ manifest \in [Page -> Content \cup {Unset}]
    /\ \A b \in Builder : build[b].todo \subseteq Page /\ build[b].dir \in Tree

\* What a revive has declared it can serve: every file of the manifest it took
\* is in the cache under its name, with its bytes, whatever builds of the task
\* and of merges store meanwhile, and after a failed store or a crash.
\* Excused: the bytes of a blob whose write was cut short, or whose file a
\* second build of a merge rewrote between the hash and the copy.  Such a blob
\* is never written again.
ReviveCanServe ==
    \A pack \in {revive[r].pack : r \in Reviver} \cup {manifest} :
      pack # NoPack =>
        \A f \in Page : /\ Name(pack, f) \in DOMAIN blob
                        /\ Name(pack, f) \in spoilt \/ blob[Name(pack, f)] = pack[f]

=============================================================================
