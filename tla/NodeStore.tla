------------------------------ MODULE NodeStore -------------------------------
(***************************************************************************)
(* The content store of the node agent (node/store/store.go): objects are  *)
(* files named by their sha256, downloaded through a .part file that is    *)
(* renamed when the hash agrees; a tree of hard links to them becomes a    *)
(* bare git repository, or a plain worktree on a user's own machine.       *)
(*                                                                         *)
(* A file is an inode: several names may stand for one, and a descriptor   *)
(* goes on writing into its inode after the name was renamed or removed.   *)
(* An object has Length chunks; a chunk is right or wrong.  Materializes   *)
(* of different deployments run concurrently and share the store.          *)
(***************************************************************************)
EXTENDS Naturals, Sequences, FiniteSets

CONSTANTS
    Task,        \* deployments that materialize
    Sha,         \* the objects, numbered: a batch fetches them in order
    Inode,       \* numbered; a bound: a .part is created while one is free
    Wants,       \* Wants[t]: the objects of the manifest of t
    Extra,       \* Extra[t]: the objects at whose path a derived file is written
    Plain,       \* tasks that build a worktree, not a repository
    Local,       \* declare-only objects: files in the user's scratch directory
    Scratch,     \* Scratch[h]: the inode of the scratch file of h
    Length,      \* chunks of an object
    MaxTries,    \* attempts (3) of FetchMissing
    MaxAttempts, \* bound: materializes of one deployment
    MaxTrouble   \* bound: faults and edits, together

NoInode == 0

ASSUME NodeStoreAssumption ==
    /\ Sha \subseteq Nat \ {0} /\ Inode \subseteq Nat \ {0}
    /\ Wants \in [Task -> SUBSET Sha] /\ Extra \in [Task -> SUBSET Sha]
    /\ Local \subseteq Sha /\ Scratch \in [Local -> Inode] /\ Plain \subseteq Task
    /\ \A g, h \in Local : Scratch[g] = Scratch[h] => g = h
    /\ Length \in Nat \ {0} /\ MaxTries \in Nat \ {0}
    /\ MaxAttempts \in Nat /\ MaxTrouble \in Nat

VARIABLES
    data,      \* data[i]: the chunks of inode i, "ok" or "bad"
    object,    \* object[h]: the inode named objects/{sha}, or NoInode
    part,      \* part[h]: the inode named objects/{sha}.part, or NoInode
    stage,     \* stage[t]: where the materialize of t is
    todo,      \* todo[t]: the missing objects of this try still to download
    tries,
    fd,        \* fd[t]: the open .part of the download
    at,        \* at[t]: position in it
    sum,       \* sum[t]: what was hashed so far is the object's beginning
    tree,      \* tree[t]: the assembled tree: "none", "whole", "wrong"
    repo,      \* repo[t]: the repository or worktree: "none", "whole", "wrong"
    attempts,
    trouble,
    overlap,   \* ghost: objects of which two downloads were open at once
    torn,      \* ghost: objects whose complete .part survived a crash
    edited,    \* ghost: scratch files the user changed
    clean      \* ghost: tasks whose current attempt met no trouble

files == <<data, object, part>>
task  == <<stage, todo, tries, fd, at, sum, tree>>
ghosts == <<overlap, torn, edited, clean>>
storeVars == <<files, task, repo, attempts, trouble, ghosts>>

Whole(i) == data[i] = [k \in 1..Length |-> "ok"]

HasObject(h) == object[h] # NoInode

Current(t) == CHOOSE h \in todo[t] : \A g \in todo[t] : h <= g

Downloading == {t \in Task : fd[t] # NoInode}

Named(i) == \/ \E h \in Sha : i \in {object[h], part[h]}
            \/ \E h \in Local : i = Scratch[h]
            \/ \E t \in Task : fd[t] = i

Fresh == CHOOSE i \in Inode : ~Named(i)

Go(t, s) == stage' = [stage EXCEPT ![t] = s]

Spend == trouble < MaxTrouble /\ trouble' = trouble + 1

-----------------------------------------------------------------------------
(* FetchMissing.                                                            *)

\* importLocalObject: the scratch file is linked into the store if its hash
\* agrees; a declaration that does not fit the file fails the materialize.
ImportLocal(t) ==
    LET new == {h \in Wants[t] \cap Local : ~HasObject(h)}
        good == {h \in new : \A g \in new : g <= h => Whole(Scratch[g])}
    IN  /\ object' = [h \in Sha |-> IF h \in good THEN Scratch[h] ELSE object[h]]
        /\ Go(t, IF good = new THEN "scan" ELSE "failed")

Start(t) ==
    /\ stage[t] \in {"idle", "done", "failed"} /\ attempts[t] < MaxAttempts
    /\ attempts' = [attempts EXCEPT ![t] = attempts[t] + 1]
    /\ tries' = [tries EXCEPT ![t] = 0]
    /\ clean' = clean \cup {t}
    /\ ImportLocal(t)
    /\ UNCHANGED <<data, part, todo, fd, at, sum, tree, repo, trouble, overlap, torn, edited>>

Scan(t) ==
    /\ stage[t] = "scan"
    /\ todo' = [todo EXCEPT ![t] = {h \in Wants[t] : ~HasObject(h)}]
    /\ Go(t, IF todo'[t] = {} THEN "assemble" ELSE "open")
    /\ UNCHANGED <<files, tries, fd, at, sum, tree, repo, attempts, trouble, ghosts>>

Close(t) ==
    /\ fd' = [fd EXCEPT ![t] = NoInode] /\ at' = [at EXCEPT ![t] = 0]
    /\ sum' = [sum EXCEPT ![t] = TRUE]

\* Mutant: one try too many.
FailTryLate(t) ==
    /\ tries' = [tries EXCEPT ![t] = tries[t] + 1]
    /\ Go(t, IF tries[t] < MaxTries THEN "scan" ELSE "failed")
    /\ todo' = [todo EXCEPT ![t] = {}]
    /\ Close(t)

\* Any error of a batch ends the try: the next one starts from a new scan.
FailTry(t) ==
    /\ tries' = [tries EXCEPT ![t] = tries[t] + 1]
    /\ Go(t, IF tries[t] + 1 < MaxTries THEN "scan" ELSE "failed")
    /\ todo' = [todo EXCEPT ![t] = {}]
    /\ Close(t)

PresignFails(t) ==
    /\ stage[t] = "open" /\ Spend
    /\ clean' = clean \ {t}
    /\ FailTry(t)
    /\ UNCHANGED <<files, tree, repo, attempts, overlap, torn, edited>>

-----------------------------------------------------------------------------
(* downloadVerified.                                                        *)

\* The .part is opened or created, and what it holds already is hashed.
Open(t) ==
    LET h == Current(t)
        i == IF part[h] = NoInode THEN Fresh ELSE part[h]
        have == IF part[h] = NoInode THEN <<>> ELSE data[i]
        others == {u \in Downloading : fd[u] = i \/ Current(u) = h}
    IN  /\ stage[t] = "open"
        /\ part[h] = NoInode => \E free \in Inode : ~Named(free)
        /\ part' = [part EXCEPT ![h] = i]
        /\ data' = [data EXCEPT ![i] = have]
        /\ fd' = [fd EXCEPT ![t] = i] /\ at' = [at EXCEPT ![t] = Len(have)]
        /\ sum' = [sum EXCEPT ![t] = \A k \in 1..Len(have) : have[k] = "ok"]
        /\ overlap' = IF others = {} THEN overlap ELSE overlap \cup {h}
        /\ clean' = IF others = {} THEN clean ELSE clean \ ({t} \cup others)
        /\ Go(t, "request")
        /\ UNCHANGED <<object, todo, tries, tree, repo, attempts, trouble, torn, edited>>

\* 206, or 200 to a request without a range.
Answered(t) ==
    /\ stage[t] = "request" /\ at[t] < Length
    /\ Go(t, "stream")
    /\ UNCHANGED <<files, todo, tries, fd, at, sum, tree, repo, attempts, trouble, ghosts>>

\* 200 to a request with a range: the file and the hash start again.
RangeIgnored(t) ==
    /\ stage[t] = "request" /\ at[t] > 0 /\ Spend
    /\ data' = [data EXCEPT ![fd[t]] = <<>>]
    /\ at' = [at EXCEPT ![t] = 0] /\ sum' = [sum EXCEPT ![t] = TRUE]
    /\ clean' = clean \ {t}
    /\ Go(t, "stream")
    /\ UNCHANGED <<object, part, todo, tries, fd, tree, repo, attempts, overlap, torn, edited>>

\* 416: nothing is left after the resumed prefix.  The .part stays.
RangeRefused(t) ==
    /\ stage[t] = "request" /\ at[t] >= Length
    /\ FailTry(t)
    /\ UNCHANGED <<files, tree, repo, attempts, trouble, ghosts>>

\* A write at the descriptor's own position; a gap before it reads as zeros.
Chunk(t, c) ==
    LET old == data[fd[t]]
        p == at[t] + 1
        upTo == IF Len(old) < p THEN p ELSE Len(old)
    IN  /\ data' = [data EXCEPT ![fd[t]] =
                      [k \in 1..upTo |-> IF k = p THEN c ELSE IF k <= Len(old) THEN old[k] ELSE "bad"]]
        /\ at' = [at EXCEPT ![t] = p]
        /\ sum' = [sum EXCEPT ![t] = sum[t] /\ c = "ok"]
        /\ UNCHANGED <<object, part, stage, todo, tries, fd, tree, repo, attempts, overlap, torn, edited>>

Stream(t) ==
    /\ stage[t] = "stream" /\ at[t] < Length
    /\ \/ Chunk(t, "ok") /\ UNCHANGED <<trouble, clean>>
       \/ Chunk(t, "bad") /\ Spend /\ clean' = clean \ {t}

\* The transfer breaks: what arrived is kept for the next try.
Drop(t) ==
    /\ stage[t] \in {"request", "stream"} /\ at[t] < Length /\ Spend
    /\ clean' = clean \ {t}
    /\ FailTry(t)
    /\ UNCHANGED <<files, tree, repo, attempts, overlap, torn, edited>>

\* os.Rename moves whatever file is named .part by then.
Publish(t) ==
    LET h == Current(t)
    IN  IF part[h] = NoInode
          THEN FailTry(t) /\ UNCHANGED <<object, part>>
          ELSE /\ object' = [object EXCEPT ![h] = part[h]]
               /\ part' = [part EXCEPT ![h] = NoInode]
               /\ todo' = [todo EXCEPT ![t] = todo[t] \ {h}]
               /\ Go(t, IF todo'[t] = {} THEN "assemble" ELSE "open")
               /\ Close(t)
               /\ UNCHANGED tries

\* Mutant: the wrong content is kept as if it were progress.
DiscardKeeps(t) ==
    FailTry(t) /\ UNCHANGED <<object, part>>

Discard(t) ==
    /\ part' = [part EXCEPT ![Current(t)] = NoInode]
    /\ FailTry(t)
    /\ UNCHANGED object

Finish(t) ==
    /\ stage[t] = "stream" /\ at[t] = Length
    /\ IF sum[t] THEN Publish(t) ELSE Discard(t)
    /\ UNCHANGED <<data, tree, repo, attempts, trouble, ghosts>>

-----------------------------------------------------------------------------
(* BuildRepo, Worktree.                                                     *)

\* MaterializeCompose: the compose file is rewritten from its object, and the
\* result takes the object's path in the tree.
Derived(t) == Extra[t] \cap Wants[t]

\* assembleTree: hard links to the objects, then the derived files are written
\* at their paths, through the links.  The tree's content is committed.
Assemble(t) ==
    /\ stage[t] = "assemble"
    /\ data' = [i \in Inode |-> IF \E h \in Derived(t) : object[h] = i
                                  THEN [k \in 1..Length |-> "bad"] ELSE data[i]]
    /\ tree' = [tree EXCEPT ![t] = IF \A h \in Wants[t] : Whole(object[h]) THEN "whole" ELSE "wrong"]
    /\ Go(t, IF t \in Plain THEN "built" ELSE "clone")
    /\ UNCHANGED <<object, part, todo, tries, fd, at, sum, repo, attempts, trouble, ghosts>>

\* Mutant: the new repository takes its final name before the clone is done.
CloneInPlace(t) ==
    /\ stage[t] = "clone"
    /\ repo' = [repo EXCEPT ![t] = "wrong"]
    /\ Go(t, "built")
    /\ UNCHANGED <<files, todo, tries, fd, at, sum, tree, attempts, trouble, ghosts>>

\* The bare clone is made beside the repository.
Clone(t) ==
    /\ stage[t] = "clone"
    /\ Go(t, "built")
    /\ UNCHANGED <<files, todo, tries, fd, at, sum, tree, repo, attempts, trouble, ghosts>>

TakeDown(t) ==
    /\ stage[t] = "built"
    /\ repo' = [repo EXCEPT ![t] = "none"]
    /\ Go(t, "swap")
    /\ UNCHANGED <<files, todo, tries, fd, at, sum, tree, attempts, trouble, ghosts>>

SwapIn(t) ==
    /\ stage[t] = "swap"
    /\ repo' = [repo EXCEPT ![t] = tree[t]]
    /\ tree' = [tree EXCEPT ![t] = "none"]
    /\ Go(t, "done")
    /\ UNCHANGED <<files, todo, tries, fd, at, sum, attempts, trouble, ghosts>>

\* git or the disk fails while the tree or the repository is built.
BuildFails(t) ==
    /\ stage[t] \in {"assemble", "clone", "built", "swap"} /\ Spend
    /\ clean' = clean \ {t}
    /\ Go(t, "failed")
    /\ tree' = [tree EXCEPT ![t] = "none"]
    /\ UNCHANGED <<files, todo, tries, fd, at, sum, repo, attempts, overlap, torn, edited>>

RemoveTree(t) ==
    /\ stage[t] \in {"done", "failed", "idle"} /\ repo[t] # "none"
    /\ repo' = [repo EXCEPT ![t] = "none"]
    /\ UNCHANGED <<files, task, attempts, trouble, ghosts>>

-----------------------------------------------------------------------------

\* The agent dies: descriptors close, names and contents stay.
Crash ==
    /\ Spend /\ \E t \in Task : stage[t] \notin {"idle", "done", "failed"}
    /\ stage' = [t \in Task |-> IF stage[t] \in {"done", "failed"} THEN stage[t] ELSE "idle"]
    /\ todo' = [t \in Task |-> {}] /\ tries' = [t \in Task |-> 0]
    /\ fd' = [t \in Task |-> NoInode] /\ at' = [t \in Task |-> 0]
    /\ sum' = [t \in Task |-> TRUE] /\ tree' = [t \in Task |-> "none"]
    /\ clean' = {}
    /\ torn' = torn \cup {h \in Sha : part[h] # NoInode /\ Len(data[part[h]]) >= Length}
    /\ UNCHANGED <<files, repo, attempts, overlap, edited>>

\* The user's build writes its scratch file again, in place.
Edit(h) ==
    /\ Spend /\ h \in Local \ edited
    /\ data' = [data EXCEPT ![Scratch[h]] = [k \in 1..Length |-> "bad"]]
    /\ edited' = edited \cup {h}
    /\ UNCHANGED <<object, part, task, repo, attempts, overlap, torn, clean>>

StoreInit ==
    /\ data = [i \in Inode |-> IF \E h \in Local : Scratch[h] = i
                                 THEN [k \in 1..Length |-> "ok"] ELSE <<>>]
    /\ object = [h \in Sha |-> NoInode] /\ part = [h \in Sha |-> NoInode]
    /\ stage = [t \in Task |-> "idle"]
    /\ todo = [t \in Task |-> {}] /\ tries = [t \in Task |-> 0]
    /\ fd = [t \in Task |-> NoInode] /\ at = [t \in Task |-> 0] /\ sum = [t \in Task |-> TRUE]
    /\ tree = [t \in Task |-> "none"]
    /\ repo = [t \in Task |-> "none"] /\ attempts = [t \in Task |-> 0]
    /\ trouble = 0
    /\ overlap = {} /\ torn = {} /\ edited = {} /\ clean = {}

\* What a materialize does by itself.
Step(t) ==
    \/ Scan(t) \/ Open(t) \/ Answered(t) \/ RangeIgnored(t) \/ RangeRefused(t)
    \/ Stream(t) \/ Drop(t) \/ Finish(t) \/ PresignFails(t)
    \/ Assemble(t) \/ Clone(t) \/ TakeDown(t) \/ SwapIn(t) \/ BuildFails(t)

StoreNext ==
    \/ \E t \in Task : Start(t) \/ Step(t) \/ RemoveTree(t)
    \/ Crash
    \/ \E h \in Sha : Edit(h)

StoreSpec == StoreInit /\ [][StoreNext]_storeVars

-----------------------------------------------------------------------------
(* Properties.                                                              *)

\* Types, and what the steps rely on: an object is missing while it is
\* downloaded, a download has its file open at the position it wrote up to.
StoreTypeOK ==
    /\ data \in [Inode -> UNION {[1..n -> {"ok", "bad"}] : n \in 0..Length}]
    /\ object \in [Sha -> Inode \cup {NoInode}] /\ part \in [Sha -> Inode \cup {NoInode}]
    /\ stage \in [Task -> {"idle", "scan", "open", "request", "stream", "assemble", "clone",
                           "built", "swap", "done", "failed"}]
    /\ todo \in [Task -> SUBSET Sha] /\ tries \in [Task -> 0..MaxTries]
    /\ fd \in [Task -> Inode \cup {NoInode}] /\ at \in [Task -> 0..Length]
    /\ sum \in [Task -> BOOLEAN]
    /\ tree \in [Task -> {"none", "whole", "wrong"}] /\ repo \in [Task -> {"none", "whole", "wrong"}]
    /\ attempts \in [Task -> 0..MaxAttempts] /\ trouble \in 0..MaxTrouble
    /\ \A t \in Task : /\ (stage[t] \in {"open", "request", "stream"}) <=> (todo[t] # {})
                       /\ (stage[t] \in {"request", "stream"}) <=> (fd[t] # NoInode)

\* store.go:7: "content-addressed, sha-verified object store": what is named
\* by a sha has that content.
ObjectsAreVerified == \A h \in Sha : HasObject(h) => Whole(object[h])

\* Through broken transfers, resumed .part files, ignored ranges, wrong answers
\* and crashes, a file named by a sha has that content, unless two downloads of
\* it ran at once or the user wrote through its scratch link.
PublishedWhole ==
    \A h \in Sha \ (overlap \cup edited) : HasObject(h) => Whole(object[h])

\* A repository that git serves is absent or holds exactly the manifest's
\* content, from files that hold what they are named by; a half-built tree is
\* never reached by its name.
RepoIsWhole ==
    /\ PublishedWhole
    /\ \A t \in Task : repo[t] = "wrong" => Wants[t] \cap (overlap \cup edited) # {}

\* What earlier attempts and other deployments left on disk does not make a
\* materialize fail that met no fault itself.  Excused are a complete .part that
\* a crash left, for the range after it is refused for ever, and as many faults
\* as a materialize has tries: each wrong .part left behind costs one try.
CleanAttemptSucceeds ==
    \A t \in Task : stage[t] = "failed" /\ t \in clean =>
        Wants[t] \cap (torn \cup edited) # {} \/ trouble >= MaxTries

=============================================================================
