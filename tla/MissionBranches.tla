---------------------------- MODULE MissionBranches ----------------------------
(***************************************************************************)
(* The git side of a mission (internal/workflows, and the handlers of      *)
(* internal/bridge that call it): each task works in a linked worktree on   *)
(* a branch of its own, its work is committed when its session ends, the    *)
(* branches are merged into the mission's integration branch, and that one  *)
(* is delivered when the user asks for it.  An isolated interactive session *)
(* has a worktree and a branch in the same way.                            *)
(*                                                                         *)
(* A commit is its history, the set of changes it contains: an ancestor is  *)
(* a subset, a merge a union.  The handlers run one after another on the    *)
(* message worker, one git command per step; the agents, the goroutines     *)
(* that commit what a session left, and the user run beside them.           *)
(***************************************************************************)
EXTENDS Naturals, FiniteSets, Sequences, SequencesExt

CONSTANTS
    MissionTask, Isolated,  \* tasks of the mission, isolated sessions
    NoBranch,
    ExplicitProject, \* assignments name their project (the API of workspaces)
    MaxChanges,      \* bound: changes of agents and of the user
    MaxAssigns       \* bound: assignments, starts, deliveries and restarts

\* A commit: the changes in its history.
Commit == SUBSET (1..MaxChanges)

ASSUME MissionBranchesAssumption ==
    /\ MissionTask \cap Isolated = {} /\ ExplicitProject \in BOOLEAN
    /\ IsFiniteSet(MissionTask) /\ \A history \in Commit : history # NoBranch
    /\ MaxChanges \in Nat /\ MaxAssigns \in Nat

Owner == MissionTask \cup Isolated
UserBranch == {"base", "other"}
\* Ordered by the API: the tasks of a merge_all, or the one of a task_merge.
MergeOrders == UNION {SetToSeqs(ts) : ts \in (SUBSET MissionTask) \ {{}}}

VARIABLES
    linked,     \* owners with a linked worktree
    dirty,      \* dirty[o]: uncommitted changes in it
    branch,     \* branch[o]: its branch in the local repository, or NoBranch
    remote,     \* remote[o]: its branch at origin
    integ,      \* oa/mission-<m>, or NoBranch
    integTree,  \* its worktree: "none", "clean", "merging"
    user,       \* user[b]: the user's own branches
    head,       \* the branch of the user's checkout
    userDirty,  \* uncommitted changes in the user's checkout
    agent,      \* agent[o]: "none", "worktree", "checkout": where its session works
    exits,      \* goroutines of handleSessionExit: <<o, where, "commit" or "push">>
    isolated,   \* isolatedSessions
    atWork,     \* the handler at work: "idle", "merging", "reclaiming", "forwarding", "sweeping"
    merges,     \* the tasks it has still to look at
    changes, assigns,
    work,       \* ghost: changes made by agents
    merged,     \* ghost: merged[t]: what was reported merged
    forced,     \* ghost: changes removed by task_cleanup, or written where no tree was
    delivered   \* ghost: changes the user asked for

worktrees == <<linked, dirty, branch, remote>>
mission == <<integ, integTree>>
checkout == <<user, head, userDirty>>
sessions == <<agent, exits, isolated>>
handler == <<atWork, merges>>
counts == <<changes, assigns, work>>
missionGhosts == <<merged, forced, delivered>>
missionVars == <<worktrees, mission, checkout, sessions, handler, counts, missionGhosts>>

Includes(history, other) == history # NoBranch /\ other # NoBranch /\ other \subseteq history
Histories(bs) == UNION (bs \ {NoBranch})
AtRest == atWork = "idle"
Assigned == assigns < MaxAssigns /\ assigns' = assigns + 1

-----------------------------------------------------------------------------
(* Sessions and what they leave.                                            *)

\* resolveBase: the pinned baseline or HEAD.
Bases == {{}, user[head]}

AddTree(o) ==
    /\ linked' = linked \cup {o}
    /\ \E base \in Bases : branch' = [branch EXCEPT ![o] = base]
    /\ UNCHANGED <<dirty, remote>>

\* CreateTaskWorktree: reused, added, or refused by git, which does not create
\* a branch that is there; handleWorkflowTaskAssign then falls back to the
\* project.  A baseline that cannot be fetched fails the task.
Assign(t) ==
    /\ AtRest /\ agent[t] = "none" /\ Assigned
    /\ \/ t \in linked /\ UNCHANGED worktrees /\ agent' = [agent EXCEPT ![t] = "worktree"]
       \/ t \notin linked /\ branch[t] = NoBranch /\ AddTree(t) /\ agent' = [agent EXCEPT ![t] = "worktree"]
       \/ t \notin linked /\ branch[t] # NoBranch /\ UNCHANGED worktrees /\ agent' = [agent EXCEPT ![t] = "checkout"]
    /\ UNCHANGED <<mission, checkout, exits, isolated, handler, changes, work, missionGhosts>>

\* prepareIsolatedWorkDir: the same for a session, which does not fall back.
StartIsolated(s) ==
    /\ AtRest /\ agent[s] = "none" /\ Assigned
    /\ IF s \in linked THEN UNCHANGED worktrees ELSE branch[s] = NoBranch /\ AddTree(s)
    /\ agent' = [agent EXCEPT ![s] = "worktree"] /\ isolated' = isolated \cup {s}
    /\ UNCHANGED <<mission, checkout, exits, handler, changes, work, missionGhosts>>

NewChange == changes < MaxChanges /\ changes' = changes + 1

\* An agent writes, into its worktree if that is still there.
AgentEdits(o) ==
    /\ agent[o] # "none" /\ NewChange
    /\ work' = work \cup {changes'}
    /\ CASE agent[o] = "checkout" -> userDirty' = userDirty \cup {changes'} /\ UNCHANGED <<dirty, forced>>
         [] agent[o] = "worktree" /\ o \in linked ->
              dirty' = [dirty EXCEPT ![o] = @ \cup {changes'}] /\ UNCHANGED <<userDirty, forced>>
         [] OTHER -> forced' = forced \cup {changes'} /\ UNCHANGED <<dirty, userDirty>>
    /\ UNCHANGED <<linked, branch, remote, mission, user, head, sessions, handler, assigns, merged, delivered>>

\* A task's session is over: handleSessionExit in a goroutine of its own.
SessionEnds(t) ==
    /\ t \in MissionTask /\ agent[t] # "none"
    /\ agent' = [agent EXCEPT ![t] = "none"]
    /\ exits' = IF agent[t] = "worktree" \/ ExplicitProject THEN exits \cup {<<t, agent[t], "commit">>} ELSE exits
    /\ UNCHANGED <<worktrees, mission, checkout, isolated, handler, counts, missionGhosts>>

\* CommitAll, in the directory the session worked in: everything uncommitted.
CommitAll(t, where) ==
    /\ <<t, where, "commit">> \in exits
    /\ LET left == (exits \ {<<t, where, "commit">>})
           told == exits' = left \cup {<<t, where, "push">>}
       IN  \/ exits' = left /\ UNCHANGED <<dirty, branch, user, userDirty>>   \* nothing to commit, or git failed
           \/ /\ where = "worktree" /\ t \in linked /\ dirty[t] # {} /\ told
              /\ branch' = [branch EXCEPT ![t] = @ \cup dirty[t]] /\ dirty' = [dirty EXCEPT ![t] = {}]
              /\ UNCHANGED <<user, userDirty>>
           \/ /\ where = "checkout" /\ userDirty # {} /\ told
              /\ user' = [user EXCEPT ![head] = @ \cup userDirty] /\ userDirty' = {}
              /\ UNCHANGED <<dirty, branch>>
    /\ UNCHANGED <<linked, remote, mission, head, agent, isolated, handler, counts, missionGhosts>>

\* PushBranch: refused where origin has what the branch has not.
PushBranch(t, where) ==
    /\ <<t, where, "push">> \in exits
    /\ exits' = exits \ {<<t, where, "push">>}
    /\ \/ UNCHANGED remote
       \/ /\ branch[t] # NoBranch /\ (remote[t] = NoBranch \/ Includes(branch[t], remote[t]))
          /\ remote' = [remote EXCEPT ![t] = branch[t]]
    /\ UNCHANGED <<linked, dirty, branch, mission, checkout, agent, isolated, handler, counts, missionGhosts>>

\* worktreeIsDisposable: clean, and merged into the user's branch or the mission's.
Disposable(o) ==
    /\ o \in linked /\ dirty[o] = {}
    /\ Includes(user[head], branch[o]) \/ (o \in MissionTask /\ Includes(integ, branch[o]))

\* handleSessionStop, reclaimIsolatedSession: git may refuse.
StopIsolated(s) ==
    /\ AtRest /\ s \in Isolated /\ agent[s] # "none"
    /\ agent' = [agent EXCEPT ![s] = "none"] /\ isolated' = isolated \ {s}
    /\ IF s \in isolated /\ Disposable(s)
         THEN linked' = linked \ {s} /\ branch' = [branch EXCEPT ![s] = NoBranch]
         ELSE UNCHANGED <<linked, branch>>
    /\ UNCHANGED <<dirty, remote, mission, checkout, exits, handler, counts, missionGhosts>>

-----------------------------------------------------------------------------
(* Merging: IntegrateBranches, for merge_all and for the merge of one task. *)

\* EnsureIntegrationWorktree: an interrupted merge is aborted first.
EnsureIntegrationWorktree ==
    /\ integTree' = "clean"
    /\ IF integ = NoBranch THEN integ' \in Bases ELSE UNCHANGED integ

StartMerge(ts) ==
    /\ AtRest /\ assigns < MaxAssigns /\ assigns' = assigns + 1
    /\ \A i \in DOMAIN ts : branch[ts[i]] # NoBranch \/ remote[ts[i]] # NoBranch
    /\ EnsureIntegrationWorktree
    /\ atWork' = "merging" /\ merges' = ts
    /\ UNCHANGED <<worktrees, checkout, sessions, changes, work, missionGhosts>>

\* resolveBranchRef: the local branch, else the one at origin.
Ref(t) == IF branch[t] # NoBranch THEN branch[t] ELSE remote[t]

\* One branch: contained already or merged; a conflict, an error or a branch
\* that cannot be fetched ends the run.
MergeNext ==
    /\ atWork = "merging"
    /\ LET t == Head(merges)
       IN  \/ /\ Ref(t) # NoBranch
              /\ integ' = integ \cup Ref(t)
              /\ merged' = [merged EXCEPT ![t] = Ref(t)]
              /\ atWork' = "reclaiming" /\ UNCHANGED merges
           \/ /\ ~Includes(integ, Ref(t))
              /\ atWork' = "idle" /\ merges' = <<>> /\ UNCHANGED <<integ, merged>>
    /\ UNCHANGED <<worktrees, integTree, checkout, sessions, counts, forced, delivered>>

\* Mutant: the worktree is removed whatever it holds.
ReclaimByForce ==
    /\ atWork = "reclaiming"
    /\ linked' = linked \ {Head(merges)} /\ dirty' = [dirty EXCEPT ![Head(merges)] = {}]
    /\ merges' = Tail(merges) /\ atWork' = IF Len(merges) = 1 THEN "idle" ELSE "merging"
    /\ UNCHANGED <<branch, remote, mission, checkout, sessions, counts, missionGhosts>>

\* reclaimMergedTask: the worktree goes, the branch is kept; on to the next.
ReclaimMergedTask ==
    /\ atWork = "reclaiming"
    /\ linked' \in {linked} \cup {linked \ {o} : o \in {x \in {Head(merges)} : Disposable(x)}}
    /\ merges' = Tail(merges) /\ atWork' = IF Len(merges) = 1 THEN "idle" ELSE "merging"
    /\ UNCHANGED <<dirty, branch, remote, mission, checkout, sessions, counts, missionGhosts>>

\* task_cleanup, sent for a task that was merged: RemoveWorktree, by force; the
\* branch goes only with a worktree.
RemoveWorktree(t) ==
    /\ AtRest /\ merged[t] # {} /\ t \in linked
    /\ linked' = linked \ {t} /\ dirty' = [dirty EXCEPT ![t] = {}]
    /\ branch' = [branch EXCEPT ![t] = NoBranch]
    /\ forced' = forced \cup dirty[t] \cup branch[t]
    /\ UNCHANGED <<remote, mission, checkout, sessions, handler, counts, merged, delivered>>

-----------------------------------------------------------------------------
(* Delivery: what the user asks for.                                        *)

\* Deliver, "fast_forward": the user's checkout is looked at ...
CheckDelivery ==
    /\ AtRest /\ integ # NoBranch /\ Assigned
    /\ head = "base" /\ userDirty = {} /\ Includes(integ, user[head])
    /\ atWork' = "forwarding"
    /\ delivered' = delivered \cup integ
    /\ UNCHANGED <<worktrees, mission, checkout, sessions, merges, changes, work, merged, forced>>

\* ... and forwarded, on the branch it is on by now; git refuses anything but a
\* fast-forward.  The integration worktree is removed, its branch stays.
FastForward ==
    /\ atWork = "forwarding" /\ atWork' = "idle"
    /\ IF Includes(integ, user[head])
         THEN user' = [user EXCEPT ![head] = integ] /\ integTree' \in {integTree, "none"}
         ELSE UNCHANGED <<user, integTree>>
    /\ UNCHANGED <<worktrees, integ, head, userDirty, sessions, merges, counts, missionGhosts>>

-----------------------------------------------------------------------------
(* The user, and a restart of the bridge.                                   *)

UserCommits ==
    /\ NewChange /\ user' = [user EXCEPT ![head] = @ \cup {changes'}]
    /\ UNCHANGED <<worktrees, mission, head, userDirty, sessions, handler, assigns, work, missionGhosts>>

UserSwitches ==
    /\ Assigned /\ userDirty = {}
    /\ \E b \in UserBranch \ {head} : head' = b
    /\ UNCHANGED <<worktrees, mission, user, userDirty, sessions, handler, changes, work, missionGhosts>>

\* The bridge dies with its agents, perhaps in the middle of a merge ...
BridgeRestarts ==
    /\ atWork # "sweeping" /\ Assigned
    /\ agent' = [o \in Owner |-> "none"] /\ exits' = {} /\ isolated' = {}
    /\ atWork' = "sweeping" /\ merges' = <<>>
    /\ integTree' \in IF atWork = "merging" THEN {integTree, "merging"} ELSE {integTree}
    /\ UNCHANGED <<worktrees, integ, checkout, changes, work, missionGhosts>>

\* ... and sweeps the task worktrees: those that hold nothing go, with their branch.
CleanupStaleWorktrees ==
    /\ atWork = "sweeping" /\ atWork' = "idle"
    /\ LET gone == {t \in MissionTask : Disposable(t)}
       IN  /\ linked' = linked \ gone
           /\ branch' = [o \in Owner |-> IF o \in gone THEN NoBranch ELSE branch[o]]
    /\ UNCHANGED <<dirty, remote, mission, checkout, sessions, merges, counts, missionGhosts>>

-----------------------------------------------------------------------------

MissionInit ==
    /\ linked = {} /\ dirty = [o \in Owner |-> {}]
    /\ branch = [o \in Owner |-> NoBranch] /\ remote = branch
    /\ integ = NoBranch /\ integTree = "none"
    /\ user = [b \in UserBranch |-> {}] /\ head = "base" /\ userDirty = {}
    /\ agent = [o \in Owner |-> "none"] /\ exits = {} /\ isolated = {}
    /\ atWork = "idle" /\ merges = <<>>
    /\ changes = 0 /\ assigns = 0 /\ work = {}
    /\ merged = [t \in MissionTask |-> {}] /\ forced = {} /\ delivered = {}

SessionStep(t) ==
    \/ Assign(t) \/ SessionEnds(t) \/ RemoveWorktree(t)
    \/ \E where \in {"worktree", "checkout"} : CommitAll(t, where) \/ PushBranch(t, where)

MissionNext ==
    \/ \E t \in MissionTask : SessionStep(t)
    \/ \E s \in Isolated : StartIsolated(s) \/ StopIsolated(s)
    \/ \E o \in Owner : AgentEdits(o)
    \/ \E ts \in MergeOrders : StartMerge(ts)
    \/ MergeNext \/ ReclaimMergedTask \/ CheckDelivery \/ FastForward
    \/ UserCommits \/ UserSwitches \/ BridgeRestarts \/ CleanupStaleWorktrees

MissionSpec == MissionInit /\ [][MissionNext]_missionVars

-----------------------------------------------------------------------------
(* Properties.                                                              *)

MissionTypeOK ==
    /\ linked \subseteq Owner /\ isolated \subseteq Isolated
    /\ \A o \in Owner : /\ dirty[o] \subseteq 1..MaxChanges
                        /\ \A h \in {branch[o], remote[o]} \ {NoBranch} : h \subseteq 1..MaxChanges
    /\ \A o \in Owner : (o \notin linked => dirty[o] = {}) /\ (o \in linked => branch[o] # NoBranch)
    /\ integTree \in {"none", "clean", "merging"} /\ (integTree # "none" => integ # NoBranch)
    /\ head \in UserBranch /\ userDirty \subseteq 1..MaxChanges
    /\ agent \in [Owner -> {"none", "worktree", "checkout"}]
    /\ exits \subseteq MissionTask \X {"worktree", "checkout"} \X {"commit", "push"}
    /\ atWork \in {"idle", "merging", "reclaiming", "forwarding", "sweeping"}
    /\ (atWork \in {"merging", "reclaiming"}) = (merges # <<>>)

\* No work is lost: a change an agent made in its worktree is still there or in
\* some branch, through commits that fail, merges that conflict, worktrees that
\* are reclaimed or swept, deliveries and restarts.  Excused: what task_cleanup
\* removed by force, and what was written where a worktree had been removed.
ChangesSurvive ==
    work \ forced \subseteq
        (UNION {dirty[o] : o \in linked}) \cup userDirty \cup (UNION {user[b] : b \in UserBranch})
          \cup Histories({integ} \cup {branch[o] : o \in Owner} \cup {remote[o] : o \in Owner})

\* What was reported merged stays in the mission's branch, whatever runs,
\* conflicts, deliveries and restarts follow: that branch is what is delivered.
MergedStaysMerged ==
    \A t \in MissionTask : merged[t] # {} => Includes(integ, merged[t])

\* Neither an agent's changes nor a reported merge are ever lost.
WorkIsKept == ChangesSurvive /\ MergedStaysMerged

\* "A mission never writes the user's main checkout" (delivery.go 15-19): an
\* agent's change comes into the user's branches only by a delivery.
CheckoutIsTheUsers ==
    \A b \in UserBranch : user[b] \cap work \subseteq delivered

=============================================================================
