------------------------------- MODULE MCStore -------------------------------
(* A small instance of NodeStore for TLC. *)
EXTENDS NodeStore

\* A repository of two downloaded objects, a worktree that shares the first
\* and has a declare-only file.
WantsOf == <<{1, 2}, {1, 3}>>
NoExtra == <<{}, {}>>
ComposeFile == <<{1}, {}>>
ScratchOf == [h \in {3} |-> 1]

=============================================================================
