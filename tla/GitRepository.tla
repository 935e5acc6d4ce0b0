----------------------------- MODULE GitRepository -----------------------------
(***************************************************************************)
(* What the closeout and cleanup scripts read and change: one local        *)
(* repository with its worktrees, its remote on github.com, and everybody  *)
(* else who works on both while a script runs (scripts/closeout_state.py). *)
(*                                                                         *)
(* Commits are numbers along the canonical history, where n descends from  *)
(* 0..n, and four named ones: the head of the merged pull request, a later *)
(* commit of somebody on a topic, a local commit that canonical history    *)
(* does not have, and the tip of a canonical history somebody rewrote,     *)
(* from 0 on and without the merge.                                        *)
(***************************************************************************)
EXTENDS Naturals, FiniteSets

CONSTANTS
  Paths, Primary,                 \* directories of worktrees; the first checkout
  Head, Later, Own, Rewritten,    \* commits off the canonical history
  NoCommit, NoTree,
  HeadMerged,                     \* merged with a merge commit; else squashed
  MaxMain,                        \* bound on the canonical history
  MaxActs,                        \* bound on what the others do meanwhile
  Faults,                         \* which of refuse, lost, disk, crash may happen
  MaxFaults                       \* bound on how often

ASSUME RepositoryAssumption ==
  /\ Primary \in Paths /\ IsFiniteSet(Paths) /\ MaxMain \in Nat \ {0} /\ MaxActs \in Nat
  /\ HeadMerged \in BOOLEAN /\ MaxFaults \in Nat
  /\ Faults \subseteq {"refuse", "lost", "disk", "crash"}
  /\ {Head, Later, Own, Rewritten, NoCommit} \cap (0..MaxMain) = {}
  /\ Cardinality({Head, Later, Own, Rewritten, NoCommit}) = 5

Canonical == 0..MaxMain
Commits == Canonical \cup {Head, Later, Own, Rewritten}
Branches == {"main", "topic", "other"}

\* Everything git status does not show: ignored paths the project declared
\* disposable, other ignored paths, and content an index flag hides.
Residues == {"disposable", "kept", "hidden"}

\* The pull request was merged as commit 1.
Ancestor(a, b) ==
  \/ a = b \/ (a \in Canonical /\ b \in Canonical /\ a <= b)
  \/ HeadMerged /\ a = Head /\ b \in Canonical \ {0}
  \/ a = 0 /\ b = Rewritten

\* on is the branch checked out, at the commit of a detached HEAD; work says
\* that git status shows something or a Git operation is in progress.
Tree == [on : Branches \cup {"detached"}, at : Commits \cup {NoCommit},
         here : BOOLEAN, work : BOOLEAN, residue : SUBSET Residues]

ASSUME TreeAssumption == NoTree \notin Tree

VARIABLES
  refs,       \* refs/heads of the local repository
  tracking,   \* refs/remotes/origin
  remote,     \* refs/heads of the repository on github.com
  tree,       \* the worktree registry and the state of each worktree
  acts,       \* how often somebody else acted so far
  faults      \* how often a command failed or was killed

repoVars == <<refs, tracking, remote, tree, acts, faults>>

Registered == {p \in Paths : tree[p] # NoTree}
IsHere(p) == p \in Registered /\ tree[p].here
HeadOf(p) == IF tree[p].on = "detached" THEN tree[p].at ELSE refs[tree[p].on]
On(b) == {p \in Registered : tree[p].on = b}
Clean(p) == IsHere(p) /\ ~tree[p].work

Removable_Status(p) == Clean(p)

\* cleanup_worktree_failures: only residue that is declared disposable.
Removable(p) == Clean(p) /\ tree[p].residue \subseteq {"disposable"}

\* worktree_failures and HEAD of the one worktree a branch is checked out in
Ready_AnyHead(trees, head) == Cardinality(trees) = 1 /\ \A p \in trees : Clean(p)
Ready(trees, head) ==
  Cardinality(trees) = 1 /\ \A p \in trees : Clean(p) /\ HeadOf(p) = head

FastForwards_Any(h, t) == TRUE
FastForwards(h, t) == Ancestor(h, t)

\* git fetch origin +refs/heads/main:refs/remotes/origin/main
FetchMain == tracking' = [tracking EXCEPT !["main"] = remote["main"]]

Checkout(b, r) == [on |-> b, at |-> NoCommit, here |-> TRUE, work |-> FALSE, residue |-> r]

RepositoryInit ==
  /\ acts = 0 /\ faults = 0
  /\ remote \in [main : {1}, topic : {Head, NoCommit}]
  /\ tracking = [main |-> 0, topic |-> Head]
  /\ refs \in [main : {0, 1, Own}, topic : {Head, NoCommit}, other : {0}]
  /\ tree \in [Paths -> {NoTree} \cup {Checkout(b, r) :
                            b \in Branches, r \in {{}, {"disposable"}}}]
  /\ tree[Primary] # NoTree
  /\ \A p \in Registered : refs[tree[p].on] # NoCommit
                           /\ (tree[p].on # "topic" => tree[p].residue = {})
  /\ \A p, q \in Registered : tree[p].on = tree[q].on => p = q

--------------------------------------------------------------------------------
(***************************************************************************)
(* Other people and other tools, on this machine and on GitHub.            *)
(***************************************************************************)
Acts == acts < MaxActs /\ acts' = acts + 1 /\ UNCHANGED faults
Mine == acts' = acts      \* a step of a script, and of nobody else

InTree(p, t) ==
  /\ IsHere(p) /\ tree' = [tree EXCEPT ![p] = t] /\ tree' # tree
  /\ UNCHANGED <<tracking, remote>>

Edit(p) == InTree(p, [tree[p] EXCEPT !.work = TRUE]) /\ UNCHANGED refs
Leave(p, r) == InTree(p, [tree[p] EXCEPT !.residue = @ \cup {r}]) /\ UNCHANGED refs
Detach(p) ==
  InTree(p, [tree[p] EXCEPT !.on = "detached", !.at = HeadOf(p)]) /\ UNCHANGED refs
SwitchTo(p, b) ==
  /\ ~tree[p].work /\ refs[b] # NoCommit /\ On(b) = {}
  /\ InTree(p, [tree[p] EXCEPT !.on = b, !.at = NoCommit]) /\ UNCHANGED refs
\* HEAD of a worktree goes to c, and the branch that is checked out with it.
MoveIn(p, c, w) ==
  /\ IsHere(p)
  /\ tree' = [tree EXCEPT ![p].work = w, ![p].at = IF @ = NoCommit THEN @ ELSE c]
  /\ refs' = IF tree[p].on = "detached" THEN refs ELSE [refs EXCEPT ![tree[p].on] = c]
  /\ UNCHANGED remote
CommitIn(p) ==
  /\ MoveIn(p, IF tree[p].on \in {"topic", "detached"} THEN Later ELSE Own, FALSE)
  /\ UNCHANGED tracking
\* git pull, merge or reset: to what origin/main is, fetched first or not, and
\* what git status shows goes or stays.
ResetIn(p) ==
  /\ FetchMain \/ UNCHANGED tracking
  /\ \E w \in {FALSE, tree[p].work} : MoveIn(p, tracking'["main"], w)

AddTree(p, b) ==
  /\ tree[p] = NoTree /\ refs[b] # NoCommit /\ On(b) = {}
  /\ tree' = [tree EXCEPT ![p] = Checkout(b, {})]
  /\ UNCHANGED <<refs, tracking, remote>>
RemoveTree(p) ==
  /\ p # Primary /\ Clean(p)
  /\ tree' = [tree EXCEPT ![p] = NoTree] /\ UNCHANGED <<refs, tracking, remote>>
\* Somebody deletes the directory; the registration stays and is prunable.
Vanish(p) == p # Primary /\ InTree(p, [tree[p] EXCEPT !.here = FALSE]) /\ UNCHANGED refs
DropBranch(b) ==
  /\ refs[b] # NoCommit /\ On(b) = {}
  /\ refs' = [refs EXCEPT ![b] = NoCommit] /\ UNCHANGED <<tracking, remote, tree>>
\* git branch -f main origin/main, where main is not checked out.
ForceMain ==
  /\ On("main") = {} /\ refs["main"] # tracking["main"]
  /\ refs' = [refs EXCEPT !["main"] = tracking["main"]] /\ UNCHANGED <<tracking, remote, tree>>
FetchAll ==
  /\ tracking' = [main |-> remote["main"],
                  topic |-> IF remote["topic"] = NoCommit THEN tracking["topic"] ELSE remote["topic"]]
  /\ tracking' # tracking /\ UNCHANGED <<refs, remote, tree>>

OnRemote(b, c) ==
  /\ remote[b] # c /\ remote' = [remote EXCEPT ![b] = c]
  /\ UNCHANGED <<refs, tracking, tree>>
MergeElsewhere == remote["main"] \in 0..(MaxMain - 1) /\ OnRemote("main", remote["main"] + 1)
ForcePush == OnRemote("main", Rewritten)
PushTopic == OnRemote("topic", Later)
RemoteDrops == OnRemote("topic", NoCommit)

SomebodyInTree ==
  \E p \in Registered :
    \/ Edit(p) \/ (\E r \in Residues : Leave(p, r)) \/ Detach(p) \/ CommitIn(p)
    \/ (\E b \in Branches : SwitchTo(p, b)) \/ RemoveTree(p) \/ Vanish(p)
Somebody ==
  /\ Acts
  /\ \/ SomebodyInTree \/ (\E p \in Registered : ResetIn(p)) \/ FetchAll
     \/ (\E b \in Branches : DropBranch(b) \/ \E p \in Paths : AddTree(p, b))
     \/ ForceMain \/ MergeElsewhere \/ ForcePush \/ PushTopic \/ RemoteDrops

Fault(f) == f \in Faults /\ faults < MaxFaults /\ faults' = faults + 1 /\ UNCHANGED acts

--------------------------------------------------------------------------------
RepositoryTypeOK ==
  /\ refs \in [Branches -> Commits \cup {NoCommit}]
  /\ tracking \in [{"main", "topic"} -> Commits \cup {NoCommit}]
  /\ remote \in [{"main", "topic"} -> Commits \cup {NoCommit}]
  /\ tree \in [Paths -> Tree \cup {NoTree}] /\ acts \in 0..MaxActs
  /\ faults \in 0..MaxFaults
================================================================================
