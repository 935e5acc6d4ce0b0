--------------------------- MODULE PostMergeProofs ---------------------------
(***************************************************************************)
(* Theorems about the two scripts that run after a merge: the cleanup      *)
(* (PostMergeCleanup) and the closeout (PostMergeCloseout), each on a      *)
(* repository (GitRepository) on which others act at the same time, and    *)
(* both in turn on one where nobody else does (PostMergeWork).             *)
(***************************************************************************)
EXTENDS PostMergeWork, FiniteSetTheorems, TLAPS

(***************************************************************************)
(* The repository.  What both arguments rest on besides the types: git     *)
(* checks a branch out in one worktree at most.                            *)
(***************************************************************************)
OneTreeEach ==
  \A p, q \in Registered : tree[p].on \in Branches /\ tree[p].on = tree[q].on => p = q

RepoInv == RepositoryTypeOK /\ OneTreeEach

(***************************************************************************)
(* The cleanup.                                                            *)
(***************************************************************************)
Heads == Commits \cup {NoCommit}

PlanType ==
  [main : Heads, trees : [Paths -> {NoTree} \cup [on : Branches \cup {"detached"}, head : Heads]],
   topic : Heads, target : SUBSET Paths, canonical : SUBSET Paths, remote : Heads,
   base : [topic : Heads, other : Heads]]

RunType ==
  [cwd : Paths, execute : BOOLEAN, delete : BOOLEAN, again : BOOLEAN, effects : BOOLEAN,
   main : Heads, checked : 0..MaxActs, scanned : 0..MaxActs]

CleanupStates ==
  {"idle", "fetch", "registry", "topic", "target", "canonical", "remoteTopic", "refs",
   "control", "prefetch", "precanonical", "recheck", "disposable", "remove", "switch",
   "forward", "lsremote", "push", "postfetch", "postregistry", "posttopic", "postremote",
   "postrefs"}

RunOK ==
  /\ pc \in CleanupStates
  /\ result \in {"none", "refused", "planned", "blocked", "incomplete", "died", "pass"}
  /\ plan \in PlanType /\ run \in RunType
  /\ Cardinality(plan.target) <= 1 /\ Cardinality(plan.canonical) <= 1
  /\ pc # "idle" => result = "none"
  /\ acts >= run.checked /\ acts >= run.scanned

\* Where a run stands says what it was asked, what it planned and where it is.
Effects == {"control", "prefetch", "precanonical", "recheck", "disposable", "remove", "switch",
            "forward", "lsremote", "push"}
Placed ==
  /\ pc \in Effects => run.again
  /\ pc \in {"lsremote", "push"} => run.delete
  /\ pc \in {"remoteTopic", "refs", "control", "prefetch", "precanonical"} =>
       plan.canonical # {} \/ plan.target # {}
  /\ pc \in {"prefetch", "precanonical", "recheck", "switch", "forward"} => run.cwd \in Surviving
  /\ pc \in {"recheck", "disposable", "remove", "switch", "forward"} => plan.target # {}
  /\ pc \in {"switch", "forward"} => plan.canonical = {}

\* What the last look at the worktree that goes saw, and nobody changed since.
Retires ==
  /\ pc \in {"disposable", "remove"} /\ acts = run.checked =>
       Removable(Target) /\ HeadOf(Target) = Head
  /\ pc = "remove" /\ acts = run.scanned => "kept" \notin tree[Target].residue
  /\ pc = "forward" /\ acts = run.checked => tree[Target].on = "main"

\* What the postconditions saw since the last fetch, and nobody changed since.
Passed(S) == pc \in S \/ result = "pass"
Verified ==
  acts = run.checked =>
    /\ Passed({"postregistry", "posttopic", "postremote", "postrefs"}) =>
         run.main = remote["main"] /\ tracking["main"] = remote["main"]
    /\ Passed({"posttopic", "postremote", "postrefs"}) =>
         Ready(On("main"), run.main) /\ On("topic") = {}
    /\ Passed({"postremote", "postrefs"}) => (plan.topic # NoCommit => refs["topic"] = Head)
    /\ Passed({"postrefs"}) => (run.delete => remote["topic"] = NoCommit)

CleanupInv == RepositoryTypeOK /\ OneTreeEach /\ RunOK /\ Placed /\ Retires /\ Verified

(***************************************************************************)
(* The closeout.                                                           *)
(***************************************************************************)
CoType ==
  [cwd : Paths, canonical : SUBSET Paths, seen : Heads,
   chosen : 0..MaxActs, looked : 0..MaxActs, synced : 0..MaxActs, verified : 0..MaxActs]

CloseoutSteps ==
  {"idle", "issues", "workflows", "refresh", "contained", "choose", "targets", "forward",
   "synced", "verify", "verifyLocal", "issuesAgain", "workflowsAgain", "targetsAgain"}

CloseoutOK ==
  /\ issues \in BOOLEAN /\ ci \in {"pending", "success", "failed"}
  /\ step \in CloseoutSteps /\ verdict \in {"none", "fail", "died", "pass"}
  /\ co \in CoType /\ Cardinality(co.canonical) <= 1
  /\ step # "idle" => verdict = "none"
  /\ acts >= co.chosen /\ acts >= co.looked /\ acts >= co.synced /\ acts >= co.verified

Chosen ==
  /\ step \in {"targets", "forward", "synced", "verify", "verifyLocal", "issuesAgain",
               "workflowsAgain", "targetsAgain"} => co.canonical # {}
  /\ step \in {"choose", "targets", "forward"} => Ancestor(1, co.seen)
  /\ step \in {"targets", "forward"} /\ acts = co.chosen => \A p \in co.canonical : tree[p].on = "main"
  /\ step = "forward" /\ acts = co.looked => TargetsSafe

\* The last steps, or a PASS that was said.
Reached(S) == step \in S \/ verdict = "pass"
AfterFetch == {"verifyLocal", "issuesAgain", "workflowsAgain", "targetsAgain"}
Merged == \A p \in co.canonical : Ancestor(1, HeadOf(p))
Confirmed ==
  /\ acts = co.synced => (Reached({"verify"} \cup AfterFetch) => Merged)
  /\ acts = co.verified =>
       /\ Reached(AfterFetch) => co.seen = remote["main"] /\ tracking["main"] = remote["main"]
       /\ Reached(AfterFetch \ {"verifyLocal"}) =>
            On("main") = co.canonical /\ Ready(On("main"), co.seen)
       /\ Reached({"workflowsAgain", "targetsAgain"}) => issues
       /\ Reached({"targetsAgain"}) => ci = "success"
       /\ verdict = "pass" => TargetsSafe

CloseoutInv == RepoInv /\ CloseoutOK /\ Chosen /\ Confirmed

--------------------------------------------------------------------------------
(***************************************************************************)
(* Commits and worktrees.                                                  *)
(***************************************************************************)
LEMMA CardinalityOfFour ==
  ASSUME NEW a, NEW b, NEW c, NEW d
  PROVE  IsFiniteSet({a, b, c, d}) /\ Cardinality({a, b, c, d}) <= 4
<1>1. IsFiniteSet({a}) /\ Cardinality({a}) = 1
  BY FS_Singleton
<1>2. IsFiniteSet({a, b}) /\ Cardinality({a, b}) <= 2
  <2>1. {a, b} = {a} \cup {b}
    OBVIOUS
  <2> QED BY <1>1, <2>1, FS_AddElement
<1>3. IsFiniteSet({a, b, c}) /\ Cardinality({a, b, c}) <= 3
  <2>1. {a, b, c} = {a, b} \cup {c}
    OBVIOUS
  <2>2. Cardinality({a, b}) \in Nat
    BY <1>2, FS_CardinalityType
  <2> QED BY SMTT(30), <1>2, <2>1, <2>2, FS_AddElement
<1>4. {a, b, c, d} = {a, b, c} \cup {d}
  OBVIOUS
<1>5. Cardinality({a, b, c}) \in Nat
  BY <1>3, FS_CardinalityType
<1> QED BY <1>3, <1>4, <1>5, FS_AddElement

LEMMA OneMember ==
  ASSUME NEW S, \A p, q \in S : p = q
  PROVE  Cardinality(S) <= 1 /\ (S # {} => Cardinality(S) = 1)
<1>1. CASE S = {}
  BY <1>1, FS_EmptySet
<1>2. CASE S # {}
  <2>1. PICK p \in S : TRUE
    BY <1>2
  <2>2. S = {p}
    <3>1. \A x : x \in S => x \in {p}
      OBVIOUS
    <3>2. \A x : x \in {p} => x \in S
      BY <2>1
    <3> QED BY <3>1, <3>2
  <2>3. Cardinality({p}) = 1
    BY FS_Singleton
  <2> QED BY <2>2, <2>3
<1> QED BY <1>1, <1>2

LEMMA AtMostOne ==
  ASSUME NEW S \in SUBSET Paths, Cardinality(S) <= 1, S # {}
  PROVE  \E p \in Paths : S = {p}
<1>1. IsFiniteSet(S)
  BY FS_Subset, RepositoryAssumption
<1>2. PICK p \in S : TRUE
  OBVIOUS
<1>3. ASSUME NEW q \in S, q # p PROVE FALSE
  <2>1. {p, q} \subseteq S
    BY <1>2
  <2>2. Cardinality({p, q}) = 2
    <3>1. {p, q} = {p} \cup {q}
      OBVIOUS
    <3>2. IsFiniteSet({p}) /\ Cardinality({p}) = 1
      BY FS_Singleton
    <3> QED BY <1>3, <3>1, <3>2, FS_AddElement
  <2>3. Cardinality({p, q}) <= Cardinality(S)
    BY <1>1, <2>1, FS_Subset
  <2>4. Cardinality(S) \in Nat
    BY <1>1, FS_CardinalityType
  <2> QED BY <2>2, <2>3, <2>4
<1> QED BY <1>2, <1>3

\* One worktree changes, and what is checked out in it is in no other.
LEMMA TreeUpdate ==
  ASSUME RepositoryTypeOK, OneTreeEach, NEW p \in Paths, NEW t \in Tree \cup {NoTree},
         tree' = [tree EXCEPT ![p] = t],
         t # NoTree => \/ t.on \notin Branches
                       \/ On(t.on) \subseteq {p}
  PROVE  tree' \in [Paths -> Tree \cup {NoTree}] /\ OneTreeEach'
<1>1. tree \in [Paths -> Tree \cup {NoTree}]
  BY DEF RepositoryTypeOK
<1>2. tree' \in [Paths -> Tree \cup {NoTree}]
  BY <1>1
<1>3. tree'[p] = t /\ \A q \in Paths \ {p} : tree'[q] = tree[q]
  BY <1>1
<1>4. ASSUME NEW q \in Registered', NEW r \in Registered',
             tree'[q].on \in Branches, tree'[q].on = tree'[r].on
      PROVE  q = r
  <2>1. q \in Paths /\ r \in Paths /\ tree'[q] # NoTree /\ tree'[r] # NoTree
    BY <1>4 DEF Registered
  <2>2. CASE q = p
    BY <1>3, <1>4, <2>1, <2>2 DEF On, Registered
  <2>3. CASE r = p
    BY <1>3, <1>4, <2>1, <2>3 DEF On, Registered
  <2>4. CASE q # p /\ r # p
    BY <1>3, <1>4, <2>1, <2>4 DEF OneTreeEach, Registered
  <2> QED BY <2>2, <2>3, <2>4
<1> QED BY <1>2, <1>4 DEF OneTreeEach

\* The same where the worktree keeps what it has checked out.
LEMMA SameBranch ==
  ASSUME RepositoryTypeOK, OneTreeEach, NEW p \in Registered, NEW t \in Tree,
         tree' = [tree EXCEPT ![p] = t], t.on = tree[p].on
  PROVE  tree' \in [Paths -> Tree \cup {NoTree}] /\ OneTreeEach'
<1>1. p \in Paths
  BY DEF Registered
<1>2. t.on \in Branches => On(t.on) \subseteq {p}
  BY DEF On, OneTreeEach, Registered
<1> QED BY <1>1, <1>2, TreeUpdate

LEMMA RegisteredTree ==
  ASSUME RepositoryTypeOK, NEW p \in Registered
  PROVE  tree[p] \in Tree /\ p \in Paths
BY DEF RepositoryTypeOK, Registered

LEMMA HeadsOf ==
  ASSUME RepositoryTypeOK, NEW p \in Registered
  PROVE  HeadOf(p) \in Heads
<1>1. PICK d \in Tree : tree[p] = d
  BY RegisteredTree
<1>2. d.on \in Branches \cup {"detached"} /\ d.at \in Heads
  BY DEF Tree, Heads
<1>3. refs \in [Branches -> Heads]
  BY DEF RepositoryTypeOK, Heads
<1> QED BY <1>1, <1>2, <1>3 DEF HeadOf

LEMMA BranchOnce ==
  ASSUME OneTreeEach, NEW b \in Branches
  PROVE  Cardinality(On(b)) <= 1 /\ (On(b) # {} => Cardinality(On(b)) = 1)
         /\ On(b) \in SUBSET Paths
<1>1. \A p, q \in On(b) : p = q
  BY DEF On, OneTreeEach
<1> QED BY <1>1, OneMember DEF On, Registered

--------------------------------------------------------------------------------
(***************************************************************************)
(* The others keep the types and check a branch out only once.             *)
(***************************************************************************)
LEMMA InTreeKeeps ==
  ASSUME RepositoryTypeOK, OneTreeEach, NEW p \in Registered, NEW t \in Tree,
         InTree(p, t), refs' = refs,
         \/ t.on = tree[p].on
         \/ t.on \notin Branches
         \/ On(t.on) = {}
  PROVE  /\ tree' \in [Paths -> Tree \cup {NoTree}] /\ OneTreeEach'
         /\ refs' \in [Branches -> Heads] /\ tracking' = tracking /\ remote' = remote
<1>1. p \in Paths /\ tree' = [tree EXCEPT ![p] = t] /\ tracking' = tracking /\ remote' = remote
  BY DEF InTree, Registered
<1>2. refs' \in [Branches -> Heads]
  BY DEF RepositoryTypeOK, Heads
<1>3. CASE t.on = tree[p].on
  BY <1>1, <1>2, <1>3, SameBranch
<1>4. CASE t.on \notin Branches \/ On(t.on) = {}
  <2>1. t \in Tree \cup {NoTree}
    OBVIOUS
  <2>2. t.on \notin Branches \/ On(t.on) \subseteq {p}
    BY <1>4
  <2> QED BY <1>1, <1>2, <2>1, <2>2, TreeUpdate
<1> QED BY <1>3, <1>4

\* A worktree with another value in one of its fields.
LEMMA TreeFields ==
  ASSUME NEW d \in Tree
  PROVE  /\ d.on \in Branches \cup {"detached"} /\ d.at \in Heads /\ d.here \in BOOLEAN
         /\ d.work \in BOOLEAN /\ d.residue \in SUBSET Residues
         /\ d = [on |-> d.on, at |-> d.at, here |-> d.here, work |-> d.work, residue |-> d.residue]
         /\ Tree = [on : Branches \cup {"detached"}, at : Heads, here : BOOLEAN, work : BOOLEAN,
                    residue : SUBSET Residues]
BY DEF Tree, Heads

LEMMA TreeWork ==
  ASSUME NEW d \in Tree, NEW w \in BOOLEAN
  PROVE  \E t \in Tree : t = [d EXCEPT !.work = w] /\ t.on = d.on /\ t.at = d.at
                         /\ t.work = w /\ t.here = d.here /\ t.residue = d.residue
<1>1. [d EXCEPT !.work = w] =
        [on |-> d.on, at |-> d.at, here |-> d.here, work |-> w, residue |-> d.residue]
  BY TreeFields
<1> QED BY <1>1, TreeFields

LEMMA TreeResidue ==
  ASSUME NEW d \in Tree, NEW r \in SUBSET Residues
  PROVE  \E t \in Tree : t = [d EXCEPT !.residue = r] /\ t.on = d.on /\ t.at = d.at
                         /\ t.work = d.work /\ t.here = d.here /\ t.residue = r
<1>1. [d EXCEPT !.residue = r] =
        [on |-> d.on, at |-> d.at, here |-> d.here, work |-> d.work, residue |-> r]
  BY TreeFields
<1> QED BY <1>1, TreeFields

LEMMA TreeHere ==
  ASSUME NEW d \in Tree, NEW h \in BOOLEAN
  PROVE  \E t \in Tree : t = [d EXCEPT !.here = h] /\ t.on = d.on /\ t.at = d.at
<1>1. [d EXCEPT !.here = h] =
        [on |-> d.on, at |-> d.at, here |-> h, work |-> d.work, residue |-> d.residue]
  BY TreeFields
<1> QED BY <1>1, TreeFields

LEMMA TreeAt ==
  ASSUME NEW d \in Tree, NEW c \in Heads
  PROVE  \E t \in Tree : t = [d EXCEPT !.at = c] /\ t.on = d.on /\ t.at = c
<1>1. [d EXCEPT !.at = c] =
        [on |-> d.on, at |-> c, here |-> d.here, work |-> d.work, residue |-> d.residue]
  BY TreeFields
<1> QED BY <1>1, TreeFields

WithHead(d, b, c) == [d EXCEPT !.on = b, !.at = c]
WithWork(d, w, c) == [d EXCEPT !.work = w, !.at = c]

LEMMA TreeOnAt ==
  ASSUME NEW d \in Tree, NEW b \in Branches \cup {"detached"}, NEW c \in Heads
  PROVE  \E t \in Tree : t = WithHead(d, b, c) /\ t.on = b /\ t.at = c
                         /\ t.work = d.work /\ t.here = d.here /\ t.residue = d.residue
<1>1. PICK e : e = [on |-> b, at |-> d.at, here |-> d.here, work |-> d.work, residue |-> d.residue]
  OBVIOUS
<1>2. [d EXCEPT !.on = b] = e
  BY <1>1, TreeFields
<1>3. [e EXCEPT !.at = c] =
        [on |-> b, at |-> c, here |-> d.here, work |-> d.work, residue |-> d.residue]
  BY <1>1
<1>4. [d EXCEPT !.on = b, !.at = c] = [e EXCEPT !.at = c]
  BY <1>2
<1>5. [d EXCEPT !.on = b, !.at = c] =
        [on |-> b, at |-> c, here |-> d.here, work |-> d.work, residue |-> d.residue]
  BY <1>3, <1>4
<1> QED BY <1>5, TreeFields DEF WithHead

LEMMA TreeCommitted ==
  ASSUME NEW d \in Tree, NEW w \in BOOLEAN, NEW c \in Heads
  PROVE  \E t \in Tree : t = WithWork(d, w, c) /\ t.on = d.on /\ t.at = c
<1>1. PICK e : e = [on |-> d.on, at |-> d.at, here |-> d.here, work |-> w, residue |-> d.residue]
  OBVIOUS
<1>2. [d EXCEPT !.work = w] = e
  BY <1>1, TreeFields
<1>3. [e EXCEPT !.at = c] =
        [on |-> d.on, at |-> c, here |-> d.here, work |-> w, residue |-> d.residue]
  BY <1>1
<1>4. [d EXCEPT !.work = w, !.at = c] = [e EXCEPT !.at = c]
  BY <1>2
<1>5. [d EXCEPT !.work = w, !.at = c] =
        [on |-> d.on, at |-> c, here |-> d.here, work |-> w, residue |-> d.residue]
  BY <1>3, <1>4
<1> QED BY <1>5, TreeFields DEF WithWork

LEMMA NewTree ==
  ASSUME NEW b \in Branches
  PROVE  Checkout(b, {}) \in Tree /\ Checkout(b, {}).on = b /\ Checkout(b, {}).at = NoCommit
BY DEF Checkout, Tree

LEMMA HistoryTypes ==
  /\ Later \in Heads /\ Own \in Heads /\ NoCommit \in Heads /\ Head \in Heads
  /\ Rewritten \in Heads
BY DEF Heads, Commits

LEMMA MoveKeeps ==
  ASSUME RepositoryTypeOK, OneTreeEach, NEW p \in Registered, NEW c \in Heads, NEW w \in BOOLEAN,
         MoveIn(p, c, w)
  PROVE  /\ tree' \in [Paths -> Tree \cup {NoTree}] /\ OneTreeEach'
         /\ refs' \in [Branches -> Heads] /\ remote' = remote
<1>1. PICK d \in Tree : tree[p] = d
  BY RegisteredTree
<1>3. d.on \in Branches \cup {"detached"} /\ d.at \in Heads
  BY DEF Tree, Heads
<1>4. refs' = IF d.on = "detached" THEN refs ELSE [refs EXCEPT ![d.on] = c]
  BY <1>1 DEF MoveIn
<1>5. refs \in [Branches -> Heads]
  BY DEF RepositoryTypeOK, Heads
<1>6. refs' \in [Branches -> Heads]
  BY <1>3, <1>4, <1>5
<1>7. PICK k \in Heads : k = IF d.at = NoCommit THEN d.at ELSE c
  BY <1>3
<1>8. tree' = [tree EXCEPT ![p] = [d EXCEPT !.work = w, !.at = k]]
  <2>1. tree' = [tree EXCEPT ![p] = [tree[p] EXCEPT !.work = w,
                   !.at = IF tree[p].at = NoCommit THEN tree[p].at ELSE c]]
    BY DEF MoveIn, RepositoryTypeOK, Registered
  <2> QED BY <1>1, <1>7, <2>1
<1>10. PICK e \in Tree : e = WithWork(d, w, k) /\ e.on = d.on /\ e.at = k
  BY TreeCommitted
<1>11. tree' = [tree EXCEPT ![p] = e] /\ e.on = tree[p].on
  BY <1>1, <1>8, <1>10 DEF WithWork
<1>12. remote' = remote
  BY DEF MoveIn
<1> QED BY <1>6, <1>11, <1>12, SameBranch

LEMMA ResetKeeps ==
  ASSUME RepositoryTypeOK, OneTreeEach, NEW p \in Registered, ResetIn(p)
  PROVE  /\ tree' \in [Paths -> Tree \cup {NoTree}] /\ OneTreeEach'
         /\ refs' \in [Branches -> Heads] /\ remote' = remote
         /\ tracking' \in [{"main", "topic"} -> Heads]
<1>1. /\ tracking \in [{"main", "topic"} -> Heads] /\ remote["main"] \in Heads
  BY DEF RepositoryTypeOK, Heads
<1>2. tracking' \in [{"main", "topic"} -> Heads] /\ tracking'["main"] \in Heads
  BY <1>1 DEF ResetIn, FetchMain
<1>3. PICK w \in {FALSE, tree[p].work} : MoveIn(p, tracking'["main"], w)
  BY DEF ResetIn
<1>4. w \in BOOLEAN
  <2>1. PICK d \in Tree : tree[p] = d
    BY RegisteredTree
  <2> QED BY <1>3, <2>1, TreeFields
<1> QED BY <1>2, <1>3, <1>4, MoveKeeps

LEMMA InTreesKeep ==
  ASSUME RepositoryTypeOK, OneTreeEach, SomebodyInTree
  PROVE  /\ tree' \in [Paths -> Tree \cup {NoTree}] /\ OneTreeEach'
         /\ refs' \in [Branches -> Heads] /\ tracking' = tracking /\ remote' = remote
<1>1. PICK p \in Registered :
        \/ Edit(p) \/ (\E r \in Residues : Leave(p, r)) \/ Detach(p) \/ CommitIn(p)
        \/ (\E b \in Branches : SwitchTo(p, b)) \/ RemoveTree(p) \/ Vanish(p)
  BY DEF SomebodyInTree
<1>2. PICK d \in Tree : tree[p] = d
  BY RegisteredTree
<1>3. CASE Edit(p)
  <2>1. PICK w \in BOOLEAN : w = TRUE
    OBVIOUS
  <2>2. PICK t \in Tree : t = [d EXCEPT !.work = w] /\ t.on = d.on
    BY TreeWork
  <2>3. InTree(p, t) /\ refs' = refs /\ t.on = tree[p].on
    BY <1>2, <1>3, <2>1, <2>2 DEF Edit
  <2> QED BY <2>3, InTreeKeeps
<1>4. CASE \E r \in Residues : Leave(p, r)
  <2>1. PICK r \in Residues : Leave(p, r)
    BY <1>4
  <2>2. d.residue \cup {r} \in SUBSET Residues
    BY <2>1 DEF Tree
  <2>3. PICK t \in Tree : t = [d EXCEPT !.residue = d.residue \cup {r}] /\ t.on = d.on
    BY <2>2, TreeResidue
  <2>4. InTree(p, t) /\ refs' = refs /\ t.on = tree[p].on
    BY <1>2, <2>1, <2>3 DEF Leave
  <2> QED BY <2>4, InTreeKeeps
<1>5. CASE Detach(p)
  <2>1. HeadOf(p) \in Heads
    BY HeadsOf
  <2>2. PICK t \in Tree : t = WithHead(d, "detached", HeadOf(p)) /\ t.on = "detached"
    BY <2>1, TreeOnAt
  <2>3. InTree(p, t) /\ refs' = refs /\ t.on \notin Branches
    BY <1>2, <1>5, <2>2 DEF Detach, Branches, WithHead
  <2> QED BY <2>3, InTreeKeeps
<1>6. CASE CommitIn(p)
  <2>1. PICK c \in {Later, Own} :
          c = IF tree[p].on \in {"topic", "detached"} THEN Later ELSE Own
    OBVIOUS
  <2>2. c \in Heads /\ MoveIn(p, c, FALSE) /\ tracking' = tracking
    BY <1>6, <2>1, HistoryTypes DEF CommitIn
  <2> QED BY <2>2, MoveKeeps
<1>7. CASE \E b \in Branches : SwitchTo(p, b)
  <2>1. PICK b \in Branches : SwitchTo(p, b)
    BY <1>7
  <2>2. PICK t \in Tree : t = WithHead(d, b, NoCommit) /\ t.on = b
    BY HistoryTypes, TreeOnAt
  <2>3. InTree(p, t) /\ refs' = refs /\ On(t.on) = {}
    BY <1>2, <2>1, <2>2 DEF SwitchTo, WithHead
  <2> QED BY <2>3, InTreeKeeps
<1>8. CASE RemoveTree(p)
  <2>1. /\ tree' = [tree EXCEPT ![p] = NoTree] /\ NoTree \in Tree \cup {NoTree} /\ p \in Paths
        /\ tracking' = tracking /\ remote' = remote /\ refs' = refs
    BY <1>8 DEF RemoveTree, Registered
  <2>2. tree' \in [Paths -> Tree \cup {NoTree}] /\ OneTreeEach'
    BY <2>1, TreeUpdate
  <2> QED BY <2>1, <2>2 DEF RepositoryTypeOK, Heads
<1>9. CASE Vanish(p)
  <2>1. PICK h \in BOOLEAN : h = FALSE
    OBVIOUS
  <2>2. PICK t \in Tree : t = [d EXCEPT !.here = h] /\ t.on = d.on
    BY TreeHere
  <2>3. InTree(p, t) /\ refs' = refs /\ t.on = tree[p].on
    BY <1>2, <1>9, <2>1, <2>2 DEF Vanish
  <2> QED BY <2>3, InTreeKeeps
<1> QED BY <1>1, <1>3, <1>4, <1>5, <1>6, <1>7, <1>8, <1>9

LEMMA SomebodyKeeps ==
  ASSUME RepositoryTypeOK, OneTreeEach, Somebody
  PROVE  RepositoryTypeOK' /\ OneTreeEach' /\ acts' = acts + 1
<1> DEFINE Typed == /\ tree' \in [Paths -> Tree \cup {NoTree}] /\ OneTreeEach'
                    /\ refs' \in [Branches -> Heads]
                    /\ tracking' \in [{"main", "topic"} -> Heads]
                    /\ remote' \in [{"main", "topic"} -> Heads]
<1> SUFFICES Typed /\ acts' = acts + 1 /\ acts' \in 0..MaxActs /\ faults' \in 0..MaxFaults
  BY DEF RepositoryTypeOK, Heads
<1>1. /\ tree \in [Paths -> Tree \cup {NoTree}] /\ refs \in [Branches -> Heads]
      /\ tracking \in [{"main", "topic"} -> Heads] /\ remote \in [{"main", "topic"} -> Heads]
      /\ acts \in 0..MaxActs /\ faults \in 0..MaxFaults /\ MaxActs \in Nat
  BY RepositoryAssumption DEF RepositoryTypeOK, Heads
<1>2. acts' = acts + 1 /\ acts' \in 0..MaxActs /\ faults' = faults
  BY <1>1 DEF Somebody, Acts
<1>3. ASSUME SomebodyInTree PROVE Typed
  BY <1>1, <1>3, InTreesKeep
<1>4. ASSUME tree' = tree PROVE OneTreeEach'
  BY <1>4 DEF OneTreeEach, Registered
<1>5. ASSUME FetchAll PROVE Typed
  <2>1. tree' = tree /\ refs' = refs /\ remote' = remote
    BY <1>5 DEF FetchAll
  <2>2. tracking' \in [{"main", "topic"} -> Heads]
    BY <1>1, <1>5 DEF FetchAll
  <2> QED BY <1>1, <1>4, <2>1, <2>2
<1>6. ASSUME \E b \in Branches : DropBranch(b) PROVE Typed
  <2>1. PICK b \in Branches : DropBranch(b)
    BY <1>6
  <2>2. tree' = tree /\ tracking' = tracking /\ remote' = remote
    BY <2>1 DEF DropBranch
  <2>3. refs' \in [Branches -> Heads]
    BY <1>1, <2>1, HistoryTypes DEF DropBranch
  <2> QED BY <1>1, <1>4, <2>2, <2>3
<1>7. ASSUME \E b \in Branches, p \in Paths : AddTree(p, b) PROVE Typed
  <2>1. PICK b \in Branches, p \in Paths : AddTree(p, b)
    BY <1>7
  <2>2. PICK t \in Tree : t = Checkout(b, {}) /\ t.on = b
    BY NewTree
  <2>3. /\ tree' = [tree EXCEPT ![p] = t] /\ On(t.on) \subseteq {p} /\ t \in Tree \cup {NoTree}
        /\ refs' = refs /\ tracking' = tracking /\ remote' = remote
    BY <2>1, <2>2 DEF AddTree
  <2>4. tree' \in [Paths -> Tree \cup {NoTree}] /\ OneTreeEach'
    BY <2>3, TreeUpdate
  <2> QED BY <1>1, <2>3, <2>4
<1>8. ASSUME \E b \in {"main", "topic"}, c \in Heads : OnRemote(b, c) PROVE Typed
  <2>1. PICK b \in {"main", "topic"}, c \in Heads : OnRemote(b, c)
    BY <1>8
  <2>2. tree' = tree /\ refs' = refs /\ tracking' = tracking
    BY <2>1 DEF OnRemote
  <2>3. remote' \in [{"main", "topic"} -> Heads]
    BY <1>1, <2>1 DEF OnRemote
  <2> QED BY <1>1, <1>4, <2>2, <2>3
<1>9. MergeElsewhere \/ ForcePush \/ PushTopic \/ RemoteDrops =>
        \E b \in {"main", "topic"}, c \in Heads : OnRemote(b, c)
  <2>1. MergeElsewhere => remote["main"] + 1 \in Heads
    BY RepositoryAssumption DEF MergeElsewhere, Heads, Commits, Canonical
  <2> QED BY <2>1, HistoryTypes DEF MergeElsewhere, ForcePush, PushTopic, RemoteDrops
<1>12. ASSUME \E p \in Registered : ResetIn(p) PROVE Typed
  BY <1>1, <1>12, ResetKeeps
<1>13. ASSUME ForceMain PROVE Typed
  <2>1. tree' = tree /\ tracking' = tracking /\ remote' = remote
    BY <1>13 DEF ForceMain
  <2>2. refs' \in [Branches -> Heads]
    BY <1>1, <1>13 DEF ForceMain
  <2> QED BY <1>1, <1>4, <2>1, <2>2
<1>10. \/ SomebodyInTree \/ FetchAll \/ ForceMain \/ (\E p \in Registered : ResetIn(p))
       \/ (\E b \in Branches : DropBranch(b)) \/ (\E b \in Branches, p \in Paths : AddTree(p, b))
       \/ \E b \in {"main", "topic"}, c \in Heads : OnRemote(b, c)
  BY <1>9 DEF Somebody
<1>11. faults' \in 0..MaxFaults
  BY <1>1, <1>2
<1> QED BY <1>2, <1>3, <1>5, <1>6, <1>7, <1>8, <1>10, <1>11, <1>12, <1>13

--------------------------------------------------------------------------------
(***************************************************************************)
(* The records of the scripts with other values in some of their fields.   *)
(***************************************************************************)
TreesSeen ==
  [Paths -> {NoTree} \cup [on : Branches \cup {"detached"}, head : Heads]]
BaseSeen == [topic : Heads, other : Heads]

LEMMA PlanFields ==
  ASSUME NEW d \in PlanType
  PROVE  /\ d.main \in Heads /\ d.trees \in TreesSeen /\ d.topic \in Heads
         /\ d.target \in SUBSET Paths /\ d.canonical \in SUBSET Paths
         /\ d.remote \in Heads /\ d.base \in BaseSeen
         /\ d = [main |-> d.main, trees |-> d.trees, topic |-> d.topic, target |-> d.target,
                 canonical |-> d.canonical, remote |-> d.remote, base |-> d.base]
         /\ PlanType = [main : Heads, trees : TreesSeen, topic : Heads, target : SUBSET Paths,
                        canonical : SUBSET Paths, remote : Heads, base : BaseSeen]
BY DEF PlanType, TreesSeen, BaseSeen

LEMMA RunFields ==
  ASSUME NEW d \in RunType
  PROVE  /\ d.cwd \in Paths /\ d.execute \in BOOLEAN /\ d.delete \in BOOLEAN
         /\ d.again \in BOOLEAN /\ d.effects \in BOOLEAN /\ d.main \in Heads
         /\ d.checked \in 0..MaxActs /\ d.scanned \in 0..MaxActs
         /\ d = [cwd |-> d.cwd, execute |-> d.execute, delete |-> d.delete, again |-> d.again,
                 effects |-> d.effects, main |-> d.main, checked |-> d.checked,
                 scanned |-> d.scanned]
         /\ RunType = [cwd : Paths, execute : BOOLEAN, delete : BOOLEAN, again : BOOLEAN,
                       effects : BOOLEAN, main : Heads, checked : 0..MaxActs,
                       scanned : 0..MaxActs]
BY DEF RunType

LEMMA CoFields ==
  ASSUME NEW d \in CoType
  PROVE  /\ d.cwd \in Paths /\ d.canonical \in SUBSET Paths /\ d.seen \in Heads
         /\ d.chosen \in 0..MaxActs /\ d.looked \in 0..MaxActs
         /\ d.synced \in 0..MaxActs /\ d.verified \in 0..MaxActs
         /\ d = [cwd |-> d.cwd, canonical |-> d.canonical, seen |-> d.seen,
                 chosen |-> d.chosen, looked |-> d.looked, synced |-> d.synced,
                 verified |-> d.verified]
         /\ CoType = [cwd : Paths, canonical : SUBSET Paths, seen : Heads,
                      chosen : 0..MaxActs, looked : 0..MaxActs, synced : 0..MaxActs,
                      verified : 0..MaxActs]
BY DEF CoType

LEMMA PlanMain ==
  ASSUME NEW d \in PlanType, NEW c \in Heads
  PROVE  \E q \in PlanType : q = [d EXCEPT !.main = c]
           /\ q.main = c /\ q.trees = d.trees /\ q.topic = d.topic /\ q.target = d.target
           /\ q.canonical = d.canonical /\ q.remote = d.remote /\ q.base = d.base
<1>1. [d EXCEPT !.main = c] =
        [main |-> c, trees |-> d.trees, topic |-> d.topic, target |-> d.target,
         canonical |-> d.canonical, remote |-> d.remote, base |-> d.base]
  BY PlanFields
<1> QED BY <1>1, PlanFields

WithTrees(d, t, a, b) ==
  [d EXCEPT !.trees = t, !.target = a, !.canonical = b]
LEMMA PlanTrees ==
  ASSUME NEW d \in PlanType, NEW t \in TreesSeen, NEW a \in SUBSET Paths, NEW b \in SUBSET Paths
  PROVE  \E q \in PlanType : q = WithTrees(d, t, a, b)
           /\ q.main = d.main /\ q.trees = t /\ q.topic = d.topic /\ q.target = a
           /\ q.canonical = b /\ q.remote = d.remote /\ q.base = d.base
<1>1. PICK e1 : e1 =
        [main |-> d.main, trees |-> t, topic |-> d.topic, target |-> d.target,
         canonical |-> d.canonical, remote |-> d.remote, base |-> d.base]
  OBVIOUS
<1>2. [d EXCEPT !.trees = t] = e1
  BY <1>1, PlanFields
<1>3. PICK e2 : e2 =
        [main |-> d.main, trees |-> t, topic |-> d.topic, target |-> a,
         canonical |-> d.canonical, remote |-> d.remote, base |-> d.base]
  OBVIOUS
<1>4. [e1 EXCEPT !.target = a] = e2
  BY <1>3, <1>1, PlanFields
<1>5. PICK e3 : e3 =
        [main |-> d.main, trees |-> t, topic |-> d.topic, target |-> a, canonical |-> b,
         remote |-> d.remote, base |-> d.base]
  OBVIOUS
<1>6. [e2 EXCEPT !.canonical = b] = e3
  BY <1>5, <1>3, PlanFields
<1>7. [d EXCEPT !.trees = t, !.target = a, !.canonical = b] = e3
  BY <1>2, <1>4, <1>6
<1>8. [d EXCEPT !.trees = t, !.target = a, !.canonical = b] =
        [main |-> d.main, trees |-> t, topic |-> d.topic, target |-> a, canonical |-> b,
         remote |-> d.remote, base |-> d.base]
  BY <1>7, <1>5
<1> QED BY <1>8, PlanFields DEF WithTrees

LEMMA PlanTopic ==
  ASSUME NEW d \in PlanType, NEW c \in Heads
  PROVE  \E q \in PlanType : q = [d EXCEPT !.topic = c]
           /\ q.main = d.main /\ q.trees = d.trees /\ q.topic = c /\ q.target = d.target
           /\ q.canonical = d.canonical /\ q.remote = d.remote /\ q.base = d.base
<1>1. [d EXCEPT !.topic = c] =
        [main |-> d.main, trees |-> d.trees, topic |-> c, target |-> d.target,
         canonical |-> d.canonical, remote |-> d.remote, base |-> d.base]
  BY PlanFields
<1> QED BY <1>1, PlanFields

LEMMA PlanRemote ==
  ASSUME NEW d \in PlanType, NEW c \in Heads
  PROVE  \E q \in PlanType : q = [d EXCEPT !.remote = c]
           /\ q.main = d.main /\ q.trees = d.trees /\ q.topic = d.topic /\ q.target = d.target
           /\ q.canonical = d.canonical /\ q.remote = c /\ q.base = d.base
<1>1. [d EXCEPT !.remote = c] =
        [main |-> d.main, trees |-> d.trees, topic |-> d.topic, target |-> d.target,
         canonical |-> d.canonical, remote |-> c, base |-> d.base]
  BY PlanFields
<1> QED BY <1>1, PlanFields

LEMMA PlanBase ==
  ASSUME NEW d \in PlanType, NEW b \in BaseSeen
  PROVE  \E q \in PlanType : q = [d EXCEPT !.base = b]
           /\ q.main = d.main /\ q.trees = d.trees /\ q.topic = d.topic /\ q.target = d.target
           /\ q.canonical = d.canonical /\ q.remote = d.remote /\ q.base = b
<1>1. [d EXCEPT !.base = b] =
        [main |-> d.main, trees |-> d.trees, topic |-> d.topic, target |-> d.target,
         canonical |-> d.canonical, remote |-> d.remote, base |-> b]
  BY PlanFields
<1> QED BY <1>1, PlanFields

LEMMA RunAgain ==
  ASSUME NEW d \in RunType, NEW x \in BOOLEAN
  PROVE  \E q \in RunType : q = [d EXCEPT !.again = x]
           /\ q.cwd = d.cwd /\ q.execute = d.execute /\ q.delete = d.delete /\ q.again = x
           /\ q.effects = d.effects /\ q.main = d.main /\ q.checked = d.checked /\ q.scanned = d.scanned
<1>1. [d EXCEPT !.again = x] =
        [cwd |-> d.cwd, execute |-> d.execute, delete |-> d.delete, again |-> x,
         effects |-> d.effects, main |-> d.main, checked |-> d.checked,
         scanned |-> d.scanned]
  BY RunFields
<1> QED BY <1>1, RunFields

LEMMA RunCwd ==
  ASSUME NEW d \in RunType, NEW p \in Paths
  PROVE  \E q \in RunType : q = [d EXCEPT !.cwd = p]
           /\ q.cwd = p /\ q.execute = d.execute /\ q.delete = d.delete /\ q.again = d.again
           /\ q.effects = d.effects /\ q.main = d.main /\ q.checked = d.checked /\ q.scanned = d.scanned
<1>1. [d EXCEPT !.cwd = p] =
        [cwd |-> p, execute |-> d.execute, delete |-> d.delete, again |-> d.again,
         effects |-> d.effects, main |-> d.main, checked |-> d.checked,
         scanned |-> d.scanned]
  BY RunFields
<1> QED BY <1>1, RunFields

WithChecked(d, x, n) ==
  [d EXCEPT !.effects = x, !.checked = n]
LEMMA RunChecked ==
  ASSUME NEW d \in RunType, NEW x \in BOOLEAN, NEW n \in 0..MaxActs
  PROVE  \E q \in RunType : q = WithChecked(d, x, n)
           /\ q.cwd = d.cwd /\ q.execute = d.execute /\ q.delete = d.delete /\ q.again = d.again
           /\ q.effects = x /\ q.main = d.main /\ q.checked = n /\ q.scanned = d.scanned
<1>1. PICK e1 : e1 =
        [cwd |-> d.cwd, execute |-> d.execute, delete |-> d.delete, again |-> d.again,
         effects |-> x, main |-> d.main, checked |-> d.checked, scanned |-> d.scanned]
  OBVIOUS
<1>2. [d EXCEPT !.effects = x] = e1
  BY <1>1, RunFields
<1>3. PICK e2 : e2 =
        [cwd |-> d.cwd, execute |-> d.execute, delete |-> d.delete, again |-> d.again,
         effects |-> x, main |-> d.main, checked |-> n, scanned |-> d.scanned]
  OBVIOUS
<1>4. [e1 EXCEPT !.checked = n] = e2
  BY <1>3, <1>1, RunFields
<1>5. [d EXCEPT !.effects = x, !.checked = n] = e2
  BY <1>2, <1>4
<1>6. [d EXCEPT !.effects = x, !.checked = n] =
        [cwd |-> d.cwd, execute |-> d.execute, delete |-> d.delete, again |-> d.again,
         effects |-> x, main |-> d.main, checked |-> n, scanned |-> d.scanned]
  BY <1>5, <1>3
<1> QED BY <1>6, RunFields DEF WithChecked

LEMMA RunScanned ==
  ASSUME NEW d \in RunType, NEW n \in 0..MaxActs
  PROVE  \E q \in RunType : q = [d EXCEPT !.scanned = n]
           /\ q.cwd = d.cwd /\ q.execute = d.execute /\ q.delete = d.delete /\ q.again = d.again
           /\ q.effects = d.effects /\ q.main = d.main /\ q.checked = d.checked /\ q.scanned = n
<1>1. [d EXCEPT !.scanned = n] =
        [cwd |-> d.cwd, execute |-> d.execute, delete |-> d.delete, again |-> d.again,
         effects |-> d.effects, main |-> d.main, checked |-> d.checked, scanned |-> n]
  BY RunFields
<1> QED BY <1>1, RunFields

LEMMA RunEffects ==
  ASSUME NEW d \in RunType, NEW x \in BOOLEAN
  PROVE  \E q \in RunType : q = [d EXCEPT !.effects = x]
           /\ q.cwd = d.cwd /\ q.execute = d.execute /\ q.delete = d.delete /\ q.again = d.again
           /\ q.effects = x /\ q.main = d.main /\ q.checked = d.checked /\ q.scanned = d.scanned
<1>1. [d EXCEPT !.effects = x] =
        [cwd |-> d.cwd, execute |-> d.execute, delete |-> d.delete, again |-> d.again,
         effects |-> x, main |-> d.main, checked |-> d.checked, scanned |-> d.scanned]
  BY RunFields
<1> QED BY <1>1, RunFields

WithMain(d, c, n) ==
  [d EXCEPT !.main = c, !.checked = n]
LEMMA RunMain ==
  ASSUME NEW d \in RunType, NEW c \in Heads, NEW n \in 0..MaxActs
  PROVE  \E q \in RunType : q = WithMain(d, c, n)
           /\ q.cwd = d.cwd /\ q.execute = d.execute /\ q.delete = d.delete /\ q.again = d.again
           /\ q.effects = d.effects /\ q.main = c /\ q.checked = n /\ q.scanned = d.scanned
<1>1. PICK e1 : e1 =
        [cwd |-> d.cwd, execute |-> d.execute, delete |-> d.delete, again |-> d.again,
         effects |-> d.effects, main |-> c, checked |-> d.checked, scanned |-> d.scanned]
  OBVIOUS
<1>2. [d EXCEPT !.main = c] = e1
  BY <1>1, RunFields
<1>3. PICK e2 : e2 =
        [cwd |-> d.cwd, execute |-> d.execute, delete |-> d.delete, again |-> d.again,
         effects |-> d.effects, main |-> c, checked |-> n, scanned |-> d.scanned]
  OBVIOUS
<1>4. [e1 EXCEPT !.checked = n] = e2
  BY <1>3, <1>1, RunFields
<1>5. [d EXCEPT !.main = c, !.checked = n] = e2
  BY <1>2, <1>4
<1>6. [d EXCEPT !.main = c, !.checked = n] =
        [cwd |-> d.cwd, execute |-> d.execute, delete |-> d.delete, again |-> d.again,
         effects |-> d.effects, main |-> c, checked |-> n, scanned |-> d.scanned]
  BY <1>5, <1>3
<1> QED BY <1>6, RunFields DEF WithMain

LEMMA CoCwd ==
  ASSUME NEW d \in CoType, NEW p \in Paths
  PROVE  \E q \in CoType : q = [d EXCEPT !.cwd = p]
           /\ q.cwd = p /\ q.canonical = d.canonical /\ q.seen = d.seen /\ q.chosen = d.chosen
           /\ q.looked = d.looked /\ q.synced = d.synced
           /\ q.verified = d.verified
<1>1. [d EXCEPT !.cwd = p] =
        [cwd |-> p, canonical |-> d.canonical, seen |-> d.seen, chosen |-> d.chosen,
         looked |-> d.looked, synced |-> d.synced, verified |-> d.verified]
  BY CoFields
<1> QED BY <1>1, CoFields

LEMMA CoSeen ==
  ASSUME NEW d \in CoType, NEW c \in Heads
  PROVE  \E q \in CoType : q = [d EXCEPT !.seen = c]
           /\ q.cwd = d.cwd /\ q.canonical = d.canonical /\ q.seen = c /\ q.chosen = d.chosen
           /\ q.looked = d.looked /\ q.synced = d.synced
           /\ q.verified = d.verified
<1>1. [d EXCEPT !.seen = c] =
        [cwd |-> d.cwd, canonical |-> d.canonical, seen |-> c, chosen |-> d.chosen,
         looked |-> d.looked, synced |-> d.synced, verified |-> d.verified]
  BY CoFields
<1> QED BY <1>1, CoFields

WithCanonical(d, s, n) ==
  [d EXCEPT !.canonical = s, !.chosen = n]
LEMMA CoChosen ==
  ASSUME NEW d \in CoType, NEW s \in SUBSET Paths, NEW n \in 0..MaxActs
  PROVE  \E q \in CoType : q = WithCanonical(d, s, n)
           /\ q.cwd = d.cwd /\ q.canonical = s /\ q.seen = d.seen /\ q.chosen = n
           /\ q.looked = d.looked /\ q.synced = d.synced
           /\ q.verified = d.verified
<1>1. PICK e1 : e1 =
        [cwd |-> d.cwd, canonical |-> s, seen |-> d.seen, chosen |-> d.chosen,
         looked |-> d.looked, synced |-> d.synced, verified |-> d.verified]
  OBVIOUS
<1>2. [d EXCEPT !.canonical = s] = e1
  BY <1>1, CoFields
<1>3. PICK e2 : e2 =
        [cwd |-> d.cwd, canonical |-> s, seen |-> d.seen, chosen |-> n,
         looked |-> d.looked, synced |-> d.synced, verified |-> d.verified]
  OBVIOUS
<1>4. [e1 EXCEPT !.chosen = n] = e2
  BY <1>3, <1>1, CoFields
<1>5. [d EXCEPT !.canonical = s, !.chosen = n] = e2
  BY <1>2, <1>4
<1>6. [d EXCEPT !.canonical = s, !.chosen = n] =
        [cwd |-> d.cwd, canonical |-> s, seen |-> d.seen, chosen |-> n,
         looked |-> d.looked, synced |-> d.synced, verified |-> d.verified]
  BY <1>5, <1>3
<1> QED BY <1>6, CoFields DEF WithCanonical

LEMMA CoLooked ==
  ASSUME NEW d \in CoType, NEW n \in 0..MaxActs
  PROVE  \E q \in CoType : q = [d EXCEPT !.looked = n]
           /\ q.cwd = d.cwd /\ q.canonical = d.canonical /\ q.seen = d.seen /\ q.chosen = d.chosen
           /\ q.looked = n /\ q.synced = d.synced
           /\ q.verified = d.verified
<1>1. [d EXCEPT !.looked = n] =
        [cwd |-> d.cwd, canonical |-> d.canonical, seen |-> d.seen, chosen |-> d.chosen,
         looked |-> n, synced |-> d.synced, verified |-> d.verified]
  BY CoFields
<1> QED BY <1>1, CoFields

LEMMA CoSynced ==
  ASSUME NEW d \in CoType, NEW n \in 0..MaxActs
  PROVE  \E q \in CoType : q = [d EXCEPT !.synced = n]
           /\ q.cwd = d.cwd /\ q.canonical = d.canonical /\ q.seen = d.seen /\ q.chosen = d.chosen
           /\ q.looked = d.looked /\ q.synced = n /\ q.verified = d.verified
<1>1. [d EXCEPT !.synced = n] =
        [cwd |-> d.cwd, canonical |-> d.canonical, seen |-> d.seen, chosen |-> d.chosen,
         looked |-> d.looked, synced |-> n, verified |-> d.verified]
  BY CoFields
<1> QED BY <1>1, CoFields

WithSeen(d, c, n) ==
  [d EXCEPT !.seen = c, !.verified = n]
LEMMA CoVerified ==
  ASSUME NEW d \in CoType, NEW c \in Heads, NEW n \in 0..MaxActs
  PROVE  \E q \in CoType : q = WithSeen(d, c, n)
           /\ q.cwd = d.cwd /\ q.canonical = d.canonical /\ q.seen = c /\ q.chosen = d.chosen
           /\ q.looked = d.looked /\ q.synced = d.synced
           /\ q.verified = n
<1>1. PICK e1 : e1 =
        [cwd |-> d.cwd, canonical |-> d.canonical, seen |-> c, chosen |-> d.chosen,
         looked |-> d.looked, synced |-> d.synced, verified |-> d.verified]
  OBVIOUS
<1>2. [d EXCEPT !.seen = c] = e1
  BY <1>1, CoFields
<1>3. PICK e2 : e2 =
        [cwd |-> d.cwd, canonical |-> d.canonical, seen |-> c, chosen |-> d.chosen,
         looked |-> d.looked, synced |-> d.synced, verified |-> n]
  OBVIOUS
<1>4. [e1 EXCEPT !.verified = n] = e2
  BY <1>3, <1>1, CoFields
<1>5. [d EXCEPT !.seen = c, !.verified = n] = e2
  BY <1>2, <1>4
<1>6. [d EXCEPT !.seen = c, !.verified = n] =
        [cwd |-> d.cwd, canonical |-> d.canonical, seen |-> c, chosen |-> d.chosen,
         looked |-> d.looked, synced |-> d.synced, verified |-> n]
  BY <1>5, <1>3
<1> QED BY <1>6, CoFields DEF WithSeen

--------------------------------------------------------------------------------
(***************************************************************************)
(* The repository a script finds first, and what reading leaves of it.     *)
(***************************************************************************)
LEMMA RecordOfBranches ==
  ASSUME NEW S, NEW r \in [main : S, topic : S, other : S]
  PROVE  r \in [Branches -> S]
<1>1. r = [main |-> r.main, topic |-> r.topic, other |-> r.other]
      /\ r.main \in S /\ r.topic \in S /\ r.other \in S
  OBVIOUS
<1>2. r = [b \in Branches |-> r[b]]
  BY <1>1 DEF Branches
<1> QED BY <1>1, <1>2 DEF Branches

LEMMA RecordOfRemotes ==
  ASSUME NEW S, NEW r \in [main : S, topic : S]
  PROVE  r \in [{"main", "topic"} -> S]
<1>1. r = [main |-> r.main, topic |-> r.topic] /\ r.main \in S /\ r.topic \in S
  OBVIOUS
<1>2. r = [b \in {"main", "topic"} |-> r[b]]
  BY <1>1
<1> QED BY <1>1, <1>2

LEMMA FirstCommits == 0 \in Heads /\ 1 \in Heads /\ 1 \in 1..MaxMain
BY RepositoryAssumption DEF Heads, Commits, Canonical

LEMMA FirstTrees ==
  ASSUME NEW b \in Branches, NEW r \in {{}, {"disposable"}}
  PROVE  Checkout(b, r) \in Tree /\ Checkout(b, r).on = b /\ Checkout(b, r).at = NoCommit
BY DEF Checkout, Tree, Residues

LEMMA RepositoryStart ==
  ASSUME RepositoryInit
  PROVE  RepoInv
<1>1. 0 \in Heads /\ 1 \in Heads /\ NoCommit \in Heads /\ Own \in Heads /\ Head \in Heads
  BY FirstCommits, HistoryTypes
<1>2. refs \in [Branches -> Heads]
  <2>1. refs \in [main : Heads, topic : Heads, other : Heads]
    BY <1>1 DEF RepositoryInit
  <2> QED BY <2>1, RecordOfBranches
<1>3. tracking \in [{"main", "topic"} -> Heads] /\ tracking["main"] = 0
  <2>1. tracking \in [main : Heads, topic : Heads] /\ tracking["main"] = 0
    BY <1>1 DEF RepositoryInit
  <2> QED BY <2>1, RecordOfRemotes
<1>4. remote \in [{"main", "topic"} -> Heads] /\ remote["main"] = 1
  <2>1. remote \in [main : Heads, topic : Heads] /\ remote["main"] = 1
    BY <1>1 DEF RepositoryInit
  <2> QED BY <2>1, RecordOfRemotes
<1>5. tree \in [Paths -> Tree \cup {NoTree}]
      /\ \A p \in Registered : tree[p].on \in Branches /\ tree[p].at = NoCommit
  BY FirstTrees DEF RepositoryInit, Registered
<1>6. acts \in 0..MaxActs /\ faults \in 0..MaxFaults
  BY RepositoryAssumption DEF RepositoryInit
<1>7. RepositoryTypeOK
  BY <1>2, <1>3, <1>4, <1>5, <1>6 DEF RepositoryTypeOK, Heads
<1>8. OneTreeEach
  BY DEF OneTreeEach, RepositoryInit
<1> QED BY <1>7, <1>8 DEF RepoInv

Counted == acts' \in 0..MaxActs /\ faults' \in 0..MaxFaults

LEMMA LookingKeeps ==
  ASSUME RepositoryTypeOK, OneTreeEach, Looks, Counted
  PROVE  RepositoryTypeOK' /\ OneTreeEach'
BY DEF RepositoryTypeOK, OneTreeEach, Registered, Looks, Counted

LEMMA FetchingKeeps ==
  ASSUME RepositoryTypeOK, OneTreeEach, FetchMain, UNCHANGED <<refs, remote, tree>>, Counted
  PROVE  /\ RepositoryTypeOK' /\ OneTreeEach' /\ remote["main"] \in Heads
         /\ tracking'["main"] = remote["main"] /\ remote'["main"] = remote["main"]
<1>1. tracking \in [{"main", "topic"} -> Heads] /\ remote["main"] \in Heads
  BY DEF RepositoryTypeOK, Heads
<1>2. tracking' \in [{"main", "topic"} -> Heads] /\ tracking'["main"] = remote["main"]
  BY <1>1 DEF FetchMain
<1>3. OneTreeEach'
  BY DEF OneTreeEach, Registered
<1> QED BY <1>1, <1>2, <1>3 DEF RepositoryTypeOK, Heads, Counted

LEMMA FaultsCount ==
  ASSUME RepositoryTypeOK, NEW f, Fault(f)
  PROVE  Counted /\ acts' = acts
BY RepositoryAssumption DEF RepositoryTypeOK, Fault, Counted

LEMMA NothingCounts ==
  ASSUME RepositoryTypeOK, UNCHANGED <<faults, acts>>
  PROVE  Counted
BY DEF RepositoryTypeOK, Counted

--------------------------------------------------------------------------------
(***************************************************************************)
(* The cleanup, step by step.                                              *)
(***************************************************************************)
Verdicts == {"refused", "incomplete", "blocked"}

LEMMA VerdictIs == Verdict \in Verdicts
BY DEF Verdict, Verdicts

LEMMA TargetIs ==
  ASSUME RunOK, plan.target # {}
  PROVE  Target \in Paths /\ plan.target = {Target}
<1>1. plan.target \in SUBSET Paths /\ Cardinality(plan.target) <= 1
  <2>1. PICK d \in PlanType : plan = d
    BY DEF RunOK
  <2> QED BY <2>1, PlanFields DEF RunOK
<1>2. \E p \in Paths : plan.target = {p}
  BY <1>1, AtMostOne
<1> QED BY <1>2 DEF Target

\* Between the plan and the postconditions there is nothing yet that a step
\* could make untrue; a run that ended without PASS has said nothing.
Seeing == {"disposable", "remove", "forward", "postregistry", "posttopic", "postremote",
           "postrefs"}
LEMMA NothingSeen ==
  ASSUME pc' \notin Seeing, result' # "pass"
  PROVE  Retires' /\ Verified'
BY DEF Seeing, Retires, Verified, Passed

LEMMA CleanupStarts ==
  ASSUME CleanupInit
  PROVE  CleanupInv
<1>1. RepositoryTypeOK /\ OneTreeEach
  BY RepositoryStart DEF CleanupInit, RepoInv
<1>2. pc = "idle" /\ result = "none"
  BY DEF CleanupInit
<1>3. plan \in PlanType /\ plan.target = {} /\ plan.canonical = {}
  <2>1. [p \in Paths |-> NoTree] \in TreesSeen
    BY DEF TreesSeen
  <2>2. [topic |-> NoCommit, other |-> NoCommit] \in BaseSeen
    BY HistoryTypes DEF BaseSeen
  <2>3. plan = NoPlan
    BY DEF CleanupInit
  <2> QED BY <2>1, <2>2, <2>3, HistoryTypes DEF NoPlan, PlanType, TreesSeen, BaseSeen
<1>4. run \in RunType /\ run.checked = 0 /\ run.scanned = 0
  BY RepositoryAssumption, HistoryTypes DEF CleanupInit, RunType
<1>5. Cardinality(plan.target) <= 1 /\ Cardinality(plan.canonical) <= 1
  BY <1>3, FS_EmptySet
<1>6. acts = 0
  BY DEF CleanupInit, RepositoryInit
<1>7. RunOK
  BY <1>2, <1>3, <1>4, <1>5, <1>6 DEF RunOK, CleanupStates
<1>8. Placed /\ Retires /\ Verified
  BY <1>2 DEF Placed, Retires, Verified, Passed, Effects
<1> QED BY <1>1, <1>7, <1>8 DEF CleanupInv

LEMMA NoPlanFields ==
  NoPlan \in PlanType /\ NoPlan.target = {} /\ NoPlan.canonical = {}
<1>1. [p \in Paths |-> NoTree] \in TreesSeen
  BY DEF TreesSeen
<1>2. [topic |-> NoCommit, other |-> NoCommit] \in BaseSeen
  BY HistoryTypes DEF BaseSeen
<1> QED BY <1>1, <1>2, HistoryTypes DEF NoPlan, PlanType, TreesSeen, BaseSeen

\* A step of a run goes on or ends it with something other than PASS.
GoesOn(S) ==
  \/ pc' \in S /\ result' = result
  \/ pc' = "idle" /\ result' \in Verdicts \cup {"planned", "died"}

LEMMA RunStep ==
  ASSUME RunOK, pc # "idle", GoesOn(CleanupStates \ {"idle"}), acts' = acts,
         plan' \in PlanType, run' \in RunType,
         Cardinality(plan'.target) <= 1, Cardinality(plan'.canonical) <= 1,
         acts >= run'.checked, acts >= run'.scanned
  PROVE  RunOK' /\ result' # "pass"
<1>1. result = "none"
  BY DEF RunOK
<1>2. pc' \in CleanupStates /\ (pc' # "idle" => result' = "none") /\ result' # "pass"
  BY <1>1 DEF GoesOn, CleanupStates, Verdicts
<1>3. result' \in {"none", "refused", "planned", "blocked", "incomplete", "died", "pass"}
  BY <1>1 DEF GoesOn, Verdicts
<1> QED BY <1>2, <1>3 DEF RunOK

\* Where only the step and the answer change.
LEMMA MerelyGoesOn ==
  ASSUME RunOK, pc # "idle", GoesOn(CleanupStates \ {"idle"}),
         UNCHANGED <<run, plan, acts>>
  PROVE  RunOK' /\ result' # "pass"
<1>1. PICK d \in PlanType, r \in RunType : plan = d /\ run = r
  BY DEF RunOK
<1>2. /\ plan' \in PlanType /\ run' \in RunType
      /\ Cardinality(plan'.target) <= 1 /\ Cardinality(plan'.canonical) <= 1
      /\ acts >= run'.checked /\ acts >= run'.scanned
  BY <1>1 DEF RunOK
<1> QED BY <1>2, RunStep

LEMMA EitherGoesOn ==
  ASSUME NEW ok, NEW s \in CleanupStates \ {"idle"}, Either(ok, s)
  PROVE  /\ GoesOn(CleanupStates \ {"idle"})
         /\ \/ pc' = s /\ ok /\ result' = result
            \/ pc' = "idle" /\ ~ok
BY VerdictIs DEF Either, Goes, GoesOn, Verdicts

LEMMA BeginKeeps ==
  ASSUME RepositoryTypeOK, OneTreeEach, Begin
  PROVE  CleanupInv'
<1>1. PICK p \in Paths, x \in BOOLEAN, y \in BOOLEAN :
        run' = [cwd |-> p, execute |-> x, delete |-> y, again |-> FALSE, effects |-> FALSE,
                main |-> NoCommit, checked |-> 0, scanned |-> 0]
  BY DEF Begin
<1>2. run' \in RunType /\ run'.checked = 0 /\ run'.scanned = 0
  BY <1>1, RepositoryAssumption, HistoryTypes DEF RunType
<1>3. plan' \in PlanType /\ plan'.target = {} /\ plan'.canonical = {}
  BY NoPlanFields DEF Begin
<1>4. pc' = "fetch" /\ result' = "none" /\ UNCHANGED repoVars
  BY DEF Begin
<1>5. RepositoryTypeOK' /\ OneTreeEach'
  BY <1>4 DEF RepositoryTypeOK, OneTreeEach, Registered, repoVars
<1>6. acts' \in 0..MaxActs
  BY <1>5 DEF RepositoryTypeOK
<1>7. RunOK'
  BY <1>2, <1>3, <1>4, <1>6, FS_EmptySet DEF RunOK, CleanupStates
<1>8. Placed'
  BY <1>4 DEF Placed, Effects
<1>9. Retires' /\ Verified'
  BY <1>4, NothingSeen DEF Seeing
<1> QED BY <1>5, <1>7, <1>8, <1>9 DEF CleanupInv

LEMMA FetchKeeps ==
  ASSUME CleanupInv, Fetch
  PROVE  CleanupInv'
<1>1. /\ pc = "fetch" /\ pc' = "registry" /\ result' = result /\ run' = run
      /\ UNCHANGED <<acts, faults>>
  BY DEF Fetch, At, Goes
<1>2. RepositoryTypeOK' /\ OneTreeEach' /\ remote["main"] \in Heads
  BY <1>1, FetchingKeeps, NothingCounts DEF CleanupInv, Fetch
<1>3. PICK q \in PlanType : q = [NoPlan EXCEPT !.main = remote["main"]]
                            /\ q.target = {} /\ q.canonical = {}
  BY <1>2, NoPlanFields, PlanMain
<1>4. plan' = q
  BY <1>3 DEF Fetch
<1>5. PICK r \in RunType : run = r /\ acts >= r.checked /\ acts >= r.scanned
  BY DEF CleanupInv, RunOK
<1>6. RunOK' /\ result' # "pass"
  <2>1. GoesOn(CleanupStates \ {"idle"})
    BY <1>1 DEF GoesOn, CleanupStates
  <2>2. /\ plan' \in PlanType /\ run' \in RunType
        /\ Cardinality(plan'.target) <= 1 /\ Cardinality(plan'.canonical) <= 1
        /\ acts >= run'.checked /\ acts >= run'.scanned
    BY <1>1, <1>3, <1>4, <1>5, FS_EmptySet
  <2> QED BY <1>1, <2>1, <2>2, RunStep DEF CleanupInv
<1>7. Placed'
  BY <1>1 DEF Placed, Effects
<1>8. Retires' /\ Verified'
  BY <1>1, <1>6, NothingSeen DEF Seeing
<1> QED BY <1>2, <1>6, <1>7, <1>8 DEF CleanupInv

LEMMA RegistrySeen ==
  ASSUME RepositoryTypeOK
  PROVE  Registry \in TreesSeen
<1>1. \A p \in Paths : (IF tree[p] = NoTree THEN NoTree ELSE [on |-> tree[p].on, head |-> HeadOf(p)])
                       \in {NoTree} \cup [on : Branches \cup {"detached"}, head : Heads]
  <2> TAKE p \in Paths
  <2>1. CASE tree[p] # NoTree
    <3>1. p \in Registered
      BY <2>1 DEF Registered
    <3>2. PICK d \in Tree : tree[p] = d
      BY <3>1, RegisteredTree
    <3>3. PICK h \in Heads : h = HeadOf(p)
      BY <3>1, HeadsOf
    <3> QED BY <2>1, <3>2, <3>3, TreeFields
  <2> QED BY <2>1
<1> QED BY <1>1 DEF Registry, TreesSeen

LEMMA ReadRegistryKeeps ==
  ASSUME CleanupInv, ReadRegistry
  PROVE  CleanupInv'
<1>1. /\ pc = "registry" /\ pc' = "topic" /\ result' = result /\ run' = run
      /\ UNCHANGED <<acts, faults>> /\ Looks
  BY DEF ReadRegistry, At, Goes
<1>2. RepositoryTypeOK' /\ OneTreeEach'
  BY <1>1, LookingKeeps, NothingCounts DEF CleanupInv
<1>3. PICK d \in PlanType : plan = d
  BY DEF CleanupInv, RunOK
<1>4. /\ Cardinality(On("topic")) <= 1 /\ On("topic") \in SUBSET Paths
      /\ Cardinality(On("main")) <= 1 /\ On("main") \in SUBSET Paths
  BY BranchOnce DEF CleanupInv, Branches
<1>5. PICK t \in TreesSeen : t = Registry
  BY RegistrySeen DEF CleanupInv
<1>6. PICK q \in PlanType : q = WithTrees(d, t, On("topic"), On("main"))
                            /\ q.target = On("topic") /\ q.canonical = On("main")
  BY <1>4, PlanTrees
<1>7. plan' = q
  BY <1>3, <1>5, <1>6 DEF ReadRegistry, WithTrees
<1>8. PICK r \in RunType : run = r /\ acts >= r.checked /\ acts >= r.scanned
  BY DEF CleanupInv, RunOK
<1>9. RunOK' /\ result' # "pass"
  <2>1. GoesOn(CleanupStates \ {"idle"})
    BY <1>1 DEF GoesOn, CleanupStates
  <2>2. /\ plan' \in PlanType /\ run' \in RunType
        /\ Cardinality(plan'.target) <= 1 /\ Cardinality(plan'.canonical) <= 1
        /\ acts >= run'.checked /\ acts >= run'.scanned
    BY <1>1, <1>4, <1>6, <1>7, <1>8
  <2> QED BY <1>1, <2>1, <2>2, RunStep DEF CleanupInv
<1>10. Placed'
  BY <1>1 DEF Placed, Effects
<1>11. Retires' /\ Verified'
  BY <1>1, <1>9, NothingSeen DEF Seeing
<1> QED BY <1>2, <1>9, <1>10, <1>11 DEF CleanupInv

LEMMA ReadTopicKeeps ==
  ASSUME CleanupInv, ReadTopic
  PROVE  CleanupInv'
<1>1. /\ pc = "topic" /\ run' = run /\ UNCHANGED <<acts, faults>> /\ Looks
      /\ plan' = [plan EXCEPT !.topic = refs["topic"]]
      /\ (pc' = "target" /\ result' = result) \/ (pc' = "idle" /\ result' = Verdict)
  BY DEF ReadTopic, At, Goes, Either
<1>2. RepositoryTypeOK' /\ OneTreeEach'
  BY <1>1, LookingKeeps, NothingCounts DEF CleanupInv
<1>3. PICK d \in PlanType : plan = d
  BY DEF CleanupInv, RunOK
<1>4. refs["topic"] \in Heads
  BY DEF CleanupInv, RepositoryTypeOK, Heads, Branches
<1>5. PICK q \in PlanType : q = [d EXCEPT !.topic = refs["topic"]]
                            /\ q.target = d.target /\ q.canonical = d.canonical
  BY <1>4, PlanTopic
<1>6. plan' = q
  BY <1>1, <1>3, <1>5
<1>7. PICK r \in RunType : run = r /\ acts >= r.checked /\ acts >= r.scanned
  BY DEF CleanupInv, RunOK
<1>8. RunOK' /\ result' # "pass"
  <2>1. GoesOn(CleanupStates \ {"idle"})
    BY <1>1, VerdictIs DEF GoesOn, CleanupStates
  <2>2. Cardinality(d.target) <= 1 /\ Cardinality(d.canonical) <= 1
    BY <1>3 DEF CleanupInv, RunOK
  <2>3. /\ plan' \in PlanType /\ run' \in RunType
        /\ Cardinality(plan'.target) <= 1 /\ Cardinality(plan'.canonical) <= 1
        /\ acts >= run'.checked /\ acts >= run'.scanned
    BY <1>1, <1>5, <1>6, <1>7, <2>2
  <2> QED BY <1>1, <2>1, <2>3, RunStep DEF CleanupInv
<1>9. Placed'
  BY <1>1 DEF Placed, Effects
<1>10. Retires' /\ Verified'
  BY <1>1, <1>8, NothingSeen DEF Seeing
<1> QED BY <1>2, <1>8, <1>9, <1>10 DEF CleanupInv

LEMMA CheckTargetKeeps ==
  ASSUME CleanupInv, CheckTarget
  PROVE  CleanupInv'
<1>1. /\ pc = "target" /\ UNCHANGED <<run, plan, acts, faults>> /\ Looks
      /\ (pc' = "canonical" /\ result' = result) \/ (pc' = "idle" /\ result' = Verdict)
  BY DEF CheckTarget, At, Goes, Either
<1>2. RepositoryTypeOK' /\ OneTreeEach'
  BY <1>1, LookingKeeps, NothingCounts DEF CleanupInv
<1>3. RunOK' /\ result' # "pass"
  <2>1. GoesOn(CleanupStates \ {"idle"})
    BY <1>1, VerdictIs DEF GoesOn, CleanupStates
  <2> QED BY <1>1, <2>1, MerelyGoesOn DEF CleanupInv
<1>4. Placed'
  BY <1>1 DEF Placed, Effects
<1>5. Retires' /\ Verified'
  BY <1>1, <1>3, NothingSeen DEF Seeing
<1> QED BY <1>2, <1>3, <1>4, <1>5 DEF CleanupInv

LEMMA CheckCanonicalKeeps ==
  ASSUME CleanupInv, CheckCanonical
  PROVE  CleanupInv'
<1>1. /\ pc = "canonical" /\ UNCHANGED <<run, plan, acts, faults>> /\ Looks
      /\ \/ /\ pc' = "remoteTopic" /\ result' = result
            /\ plan.canonical # {} \/ plan.target # {}
         \/ pc' = "idle" /\ result' = Verdict
  BY DEF CheckCanonical, At, Goes, Either, Single
<1>2. RepositoryTypeOK' /\ OneTreeEach'
  BY <1>1, LookingKeeps, NothingCounts DEF CleanupInv
<1>3. RunOK' /\ result' # "pass"
  <2>1. GoesOn(CleanupStates \ {"idle"})
    BY <1>1, VerdictIs DEF GoesOn, CleanupStates
  <2> QED BY <1>1, <2>1, MerelyGoesOn DEF CleanupInv
<1>4. Placed'
  BY <1>1 DEF Placed, Effects
<1>5. Retires' /\ Verified'
  BY <1>1, <1>3, NothingSeen DEF Seeing
<1> QED BY <1>2, <1>3, <1>4, <1>5 DEF CleanupInv

LEMMA ReadRemoteTopicKeeps ==
  ASSUME CleanupInv, ReadRemoteTopic
  PROVE  CleanupInv'
<1>1. /\ pc = "remoteTopic" /\ run' = run /\ UNCHANGED <<acts, faults>> /\ Looks
      /\ plan' = [plan EXCEPT !.remote = remote["topic"]]
      /\ (pc' = "refs" /\ result' = result) \/ (pc' = "idle" /\ result' = Verdict)
  BY DEF ReadRemoteTopic, At, Goes, Either
<1>2. RepositoryTypeOK' /\ OneTreeEach'
  BY <1>1, LookingKeeps, NothingCounts DEF CleanupInv
<1>3. PICK d \in PlanType : plan = d
  BY DEF CleanupInv, RunOK
<1>4. remote["topic"] \in Heads
  BY DEF CleanupInv, RepositoryTypeOK, Heads
<1>5. PICK q \in PlanType : q = [d EXCEPT !.remote = remote["topic"]]
                            /\ q.target = d.target /\ q.canonical = d.canonical
  BY <1>4, PlanRemote
<1>6. plan' = q
  BY <1>1, <1>3, <1>5
<1>7. PICK r \in RunType : run = r /\ acts >= r.checked /\ acts >= r.scanned
  BY DEF CleanupInv, RunOK
<1>8. RunOK' /\ result' # "pass"
  <2>1. GoesOn(CleanupStates \ {"idle"})
    BY <1>1, VerdictIs DEF GoesOn, CleanupStates
  <2>2. Cardinality(d.target) <= 1 /\ Cardinality(d.canonical) <= 1
    BY <1>3 DEF CleanupInv, RunOK
  <2>3. /\ plan' \in PlanType /\ run' \in RunType
        /\ Cardinality(plan'.target) <= 1 /\ Cardinality(plan'.canonical) <= 1
        /\ acts >= run'.checked /\ acts >= run'.scanned
    BY <1>1, <1>5, <1>6, <1>7, <2>2
  <2> QED BY <1>1, <2>1, <2>3, RunStep DEF CleanupInv
<1>9. Placed'
  <2>1. d.canonical # {} \/ d.target # {}
    BY <1>1, <1>3 DEF CleanupInv, Placed
  <2>2. plan'.canonical # {} \/ plan'.target # {}
    BY <1>5, <1>6, <2>1
  <2> QED BY <1>1, <2>2 DEF Placed, Effects
<1>10. Retires' /\ Verified'
  BY <1>1, <1>8, NothingSeen DEF Seeing
<1> QED BY <1>2, <1>8, <1>9, <1>10 DEF CleanupInv

LEMMA ReadRefsKeeps ==
  ASSUME CleanupInv, ReadRefs
  PROVE  CleanupInv'
<1>1. /\ pc = "refs" /\ UNCHANGED <<acts, faults>> /\ Looks
      /\ plan' = [plan EXCEPT !.base = [topic |-> refs["topic"], other |-> refs["other"]]]
      /\ \/ pc' = "idle" /\ result' \in Verdicts \cup {"planned"} /\ run' = run
         \/ pc' = "control" /\ result' = result /\ run.again /\ run' = run
         \/ pc' = "fetch" /\ result' = result /\ run' = [run EXCEPT !.again = TRUE]
  BY VerdictIs DEF ReadRefs, Goes
<1>2. RepositoryTypeOK' /\ OneTreeEach'
  BY <1>1, LookingKeeps, NothingCounts DEF CleanupInv
<1>3. PICK d \in PlanType : plan = d
  BY DEF CleanupInv, RunOK
<1>4. PICK b \in BaseSeen : b = [topic |-> refs["topic"], other |-> refs["other"]]
  BY DEF CleanupInv, RepositoryTypeOK, Heads, Branches, BaseSeen
<1>5. PICK q \in PlanType : q = [d EXCEPT !.base = b]
                            /\ q.target = d.target /\ q.canonical = d.canonical
  BY PlanBase
<1>6. plan' = q
  BY <1>1, <1>3, <1>4, <1>5
<1>7. PICK r \in RunType : run = r /\ acts >= r.checked /\ acts >= r.scanned
  BY DEF CleanupInv, RunOK
<1>8. PICK x \in BOOLEAN : x = TRUE
  OBVIOUS
<1>9. PICK s \in RunType : s = [r EXCEPT !.again = x]
                           /\ s.checked = r.checked /\ s.scanned = r.scanned
  BY RunAgain
<1>10. run' \in {r, s}
  BY <1>1, <1>7, <1>8, <1>9
<1>11. RunOK' /\ result' # "pass"
  <2>1. GoesOn(CleanupStates \ {"idle"})
    BY <1>1 DEF GoesOn, CleanupStates
  <2>2. Cardinality(d.target) <= 1 /\ Cardinality(d.canonical) <= 1
    BY <1>3 DEF CleanupInv, RunOK
  <2>3. plan' \in PlanType /\ Cardinality(plan'.target) <= 1 /\ Cardinality(plan'.canonical) <= 1
    BY <1>5, <1>6, <2>2
  <2>4. run' \in RunType /\ acts >= run'.checked /\ acts >= run'.scanned
    BY <1>7, <1>9, <1>10
  <2> QED BY <1>1, <2>1, <2>3, <2>4, RunStep DEF CleanupInv
<1>12. Placed'
  <2>1. d.canonical # {} \/ d.target # {}
    BY <1>1, <1>3 DEF CleanupInv, Placed
  <2>2. plan'.canonical # {} \/ plan'.target # {}
    BY <1>5, <1>6, <2>1
  <2>3. pc' = "control" => run'.again
    BY <1>1
  <2> QED BY <1>1, <2>2, <2>3 DEF Placed, Effects, Verdicts
<1>13. Retires' /\ Verified'
  BY <1>1, <1>11, NothingSeen DEF Seeing
<1> QED BY <1>2, <1>11, <1>12, <1>13 DEF CleanupInv

LEMMA ControlKeeps ==
  ASSUME CleanupInv, Control
  PROVE  CleanupInv'
<1>1. /\ pc = "control" /\ plan' = plan /\ UNCHANGED <<acts, faults>> /\ Looks
      /\ run' = [run EXCEPT !.cwd = CHOOSE p \in Surviving : TRUE]
      /\ (pc' = "prefetch" /\ result' = result) \/ (pc' = "idle" /\ result' = Verdict)
  BY DEF Control, At, Goes, Either
<1>2. RepositoryTypeOK' /\ OneTreeEach'
  BY <1>1, LookingKeeps, NothingCounts DEF CleanupInv
<1>3. PICK d \in PlanType : plan = d
  BY DEF CleanupInv, RunOK
<1>4. PICK r \in RunType : run = r /\ acts >= r.checked /\ acts >= r.scanned
  BY DEF CleanupInv, RunOK
<1>5. PICK p \in Surviving : p = CHOOSE q \in Surviving : TRUE
  <2>1. Surviving # {}
    BY <1>1 DEF CleanupInv, Placed, Surviving
  <2> QED BY <2>1
<1>6. p \in Paths
  <2>1. Surviving \subseteq Paths
    BY <1>3, PlanFields DEF Surviving
  <2> QED BY <2>1
<1>7. PICK s \in RunType : s = [r EXCEPT !.cwd = p] /\ s.cwd = p /\ s.again = r.again
                           /\ s.checked = r.checked /\ s.scanned = r.scanned
  BY <1>6, RunCwd
<1>8. run' = s
  BY <1>1, <1>4, <1>5, <1>7
<1>9. RunOK' /\ result' # "pass"
  <2>1. GoesOn(CleanupStates \ {"idle"})
    BY <1>1, VerdictIs DEF GoesOn, CleanupStates
  <2>2. plan' \in PlanType /\ Cardinality(plan'.target) <= 1 /\ Cardinality(plan'.canonical) <= 1
    BY <1>1 DEF CleanupInv, RunOK
  <2>3. run' \in RunType /\ acts >= run'.checked /\ acts >= run'.scanned
    BY <1>4, <1>7, <1>8
  <2> QED BY <1>1, <2>1, <2>2, <2>3, RunStep DEF CleanupInv
<1>10. Placed'
  <2>1. r.again /\ (plan.canonical # {} \/ plan.target # {})
    BY <1>1, <1>4 DEF CleanupInv, Placed, Effects
  <2>2. run'.again /\ run'.cwd \in Surviving'
    BY <1>1, <1>7, <1>8, <2>1 DEF Surviving
  <2> QED BY <1>1, <2>1, <2>2 DEF Placed, Effects
<1>11. Retires' /\ Verified'
  BY <1>1, <1>9, NothingSeen DEF Seeing
<1> QED BY <1>2, <1>9, <1>10, <1>11 DEF CleanupInv

LEMMA PrefetchKeeps ==
  ASSUME CleanupInv, Prefetch
  PROVE  CleanupInv'
<1>1. /\ pc = "prefetch" /\ UNCHANGED <<run, plan, acts, faults>>
      /\ (pc' = "precanonical" /\ result' = result) \/ (pc' = "idle" /\ result' = Verdict)
  BY DEF Prefetch, At, Goes, Either
<1>2. RepositoryTypeOK' /\ OneTreeEach'
  BY <1>1, FetchingKeeps, NothingCounts DEF CleanupInv, Prefetch
<1>3. RunOK' /\ result' # "pass"
  <2>1. GoesOn(CleanupStates \ {"idle"})
    BY <1>1, VerdictIs DEF GoesOn, CleanupStates
  <2> QED BY <1>1, <2>1, MerelyGoesOn DEF CleanupInv
<1>4. Placed'
  BY <1>1 DEF CleanupInv, Placed, Effects, Surviving
<1>5. Retires' /\ Verified'
  BY <1>1, <1>3, NothingSeen DEF Seeing
<1> QED BY <1>2, <1>3, <1>4, <1>5 DEF CleanupInv

LEMMA PrecanonicalKeeps ==
  ASSUME CleanupInv, Precanonical
  PROVE  CleanupInv'
<1>1. /\ pc = "precanonical" /\ UNCHANGED <<run, plan, acts, faults>> /\ Looks
      /\ \/ pc' = "recheck" /\ plan.target # {} /\ result' = result
         \/ pc' = "lsremote" /\ run.delete /\ result' = result
         \/ pc' = "postfetch" /\ result' = result
         \/ pc' = "idle" /\ result' = Verdict
  BY DEF Precanonical, At, Goes, Either
<1>2. RepositoryTypeOK' /\ OneTreeEach'
  BY <1>1, LookingKeeps, NothingCounts DEF CleanupInv
<1>3. RunOK' /\ result' # "pass"
  <2>1. GoesOn(CleanupStates \ {"idle"})
    BY <1>1, VerdictIs DEF GoesOn, CleanupStates
  <2> QED BY <1>1, <2>1, MerelyGoesOn DEF CleanupInv
<1>4. Placed'
  BY <1>1 DEF CleanupInv, Placed, Effects, Surviving
<1>5. Retires' /\ Verified'
  BY <1>1, <1>3, NothingSeen DEF Seeing
<1> QED BY <1>2, <1>3, <1>4, <1>5 DEF CleanupInv

LEMMA RecheckKeeps ==
  ASSUME CleanupInv, Recheck
  PROVE  CleanupInv'
<1>1. PICK ok \in BOOLEAN : ok = (Removable(Target) /\ HeadOf(Target) = Head)
  OBVIOUS
<1>2. /\ pc = "recheck" /\ plan' = plan /\ UNCHANGED <<acts, faults>> /\ Looks
      /\ run' = [run EXCEPT !.effects = ok, !.checked = acts]
      /\ \/ ok /\ pc' = "disposable" /\ result' = result
         \/ ok /\ pc' = "switch" /\ ~Linked /\ result' = result
         \/ pc' = "idle" /\ result' = Verdict
  BY <1>1 DEF Recheck, At, Goes, Either
<1>3. RepositoryTypeOK' /\ OneTreeEach'
  BY <1>2, LookingKeeps, NothingCounts DEF CleanupInv
<1>4. PICK r \in RunType : run = r /\ acts >= r.checked /\ acts >= r.scanned
  BY DEF CleanupInv, RunOK
<1>5. acts \in 0..MaxActs /\ acts >= acts
  BY RepositoryAssumption DEF CleanupInv, RepositoryTypeOK
<1>6. PICK s \in RunType : s = WithChecked(r, ok, acts) /\ s.cwd = r.cwd /\ s.again = r.again
                           /\ s.delete = r.delete /\ s.checked = acts /\ s.scanned = r.scanned
  BY <1>5, RunChecked
<1>7. run' = s
  BY <1>2, <1>4, <1>6 DEF WithChecked
<1>8. RunOK' /\ result' # "pass"
  <2>1. GoesOn(CleanupStates \ {"idle"})
    BY <1>2, VerdictIs DEF GoesOn, CleanupStates
  <2>2. plan' \in PlanType /\ Cardinality(plan'.target) <= 1 /\ Cardinality(plan'.canonical) <= 1
    BY <1>2 DEF CleanupInv, RunOK
  <2>3. run' \in RunType /\ acts >= run'.checked /\ acts >= run'.scanned
    BY <1>4, <1>5, <1>6, <1>7
  <2> QED BY <1>2, <2>1, <2>2, <2>3, RunStep DEF CleanupInv
<1>9. Placed'
  <2>1. r.again /\ plan.target # {} /\ r.cwd \in Surviving
    BY <1>2, <1>4 DEF CleanupInv, Placed, Effects
  <2>2. run'.again /\ run'.cwd \in Surviving' /\ plan'.target # {}
    BY <1>2, <1>6, <1>7, <2>1 DEF Surviving
  <2>3. pc' = "switch" => plan'.canonical = {}
    BY <1>2, <2>1 DEF Linked
  <2> QED BY <1>2, <2>2, <2>3 DEF Placed, Effects
<1>10. Retires'
  <2>1. Target' = Target /\ tree' = tree /\ refs' = refs
    BY <1>2 DEF Target, Looks
  <2>2. pc' = "disposable" => (Removable(Target) /\ HeadOf(Target) = Head)'
    <3>1. pc' = "disposable" => Removable(Target) /\ HeadOf(Target) = Head
      BY <1>1, <1>2
    <3> QED BY <2>1, <3>1 DEF Removable, Clean, IsHere, Registered, HeadOf
  <2> QED BY <1>2, <2>2 DEF Retires
<1>11. Verified'
  BY <1>2, <1>8 DEF Verified, Passed
<1> QED BY <1>3, <1>8, <1>9, <1>10, <1>11 DEF CleanupInv

LEMMA LsRemoteKeeps ==
  ASSUME CleanupInv, LsRemote
  PROVE  CleanupInv'
<1>1. /\ pc = "lsremote" /\ plan' = plan /\ UNCHANGED <<acts, faults>> /\ Looks
      /\ run' = [run EXCEPT !.effects = run.effects \/ plan.remote # NoCommit]
      /\ \/ pc' = "push" /\ result' = result
         \/ pc' = "postfetch" /\ result' = result
         \/ pc' = "idle" /\ result' \in Verdicts
  BY DEF LsRemote, At, Goes, Verdicts
<1>2. RepositoryTypeOK' /\ OneTreeEach'
  BY <1>1, LookingKeeps, NothingCounts DEF CleanupInv
<1>3. PICK r \in RunType : run = r /\ acts >= r.checked /\ acts >= r.scanned
  BY DEF CleanupInv, RunOK
<1>4. PICK x \in BOOLEAN : x = (run.effects \/ plan.remote # NoCommit)
  OBVIOUS
<1>5. PICK s \in RunType : s = [r EXCEPT !.effects = x] /\ s.again = r.again
                           /\ s.delete = r.delete /\ s.checked = r.checked /\ s.scanned = r.scanned
  BY RunEffects
<1>6. run' = s
  BY <1>1, <1>3, <1>4, <1>5
<1>7. RunOK' /\ result' # "pass"
  <2>1. GoesOn(CleanupStates \ {"idle"})
    BY <1>1 DEF GoesOn, CleanupStates
  <2>2. plan' \in PlanType /\ Cardinality(plan'.target) <= 1 /\ Cardinality(plan'.canonical) <= 1
    BY <1>1 DEF CleanupInv, RunOK
  <2>3. run' \in RunType /\ acts >= run'.checked /\ acts >= run'.scanned
    BY <1>3, <1>5, <1>6
  <2> QED BY <1>1, <2>1, <2>2, <2>3, RunStep DEF CleanupInv
<1>8. Placed'
  <2>1. r.again /\ r.delete
    BY <1>1, <1>3 DEF CleanupInv, Placed, Effects
  <2>2. run'.again /\ run'.delete
    BY <1>5, <1>6, <2>1
  <2> QED BY <1>1, <2>2 DEF Placed, Effects
<1>9. Retires' /\ Verified'
  BY <1>1, <1>7, NothingSeen DEF Seeing
<1> QED BY <1>2, <1>7, <1>8, <1>9 DEF CleanupInv

LEMMA PushKeeps ==
  ASSUME CleanupInv, Push
  PROVE  CleanupInv'
<1>1. /\ pc = "push" /\ UNCHANGED <<run, plan, acts, faults, refs, tree>>
      /\ (pc' = "postfetch" /\ result' = result) \/ (pc' = "idle" /\ result' = Verdict)
  BY DEF Push, At, Goes, Either
<1>2. tracking' \in [{"main", "topic"} -> Heads] /\ remote' \in [{"main", "topic"} -> Heads]
  <2>1. tracking \in [{"main", "topic"} -> Heads] /\ remote \in [{"main", "topic"} -> Heads]
    BY DEF CleanupInv, RepositoryTypeOK, Heads
  <2> QED BY <2>1, HistoryTypes DEF Push
<1>3. RepositoryTypeOK' /\ OneTreeEach'
  BY <1>1, <1>2 DEF CleanupInv, RepositoryTypeOK, OneTreeEach, Registered, Heads
<1>4. RunOK' /\ result' # "pass"
  <2>1. GoesOn(CleanupStates \ {"idle"})
    BY <1>1, VerdictIs DEF GoesOn, CleanupStates
  <2> QED BY <1>1, <2>1, MerelyGoesOn DEF CleanupInv
<1>5. Placed'
  BY <1>1 DEF CleanupInv, Placed, Effects
<1>6. Retires' /\ Verified'
  BY <1>1, <1>4, NothingSeen DEF Seeing
<1> QED BY <1>3, <1>4, <1>5, <1>6 DEF CleanupInv

LEMMA DisposableKeeps ==
  ASSUME CleanupInv, Disposable
  PROVE  CleanupInv'
<1>1. PICK ok \in BOOLEAN : ok = ("kept" \notin tree[Target].residue)
  OBVIOUS
<1>2. /\ pc = "disposable" /\ UNCHANGED <<plan, refs, tracking, remote, acts, faults>>
      /\ IsHere(Target)
      /\ run' = [run EXCEPT !.scanned = acts]
      /\ \/ /\ ok /\ pc' = "remove" /\ result' = result
            /\ tree' = [tree EXCEPT ![Target].residue = @ \ {"disposable"}]
         \/ pc' = "idle" /\ result' = Verdict /\ tree' = tree
  BY <1>1 DEF Disposable, At, Goes, Either
<1>3. Target \in Registered /\ Target \in Paths
  BY <1>2 DEF IsHere, Registered
<1>4. PICK d \in Tree : tree[Target] = d
  BY <1>3, RegisteredTree DEF CleanupInv
<1>5. PICK e \in Tree : /\ e = [d EXCEPT !.residue = d.residue \ {"disposable"}]
                        /\ e.on = d.on /\ e.at = d.at /\ e.work = d.work /\ e.here = d.here
                        /\ e.residue = d.residue \ {"disposable"}
  <2>1. d.residue \ {"disposable"} \in SUBSET Residues
    BY TreeFields
  <2> QED BY ZenonT(60), <2>1, TreeResidue
<1>6. tree \in [Paths -> Tree \cup {NoTree}]
  BY DEF CleanupInv, RepositoryTypeOK
<1>7. pc' = "remove" => tree' = [tree EXCEPT ![Target] = e]
  BY <1>2, <1>3, <1>4, <1>5, <1>6
<1>8. RepositoryTypeOK' /\ OneTreeEach'
  <2>1. tree' \in [Paths -> Tree \cup {NoTree}] /\ OneTreeEach'
    <3>1. CASE pc' = "remove"
      BY <1>3, <1>4, <1>5, <1>7, <3>1, SameBranch DEF CleanupInv
    <3>2. CASE tree' = tree
      BY <1>6, <3>2 DEF CleanupInv, OneTreeEach, Registered
    <3> QED BY <1>2, <3>1, <3>2
  <2> QED BY <1>2, <2>1 DEF CleanupInv, RepositoryTypeOK
<1>9. PICK r \in RunType : run = r /\ acts >= r.checked /\ acts >= r.scanned
  BY DEF CleanupInv, RunOK
<1>10. acts \in 0..MaxActs /\ acts >= acts
  BY RepositoryAssumption DEF CleanupInv, RepositoryTypeOK
<1>11. PICK s \in RunType : s = [r EXCEPT !.scanned = acts] /\ s.cwd = r.cwd /\ s.again = r.again
                            /\ s.delete = r.delete /\ s.checked = r.checked /\ s.scanned = acts
  BY <1>10, RunScanned
<1>12. run' = s
  BY <1>2, <1>9, <1>11
<1>13. RunOK' /\ result' # "pass"
  <2>1. GoesOn(CleanupStates \ {"idle"})
    BY <1>2, VerdictIs DEF GoesOn, CleanupStates
  <2>2. plan' \in PlanType /\ Cardinality(plan'.target) <= 1 /\ Cardinality(plan'.canonical) <= 1
    BY <1>2 DEF CleanupInv, RunOK
  <2>3. run' \in RunType /\ acts >= run'.checked /\ acts >= run'.scanned
    BY <1>9, <1>10, <1>11, <1>12
  <2> QED BY <1>2, <2>1, <2>2, <2>3, RunStep DEF CleanupInv
<1>14. Placed'
  <2>1. r.again /\ plan.target # {}
    BY <1>2, <1>9 DEF CleanupInv, Placed, Effects
  <2>2. run'.again /\ plan'.target # {}
    BY <1>2, <1>11, <1>12, <2>1
  <2> QED BY <1>2, <2>2 DEF Placed, Effects
<1>15. Retires'
  <2>1. SUFFICES ASSUME pc' = "remove" PROVE Retires'
    BY <1>2 DEF Retires
  <2>2. Target' = Target /\ tree'[Target] = e /\ refs' = refs /\ acts' = acts
    BY <1>2, <1>3, <1>6, <1>7, <2>1 DEF Target
  <2>3. "kept" \notin e.residue
    BY <1>1, <1>2, <1>4, <1>5, <2>1
  <2>4. acts = r.checked => Removable(Target) /\ HeadOf(Target) = Head
    BY <1>2, <1>9 DEF CleanupInv, Retires
  <2>5. acts = r.checked => e.here /\ ~e.work /\ e.residue \subseteq {"disposable"}
                            /\ (IF e.on = "detached" THEN e.at ELSE refs[e.on]) = Head
    BY <1>4, <1>5, <2>4 DEF Removable, Clean, IsHere, HeadOf
  <2>6. Target \in Registered'
    BY <1>3, <1>5, <2>2, TreeAssumption DEF Registered
  <2>7. acts = r.checked => (Removable(Target) /\ HeadOf(Target) = Head)'
    BY <2>2, <2>5, <2>6 DEF Removable, Clean, IsHere, HeadOf
  <2>8. acts' = run'.checked => acts = r.checked
    BY <1>11, <1>12, <2>2
  <2> QED BY <2>1, <2>2, <2>3, <2>7, <2>8 DEF Retires
<1>16. Verified'
  BY <1>2, <1>13 DEF Verified, Passed
<1> QED BY <1>8, <1>13, <1>14, <1>15, <1>16 DEF CleanupInv

LEMMA RemoveKeeps ==
  ASSUME CleanupInv, Remove
  PROVE  CleanupInv'
<1>1. /\ pc = "remove" /\ UNCHANGED <<run, plan, refs, tracking, remote, acts, faults>>
      /\ \/ /\ pc' = AfterLocal /\ result' = result
            /\ Target \in Registered /\ tree' = [tree EXCEPT ![Target] = NoTree]
         \/ pc' = "idle" /\ result' = Verdict /\ tree' = tree
  BY DEF Remove, At, Goes, Either
<1>2. tree \in [Paths -> Tree \cup {NoTree}]
  BY DEF CleanupInv, RepositoryTypeOK
<1>3. RepositoryTypeOK' /\ OneTreeEach'
  <2>1. tree' \in [Paths -> Tree \cup {NoTree}] /\ OneTreeEach'
    <3>1. CASE Target \in Registered /\ tree' = [tree EXCEPT ![Target] = NoTree]
      <4>1. Target \in Paths /\ NoTree \in Tree \cup {NoTree}
        BY <3>1 DEF Registered
      <4> QED BY <3>1, <4>1, TreeUpdate DEF CleanupInv
    <3>2. CASE tree' = tree
      BY <1>2, <3>2 DEF CleanupInv, OneTreeEach, Registered
    <3> QED BY <1>1, <3>1, <3>2
  <2> QED BY <1>1, <2>1 DEF CleanupInv, RepositoryTypeOK
<1>4. RunOK' /\ result' # "pass"
  <2>1. GoesOn(CleanupStates \ {"idle"})
    BY <1>1, VerdictIs DEF GoesOn, CleanupStates, AfterLocal
  <2> QED BY <1>1, <2>1, MerelyGoesOn DEF CleanupInv
<1>5. Placed'
  BY <1>1 DEF CleanupInv, Placed, Effects, AfterLocal
<1>6. Retires' /\ Verified'
  BY <1>1, <1>4, NothingSeen DEF Seeing, AfterLocal
<1> QED BY <1>3, <1>4, <1>5, <1>6 DEF CleanupInv

\* The single checkout is the worktree the run is in.
LEMMA SingleCheckout ==
  ASSUME CleanupInv, pc \in {"switch", "forward"}, IsHere(run.cwd)
  PROVE  Target \in Registered /\ Target \in Paths
<1>1. plan.target # {} /\ run.cwd \in plan.target
  BY DEF CleanupInv, Placed, Surviving
<1>2. run.cwd = Target
  BY <1>1, TargetIs DEF CleanupInv
<1> QED BY <1>2 DEF IsHere, Registered

LEMMA SwitchKeeps ==
  ASSUME CleanupInv, Switch
  PROVE  CleanupInv'
<1>1. /\ pc = "switch" /\ UNCHANGED <<run, plan, tracking, remote, acts, faults>>
      /\ IsHere(run.cwd)
      /\ \/ /\ On("main") \subseteq {Target} /\ pc' = "forward" /\ result' = result
            /\ tree' = OnMain
            /\ refs' = IF refs["main"] # NoCommit THEN refs
                       ELSE [refs EXCEPT !["main"] = tracking["main"]]
         \/ pc' = "idle" /\ result' = Verdict /\ UNCHANGED <<refs, tree>>
  BY DEF Switch, At, Goes, Either
<1>2. Target \in Registered /\ Target \in Paths
  BY <1>1, SingleCheckout
<1>3. PICK d \in Tree : tree[Target] = d
  BY <1>2, RegisteredTree DEF CleanupInv
<1>4. PICK e \in Tree : e = WithHead(d, "main", NoCommit) /\ e.on = "main"
  <2>1. "main" \in Branches \cup {"detached"}
    BY DEF Branches
  <2> QED BY <2>1, HistoryTypes, TreeOnAt
<1>5. /\ tree \in [Paths -> Tree \cup {NoTree}] /\ refs \in [Branches -> Heads]
      /\ tracking["main"] \in Heads
  BY DEF CleanupInv, RepositoryTypeOK, Heads
<1>6. OnMain = [tree EXCEPT ![Target] = e]
  BY <1>2, <1>3, <1>4, <1>5 DEF OnMain, WithHead
<1>7. tree' \in [Paths -> Tree \cup {NoTree}] /\ OneTreeEach'
  <2>1. CASE tree' = OnMain /\ On("main") \subseteq {Target}
    <3>1. e \in Tree \cup {NoTree}
      OBVIOUS
    <3>2. On(e.on) \subseteq {Target}
      BY <1>4, <2>1
    <3>3. tree' = [tree EXCEPT ![Target] = e]
      BY <1>6, <2>1
    <3> QED BY <1>2, <3>1, <3>2, <3>3, TreeUpdate DEF CleanupInv
  <2>2. CASE tree' = tree
    BY <1>5, <2>2 DEF CleanupInv, OneTreeEach, Registered
  <2> QED BY <1>1, <2>1, <2>2
<1>8. refs' \in [Branches -> Heads]
  BY <1>1, <1>5
<1>9. RepositoryTypeOK'
  BY <1>1, <1>7, <1>8 DEF CleanupInv, RepositoryTypeOK, Heads
<1>10. RunOK' /\ result' # "pass"
  <2>1. GoesOn(CleanupStates \ {"idle"})
    BY <1>1, VerdictIs DEF GoesOn, CleanupStates
  <2> QED BY <1>1, <2>1, MerelyGoesOn DEF CleanupInv
<1>11. Placed'
  BY <1>1 DEF CleanupInv, Placed, Effects, Surviving
<1>12. Retires'
  <2>1. Target' = Target
    BY <1>1 DEF Target
  <2>2. pc' = "forward" => tree'[Target].on = "main"
    BY <1>1, <1>2, <1>4, <1>5, <1>6
  <2> QED BY <1>1, <2>1, <2>2 DEF Retires
<1>13. Verified'
  BY <1>1, <1>10 DEF Verified, Passed
<1> QED BY <1>7, <1>9, <1>10, <1>11, <1>12, <1>13 DEF CleanupInv

\* git merge --ff-only in a worktree moves the branch that is checked out there.
LEMMA MergingKeeps ==
  ASSUME RepositoryTypeOK, OneTreeEach, NEW p \in Registered, NEW t \in Heads,
         refs' = IF tree[p].on = "detached" THEN refs ELSE [refs EXCEPT ![tree[p].on] = t],
         tree' = IF tree[p].on = "detached" THEN [tree EXCEPT ![p].at = t] ELSE tree
  PROVE  /\ refs' \in [Branches -> Heads] /\ tree' \in [Paths -> Tree \cup {NoTree}]
         /\ OneTreeEach'
<1>1. p \in Paths
  BY DEF Registered
<1>2. PICK d \in Tree : tree[p] = d
  BY RegisteredTree
<1>3. d.on \in Branches \cup {"detached"}
  BY TreeFields
<1>4. PICK e \in Tree : e = [d EXCEPT !.at = t] /\ e.on = d.on /\ e.at = t
  BY TreeAt
<1>5. tree \in [Paths -> Tree \cup {NoTree}] /\ refs \in [Branches -> Heads]
  BY DEF RepositoryTypeOK, Heads
<1>6. refs' \in [Branches -> Heads]
  BY <1>2, <1>3, <1>5
<1>7. CASE d.on = "detached"
  <2>1. tree' = [tree EXCEPT ![p] = e] /\ e.on = tree[p].on
    BY <1>1, <1>2, <1>4, <1>5, <1>7
  <2> QED BY <1>6, <2>1, SameBranch
<1>8. CASE d.on # "detached"
  <2>1. tree' = tree
    BY <1>2, <1>8
  <2> QED BY <1>5, <1>6, <2>1 DEF OneTreeEach, Registered
<1> QED BY <1>7, <1>8

LEMMA ForwardKeeps ==
  ASSUME CleanupInv, Forward
  PROVE  CleanupInv'
<1>1. /\ pc = "forward" /\ UNCHANGED <<run, plan, tracking, remote, acts, faults>>
      /\ IsHere(run.cwd)
      /\ (pc' = AfterLocal /\ result' = result) \/ (pc' = "idle" /\ result' = Verdict)
      /\ \/ UNCHANGED <<refs, tree>>
         \/ /\ refs' = IF tree[Target].on = "detached" THEN refs
                       ELSE [refs EXCEPT ![tree[Target].on] = tracking["main"]]
            /\ tree' = IF tree[Target].on = "detached"
                       THEN [tree EXCEPT ![Target].at = tracking["main"]] ELSE tree
  BY DEF Forward, At, Goes, Either
<1>2. Target \in Registered
  BY <1>1, SingleCheckout
<1>3. tracking["main"] \in Heads
  BY DEF CleanupInv, RepositoryTypeOK, Heads
<1>4. /\ refs' \in [Branches -> Heads] /\ tree' \in [Paths -> Tree \cup {NoTree}]
      /\ OneTreeEach'
  <2>1. CASE UNCHANGED <<refs, tree>>
    BY <2>1 DEF CleanupInv, RepositoryTypeOK, OneTreeEach, Registered, Heads
  <2>2. CASE /\ refs' = IF tree[Target].on = "detached" THEN refs
                        ELSE [refs EXCEPT ![tree[Target].on] = tracking["main"]]
             /\ tree' = IF tree[Target].on = "detached"
                        THEN [tree EXCEPT ![Target].at = tracking["main"]] ELSE tree
    BY <1>2, <1>3, <2>2, MergingKeeps DEF CleanupInv
  <2> QED BY <1>1, <2>1, <2>2
<1>5. RepositoryTypeOK'
  BY <1>1, <1>4 DEF CleanupInv, RepositoryTypeOK, Heads
<1>6. RunOK' /\ result' # "pass"
  <2>1. GoesOn(CleanupStates \ {"idle"})
    BY <1>1, VerdictIs DEF GoesOn, CleanupStates, AfterLocal
  <2> QED BY <1>1, <2>1, MerelyGoesOn DEF CleanupInv
<1>7. Placed'
  BY <1>1 DEF CleanupInv, Placed, Effects, AfterLocal
<1>8. Retires' /\ Verified'
  BY <1>1, <1>6, NothingSeen DEF Seeing, AfterLocal
<1> QED BY <1>4, <1>5, <1>6, <1>7, <1>8 DEF CleanupInv

LEMMA PostFetchKeeps ==
  ASSUME CleanupInv, PostFetch
  PROVE  CleanupInv'
<1>1. /\ pc = "postfetch" /\ pc' = "postregistry" /\ result' = result /\ plan' = plan
      /\ UNCHANGED <<acts, faults>>
      /\ run' = [run EXCEPT !.main = remote["main"], !.checked = acts]
  BY DEF PostFetch, At, Goes
<1>2. /\ RepositoryTypeOK' /\ OneTreeEach' /\ remote["main"] \in Heads
      /\ tracking'["main"] = remote["main"] /\ remote'["main"] = remote["main"]
  BY <1>1, FetchingKeeps, NothingCounts DEF CleanupInv, PostFetch
<1>3. PICK r \in RunType : run = r /\ acts >= r.checked /\ acts >= r.scanned
  BY DEF CleanupInv, RunOK
<1>4. acts \in 0..MaxActs /\ acts >= acts
  BY RepositoryAssumption DEF CleanupInv, RepositoryTypeOK
<1>5. PICK s \in RunType : s = WithMain(r, remote["main"], acts) /\ s.main = remote["main"]
                           /\ s.checked = acts /\ s.scanned = r.scanned
  BY <1>2, <1>4, RunMain
<1>6. run' = s
  BY <1>1, <1>3, <1>5 DEF WithMain
<1>7. RunOK' /\ result' # "pass"
  <2>1. GoesOn(CleanupStates \ {"idle"})
    BY <1>1 DEF GoesOn, CleanupStates
  <2>2. plan' \in PlanType /\ Cardinality(plan'.target) <= 1 /\ Cardinality(plan'.canonical) <= 1
    BY <1>1 DEF CleanupInv, RunOK
  <2>3. run' \in RunType /\ acts >= run'.checked /\ acts >= run'.scanned
    BY <1>3, <1>4, <1>5, <1>6
  <2> QED BY <1>1, <2>1, <2>2, <2>3, RunStep DEF CleanupInv
<1>8. Placed' /\ Retires'
  BY <1>1 DEF Placed, Effects, Retires
<1>9. Verified'
  BY <1>1, <1>2, <1>5, <1>6, <1>7 DEF Verified, Passed
<1> QED BY <1>2, <1>7, <1>8, <1>9 DEF CleanupInv

LEMMA PostRegistryKeeps ==
  ASSUME CleanupInv, PostRegistry
  PROVE  CleanupInv'
<1>1. /\ pc = "postregistry" /\ UNCHANGED <<run, plan, acts, faults>> /\ Looks
      /\ \/ /\ pc' = "posttopic" /\ result' = result
            /\ Ready(On("main"), run.main) /\ On("topic") = {}
         \/ pc' = "idle" /\ result' = Verdict
  BY DEF PostRegistry, At, Goes, Either
<1>2. RepositoryTypeOK' /\ OneTreeEach'
  BY <1>1, LookingKeeps, NothingCounts DEF CleanupInv
<1>3. RunOK' /\ result' # "pass"
  <2>1. GoesOn(CleanupStates \ {"idle"})
    BY <1>1, VerdictIs DEF GoesOn, CleanupStates
  <2> QED BY <1>1, <2>1, MerelyGoesOn DEF CleanupInv
<1>4. Placed' /\ Retires'
  BY <1>1 DEF Placed, Effects, Retires
<1>5. Verified'
  <2>1. SUFFICES ASSUME pc' = "posttopic", acts = run.checked PROVE Verified'
    BY <1>1, <1>3 DEF Verified, Passed
  <2>2. run.main = remote["main"] /\ tracking["main"] = remote["main"]
    BY <1>1, <2>1 DEF CleanupInv, Verified, Passed
  <2>3. On("main")' = On("main") /\ On("topic")' = {} /\ Ready(On("main"), run.main)'
    BY <1>1, <2>1 DEF Looks, On, Registered, Ready, Clean, IsHere, HeadOf
  <2> QED BY <1>1, <1>3, <2>1, <2>2, <2>3 DEF Verified, Passed, Looks
<1> QED BY <1>2, <1>3, <1>4, <1>5 DEF CleanupInv

LEMMA PostTopicKeeps ==
  ASSUME CleanupInv, PostTopic
  PROVE  CleanupInv'
<1>1. /\ pc = "posttopic" /\ UNCHANGED <<run, plan, acts, faults>> /\ Looks
      /\ \/ /\ pc' = "postremote" /\ result' = result
            /\ plan.topic # NoCommit => refs["topic"] = Head
         \/ pc' = "idle" /\ result' = Verdict
  BY DEF PostTopic, At, Goes, Either
<1>2. RepositoryTypeOK' /\ OneTreeEach'
  BY <1>1, LookingKeeps, NothingCounts DEF CleanupInv
<1>3. RunOK' /\ result' # "pass"
  <2>1. GoesOn(CleanupStates \ {"idle"})
    BY <1>1, VerdictIs DEF GoesOn, CleanupStates
  <2> QED BY <1>1, <2>1, MerelyGoesOn DEF CleanupInv
<1>4. Placed' /\ Retires'
  BY <1>1 DEF Placed, Effects, Retires
<1>5. Verified'
  <2>1. SUFFICES ASSUME pc' = "postremote", acts = run.checked PROVE Verified'
    BY <1>1, <1>3 DEF Verified, Passed
  <2>2. /\ run.main = remote["main"] /\ tracking["main"] = remote["main"]
        /\ Ready(On("main"), run.main) /\ On("topic") = {}
    BY <1>1, <2>1 DEF CleanupInv, Verified, Passed
  <2>3. On("topic")' = {} /\ Ready(On("main"), run.main)'
    BY <1>1, <2>2 DEF Looks, On, Registered, Ready, Clean, IsHere, HeadOf
  <2> QED BY <1>1, <1>3, <2>1, <2>2, <2>3 DEF Verified, Passed, Looks
<1> QED BY <1>2, <1>3, <1>4, <1>5 DEF CleanupInv

LEMMA PostRemoteKeeps ==
  ASSUME CleanupInv, PostRemote
  PROVE  CleanupInv'
<1>1. /\ pc = "postremote" /\ UNCHANGED <<run, plan, acts, faults>> /\ Looks
      /\ \/ /\ pc' = "postrefs" /\ result' = result
            /\ run.delete => remote["topic"] = NoCommit
         \/ pc' = "idle" /\ result' = Verdict
  BY DEF PostRemote, At, Goes, Either
<1>2. RepositoryTypeOK' /\ OneTreeEach'
  BY <1>1, LookingKeeps, NothingCounts DEF CleanupInv
<1>3. RunOK' /\ result' # "pass"
  <2>1. GoesOn(CleanupStates \ {"idle"})
    BY <1>1, VerdictIs DEF GoesOn, CleanupStates
  <2> QED BY <1>1, <2>1, MerelyGoesOn DEF CleanupInv
<1>4. Placed' /\ Retires'
  BY <1>1 DEF Placed, Effects, Retires
<1>5. Verified'
  <2>1. SUFFICES ASSUME pc' = "postrefs", acts = run.checked PROVE Verified'
    BY <1>1, <1>3 DEF Verified, Passed
  <2>2. /\ run.main = remote["main"] /\ tracking["main"] = remote["main"]
        /\ Ready(On("main"), run.main) /\ On("topic") = {}
        /\ plan.topic # NoCommit => refs["topic"] = Head
    BY <1>1, <2>1 DEF CleanupInv, Verified, Passed
  <2>3. On("topic")' = {} /\ Ready(On("main"), run.main)'
    BY <1>1, <2>2 DEF Looks, On, Registered, Ready, Clean, IsHere, HeadOf
  <2> QED BY <1>1, <1>3, <2>1, <2>2, <2>3 DEF Verified, Passed, Looks
<1> QED BY <1>2, <1>3, <1>4, <1>5 DEF CleanupInv

LEMMA PostRefsKeeps ==
  ASSUME CleanupInv, PostRefs
  PROVE  CleanupInv'
<1>1. /\ pc = "postrefs" /\ UNCHANGED <<run, plan, acts, faults>> /\ Looks
      /\ pc' = "idle" /\ result' \in Verdicts \cup {"pass"}
  BY VerdictIs DEF PostRefs, At
<1>2. RepositoryTypeOK' /\ OneTreeEach'
  BY <1>1, LookingKeeps, NothingCounts DEF CleanupInv
<1>3. RunOK'
  BY <1>1 DEF CleanupInv, RunOK, CleanupStates, Verdicts
<1>4. Placed' /\ Retires'
  BY <1>1 DEF Placed, Effects, Retires
<1>5. Verified'
  <2>1. SUFFICES ASSUME acts = run.checked PROVE Verified'
    BY <1>1 DEF Verified
  <2>2. /\ run.main = remote["main"] /\ tracking["main"] = remote["main"]
        /\ Ready(On("main"), run.main) /\ On("topic") = {}
        /\ plan.topic # NoCommit => refs["topic"] = Head
        /\ run.delete => remote["topic"] = NoCommit
    BY <1>1, <2>1 DEF CleanupInv, Verified, Passed
  <2>3. On("topic")' = {} /\ Ready(On("main"), run.main)'
    BY <1>1, <2>2 DEF Looks, On, Registered, Ready, Clean, IsHere, HeadOf
  <2> QED BY <1>1, <2>1, <2>2, <2>3 DEF Verified, Passed, Looks
<1> QED BY <1>2, <1>3, <1>4, <1>5 DEF CleanupInv

\* A run that stops, wherever it is, leaves the repository as typed as it was.
LEMMA StopsKeeps ==
  ASSUME CleanupInv, pc # "idle", RepositoryTypeOK', OneTreeEach', acts' = acts,
         NEW v \in Verdicts \cup {"died"}, Stops(v)
  PROVE  CleanupInv'
<1>1. pc' = "idle" /\ result' = v /\ UNCHANGED <<run, plan>>
  BY DEF Stops
<1>2. RunOK' /\ result' # "pass"
  <2>1. GoesOn(CleanupStates \ {"idle"})
    BY <1>1 DEF GoesOn
  <2> QED BY <1>1, <2>1, MerelyGoesOn DEF CleanupInv
<1>3. Placed'
  BY <1>1 DEF Placed, Effects
<1>4. Retires' /\ Verified'
  BY <1>1, <1>2, NothingSeen DEF Seeing
<1> QED BY <1>2, <1>3, <1>4 DEF CleanupInv

LEMMA RemoteTopicGone ==
  ASSUME RepositoryTypeOK, OneTreeEach, Counted,
         remote' = [remote EXCEPT !["topic"] = NoCommit], UNCHANGED <<refs, tracking, tree>>
  PROVE  RepositoryTypeOK' /\ OneTreeEach'
<1>1. remote \in [{"main", "topic"} -> Heads]
  BY DEF RepositoryTypeOK, Heads
<1>2. remote' \in [{"main", "topic"} -> Heads]
  BY <1>1, HistoryTypes
<1> QED BY <1>2 DEF RepositoryTypeOK, OneTreeEach, Registered, Heads, Counted

LEMMA FailuresKeep ==
  ASSUME CleanupInv, Refused \/ Lost \/ HalfRemoved \/ Killed \/ Gone
  PROVE  CleanupInv'
<1>1. RepositoryTypeOK /\ OneTreeEach
  BY DEF CleanupInv
<1>2. CASE Refused \/ Killed
  <2>1. PICK f : Fault(f)
    BY <1>2 DEF Refused, Killed
  <2>2. PICK v \in Verdicts \cup {"died"} : Stops(v) /\ pc # "idle" /\ Looks
    BY <1>2, VerdictIs DEF Refused, Killed
  <2>3. Counted /\ acts' = acts
    BY <1>1, <2>1, FaultsCount
  <2>4. RepositoryTypeOK' /\ OneTreeEach'
    BY <1>1, <2>2, <2>3, LookingKeeps
  <2> QED BY <2>2, <2>3, <2>4, StopsKeeps
<1>3. CASE Lost
  <2>1. Fault("lost") /\ pc # "idle" /\ Stops(Verdict)
        /\ remote' = [remote EXCEPT !["topic"] = NoCommit] /\ UNCHANGED <<refs, tracking, tree>>
    BY <1>3 DEF Lost
  <2>2. Counted /\ acts' = acts
    BY <1>1, <2>1, FaultsCount
  <2>3. RepositoryTypeOK' /\ OneTreeEach'
    BY <1>1, <2>1, <2>2, RemoteTopicGone
  <2> QED BY <2>1, <2>2, <2>3, VerdictIs, StopsKeeps
<1>4. CASE HalfRemoved
  <2>1. /\ Fault("disk") /\ pc = "remove" /\ Clean(Target) /\ Stops(Verdict)
        /\ tree' = [tree EXCEPT ![Target] = NoTree] /\ UNCHANGED <<refs, tracking, remote>>
    BY <1>4 DEF HalfRemoved
  <2>2. Counted /\ acts' = acts
    BY <1>1, <2>1, FaultsCount
  <2>3. Target \in Paths
    BY <2>1 DEF Clean, IsHere, Registered
  <2>4. /\ tree' \in [Paths -> Tree \cup {NoTree}]
        /\ OneTreeEach'
    BY <1>1, <2>1, <2>3, TreeUpdate
  <2>5. RepositoryTypeOK'
    BY <1>1, <2>1, <2>2, <2>4 DEF RepositoryTypeOK, Counted
  <2> QED BY <2>1, <2>2, <2>4, <2>5, VerdictIs, StopsKeeps
<1>5. CASE Gone
  <2>1. PICK v \in Verdicts \cup {"died"} : Stops(v) /\ pc # "idle" /\ UNCHANGED repoVars
    BY <1>5, VerdictIs DEF Gone
  <2>2. Looks /\ UNCHANGED <<acts, faults>>
    BY <2>1 DEF Looks, repoVars
  <2>3. RepositoryTypeOK' /\ OneTreeEach'
    BY <1>1, <2>2, LookingKeeps, NothingCounts
  <2> QED BY <2>1, <2>2, <2>3, StopsKeeps
<1> QED BY <1>2, <1>3, <1>4, <1>5

\* What others do is counted, so nothing is claimed any more of what was seen.
LEMMA OthersKeep ==
  ASSUME CleanupInv, Somebody, UNCHANGED cleanupVars
  PROVE  CleanupInv'
<1>1. RepositoryTypeOK' /\ OneTreeEach' /\ acts' = acts + 1
  BY SomebodyKeeps DEF CleanupInv
<1>2. UNCHANGED <<pc, run, plan, result>>
  BY DEF cleanupVars
<1>3. PICK r \in RunType : run = r /\ acts >= r.checked /\ acts >= r.scanned
  BY DEF CleanupInv, RunOK
<1>4. acts \in Nat /\ r.checked \in Nat /\ r.scanned \in Nat
  BY RunFields, RepositoryAssumption DEF CleanupInv, RepositoryTypeOK
<1>5. /\ acts' >= run.checked /\ acts' >= run.scanned
      /\ acts' # run.checked /\ acts' # run.scanned
  BY <1>1, <1>3, <1>4
<1>6. RunOK'
  BY <1>2, <1>5 DEF CleanupInv, RunOK
<1>7. Placed'
  BY <1>2 DEF CleanupInv, Placed, Surviving
<1>8. Retires' /\ Verified'
  BY <1>2, <1>5 DEF Retires, Verified
<1> QED BY <1>1, <1>6, <1>7, <1>8 DEF CleanupInv

LEMMA UnchangedKeeps ==
  ASSUME CleanupInv, UNCHANGED allVars
  PROVE  CleanupInv'
<1>1. UNCHANGED <<pc, run, plan, result, acts, faults>> /\ Looks
  BY DEF allVars, cleanupVars, repoVars, Looks
<1>2. RepositoryTypeOK' /\ OneTreeEach'
  BY <1>1, LookingKeeps, NothingCounts DEF CleanupInv
<1>3. RunOK' /\ Placed'
  BY <1>1 DEF CleanupInv, RunOK, Placed, Surviving
<1>4. Target' = Target
  BY <1>1 DEF Target
<1>5. Retires'
  BY <1>1, <1>4 DEF CleanupInv, Retires, Removable, Clean, IsHere, Registered, HeadOf, Looks
<1>6. On("topic")' = On("topic") /\ (Ready(On("main"), run.main)' <=> Ready(On("main"), run.main))
  BY <1>1 DEF Looks, On, Registered, Ready, Clean, IsHere, HeadOf
<1>7. Verified'
  BY <1>1, <1>6 DEF CleanupInv, Verified, Passed, Looks
<1> QED BY <1>2, <1>3, <1>5, <1>7 DEF CleanupInv

LEMMA CleanupStep ==
  ASSUME CleanupInv, [CleanupNext]_allVars
  PROVE  CleanupInv'
<1>1. CASE Begin
  BY <1>1, BeginKeeps DEF CleanupInv
<1>2. CASE BuildPlan
  BY <1>2, FetchKeeps, ReadRegistryKeeps, ReadTopicKeeps, CheckTargetKeeps, CheckCanonicalKeeps,
     ReadRemoteTopicKeeps, ReadRefsKeeps DEF BuildPlan
<1>3. CASE ExecutePlan
  BY <1>3, ControlKeeps, PrefetchKeeps, PrecanonicalKeeps, RecheckKeeps, DisposableKeeps,
     RemoveKeeps, SwitchKeeps, ForwardKeeps, LsRemoteKeeps, PushKeeps, PostFetchKeeps,
     PostRegistryKeeps, PostTopicKeeps, PostRemoteKeeps, PostRefsKeeps DEF ExecutePlan
<1>4. CASE Refused \/ Lost \/ HalfRemoved \/ Killed \/ Gone
  BY <1>4, FailuresKeep
<1>5. CASE Somebody /\ UNCHANGED cleanupVars
  BY <1>5, OthersKeep
<1>6. CASE UNCHANGED allVars
  BY <1>6, UnchangedKeeps
<1> QED BY <1>1, <1>2, <1>3, <1>4, <1>5, <1>6 DEF CleanupNext, Works

(***************************************************************************)
(* CleanupInv, whatever others do between two git processes of a run       *)
(* (execute_plan trusts nothing that was read before its last look).       *)
(***************************************************************************)
THEOREM CleanupIsInductive == CleanupSpec => []CleanupInv
BY CleanupStarts, CleanupStep, PTL DEF CleanupSpec

LEMMA VerifiedIsTrue ==
  ASSUME CleanupInv
  PROVE  PassIsTrue
<1>1. CleanupTypeOK
  <2>1. PICK d \in PlanType, r \in RunType : plan = d /\ run = r
    BY DEF CleanupInv, RunOK
  <2>2. plan.target \subseteq Paths /\ plan.canonical \subseteq Paths
    BY <2>1, PlanFields
  <2>3. run.checked \in 0..MaxActs /\ run.scanned \in 0..MaxActs
    BY <2>1, RunFields
  <2> QED BY <2>2, <2>3 DEF CleanupInv, RunOK, CleanupTypeOK, CleanupStates
<1>2. ASSUME result = "pass", acts = run.checked
      PROVE  /\ Ready(On("main"), remote["main"]) /\ tracking["main"] = remote["main"]
             /\ On("topic") = {}
             /\ plan.topic # NoCommit => refs["topic"] = Head
             /\ run.delete => remote["topic"] = NoCommit
  BY <1>2 DEF CleanupInv, Verified, Passed
<1> QED BY <1>1, <1>2 DEF PassIsTrue

(***************************************************************************)
(* PASS of a cleanup is true of the repository unless somebody acted after *)
(* the last fetch (the postconditions of execute_plan, looked at one after *)
(* the other), for any number of worktrees, runs and acts of others.       *)
(***************************************************************************)
THEOREM PassedCleanupIsTrue == CleanupSpec => []PassIsTrue
BY CleanupIsInductive, VerifiedIsTrue, PTL

--------------------------------------------------------------------------------
(***************************************************************************)
(* What the steps of a cleanup may do to the repository.                   *)
(***************************************************************************)
LEMMA OthersAreCounted ==
  ASSUME RepositoryTypeOK, Somebody
  PROVE  ~Mine
BY RepositoryAssumption DEF RepositoryTypeOK, Somebody, Acts, Mine

\* Which of the steps change what.
LEMMA WhoDeletesTheBranch ==
  ASSUME CleanupInv, [CleanupNext]_allVars, Mine, remote' # remote
  PROVE  Push \/ Lost
<1>1. ~Somebody
  BY OthersAreCounted DEF CleanupInv
<1>2. ~BuildPlan
  BY DEF BuildPlan, Fetch, ReadRegistry, ReadTopic, CheckTarget, CheckCanonical, ReadRemoteTopic,
     ReadRefs, Looks
<1>3. ExecutePlan => Push
  BY DEF ExecutePlan, Control, Prefetch, Precanonical, Recheck, Disposable, Remove, Switch,
     Forward, LsRemote, PostFetch, PostRegistry, PostTopic, PostRemote, PostRefs, Looks
<1>4. ~Begin /\ ~Refused /\ ~HalfRemoved /\ ~Killed /\ ~Gone /\ ~UNCHANGED allVars
  BY DEF Begin, Refused, HalfRemoved, Killed, Gone, Looks, repoVars, allVars
<1> QED BY <1>1, <1>2, <1>3, <1>4 DEF CleanupNext, Works

LEMMA WhoChangesBranches ==
  ASSUME CleanupInv, [CleanupNext]_allVars, Mine, refs' # refs
  PROVE  Switch \/ Forward
<1>1. ~Somebody
  BY OthersAreCounted DEF CleanupInv
<1>2. ~BuildPlan
  BY DEF BuildPlan, Fetch, ReadRegistry, ReadTopic, CheckTarget, CheckCanonical, ReadRemoteTopic,
     ReadRefs, Looks
<1>3. ExecutePlan => Switch \/ Forward
  BY DEF ExecutePlan, Control, Prefetch, Precanonical, Recheck, Disposable, Remove, Push,
     LsRemote, PostFetch, PostRegistry, PostTopic, PostRemote, PostRefs, Looks
<1>4. ~Begin /\ ~Refused /\ ~Lost /\ ~HalfRemoved /\ ~Killed /\ ~Gone /\ ~UNCHANGED allVars
  BY DEF Begin, Refused, Lost, HalfRemoved, Killed, Gone, Looks, repoVars, allVars
<1> QED BY <1>1, <1>2, <1>3, <1>4 DEF CleanupNext, Works

LEMMA WhoChangesTrees ==
  ASSUME CleanupInv, [CleanupNext]_allVars, Mine, tree' # tree
  PROVE  Disposable \/ Remove \/ Switch \/ Forward \/ HalfRemoved
<1>1. ~Somebody
  BY OthersAreCounted DEF CleanupInv
<1>2. ~BuildPlan
  BY DEF BuildPlan, Fetch, ReadRegistry, ReadTopic, CheckTarget, CheckCanonical, ReadRemoteTopic,
     ReadRefs, Looks
<1>3. ExecutePlan => Disposable \/ Remove \/ Switch \/ Forward
  BY DEF ExecutePlan, Control, Prefetch, Precanonical, Recheck, Push,
     LsRemote, PostFetch, PostRegistry, PostTopic, PostRemote, PostRefs, Looks
<1>4. ~Begin /\ ~Refused /\ ~Lost /\ ~Killed /\ ~Gone /\ ~UNCHANGED allVars
  BY DEF Begin, Refused, Lost, Killed, Gone, Looks, repoVars, allVars
<1> QED BY <1>1, <1>2, <1>3, <1>4 DEF CleanupNext, Works

LEMMA LeaseStep ==
  ASSUME CleanupInv, [CleanupNext]_allVars, Mine, remote' # remote
  PROVE  /\ remote' = [remote EXCEPT !["topic"] = NoCommit] /\ remote["topic"] = Head
         /\ run.again /\ run.delete
<1>1. Push \/ Lost
  BY WhoDeletesTheBranch
<1>2. pc = "push" /\ LeaseHolds /\ remote' = [remote EXCEPT !["topic"] = NoCommit]
  BY <1>1 DEF Push, Lost, At
<1>3. run.again /\ run.delete
  BY <1>2 DEF CleanupInv, Placed, Effects
<1> QED BY <1>2, <1>3 DEF LeaseHolds

(***************************************************************************)
(* A branch on GitHub is deleted by an execution that was asked to, and    *)
(* only as long as it is the head of the merged pull request               *)
(* (_remote_delete_with_lease), whoever pushes in between.                 *)
(***************************************************************************)
THEOREM LeasesAreKept == CleanupSpec => RemoteLease
<1> DEFINE Leased == Mine /\ remote' # remote =>
                       /\ remote' = [remote EXCEPT !["topic"] = NoCommit] /\ remote["topic"] = Head
                       /\ run.again /\ run.delete
<1>1. CleanupInv /\ [CleanupNext]_allVars => [Leased]_allVars
  BY LeaseStep
<1>2. RemoteLease <=> [][Leased]_allVars
  BY DEF RemoteLease
<1> HIDE DEF Leased
<1> QED BY <1>1, <1>2, CleanupIsInductive, PTL DEF CleanupSpec

\* Only the worktree that was planned, and only git worktree remove ends it,
\* if only half.
LEMMA OnlyTheTarget ==
  ASSUME CleanupInv, [CleanupNext]_allVars, Mine,
         NEW p \in Registered, tree'[p] # tree[p]
  PROVE  /\ p = Target /\ plan.target = {p}
         /\ Remove \/ HalfRemoved \/ tree'[p] # NoTree
<1>1. Disposable \/ Remove \/ Switch \/ Forward \/ HalfRemoved
  BY WhoChangesTrees
<1>2. pc \in {"disposable", "remove", "switch", "forward"}
  BY <1>1 DEF Disposable, Remove, Switch, Forward, HalfRemoved, At
<1>3. Target \in Paths /\ plan.target = {Target}
  BY <1>2, TargetIs DEF CleanupInv, Placed
<1>4. tree \in [Paths -> Tree \cup {NoTree}] /\ p \in Paths /\ tree[p] \in Tree
  BY RegisteredTree DEF CleanupInv, RepositoryTypeOK
<1>5. PICK d \in Tree : tree[p] = d
  BY <1>4
<1>6. CASE Remove
  <2>1. tree' = [tree EXCEPT ![Target] = NoTree]
    BY <1>6 DEF Remove
  <2> QED BY <1>3, <1>4, <1>6, <2>1
<1>7. CASE Disposable
  <2>1. tree' = [tree EXCEPT ![Target].residue = @ \ {"disposable"}]
    BY <1>7 DEF Disposable
  <2>2. p = Target
    BY <1>3, <1>4, <2>1
  <2>3. PICK r \in SUBSET Residues : r = d.residue \ {"disposable"}
    BY TreeFields
  <2>4. PICK e \in Tree : e = [d EXCEPT !.residue = r] /\ e.on = d.on
    BY TreeResidue
  <2>5. tree'[p] = e
    BY <1>4, <1>5, <2>1, <2>2, <2>3, <2>4
  <2> QED BY <1>3, <2>2, <2>5, TreeAssumption
<1>8. CASE Switch
  <2>1. tree' = OnMain
    BY <1>8 DEF Switch
  <2>2. p = Target
    BY <1>3, <1>4, <2>1 DEF OnMain
  <2>3. PICK e \in Tree : e = WithHead(d, "main", NoCommit)
    <3>1. "main" \in Branches \cup {"detached"}
      BY DEF Branches
    <3> QED BY <3>1, HistoryTypes, TreeOnAt
  <2>4. tree'[p] = e
    BY <1>4, <1>5, <2>1, <2>2, <2>3 DEF OnMain, WithHead
  <2> QED BY <1>3, <2>2, <2>4, TreeAssumption
<1>9. CASE Forward
  <2>1. tree' = [tree EXCEPT ![Target].at = tracking["main"]]
    BY <1>9 DEF Forward
  <2>2. p = Target
    BY <1>3, <1>4, <2>1
  <2>3. tracking["main"] \in Heads
    BY DEF CleanupInv, RepositoryTypeOK, Heads
  <2>4. PICK e \in Tree : e = [d EXCEPT !.at = tracking["main"]]
    BY <2>3, TreeAt
  <2>5. tree'[p] = e
    BY <1>4, <1>5, <2>1, <2>2, <2>4
  <2> QED BY <1>3, <2>2, <2>5, TreeAssumption
<1>10. CASE HalfRemoved
  <2>1. tree' = [tree EXCEPT ![Target] = NoTree]
    BY <1>10 DEF HalfRemoved
  <2> QED BY <1>3, <1>4, <1>10, <2>1
<1> QED BY <1>1, <1>6, <1>7, <1>8, <1>9, <1>10

LEMMA RetiredStep ==
  ASSUME CleanupInv, [CleanupNext]_allVars, Mine,
         NEW p \in Registered, tree'[p] = NoTree, IsHere(p)
  PROVE  /\ p # Primary /\ ~tree[p].work
         /\ "kept" \in tree[p].residue => acts > run.scanned
         /\ "hidden" \in tree[p].residue \/ HeadOf(p) # Head => acts > run.checked
<1>1. p = Target /\ (Remove \/ HalfRemoved)
  <2>1. tree'[p] # tree[p]
    BY DEF Registered
  <2> QED BY <2>1, OnlyTheTarget
<1>2. p # Primary /\ ~tree[p].work /\ pc = "remove"
  BY <1>1 DEF Remove, HalfRemoved, Clean, IsHere, Registered, At
<1>3. PICK r \in RunType : run = r /\ acts >= r.checked /\ acts >= r.scanned
  BY DEF CleanupInv, RunOK
<1>4. acts \in Nat /\ r.checked \in Nat /\ r.scanned \in Nat
  BY RunFields, RepositoryAssumption DEF CleanupInv, RepositoryTypeOK
<1>5. acts > run.checked \/ acts = run.checked
  BY <1>3, <1>4
<1>6. acts > run.scanned \/ acts = run.scanned
  BY <1>3, <1>4
<1>7. acts = run.scanned => "kept" \notin tree[p].residue
  BY <1>1, <1>2 DEF CleanupInv, Retires
<1>8. acts = run.checked => "hidden" \notin tree[p].residue /\ HeadOf(p) = Head
  BY <1>1, <1>2 DEF CleanupInv, Retires, Removable
<1> QED BY <1>2, <1>5, <1>6, <1>7, <1>8

\* The branches: main goes forward, the others move only after a switch of others.
LEMMA SparedStep ==
  ASSUME CleanupInv, [CleanupNext]_allVars, Mine
  PROVE  /\ refs'["main"] # refs["main"] /\ refs["main"] # NoCommit =>
              Ancestor(refs["main"], refs'["main"])
         /\ \A b \in {"topic", "other"} : refs'[b] # refs[b] => acts > run.checked
<1>1. SUFFICES ASSUME refs' # refs
      PROVE  /\ refs'["main"] # refs["main"] /\ refs["main"] # NoCommit =>
                  Ancestor(refs["main"], refs'["main"])
             /\ \A b \in {"topic", "other"} : refs'[b] # refs[b] => acts > run.checked
  OBVIOUS
<1>2. refs \in [Branches -> Heads]
  BY DEF CleanupInv, RepositoryTypeOK, Heads
<1>3. PICK r \in RunType : run = r /\ acts >= r.checked
  BY DEF CleanupInv, RunOK
<1>4. acts \in Nat /\ r.checked \in Nat
  BY RunFields, RepositoryAssumption DEF CleanupInv, RepositoryTypeOK
<1>5. acts > run.checked \/ acts = run.checked
  BY <1>3, <1>4
<1>6. CASE Switch
  <2>1. refs["main"] = NoCommit /\ refs' = [refs EXCEPT !["main"] = tracking["main"]]
    BY <1>1, <1>6 DEF Switch
  <2> QED BY <1>2, <2>1
<1>7. CASE Forward
  <2>1. /\ refs' = [refs EXCEPT ![tree[Target].on] = tracking["main"]]
        /\ tree[Target].on # "detached" /\ Ancestor(HeadOf(Target), tracking["main"])
        /\ pc = "forward"
    BY <1>1, <1>7 DEF Forward, At, FastForwards
  <2>2. HeadOf(Target) = refs[tree[Target].on]
    BY <2>1 DEF HeadOf
  <2>3. acts = run.checked => tree[Target].on = "main"
    BY <2>1 DEF CleanupInv, Retires
  <2>4. ASSUME refs'["main"] # refs["main"] PROVE Ancestor(refs["main"], refs'["main"])
    <3>1. tree[Target].on = "main"
      BY <1>2, <2>1, <2>4
    <3>2. refs'["main"] = tracking["main"]
      BY <1>2, <2>1, <3>1 DEF Branches
    <3> QED BY <2>1, <2>2, <3>1, <3>2
  <2>5. ASSUME NEW b \in {"topic", "other"}, refs'[b] # refs[b] PROVE acts > run.checked
    <3>1. tree[Target].on = b
      BY <1>2, <2>1, <2>5
    <3> QED BY <1>5, <2>3, <3>1
  <2> QED BY <2>4, <2>5
<1> QED BY <1>1, <1>6, <1>7, WhoChangesBranches

LEMMA RetiredTold == CleanupSpec => RetiredSafely
<1> DEFINE Retired == Mine => \A p \in Registered : (tree'[p] = NoTree /\ IsHere(p)) =>
       /\ p # Primary /\ ~tree[p].work
       /\ "kept" \in tree[p].residue => acts > run.scanned
       /\ "hidden" \in tree[p].residue \/ HeadOf(p) # Head => acts > run.checked
<1>1. CleanupInv /\ [CleanupNext]_allVars => [Retired]_allVars
  BY RetiredStep
<1>2. RetiredSafely <=> [][Retired]_allVars
  BY DEF RetiredSafely
<1> HIDE DEF Retired
<1> QED BY <1>1, <1>2, CleanupIsInductive, PTL DEF CleanupSpec

LEMMA RestTold == CleanupSpec => LeavesTheRest
<1> DEFINE Left == Mine =>
       /\ \A p \in Registered : tree'[p] # tree[p] => plan.target = {p}
       /\ refs'["main"] # refs["main"] /\ refs["main"] # NoCommit =>
            Ancestor(refs["main"], refs'["main"])
       /\ \A b \in {"topic", "other"} : refs'[b] # refs[b] => acts > run.checked
<1>1. CleanupInv /\ [CleanupNext]_allVars => [Left]_allVars
  BY OnlyTheTarget, SparedStep
<1>2. LeavesTheRest <=> [][Left]_allVars
  BY DEF LeavesTheRest
<1> HIDE DEF Left
<1> QED BY <1>1, <1>2, CleanupIsInductive, PTL DEF CleanupSpec

(***************************************************************************)
(* What a cleanup removes could not be saved by looking, and everything    *)
(* else is spared (execute_plan in post_merge_cleanup.py).                 *)
(***************************************************************************)
THEOREM WorkIsSpared == CleanupSpec => SparesWork
BY RetiredTold, RestTold DEF SparesWork

--------------------------------------------------------------------------------
(***************************************************************************)
(* The closeout, step by step.                                             *)
(***************************************************************************)
Here == UNCHANGED <<acts, faults, issues, ci>>

LEMMA ReadingKeeps ==
  ASSUME RepoInv, Reads, Counted
  PROVE  RepoInv'
BY LookingKeeps DEF RepoInv, Reads, Looks

LEMMA RefreshingKeeps ==
  ASSUME RepoInv, FetchMain, UNCHANGED <<refs, remote, tree>>, Counted
  PROVE  RepoInv' /\ remote["main"] \in Heads /\ tracking'["main"] = remote["main"]
BY FetchingKeeps DEF RepoInv

\* What the canonical worktree holds, as long as it does not move.
LEMMA MergedStays ==
  ASSUME UNCHANGED <<refs, tree>>, co'.canonical = co.canonical
  PROVE  Merged' <=> Merged
BY DEF Merged, HeadOf, Ancestor

LEMMA CanIs ==
  ASSUME CloseoutOK, co.canonical # {}
  PROVE  Can \in Paths /\ co.canonical = {Can}
<1>1. co.canonical \in SUBSET Paths /\ Cardinality(co.canonical) <= 1
  <2>1. PICK d \in CoType : co = d
    BY DEF CloseoutOK
  <2> QED BY <2>1, CoFields DEF CloseoutOK
<1>2. \E p \in Paths : co.canonical = {p}
  BY <1>1, AtMostOne
<1> QED BY <1>2 DEF Can

\* A step of a closeout goes on or ends it with something other than PASS.
MovesOn(S) ==
  \/ step' \in S /\ verdict' = verdict
  \/ step' = "idle" /\ verdict' \in {"fail", "died"}

LEMMA CoStep ==
  ASSUME CloseoutOK, step # "idle", MovesOn(CloseoutSteps \ {"idle"}), Here,
         co' \in CoType, Cardinality(co'.canonical) <= 1,
         acts >= co'.chosen, acts >= co'.looked, acts >= co'.synced, acts >= co'.verified
  PROVE  CloseoutOK' /\ verdict' # "pass"
<1>1. verdict = "none"
  BY DEF CloseoutOK
<1>2. /\ step' \in CloseoutSteps /\ (step' # "idle" => verdict' = "none") /\ verdict' # "pass"
      /\ verdict' \in {"none", "fail", "died", "pass"}
  BY <1>1 DEF MovesOn, CloseoutSteps
<1> QED BY <1>2 DEF CloseoutOK, Here

LEMMA MerelyMovesOn ==
  ASSUME CloseoutOK, step # "idle", MovesOn(CloseoutSteps \ {"idle"}), Here, co' = co
  PROVE  CloseoutOK' /\ verdict' # "pass"
<1>1. /\ co' \in CoType /\ Cardinality(co'.canonical) <= 1
      /\ acts >= co'.chosen /\ acts >= co'.looked /\ acts >= co'.synced /\ acts >= co'.verified
  BY DEF CloseoutOK
<1> QED BY <1>1, CoStep

Proving == {"choose", "targets", "forward", "synced", "verify", "verifyLocal", "issuesAgain",
            "workflowsAgain", "targetsAgain"}
LEMMA NothingProved ==
  ASSUME step' \notin Proving, verdict' # "pass"
  PROVE  Chosen' /\ Confirmed'
BY DEF Proving, Chosen, Confirmed, Reached, AfterFetch

LEMMA CloseoutStarts ==
  ASSUME CloseoutInit
  PROVE  CloseoutInv
<1>1. RepoInv
  BY RepositoryStart DEF CloseoutInit
<1>2. /\ step = "idle" /\ verdict = "none" /\ issues \in BOOLEAN
      /\ ci \in {"pending", "success", "failed"}
  BY DEF CloseoutInit, CloseoutStart
<1>3. /\ co \in CoType /\ co.canonical = {}
      /\ co.chosen = 0 /\ co.looked = 0 /\ co.synced = 0 /\ co.verified = 0
  BY RepositoryAssumption, HistoryTypes DEF CloseoutInit, CloseoutStart, Quiet, CoType
<1>4. acts = 0
  BY DEF CloseoutInit, RepositoryInit
<1>5. CloseoutOK
  BY <1>2, <1>3, <1>4, FS_EmptySet DEF CloseoutOK, CloseoutSteps
<1>6. Chosen /\ Confirmed
  BY <1>2 DEF Chosen, Confirmed, Reached, AfterFetch
<1> QED BY <1>1, <1>5, <1>6 DEF CloseoutInv

LEMMA BeginCloseoutKeeps ==
  ASSUME RepoInv, CloseoutOK, BeginCloseout
  PROVE  CloseoutInv'
<1>1. step' = "issues" /\ verdict' = "none" /\ Reads /\ Here
  BY DEF BeginCloseout, repoVars, gitHubVars, Reads, Here
<1>2. RepoInv'
  BY <1>1, ReadingKeeps, NothingCounts DEF RepoInv, Here
<1>3. PICK p \in Paths : co' = [Quiet EXCEPT !.cwd = p]
  BY DEF BeginCloseout
<1>4. PICK z \in CoType : z = Quiet /\ z.canonical = {}
                          /\ z.chosen = 0 /\ z.looked = 0 /\ z.synced = 0 /\ z.verified = 0
  <2>1. /\ Quiet \in CoType /\ Quiet.canonical = {}
        /\ Quiet.chosen = 0 /\ Quiet.looked = 0 /\ Quiet.synced = 0 /\ Quiet.verified = 0
    BY RepositoryAssumption, HistoryTypes DEF Quiet, CoType
  <2> QED BY <2>1
<1>5. PICK q \in CoType : q = [z EXCEPT !.cwd = p] /\ q.canonical = z.canonical
              /\ q.chosen = z.chosen /\ q.looked = z.looked /\ q.synced = z.synced
           /\ q.verified = z.verified
  BY CoCwd
<1>6. /\ co' \in CoType /\ co'.canonical = {}
      /\ co'.chosen = 0 /\ co'.looked = 0 /\ co'.synced = 0 /\ co'.verified = 0
  BY <1>3, <1>4, <1>5
<1>7. acts' \in 0..MaxActs
  BY <1>2 DEF RepoInv, RepositoryTypeOK
<1>8. CloseoutOK'
  BY <1>1, <1>6, <1>7, FS_EmptySet DEF CloseoutOK, CloseoutSteps, Here
<1>9. Chosen' /\ Confirmed'
  BY <1>1, NothingProved DEF Proving
<1> QED BY <1>2, <1>8, <1>9 DEF CloseoutInv

LEMMA ReadIssuesKeeps ==
  ASSUME CloseoutInv, ReadIssues
  PROVE  CloseoutInv'
<1>1. /\ step = "issues" /\ co' = co /\ Here /\ Reads
      /\ \/ step' = "workflows" /\ verdict' = verdict
         \/ step' = "idle" /\ verdict' = "fail"
  BY DEF ReadIssues, Doing, Require, Then, Reports, Here
<1>2. RepoInv'
  BY <1>1, ReadingKeeps, NothingCounts DEF CloseoutInv, RepoInv, Here
<1>3. CloseoutOK' /\ verdict' # "pass"
  <2>1. MovesOn(CloseoutSteps \ {"idle"})
    BY <1>1 DEF MovesOn, CloseoutSteps
  <2> QED BY <1>1, <2>1, MerelyMovesOn DEF CloseoutInv
<1>4. Chosen' /\ Confirmed'
  BY <1>1, <1>3, NothingProved DEF Proving
<1> QED BY <1>2, <1>3, <1>4 DEF CloseoutInv

LEMMA ReadWorkflowsKeeps ==
  ASSUME CloseoutInv, ReadWorkflows
  PROVE  CloseoutInv'
<1>1. /\ step = "workflows" /\ co' = co /\ Here /\ Reads
      /\ \/ step' = "refresh" /\ verdict' = verdict
         \/ step' = "idle" /\ verdict' = "fail"
  BY DEF ReadWorkflows, Doing, Require, Then, Reports, Here
<1>2. RepoInv'
  BY <1>1, ReadingKeeps, NothingCounts DEF CloseoutInv, RepoInv, Here
<1>3. CloseoutOK' /\ verdict' # "pass"
  <2>1. MovesOn(CloseoutSteps \ {"idle"})
    BY <1>1 DEF MovesOn, CloseoutSteps
  <2> QED BY <1>1, <2>1, MerelyMovesOn DEF CloseoutInv
<1>4. Chosen' /\ Confirmed'
  BY <1>1, <1>3, NothingProved DEF Proving
<1> QED BY <1>2, <1>3, <1>4 DEF CloseoutInv

LEMMA RefreshCanonicalKeeps ==
  ASSUME CloseoutInv, RefreshCanonical
  PROVE  CloseoutInv'
<1>1. /\ step = "refresh" /\ step' = "contained" /\ verdict' = verdict /\ Here
      /\ co' = [co EXCEPT !.seen = remote["main"]]
  BY DEF RefreshCanonical, Doing, Then, Here
<1>2. RepoInv' /\ remote["main"] \in Heads
  BY <1>1, RefreshingKeeps, NothingCounts DEF CloseoutInv, RepoInv, RefreshCanonical, Here
<1>3. PICK d \in CoType : co = d
  BY DEF CloseoutInv, CloseoutOK
<1>4. PICK q \in CoType : q = [d EXCEPT !.seen = remote["main"]] /\ q.canonical = d.canonical
              /\ q.chosen = d.chosen /\ q.looked = d.looked /\ q.synced = d.synced
           /\ q.verified = d.verified
  BY <1>2, CoSeen
<1>5. co' = q
  BY <1>1, <1>3, <1>4
<1>6. CloseoutOK' /\ verdict' # "pass"
  <2>1. MovesOn(CloseoutSteps \ {"idle"})
    BY <1>1 DEF MovesOn, CloseoutSteps
  <2>2. /\ co' \in CoType /\ Cardinality(co'.canonical) <= 1
        /\ acts >= co'.chosen /\ acts >= co'.looked /\ acts >= co'.synced /\ acts >= co'.verified
    BY <1>3, <1>4, <1>5 DEF CloseoutInv, CloseoutOK
  <2> QED BY <1>1, <2>1, <2>2, CoStep DEF CloseoutInv
<1>7. Chosen' /\ Confirmed'
  BY <1>1, <1>6, NothingProved DEF Proving
<1> QED BY <1>2, <1>6, <1>7 DEF CloseoutInv

LEMMA ContainedKeeps ==
  ASSUME CloseoutInv, Contained
  PROVE  CloseoutInv'
<1>1. /\ step = "contained" /\ co' = co /\ Here /\ Reads
      /\ \/ step' = "choose" /\ verdict' = verdict /\ Ancestor(1, co.seen)
         \/ step' = "idle" /\ verdict' = "fail"
  BY DEF Contained, Doing, Require, Then, Reports, Here
<1>2. RepoInv'
  BY <1>1, ReadingKeeps, NothingCounts DEF CloseoutInv, RepoInv, Here
<1>3. CloseoutOK' /\ verdict' # "pass"
  <2>1. MovesOn(CloseoutSteps \ {"idle"})
    BY <1>1 DEF MovesOn, CloseoutSteps
  <2> QED BY <1>1, <2>1, MerelyMovesOn DEF CloseoutInv
<1>4. Chosen' /\ Confirmed'
  BY <1>1, <1>3 DEF Chosen, Confirmed, Reached, AfterFetch
<1> QED BY <1>2, <1>3, <1>4 DEF CloseoutInv

LEMMA CanonicalWorktreeKeeps ==
  ASSUME CloseoutInv, CanonicalWorktree
  PROVE  CloseoutInv'
<1>1. /\ step = "choose" /\ Here /\ Reads
      /\ co' = [co EXCEPT !.canonical = On("main"), !.chosen = acts]
      /\ \/ step' = "targets" /\ verdict' = verdict /\ Cardinality(On("main")) = 1
         \/ step' = "idle" /\ verdict' = "fail"
  BY DEF CanonicalWorktree, Doing, Require, Then, Reports, Here
<1>2. RepoInv'
  BY <1>1, ReadingKeeps, NothingCounts DEF CloseoutInv, RepoInv, Here
<1>3. PICK d \in CoType : co = d
  BY DEF CloseoutInv, CloseoutOK
<1>4. Cardinality(On("main")) <= 1 /\ On("main") \in SUBSET Paths
  BY BranchOnce DEF CloseoutInv, RepoInv, Branches
<1>5. acts \in 0..MaxActs /\ acts >= acts
  BY RepositoryAssumption DEF CloseoutInv, RepoInv, RepositoryTypeOK
<1>6. PICK q \in CoType : q = WithCanonical(d, On("main"), acts) /\ q.canonical = On("main")
              /\ q.seen = d.seen
              /\ q.chosen = acts /\ q.looked = d.looked /\ q.synced = d.synced
           /\ q.verified = d.verified
  BY <1>4, <1>5, CoChosen
<1>7. co' = q
  BY <1>1, <1>3, <1>6 DEF WithCanonical
<1>8. CloseoutOK' /\ verdict' # "pass"
  <2>1. MovesOn(CloseoutSteps \ {"idle"})
    BY <1>1 DEF MovesOn, CloseoutSteps
  <2>2. acts >= d.looked /\ acts >= d.synced /\ acts >= d.verified
    BY <1>3 DEF CloseoutInv, CloseoutOK
  <2>3. /\ co' \in CoType /\ Cardinality(co'.canonical) <= 1
        /\ acts >= co'.chosen /\ acts >= co'.looked /\ acts >= co'.synced /\ acts >= co'.verified
    BY <1>4, <1>5, <1>6, <1>7, <2>2
  <2> QED BY <1>1, <2>1, <2>3, CoStep DEF CloseoutInv
<1>9. Chosen'
  <2>1. SUFFICES ASSUME step' = "targets" PROVE Chosen'
    BY <1>1 DEF Chosen
  <2>2. co'.canonical # {}
    BY <1>1, <1>6, <1>7, <2>1, FS_EmptySet
  <2>3. Ancestor(1, co'.seen)
    <3>1. Ancestor(1, d.seen)
      BY <1>1, <1>3 DEF CloseoutInv, Chosen
    <3> QED BY <1>6, <1>7, <3>1
  <2>4. \A p \in co'.canonical : tree'[p].on = "main"
    BY <1>1, <1>6, <1>7 DEF On, Reads
  <2> QED BY <2>1, <2>2, <2>3, <2>4 DEF Chosen, Ancestor
<1>10. Confirmed'
  BY <1>1, <1>8 DEF Confirmed, Reached, AfterFetch
<1> QED BY <1>2, <1>8, <1>9, <1>10 DEF CloseoutInv

LEMMA CheckTargetsKeeps ==
  ASSUME CloseoutInv, CheckTargets
  PROVE  CloseoutInv'
<1>1. /\ step = "targets" /\ Here /\ Reads
      /\ co' = [co EXCEPT !.looked = acts]
      /\ \/ step' = "forward" /\ verdict' = verdict /\ TargetsSafe
         \/ step' = "idle" /\ verdict' = "fail"
  BY DEF CheckTargets, Doing, Require, Then, Reports, Here
<1>2. RepoInv'
  BY <1>1, ReadingKeeps, NothingCounts DEF CloseoutInv, RepoInv, Here
<1>3. PICK d \in CoType : co = d
  BY DEF CloseoutInv, CloseoutOK
<1>4. acts \in 0..MaxActs /\ acts >= acts
  BY RepositoryAssumption DEF CloseoutInv, RepoInv, RepositoryTypeOK
<1>5. PICK q \in CoType : q = [d EXCEPT !.looked = acts] /\ q.canonical = d.canonical
              /\ q.seen = d.seen
              /\ q.chosen = d.chosen /\ q.looked = acts /\ q.synced = d.synced
           /\ q.verified = d.verified
  BY <1>4, CoLooked
<1>6. co' = q
  BY <1>1, <1>3, <1>5
<1>7. CloseoutOK' /\ verdict' # "pass"
  <2>1. MovesOn(CloseoutSteps \ {"idle"})
    BY <1>1 DEF MovesOn, CloseoutSteps
  <2>2. acts >= d.chosen /\ acts >= d.synced /\ acts >= d.verified /\ Cardinality(d.canonical) <= 1
    BY <1>3 DEF CloseoutInv, CloseoutOK
  <2>3. /\ co' \in CoType /\ Cardinality(co'.canonical) <= 1
        /\ acts >= co'.chosen /\ acts >= co'.looked /\ acts >= co'.synced /\ acts >= co'.verified
    BY <1>4, <1>5, <1>6, <2>2
  <2> QED BY <1>1, <2>1, <2>3, CoStep DEF CloseoutInv
<1>8. Chosen'
  <2>1. SUFFICES ASSUME step' = "forward" PROVE Chosen'
    BY <1>1 DEF Chosen
  <2>2. d.canonical # {} /\ Ancestor(1, d.seen)
        /\ (acts = d.chosen => \A p \in d.canonical : tree[p].on = "main")
    BY <1>1, <1>3 DEF CloseoutInv, Chosen
  <2>3. co'.canonical # {} /\ Ancestor(1, co'.seen)
        /\ (acts' = co'.chosen => \A p \in co'.canonical : tree'[p].on = "main")
    BY <1>1, <1>5, <1>6, <2>2 DEF Reads, Here
  <2>4. TargetsSafe'
    BY <1>1, <2>1 DEF Reads, TargetsSafe, Targets, Registered, HeadOf, Clean, IsHere
  <2> QED BY <2>1, <2>3, <2>4 DEF Chosen, Ancestor
<1>9. Confirmed'
  BY <1>1, <1>7 DEF Confirmed, Reached, AfterFetch
<1> QED BY <1>2, <1>7, <1>8, <1>9 DEF CloseoutInv

LEMMA MergesInCan ==
  ASSUME CloseoutInv, Merge
  PROVE  IsHere(Can)
<1>1. step = "forward" /\ \A p \in Within : IsHere(p)
  BY DEF Merge, Doing
<1>2. Within = co.canonical
  BY <1>1 DEF Within
<1>3. co.canonical = {Can}
  BY <1>1, CanIs DEF CloseoutInv, Chosen
<1> QED BY <1>1, <1>2, <1>3

LEMMA MergeKeepsInv ==
  ASSUME CloseoutInv, Merge
  PROVE  CloseoutInv'
<1>1. /\ step = "forward" /\ Here /\ co' = co /\ UNCHANGED <<tracking, remote>>
      /\ (step' = "synced" /\ verdict' = verdict) \/ (step' = "idle" /\ verdict' = "fail")
      /\ \/ UNCHANGED <<refs, tree>>
         \/ /\ refs' = IF tree[Can].on = "detached" THEN refs
                       ELSE [refs EXCEPT ![tree[Can].on] = tracking["main"]]
            /\ tree' = IF tree[Can].on = "detached"
                       THEN [tree EXCEPT ![Can].at = tracking["main"]] ELSE tree
  BY DEF Merge, Doing, Then, Reports, Here
<1>2. Can \in Registered
  BY MergesInCan DEF IsHere
<1>3. /\ tracking["main"] \in Heads /\ refs \in [Branches -> Heads]
      /\ tree \in [Paths -> Tree \cup {NoTree}]
  BY DEF CloseoutInv, RepoInv, RepositoryTypeOK, Heads
<1>4. /\ refs' \in [Branches -> Heads] /\ tree' \in [Paths -> Tree \cup {NoTree}]
      /\ OneTreeEach'
  <2>1. CASE UNCHANGED <<refs, tree>>
    BY <1>3, <2>1 DEF CloseoutInv, RepoInv, OneTreeEach, Registered
  <2>2. CASE /\ refs' = IF tree[Can].on = "detached" THEN refs
                        ELSE [refs EXCEPT ![tree[Can].on] = tracking["main"]]
             /\ tree' = IF tree[Can].on = "detached"
                        THEN [tree EXCEPT ![Can].at = tracking["main"]] ELSE tree
    BY <1>2, <1>3, <2>2, MergingKeeps DEF CloseoutInv, RepoInv
  <2> QED BY <1>1, <2>1, <2>2
<1>5. RepositoryTypeOK'
  BY <1>1, <1>4 DEF CloseoutInv, RepoInv, RepositoryTypeOK, Heads, Here
<1>6. RepoInv'
  BY <1>4, <1>5 DEF RepoInv
<1>7. CloseoutOK' /\ verdict' # "pass"
  <2>1. MovesOn(CloseoutSteps \ {"idle"})
    BY <1>1 DEF MovesOn, CloseoutSteps
  <2> QED BY <1>1, <2>1, MerelyMovesOn DEF CloseoutInv
<1>8. Chosen' /\ Confirmed'
  BY <1>1, <1>7 DEF CloseoutInv, Chosen, Confirmed, Reached, AfterFetch
<1> QED BY <1>6, <1>7, <1>8 DEF CloseoutInv

LEMMA SyncedKeeps ==
  ASSUME CloseoutInv, Synced
  PROVE  CloseoutInv'
<1>1. /\ step = "synced" /\ co' = [co EXCEPT !.synced = acts] /\ Here /\ Reads
      /\ \/ step' = "verify" /\ verdict' = verdict /\ Ancestor(1, HeadOf(Can))
         \/ step' = "idle" /\ verdict' = "fail"
  BY DEF Synced, Doing, Require, Then, Reports, Here
<1>2. RepoInv'
  BY <1>1, ReadingKeeps, NothingCounts DEF CloseoutInv, RepoInv, Here
<1>3. PICK d \in CoType : co = d
  BY DEF CloseoutInv, CloseoutOK
<1>4. acts \in 0..MaxActs /\ acts >= acts
  BY RepositoryAssumption DEF CloseoutInv, RepoInv, RepositoryTypeOK
<1>5. PICK q \in CoType : q = [d EXCEPT !.synced = acts] /\ q.canonical = d.canonical
              /\ q.seen = d.seen /\ q.chosen = d.chosen /\ q.looked = d.looked
              /\ q.synced = acts /\ q.verified = d.verified
  BY <1>4, CoSynced
<1>6. co' = q
  BY <1>1, <1>3, <1>5
<1>7. CloseoutOK' /\ verdict' # "pass"
  <2>1. MovesOn(CloseoutSteps \ {"idle"})
    BY <1>1 DEF MovesOn, CloseoutSteps
  <2>2. acts >= d.chosen /\ acts >= d.looked /\ acts >= d.verified /\ Cardinality(d.canonical) <= 1
    BY <1>3 DEF CloseoutInv, CloseoutOK
  <2>3. /\ co' \in CoType /\ Cardinality(co'.canonical) <= 1
        /\ acts >= co'.chosen /\ acts >= co'.looked /\ acts >= co'.synced /\ acts >= co'.verified
    BY <1>4, <1>5, <1>6, <2>2
  <2> QED BY <1>1, <2>1, <2>3, CoStep DEF CloseoutInv
<1>8. Chosen'
  <2>1. d.canonical # {}
    BY <1>1, <1>3 DEF CloseoutInv, Chosen
  <2> QED BY <1>1, <1>5, <1>6, <2>1 DEF Chosen
<1>9. Confirmed'
  <2>1. step' = "verify" => Merged'
    <3>1. co.canonical = {Can} /\ co'.canonical = co.canonical
      BY <1>1, <1>3, <1>5, <1>6, CanIs DEF CloseoutInv, Chosen
    <3>2. step' = "verify" => Merged
      BY <1>1, <3>1 DEF Merged
    <3> QED BY <1>1, <3>1, <3>2, MergedStays DEF Reads
  <2> QED BY <1>1, <1>7, <2>1 DEF Confirmed, Reached, AfterFetch
<1> QED BY <1>2, <1>7, <1>8, <1>9 DEF CloseoutInv

LEMMA VerifyFetchKeeps ==
  ASSUME CloseoutInv, VerifyFetch
  PROVE  CloseoutInv'
<1>1. /\ step = "verify" /\ step' = "verifyLocal" /\ verdict' = verdict /\ Here
      /\ co' = [co EXCEPT !.seen = remote["main"], !.verified = acts] /\ remote' = remote
  BY DEF VerifyFetch, Doing, Then, Here
<1>2. RepoInv' /\ remote["main"] \in Heads /\ tracking'["main"] = remote["main"]
  BY <1>1, RefreshingKeeps, NothingCounts DEF CloseoutInv, RepoInv, VerifyFetch, Here
<1>3. PICK d \in CoType : co = d
  BY DEF CloseoutInv, CloseoutOK
<1>4. acts \in 0..MaxActs /\ acts >= acts
  BY RepositoryAssumption DEF CloseoutInv, RepoInv, RepositoryTypeOK
<1>5. PICK q \in CoType : q = WithSeen(d, remote["main"], acts) /\ q.canonical = d.canonical
              /\ q.seen = remote["main"]
              /\ q.chosen = d.chosen /\ q.looked = d.looked /\ q.synced = d.synced
           /\ q.verified = acts
  BY <1>2, <1>4, CoVerified
<1>6. co' = q
  BY <1>1, <1>3, <1>5 DEF WithSeen
<1>7. CloseoutOK' /\ verdict' # "pass"
  <2>1. MovesOn(CloseoutSteps \ {"idle"})
    BY <1>1 DEF MovesOn, CloseoutSteps
  <2>2. acts >= d.chosen /\ acts >= d.looked /\ acts >= d.synced /\ Cardinality(d.canonical) <= 1
    BY <1>3 DEF CloseoutInv, CloseoutOK
  <2>3. /\ co' \in CoType /\ Cardinality(co'.canonical) <= 1
        /\ acts >= co'.chosen /\ acts >= co'.looked /\ acts >= co'.synced /\ acts >= co'.verified
    BY <1>4, <1>5, <1>6, <2>2
  <2> QED BY <1>1, <2>1, <2>3, CoStep DEF CloseoutInv
<1>8. Chosen'
  <2>1. d.canonical # {}
    BY <1>1, <1>3 DEF CloseoutInv, Chosen
  <2> QED BY <1>1, <1>5, <1>6, <2>1 DEF Chosen
<1>9. Confirmed'
  <2>1. acts' = co'.synced => Merged'
    <3>1. co'.canonical = co.canonical /\ co'.synced = co.synced /\ acts' = acts
      BY <1>1, <1>3, <1>5, <1>6 DEF Here
    <3>2. acts = co.synced => Merged
      BY <1>1 DEF CloseoutInv, Confirmed, Reached
    <3> QED BY <3>1, <3>2, MergedStays DEF VerifyFetch
  <2>2. co'.seen = remote'["main"] /\ tracking'["main"] = remote'["main"]
    BY <1>1, <1>2, <1>5, <1>6
  <2> QED BY <1>1, <1>7, <2>1, <2>2 DEF Confirmed, Reached, AfterFetch
<1> QED BY <1>2, <1>7, <1>8, <1>9 DEF CloseoutInv

LEMMA VerifyLocalKeeps ==
  ASSUME CloseoutInv, VerifyLocal
  PROVE  CloseoutInv'
<1>1. /\ step = "verifyLocal" /\ co' = co /\ Here /\ Reads
      /\ \/ step' = "issuesAgain" /\ verdict' = verdict /\ On("main") = {Can} /\ Ready({Can}, co.seen)
         \/ step' = "idle" /\ verdict' = "fail"
  BY DEF VerifyLocal, Doing, Require, Then, Reports, Here
<1>2. RepoInv'
  BY <1>1, ReadingKeeps, NothingCounts DEF CloseoutInv, RepoInv, Here
<1>3. CloseoutOK' /\ verdict' # "pass"
  <2>1. MovesOn(CloseoutSteps \ {"idle"})
    BY <1>1 DEF MovesOn, CloseoutSteps
  <2> QED BY <1>1, <2>1, MerelyMovesOn DEF CloseoutInv
<1>4. Chosen'
  BY <1>1 DEF CloseoutInv, Chosen
<1>5. Confirmed'
  <2>1. SUFFICES ASSUME step' = "issuesAgain" PROVE Confirmed'
    BY <1>1, <1>3 DEF Confirmed, Reached, AfterFetch
  <2>2. co.canonical = {Can}
    BY <1>1, CanIs DEF CloseoutInv, Chosen
  <2>3. acts = co.synced => Merged'
    BY <1>1, MergedStays DEF CloseoutInv, Confirmed, Reached, AfterFetch, Reads
  <2>4. acts = co.verified => co.seen = remote["main"] /\ tracking["main"] = remote["main"]
    BY <1>1 DEF CloseoutInv, Confirmed, Reached, AfterFetch
  <2>5. On("main") = co.canonical /\ Ready(On("main"), co.seen)
    BY <1>1, <2>1, <2>2
  <2>6. (On("main") = co.canonical /\ Ready(On("main"), co.seen))'
    BY <1>1, <2>5 DEF Reads, On, Registered, Ready, Clean, IsHere, HeadOf
  <2> QED BY <1>1, <1>3, <2>1, <2>3, <2>4, <2>6 DEF Confirmed, Reached, AfterFetch, Reads, Here
<1> QED BY <1>2, <1>3, <1>4, <1>5 DEF CloseoutInv

LEMMA ReadIssuesAgainKeeps ==
  ASSUME CloseoutInv, ReadIssuesAgain
  PROVE  CloseoutInv'
<1>1. /\ step = "issuesAgain" /\ co' = co /\ Here /\ Reads
      /\ \/ step' = "workflowsAgain" /\ verdict' = verdict /\ issues
         \/ step' = "idle" /\ verdict' = "fail"
  BY DEF ReadIssuesAgain, Doing, Require, Then, Reports, Here
<1>2. RepoInv'
  BY <1>1, ReadingKeeps, NothingCounts DEF CloseoutInv, RepoInv, Here
<1>3. CloseoutOK' /\ verdict' # "pass"
  <2>1. MovesOn(CloseoutSteps \ {"idle"})
    BY <1>1 DEF MovesOn, CloseoutSteps
  <2> QED BY <1>1, <2>1, MerelyMovesOn DEF CloseoutInv
<1>4. Chosen'
  BY <1>1 DEF CloseoutInv, Chosen
<1>5. Confirmed'
  <2>1. SUFFICES ASSUME step' = "workflowsAgain" PROVE Confirmed'
    BY <1>1, <1>3 DEF Confirmed, Reached, AfterFetch
  <2>2. acts = co.synced => Merged'
    BY <1>1, MergedStays DEF CloseoutInv, Confirmed, Reached, AfterFetch, Reads
  <2>3. acts = co.verified =>
          /\ co.seen = remote["main"] /\ tracking["main"] = remote["main"]
          /\ On("main") = co.canonical /\ Ready(On("main"), co.seen)
    BY <1>1 DEF CloseoutInv, Confirmed, Reached, AfterFetch
  <2>4. acts = co.verified => (On("main") = co.canonical /\ Ready(On("main"), co.seen))'
    BY <1>1, <2>3 DEF Reads, On, Registered, Ready, Clean, IsHere, HeadOf
  <2> QED BY <1>1, <1>3, <2>1, <2>2, <2>3, <2>4 DEF Confirmed, Reached, AfterFetch, Reads, Here
<1> QED BY <1>2, <1>3, <1>4, <1>5 DEF CloseoutInv

LEMMA ReadWorkflowsAgainKeeps ==
  ASSUME CloseoutInv, ReadWorkflowsAgain
  PROVE  CloseoutInv'
<1>1. /\ step = "workflowsAgain" /\ co' = co /\ Here /\ Reads
      /\ \/ step' = "targetsAgain" /\ verdict' = verdict /\ ci = "success"
         \/ step' = "idle" /\ verdict' = "fail"
  BY DEF ReadWorkflowsAgain, Doing, Require, Then, Reports, Here
<1>2. RepoInv'
  BY <1>1, ReadingKeeps, NothingCounts DEF CloseoutInv, RepoInv, Here
<1>3. CloseoutOK' /\ verdict' # "pass"
  <2>1. MovesOn(CloseoutSteps \ {"idle"})
    BY <1>1 DEF MovesOn, CloseoutSteps
  <2> QED BY <1>1, <2>1, MerelyMovesOn DEF CloseoutInv
<1>4. Chosen'
  BY <1>1 DEF CloseoutInv, Chosen
<1>5. Confirmed'
  <2>1. SUFFICES ASSUME step' = "targetsAgain" PROVE Confirmed'
    BY <1>1, <1>3 DEF Confirmed, Reached, AfterFetch
  <2>2. acts = co.synced => Merged'
    BY <1>1, MergedStays DEF CloseoutInv, Confirmed, Reached, AfterFetch, Reads
  <2>3. acts = co.verified =>
          /\ co.seen = remote["main"] /\ tracking["main"] = remote["main"]
          /\ On("main") = co.canonical /\ Ready(On("main"), co.seen) /\ issues
    BY <1>1 DEF CloseoutInv, Confirmed, Reached, AfterFetch
  <2>4. acts = co.verified => (On("main") = co.canonical /\ Ready(On("main"), co.seen))'
    BY <1>1, <2>3 DEF Reads, On, Registered, Ready, Clean, IsHere, HeadOf
  <2> QED BY <1>1, <1>3, <2>1, <2>2, <2>3, <2>4 DEF Confirmed, Reached, AfterFetch, Reads, Here
<1> QED BY <1>2, <1>3, <1>4, <1>5 DEF CloseoutInv

LEMMA CheckTargetsAgainKeeps ==
  ASSUME CloseoutInv, CheckTargetsAgain
  PROVE  CloseoutInv'
<1>1. /\ step = "targetsAgain" /\ step' = "idle" /\ co' = co /\ Here /\ Reads
      /\ \/ verdict' = "pass" /\ TargetsSafe
         \/ verdict' = "fail"
  BY DEF CheckTargetsAgain, Doing, Reports, Here
<1>2. RepoInv'
  BY <1>1, ReadingKeeps, NothingCounts DEF CloseoutInv, RepoInv, Here
<1>3. CloseoutOK'
  BY <1>1 DEF CloseoutInv, CloseoutOK, CloseoutSteps, Here
<1>4. Chosen'
  BY <1>1 DEF Chosen
<1>5. Confirmed'
  <2>1. SUFFICES ASSUME verdict' = "pass" PROVE Confirmed'
    BY <1>1 DEF Confirmed, Reached, AfterFetch
  <2>2. acts = co.synced => Merged'
    BY <1>1, MergedStays DEF CloseoutInv, Confirmed, Reached, AfterFetch, Reads
  <2>3. acts = co.verified =>
          /\ co.seen = remote["main"] /\ tracking["main"] = remote["main"]
          /\ On("main") = co.canonical /\ Ready(On("main"), co.seen) /\ issues /\ ci = "success"
    BY <1>1 DEF CloseoutInv, Confirmed, Reached, AfterFetch
  <2>4. acts = co.verified => (On("main") = co.canonical /\ Ready(On("main"), co.seen))'
    BY <1>1, <2>3 DEF Reads, On, Registered, Ready, Clean, IsHere, HeadOf
  <2>5. TargetsSafe'
    BY <1>1, <2>1 DEF Reads, TargetsSafe, Targets, Registered, HeadOf, Clean, IsHere
  <2> QED BY <1>1, <2>1, <2>2, <2>3, <2>4, <2>5 DEF Confirmed, Reads, Here
<1> QED BY <1>2, <1>3, <1>4, <1>5 DEF CloseoutInv

LEMMA InterruptionsKeep ==
  ASSUME CloseoutInv, CloseoutRefused \/ CloseoutKilled \/ CloseoutGone
  PROVE  CloseoutInv'
<1>1. PICK v \in {"fail", "died"} : Interrupted(v)
  BY DEF CloseoutRefused, CloseoutKilled, CloseoutGone
<1>2. Counted /\ acts' = acts
  <2>1. (\E f : Fault(f)) \/ UNCHANGED <<acts, faults>>
    BY DEF CloseoutRefused, CloseoutKilled, CloseoutGone
  <2> QED BY <2>1, FaultsCount, NothingCounts DEF CloseoutInv, RepoInv
<1>3. /\ step # "idle" /\ step' = "idle" /\ verdict' = v /\ Reads
      /\ UNCHANGED <<co, issues, ci>>
  BY <1>1 DEF Interrupted, Reports
<1>4. RepoInv'
  BY <1>2, <1>3, ReadingKeeps DEF CloseoutInv
<1>5. CloseoutOK'
  BY <1>2, <1>3 DEF CloseoutInv, CloseoutOK, CloseoutSteps
<1>6. Chosen' /\ Confirmed'
  BY <1>3, NothingProved DEF Proving
<1> QED BY <1>4, <1>5, <1>6 DEF CloseoutInv

\* What others do, here or on GitHub, is counted: nothing is claimed any more
\* of what was seen.
LEMMA OthersKeepCloseout ==
  ASSUME CloseoutInv,
         \/ Somebody /\ UNCHANGED <<gitHubVars, closeoutVars>>
         \/ OnGitHub /\ UNCHANGED closeoutVars
  PROVE  CloseoutInv'
<1>1. UNCHANGED <<step, co, verdict>>
  BY DEF closeoutVars
<1>2. acts \in Nat /\ MaxActs \in Nat
  BY RepositoryAssumption DEF CloseoutInv, RepoInv, RepositoryTypeOK
<1>3. RepoInv' /\ acts' = acts + 1
  <2>1. CASE Somebody
    BY <2>1, SomebodyKeeps DEF CloseoutInv, RepoInv
  <2>2. CASE OnGitHub
    <3>1. acts' = acts + 1 /\ acts < MaxActs /\ faults' = faults /\ Reads
      BY <2>2 DEF OnGitHub, Acts
    <3>2. Counted
      BY <1>2, <3>1 DEF CloseoutInv, RepoInv, RepositoryTypeOK, Counted
    <3> QED BY <3>1, <3>2, ReadingKeeps DEF CloseoutInv
  <2> QED BY <2>1, <2>2
<1>4. PICK d \in CoType : co = d /\ acts >= d.chosen /\ acts >= d.looked /\ acts >= d.synced
                        /\ acts >= d.verified
  BY DEF CloseoutInv, CloseoutOK
<1>5. d.chosen \in Nat /\ d.looked \in Nat /\ d.synced \in Nat /\ d.verified \in Nat
  BY <1>2, CoFields
<1>6. /\ acts' >= co.chosen /\ acts' >= co.looked /\ acts' >= co.synced /\ acts' >= co.verified
      /\ acts' # co.chosen /\ acts' # co.looked /\ acts' # co.synced /\ acts' # co.verified
  BY <1>2, <1>3, <1>4, <1>5
<1>7. issues' \in BOOLEAN /\ ci' \in {"pending", "success", "failed"}
  BY DEF CloseoutInv, CloseoutOK, gitHubVars, OnGitHub
<1>8. CloseoutOK'
  BY <1>1, <1>6, <1>7 DEF CloseoutInv, CloseoutOK
<1>9. Chosen'
  BY <1>1, <1>6 DEF CloseoutInv, Chosen
<1>10. Confirmed'
  BY <1>1, <1>3, <1>6 DEF CloseoutInv, Confirmed, Reached
<1> QED BY <1>3, <1>8, <1>9, <1>10 DEF CloseoutInv

LEMMA UnchangedKeepsCloseout ==
  ASSUME CloseoutInv, UNCHANGED closeoutAll
  PROVE  CloseoutInv'
<1>1. UNCHANGED <<step, co, verdict, issues, ci, acts, faults>> /\ Reads
  BY DEF closeoutAll, closeoutVars, gitHubVars, repoVars, Reads
<1>2. RepoInv'
  BY <1>1, ReadingKeeps, NothingCounts DEF CloseoutInv, RepoInv
<1>3. CloseoutOK'
  BY <1>1 DEF CloseoutInv, CloseoutOK
<1>4. TargetsSafe' <=> TargetsSafe
  BY <1>1 DEF Reads, TargetsSafe, Targets, Registered, HeadOf, Clean, IsHere
<1>5. Chosen'
  BY <1>1, <1>4 DEF CloseoutInv, Chosen, Reads
<1>6. (On("main") = co.canonical /\ Ready(On("main"), co.seen))'
        <=> (On("main") = co.canonical /\ Ready(On("main"), co.seen))
  BY <1>1 DEF Reads, On, Registered, Ready, Clean, IsHere, HeadOf
<1>8. Merged' <=> Merged
  BY <1>1, MergedStays DEF Reads
<1>7. Confirmed'
  BY <1>1, <1>4, <1>6, <1>8 DEF CloseoutInv, Confirmed, Reached, Reads
<1> QED BY <1>2, <1>3, <1>5, <1>7 DEF CloseoutInv

LEMMA CloseoutKeeps ==
  ASSUME CloseoutInv, [CloseoutNext]_closeoutAll
  PROVE  CloseoutInv'
<1>1. CASE BeginCloseout
  BY <1>1, BeginCloseoutKeeps DEF CloseoutInv
<1>2. CASE CloseoutStep
  BY <1>2, ReadIssuesKeeps, ReadWorkflowsKeeps, RefreshCanonicalKeeps, ContainedKeeps,
     CanonicalWorktreeKeeps, CheckTargetsKeeps, MergeKeepsInv, SyncedKeeps, VerifyFetchKeeps,
     VerifyLocalKeeps, ReadIssuesAgainKeeps, ReadWorkflowsAgainKeeps, CheckTargetsAgainKeeps
     DEF CloseoutStep
<1>3. CASE CloseoutRefused \/ CloseoutKilled \/ CloseoutGone
  BY <1>3, InterruptionsKeep
<1>4. CASE \/ Somebody /\ UNCHANGED <<gitHubVars, closeoutVars>>
           \/ OnGitHub /\ UNCHANGED closeoutVars
  BY <1>4, OthersKeepCloseout
<1>5. CASE UNCHANGED closeoutAll
  BY <1>5, UnchangedKeepsCloseout
<1> QED BY <1>1, <1>2, <1>3, <1>4, <1>5 DEF CloseoutNext

(***************************************************************************)
(* CloseoutInv, whatever others do between two git or gh processes of a    *)
(* run, on this machine or on GitHub.                                      *)
(***************************************************************************)
THEOREM CloseoutIsInductive == CloseoutSpec => []CloseoutInv
BY CloseoutStarts, CloseoutKeeps, PTL DEF CloseoutSpec

LEMMA ConfirmedIsTrue ==
  ASSUME CloseoutInv
  PROVE  CloseoutPassIsTrue
<1>1. CloseoutTypeOK
  <2>1. PICK d \in CoType : co = d
    BY DEF CloseoutInv, CloseoutOK
  <2>2. /\ co.canonical \subseteq Paths /\ co.chosen \in 0..MaxActs
        /\ co.looked \in 0..MaxActs /\ co.synced \in 0..MaxActs /\ co.verified \in 0..MaxActs
    BY <2>1, CoFields
  <2> QED BY <2>2 DEF CloseoutInv, RepoInv, CloseoutOK, CloseoutTypeOK, CloseoutSteps
<1>2. ASSUME verdict = "pass", acts = co.verified
      PROVE  /\ On("main") = co.canonical /\ Ready(On("main"), remote["main"])
             /\ acts = co.synced => Ancestor(1, refs["main"])
             /\ tracking["main"] = remote["main"]
             /\ TargetsSafe /\ issues /\ ci = "success"
  <2>1. /\ On("main") = co.canonical /\ Ready(On("main"), remote["main"])
        /\ tracking["main"] = remote["main"] /\ TargetsSafe /\ issues /\ ci = "success"
        /\ acts = co.synced => Merged
    BY <1>2 DEF CloseoutInv, Confirmed, Reached
  <2>2. PICK p \in On("main") : TRUE
    BY <2>1, FS_EmptySet DEF Ready
  <2>3. HeadOf(p) = refs["main"]
    BY <2>2 DEF HeadOf, On
  <2>4. acts = co.synced => Ancestor(1, refs["main"])
    BY <2>1, <2>2, <2>3 DEF Merged
  <2> QED BY <2>1, <2>4
<1> QED BY <1>1, <1>2 DEF CloseoutPassIsTrue

(***************************************************************************)
(* PASS of a closeout is true unless somebody acted after the verifier's   *)
(* fetch (run_closeout and run_local_verifier), and main holds the merge   *)
(* unless somebody acted after that was looked at (line 631).              *)
(***************************************************************************)
THEOREM PassedCloseoutIsTrue == CloseoutSpec => []CloseoutPassIsTrue
BY CloseoutIsInductive, ConfirmedIsTrue, PTL

--------------------------------------------------------------------------------
(***************************************************************************)
(* What the steps of a closeout may do to the repository.                  *)
(***************************************************************************)
LEMMA OnlyMergeMoves ==
  ASSUME CloseoutInv, [CloseoutNext]_closeoutAll, Mine
  PROVE  /\ UNCHANGED remote /\ tracking'["topic"] = tracking["topic"]
         /\ Merge \/ UNCHANGED <<refs, tree>>
<1>1. ~Somebody
  BY OthersAreCounted DEF CloseoutInv, RepoInv
<1>2. ~OnGitHub
  BY RepositoryAssumption DEF CloseoutInv, RepoInv, RepositoryTypeOK, OnGitHub, Acts, Mine
<1>3. tracking \in [{"main", "topic"} -> Heads]
  BY DEF CloseoutInv, RepoInv, RepositoryTypeOK, Heads
<1>4. CASE RefreshCanonical \/ VerifyFetch
  BY <1>3, <1>4 DEF RefreshCanonical, VerifyFetch, FetchMain
<1>5. CASE Merge
  BY <1>5 DEF Merge
<1>6. CASE /\ CloseoutStep
           /\ ~RefreshCanonical /\ ~VerifyFetch /\ ~Merge
  BY <1>6 DEF CloseoutStep, ReadIssues, ReadWorkflows, Contained, CanonicalWorktree, CheckTargets,
     Synced, VerifyLocal, ReadIssuesAgain, ReadWorkflowsAgain, CheckTargetsAgain, Reads
<1>7. CASE BeginCloseout \/ CloseoutRefused \/ CloseoutKilled \/ CloseoutGone \/ UNCHANGED closeoutAll
  BY <1>7 DEF BeginCloseout, CloseoutRefused, CloseoutKilled, CloseoutGone, Interrupted, Reads,
     repoVars, closeoutAll
<1> QED BY <1>1, <1>2, <1>4, <1>5, <1>6, <1>7 DEF CloseoutNext

LEMMA MergeStep ==
  ASSUME CloseoutInv, Merge
  PROVE  /\ \A p \in Paths : tree'[p] # tree[p] =>
              /\ acts > co.chosen /\ tree'[p] = [tree[p] EXCEPT !.at = tracking["main"]]
              /\ Ancestor(tree[p].at, tree'[p].at)
         /\ \A b \in Branches : refs'[b] # refs[b] =>
              /\ refs'[b] = tracking["main"] /\ Ancestor(refs[b], refs'[b])
              /\ b # "main" => acts > co.chosen
<1>1. step = "forward" /\ IsHere(Can)
  BY MergesInCan DEF Merge, Doing
<1>2. SUFFICES ASSUME ~UNCHANGED <<refs, tree>>
      PROVE  /\ \A p \in Paths : tree'[p] # tree[p] =>
                  /\ acts > co.chosen /\ tree'[p] = [tree[p] EXCEPT !.at = tracking["main"]]
                  /\ Ancestor(tree[p].at, tree'[p].at)
             /\ \A b \in Branches : refs'[b] # refs[b] =>
                  /\ refs'[b] = tracking["main"] /\ Ancestor(refs[b], refs'[b])
                  /\ b # "main" => acts > co.chosen
  OBVIOUS
<1>3. /\ Ancestor(HeadOf(Can), tracking["main"])
      /\ refs' = IF tree[Can].on = "detached" THEN refs
                 ELSE [refs EXCEPT ![tree[Can].on] = tracking["main"]]
      /\ tree' = IF tree[Can].on = "detached"
                 THEN [tree EXCEPT ![Can].at = tracking["main"]] ELSE tree
  BY <1>2 DEF Merge, FastForwards
<1>4. Can \in Registered /\ Can \in Paths
  BY <1>1 DEF IsHere, Registered
<1>5. PICK d \in Tree : tree[Can] = d
  BY <1>4, RegisteredTree DEF CloseoutInv, RepoInv
<1>6. /\ tree \in [Paths -> Tree \cup {NoTree}] /\ refs \in [Branches -> Heads]
      /\ tracking["main"] \in Heads
  BY DEF CloseoutInv, RepoInv, RepositoryTypeOK, Heads
<1>7. PICK c \in CoType : co = c /\ acts >= c.chosen
  BY DEF CloseoutInv, CloseoutOK
<1>8. acts \in Nat /\ c.chosen \in Nat
  BY <1>7, CoFields, RepositoryAssumption DEF CloseoutInv, RepoInv, RepositoryTypeOK
<1>9. acts > co.chosen \/ acts = co.chosen
  BY <1>7, <1>8
<1>10. acts = co.chosen => d.on = "main"
  <2>1. co.canonical = {Can}
    BY <1>1, CanIs DEF CloseoutInv, Chosen
  <2> QED BY <1>1, <1>5, <2>1 DEF CloseoutInv, Chosen
<1>11. CASE d.on = "detached"
  <2>1. refs' = refs /\ tree' = [tree EXCEPT ![Can].at = tracking["main"]]
        /\ Ancestor(d.at, tracking["main"])
    BY <1>3, <1>5, <1>11 DEF HeadOf
  <2>2. acts > co.chosen
    BY <1>9, <1>10, <1>11
  <2>3. PICK e \in Tree : e = [d EXCEPT !.at = tracking["main"]] /\ e.on = d.on
                          /\ e.at = tracking["main"]
    BY <1>6, TreeAt
  <2>4. ASSUME NEW p \in Paths, tree'[p] # tree[p]
        PROVE  /\ tree'[p] = [tree[p] EXCEPT !.at = tracking["main"]]
               /\ Ancestor(tree[p].at, tree'[p].at)
    <3>1. p = Can /\ tree'[p] = e
      BY <1>4, <1>5, <1>6, <2>1, <2>3, <2>4
    <3> QED BY <1>5, <2>1, <2>3, <3>1
  <2> QED BY <2>1, <2>2, <2>4
<1>12. CASE d.on # "detached"
  <2>1. refs' = [refs EXCEPT ![d.on] = tracking["main"]] /\ tree' = tree
        /\ Ancestor(refs[d.on], tracking["main"])
    BY <1>3, <1>5, <1>12 DEF HeadOf
  <2>2. ASSUME NEW b \in Branches, refs'[b] # refs[b]
        PROVE  /\ refs'[b] = tracking["main"] /\ Ancestor(refs[b], refs'[b])
               /\ b # "main" => acts > co.chosen
    <3>1. b = d.on /\ refs'[b] = tracking["main"]
      BY <1>6, <2>1, <2>2
    <3> QED BY <1>9, <1>10, <2>1, <3>1
  <2> QED BY <2>1, <2>2
<1> QED BY <1>11, <1>12

(***************************************************************************)
(* A closeout only moves main forward, and what is checked out in the      *)
(* canonical worktree where somebody switched that since it was chosen     *)
(* (run_closeout), whatever fails and whoever acts in between.             *)
(***************************************************************************)
THEOREM CloseoutIsNotDestructive == CloseoutSpec => NonDestructive
<1> DEFINE Kept == Mine =>
       /\ UNCHANGED remote /\ tracking'["topic"] = tracking["topic"]
       /\ \A p \in Paths : tree'[p] # tree[p] =>
            /\ acts > co.chosen /\ tree'[p] = [tree[p] EXCEPT !.at = tracking["main"]]
            /\ Ancestor(tree[p].at, tree'[p].at)
       /\ \A b \in Branches : refs'[b] # refs[b] =>
            /\ refs'[b] = tracking["main"] /\ Ancestor(refs[b], refs'[b])
            /\ b # "main" => acts > co.chosen
<1>1. CloseoutInv /\ [CloseoutNext]_closeoutAll => [Kept]_closeoutAll
  <2>1. SUFFICES ASSUME CloseoutInv, [CloseoutNext]_closeoutAll, Mine PROVE Kept
    OBVIOUS
  <2>2. CASE Merge
    BY <2>1, <2>2, OnlyMergeMoves, MergeStep
  <2>3. CASE UNCHANGED <<refs, tree>>
    BY <2>1, <2>3, OnlyMergeMoves
  <2> QED BY <2>1, <2>2, <2>3, OnlyMergeMoves
<1>2. NonDestructive <=> [][Kept]_closeoutAll
  BY DEF NonDestructive
<1> HIDE DEF Kept
<1> QED BY <1>1, <1>2, CloseoutIsInductive, PTL DEF CloseoutSpec

(***************************************************************************)
(* Every target was safe before main moves (the comment in run_closeout,   *)
(* post_merge_closeout.py:608), and main then receives the merge commit.   *)
(***************************************************************************)
THEOREM TargetsAreSafeFirst == CloseoutSpec => TargetsSafeFirst
<1> DEFINE First == Mine /\ refs'["main"] # refs["main"] /\ acts = co.looked =>
       /\ TargetsSafe
       /\ tracking["main"] = co.seen => Ancestor(1, refs'["main"])
<1>1. CloseoutInv /\ [CloseoutNext]_closeoutAll => [First]_closeoutAll
  <2>1. SUFFICES ASSUME CloseoutInv, [CloseoutNext]_closeoutAll, Mine,
                        refs'["main"] # refs["main"], acts = co.looked
                 PROVE  /\ TargetsSafe
                        /\ tracking["main"] = co.seen => Ancestor(1, refs'["main"])
    OBVIOUS
  <2>2. Merge
    BY <2>1, OnlyMergeMoves
  <2>3. step = "forward"
    BY <2>2 DEF Merge, Doing
  <2>4. TargetsSafe /\ Ancestor(1, co.seen)
    BY <2>1, <2>3 DEF CloseoutInv, Chosen
  <2>5. refs'["main"] = tracking["main"]
    <3>1. "main" \in Branches
      BY DEF Branches
    <3> QED BY <2>1, <2>2, <3>1, MergeStep
  <2> QED BY <2>4, <2>5
<1>2. TargetsSafeFirst <=> [][First]_closeoutAll
  BY DEF TargetsSafeFirst
<1> HIDE DEF First
<1> QED BY <1>1, <1>2, CloseoutIsInductive, PTL DEF CloseoutSpec

--------------------------------------------------------------------------------
(***************************************************************************)
(* Both scripts in turn, when nobody else acts.  The repository then stays *)
(* plain: main of GitHub is the merge, no HEAD is detached, every worktree *)
(* is clean.  A cleanup under way relies on what it planned with, a        *)
(* closeout on its own invariant; what an earlier run has said is not      *)
(* claimed any more.                                                       *)
(***************************************************************************)
Plain(t) ==
  /\ t.on \in Branches /\ t.at = NoCommit /\ t.here
  /\ t.residue \subseteq {"disposable"} /\ ~t.work

Undisturbed ==
  /\ acts = 0
  /\ remote["main"] = 1 /\ tracking["main"] \in {0, 1}
  /\ {refs["topic"], tracking["topic"], remote["topic"]} \subseteq {Head, NoCommit}
  /\ refs["main"] \in {0, 1, Own} /\ refs["other"] = 0
  /\ \A p \in Registered : Plain(tree[p])

Planned == {"topic", "target", "canonical", "remoteTopic", "refs", "control", "prefetch",
            "precanonical", "recheck", "disposable", "remove", "switch"}
Known ==
  /\ pc \in Planned => plan.target = On("topic") /\ plan.canonical = On("main")
  /\ pc \in {"disposable", "remove"} => plan.canonical # {}
  /\ pc = "switch" => Removable(Target)
  /\ pc = "forward" => On("topic") = {}

WorkInv ==
  /\ RepositoryTypeOK /\ OneTreeEach /\ Undisturbed
  /\ RunOK /\ Known /\ CloseoutOK
  /\ issues /\ ci = "success"
  /\ pc = "idle" \/ step = "idle"
  /\ pc # "idle" => CleanupInv
  /\ step # "idle" => CloseoutInv

\* The commits the repository holds now differ.
LEMMA TwoOfFive ==
  ASSUME NEW a, NEW b, NEW c, NEW d, NEW e, Cardinality({a, b, c, d, e}) = 5
  PROVE  a # b
<1> SUFFICES ASSUME a = b PROVE FALSE
  OBVIOUS
<1>1. {a, b, c, d, e} = {b, c, d, e}
  OBVIOUS
<1>2. Cardinality({b, c, d, e}) <= 4
  BY CardinalityOfFour
<1> QED BY <1>1, <1>2

LEMMA CommitsDiffer ==
  /\ Own # Head /\ Own # NoCommit /\ Own \notin Canonical
  /\ Head \notin Canonical /\ NoCommit \notin Canonical
  /\ 0 \in Canonical /\ 1 \in Canonical /\ 0 # 1
<1>1. Own # Head
  <2>1. {Own, Head, Later, Rewritten, NoCommit} = {Head, Later, Own, Rewritten, NoCommit}
    OBVIOUS
  <2>2. Cardinality({Own, Head, Later, Rewritten, NoCommit}) = 5
    BY <2>1, RepositoryAssumption
  <2> QED BY <2>2, TwoOfFive
<1>2. Own # NoCommit
  <2>1. {Own, NoCommit, Head, Later, Rewritten} = {Head, Later, Own, Rewritten, NoCommit}
    OBVIOUS
  <2>2. Cardinality({Own, NoCommit, Head, Later, Rewritten}) = 5
    BY <2>1, RepositoryAssumption
  <2> QED BY <2>2, TwoOfFive
<1>3. /\ Own \notin Canonical /\ Head \notin Canonical /\ NoCommit \notin Canonical
      /\ 0 \in Canonical /\ 1 \in Canonical
  BY RepositoryAssumption DEF Canonical
<1> QED BY <1>1, <1>2, <1>3

LEMMA CheckoutIsPlain ==
  ASSUME NEW b \in Branches, NEW r \in {{}, {"disposable"}}
  PROVE  Plain(Checkout(b, r))
BY DEF Plain, Checkout

LEMMA WorkStarts ==
  ASSUME WorkInit
  PROVE  WorkInv
<1>1. CleanupInv /\ pc = "idle"
  BY CleanupStarts DEF WorkInit, CleanupInit
<1>2. CloseoutInv /\ step = "idle"
  BY CloseoutStarts DEF WorkInit, CleanupInit, CloseoutInit, CloseoutStart
<1>3. RepositoryInit
  BY DEF WorkInit, CleanupInit
<1>4. \A p \in Registered : Plain(tree[p])
  <2> TAKE p \in Registered
  <2>1. p \in Paths /\ tree[p] # NoTree
    BY DEF Registered
  <2>2. PICK b \in Branches, r \in {{}, {"disposable"}} : tree[p] = Checkout(b, r)
    BY <1>3, <2>1 DEF RepositoryInit
  <2> QED BY <2>2, CheckoutIsPlain
<1>5. Undisturbed
  BY <1>3, <1>4 DEF RepositoryInit, Undisturbed
<1>6. Known
  BY <1>1 DEF Known, Planned
<1>7. issues /\ ci = "success"
  BY DEF WorkInit
<1> QED BY <1>1, <1>2, <1>5, <1>6, <1>7 DEF WorkInv, CleanupInv, CloseoutInv

\* Where git moved no local branch and touched no worktree.
LEMMA SameRepository ==
  ASSUME Undisturbed, UNCHANGED <<refs, tree>>, acts' = acts,
         remote'["main"] = 1, tracking'["main"] \in {0, 1},
         {tracking'["topic"], remote'["topic"]} \subseteq {Head, NoCommit}
  PROVE  /\ Undisturbed' /\ (Repeatable => Repeatable')
         /\ On("topic")' = On("topic") /\ On("main")' = On("main")
         /\ \A p \in Paths : Removable(p) => Removable(p)'
<1>1. Registered' = Registered
  BY DEF Registered
<1>2. On("topic")' = On("topic") /\ On("main")' = On("main")
  BY <1>1 DEF On
<1>3. Undisturbed'
  BY <1>1 DEF Undisturbed, Plain
<1>4. \A p \in Paths : Removable(p) => Removable(p)'
  BY <1>1 DEF Removable, Clean, IsHere
<1>5. Ready(On("main"), 1) => Ready(On("main"), 1)'
  BY <1>1, <1>2 DEF Ready, Clean, IsHere, HeadOf
<1>6. ASSUME Repeatable PROVE Repeatable'
  <2>1. remote["main"] = 1 /\ remote'["main"] = 1
    BY DEF Undisturbed
  <2>2. CASE Eligible
    <3>1. {refs["topic"], tracking["topic"], remote["topic"]}' \subseteq {Head, NoCommit}
      BY DEF Undisturbed
    <3>2. \A p \in On("topic") : Removable(p)' /\ (On("main")' = {} \/ p # Primary)
      BY <1>2, <1>4, <2>2 DEF Eligible, On, Registered
    <3>3. \/ Ready(On("main"), remote["main"])'
          \/ /\ On("main")' = {} /\ On("topic")' # {}
             /\ refs'["main"] # NoCommit /\ Ancestor(refs'["main"], remote'["main"])
      BY <1>2, <1>5, <2>1, <2>2 DEF Eligible
    <3>4. Eligible'
      BY <1>2, <3>1, <3>2, <3>3 DEF Eligible
    <3> QED BY <3>4 DEF Repeatable
  <2>3. CASE On("main") # {} /\ refs["main"] # remote["main"]
    BY <1>2, <2>1, <2>3 DEF Repeatable
  <2> QED BY <1>6, <2>2, <2>3 DEF Repeatable
<1> QED BY <1>2, <1>3, <1>4, <1>6

\* A step that only looks, or only fetches main.
LEMMA LookingDisturbsNothing ==
  ASSUME Undisturbed, acts' = acts,
         \/ Looks
         \/ FetchMain /\ UNCHANGED <<refs, remote, tree>>,
         RepositoryTypeOK
  PROVE  /\ Undisturbed' /\ (Repeatable => Repeatable')
         /\ On("topic")' = On("topic") /\ On("main")' = On("main")
         /\ \A p \in Paths : Removable(p) => Removable(p)'
<1>1. tracking \in [{"main", "topic"} -> Heads]
  BY DEF RepositoryTypeOK, Heads
<1>2. /\ UNCHANGED <<refs, tree, remote>> /\ tracking'["main"] \in {0, 1}
      /\ tracking'["topic"] = tracking["topic"]
  BY <1>1 DEF Looks, FetchMain, Undisturbed
<1>3. /\ remote'["main"] = 1 /\ tracking'["main"] \in {0, 1}
      /\ {tracking'["topic"], remote'["topic"]} \subseteq {Head, NoCommit}
  BY <1>2 DEF Undisturbed
<1> QED BY <1>2, <1>3, SameRepository

\* What a step of a cleanup has to show here.
Onward == Undisturbed' /\ Known' /\ (Repeatable => Repeatable')

\* A cleanup that goes on with the plan it has, and does nothing yet.
LEMMA PlanGoesOn ==
  ASSUME Known, On("topic")' = On("topic"), On("main")' = On("main"),
         pc' \notin {"disposable", "remove", "switch", "forward"},
         pc' \in Planned =>
           pc \in Planned /\ plan'.target = plan.target /\ plan'.canonical = plan.canonical
  PROVE  Known'
BY DEF Known

LEMMA FetchesGoOn ==
  ASSUME WorkInv, Fetch \/ Prefetch \/ PostFetch
  PROVE  Onward
<1>1. /\ acts' = acts /\ FetchMain /\ UNCHANGED <<refs, remote, tree>>
      /\ pc' \in {"registry", "precanonical", "postregistry", "idle"}
      /\ pc' = "precanonical" => pc = "prefetch" /\ plan' = plan
  BY DEF Fetch, Prefetch, PostFetch, At, Goes, Either
<1>2. /\ Undisturbed' /\ (Repeatable => Repeatable')
      /\ On("topic")' = On("topic") /\ On("main")' = On("main")
  BY <1>1, LookingDisturbsNothing DEF WorkInv
<1>3. Known'
  BY <1>1, <1>2, PlanGoesOn DEF WorkInv, Planned
<1> QED BY <1>2, <1>3 DEF Onward

LEMMA RegistryGoesOn ==
  ASSUME WorkInv, ReadRegistry
  PROVE  Onward
<1>1. acts' = acts /\ Looks /\ pc' = "topic"
  BY DEF ReadRegistry, At, Goes
<1>2. /\ Undisturbed' /\ (Repeatable => Repeatable')
      /\ On("topic")' = On("topic") /\ On("main")' = On("main")
  BY <1>1, LookingDisturbsNothing DEF WorkInv
<1>3. PICK d \in PlanType : plan = d
  BY DEF WorkInv, RunOK
<1>4. On("topic") \in SUBSET Paths /\ On("main") \in SUBSET Paths
  BY DEF On, Registered
<1>5. PICK t \in TreesSeen : t = Registry
  BY RegistrySeen DEF WorkInv
<1>6. PICK q \in PlanType : q = WithTrees(d, t, On("topic"), On("main"))
                            /\ q.target = On("topic") /\ q.canonical = On("main")
  BY <1>4, PlanTrees
<1>7. plan' = q
  BY <1>3, <1>5, <1>6 DEF ReadRegistry, WithTrees
<1>8. Known'
  BY <1>1, <1>2, <1>6, <1>7 DEF Known, Planned
<1> QED BY <1>2, <1>8 DEF Onward

LEMMA PlanningGoesOn ==
  ASSUME WorkInv, ReadTopic \/ ReadRemoteTopic \/ ReadRefs
  PROVE  Onward
<1>1. /\ acts' = acts /\ Looks /\ pc \in Planned
      /\ pc' \in {"target", "refs", "control", "fetch", "idle"}
  BY DEF ReadTopic, ReadRemoteTopic, ReadRefs, At, Goes, Either, Planned
<1>2. /\ Undisturbed' /\ (Repeatable => Repeatable')
      /\ On("topic")' = On("topic") /\ On("main")' = On("main")
  BY <1>1, LookingDisturbsNothing DEF WorkInv
<1>3. PICK d \in PlanType : plan = d
  BY DEF WorkInv, RunOK
<1>4. plan'.target = plan.target /\ plan'.canonical = plan.canonical
  <2>1. refs["topic"] \in Heads /\ refs["other"] \in Heads /\ remote["topic"] \in Heads
    BY DEF WorkInv, RepositoryTypeOK, Heads, Branches
  <2>2. PICK b \in BaseSeen : b = [topic |-> refs["topic"], other |-> refs["other"]]
    BY <2>1 DEF BaseSeen
  <2>3. CASE plan' = [plan EXCEPT !.topic = refs["topic"]]
    BY <1>3, <2>1, <2>3, PlanTopic
  <2>4. CASE plan' = [plan EXCEPT !.remote = remote["topic"]]
    BY <1>3, <2>1, <2>4, PlanRemote
  <2>5. CASE plan' = [plan EXCEPT !.base = b]
    BY <1>3, <2>2, <2>5, PlanBase
  <2> QED BY <2>2, <2>3, <2>4, <2>5 DEF ReadTopic, ReadRemoteTopic, ReadRefs
<1>5. Known'
  BY <1>1, <1>2, <1>4, PlanGoesOn DEF WorkInv
<1> QED BY <1>2, <1>5 DEF Onward

LEMMA LooksGoOn ==
  ASSUME WorkInv,
         \/ CheckTarget \/ CheckCanonical \/ Control \/ Precanonical \/ LsRemote
         \/ PostRegistry \/ PostTopic \/ PostRemote \/ PostRefs
  PROVE  Onward
<1>1. /\ acts' = acts /\ Looks /\ plan' = plan
      /\ pc' \notin {"disposable", "remove", "switch", "forward"}
      /\ pc' \in Planned => pc \in Planned
  BY DEF CheckTarget, CheckCanonical, Control, Precanonical, LsRemote, PostRegistry, PostTopic,
         PostRemote, PostRefs, At, Goes, Either, Planned
<1>2. /\ Undisturbed' /\ (Repeatable => Repeatable')
      /\ On("topic")' = On("topic") /\ On("main")' = On("main")
  BY <1>1, LookingDisturbsNothing DEF WorkInv
<1>3. Known'
  BY <1>1, <1>2, PlanGoesOn DEF WorkInv
<1> QED BY <1>2, <1>3 DEF Onward

LEMMA FailuresGoOn ==
  ASSUME WorkInv, Refused \/ Killed \/ Gone
  PROVE  Onward
<1>1. acts' = acts /\ Looks /\ pc' = "idle"
  BY DEF Refused, Killed, Gone, Stops, Fault, repoVars, Looks
<1>2. /\ Undisturbed' /\ (Repeatable => Repeatable')
      /\ On("topic")' = On("topic") /\ On("main")' = On("main")
  BY <1>1, LookingDisturbsNothing DEF WorkInv
<1>3. Known'
  BY <1>1 DEF Known, Planned
<1> QED BY <1>2, <1>3 DEF Onward

\* The branch goes on GitHub, and with the answer its tracking branch.
LEMMA PushesGoOn ==
  ASSUME WorkInv, Push \/ Lost
  PROVE  Onward
<1>1. /\ acts' = acts /\ UNCHANGED <<refs, tree>> /\ pc' \in {"idle", "postfetch"}
      /\ remote' = remote \/ remote' = [remote EXCEPT !["topic"] = NoCommit]
      /\ tracking' = tracking \/ tracking' = [tracking EXCEPT !["topic"] = NoCommit]
  BY DEF Push, Lost, At, Goes, Either, Stops, Fault
<1>2. /\ remote \in [{"main", "topic"} -> Heads] /\ tracking \in [{"main", "topic"} -> Heads]
  BY DEF WorkInv, RepositoryTypeOK, Heads
<1>3. /\ remote'["main"] = remote["main"] /\ tracking'["main"] = tracking["main"]
      /\ remote'["topic"] \in {remote["topic"], NoCommit}
      /\ tracking'["topic"] \in {tracking["topic"], NoCommit}
  BY <1>1, <1>2
<1>4. /\ remote'["main"] = 1 /\ tracking'["main"] \in {0, 1}
      /\ {tracking'["topic"], remote'["topic"]} \subseteq {Head, NoCommit}
  BY <1>3 DEF WorkInv, Undisturbed
<1>5. Undisturbed' /\ (Repeatable => Repeatable')
  BY <1>1, <1>4, SameRepository DEF WorkInv
<1>6. Known'
  BY <1>1 DEF Known, Planned
<1> QED BY <1>5, <1>6 DEF Onward

\* Nobody acted since the last look, as nobody acts at all.
LEMMA NothingSince ==
  ASSUME WorkInv
  PROVE  acts = run.checked
<1>1. PICK r \in RunType : run = r /\ acts >= r.checked
  BY DEF WorkInv, RunOK
<1>2. acts = 0 /\ r.checked \in 0..MaxActs
  BY <1>1, RunFields DEF WorkInv, Undisturbed
<1> QED BY <1>1, <1>2, RepositoryAssumption

\* From the last look at it on the worktree that goes is the one of the topic.
LEMMA TargetStands ==
  ASSUME WorkInv, pc \in {"disposable", "remove", "switch"}
  PROVE  /\ Target \in Registered /\ Target \in Paths /\ tree[Target] \in Tree
         /\ On("topic") = {Target} /\ tree[Target].on = "topic" /\ Removable(Target)
<1>1. CleanupInv /\ Known /\ RunOK
  BY DEF WorkInv
<1>2. plan.target # {} /\ plan.target = On("topic")
  BY <1>1 DEF CleanupInv, Placed, Known, Planned
<1>3. On("topic") = {Target}
  BY <1>1, <1>2, TargetIs
<1>4. Target \in Registered /\ tree[Target].on = "topic"
  BY <1>3 DEF On
<1>5. acts = run.checked
  BY NothingSince
<1>6. Removable(Target)
  BY <1>1, <1>5 DEF CleanupInv, Retires, Known
<1> QED BY <1>3, <1>4, <1>6, RegisteredTree DEF WorkInv

LEMMA RecheckGoesOn ==
  ASSUME WorkInv, Recheck
  PROVE  Onward
<1>1. /\ acts' = acts /\ Looks /\ plan' = plan /\ pc = "recheck"
      /\ \/ pc' = (IF Linked THEN "disposable" ELSE "switch") /\ Removable(Target)
         \/ pc' = "idle"
  BY DEF Recheck, At, Goes, Either
<1>2. /\ Undisturbed' /\ (Repeatable => Repeatable')
      /\ On("topic")' = On("topic") /\ On("main")' = On("main")
      /\ \A p \in Paths : Removable(p) => Removable(p)'
  BY <1>1, LookingDisturbsNothing DEF WorkInv
<1>3. Target \in Paths /\ Target' = Target
  <2>1. plan.target # {} /\ RunOK
    BY <1>1 DEF WorkInv, CleanupInv, Placed
  <2> QED BY <1>1, <2>1, TargetIs DEF Target
<1>4. Removable(Target) => Removable(Target)'
  BY <1>2, <1>3
<1>5. plan.target = On("topic") /\ plan.canonical = On("main")
  BY <1>1 DEF WorkInv, Known, Planned
<1>6. Known'
  BY <1>1, <1>2, <1>4, <1>5 DEF Known, Linked
<1> QED BY <1>2, <1>6 DEF Onward

\* One worktree changes and stays plain and where it is.
LEMMA PlainUpdate ==
  ASSUME RepositoryTypeOK, Undisturbed, NEW p \in Registered, NEW e \in Tree,
         tree' = [tree EXCEPT ![p] = e], Plain(e), e.on = tree[p].on,
         UNCHANGED <<refs, tracking, remote, acts>>
  PROVE  /\ Undisturbed' /\ On("topic")' = On("topic") /\ On("main")' = On("main")
         /\ tree'[p] = e /\ Registered' = Registered
         /\ \A q \in Registered \ {p} : tree'[q] = tree[q]
<1>1. tree \in [Paths -> Tree \cup {NoTree}] /\ p \in Paths
  BY DEF RepositoryTypeOK, Registered
<1>2. tree'[p] = e /\ \A q \in Paths \ {p} : tree'[q] = tree[q]
  BY <1>1
<1>3. Registered' = Registered
  BY <1>1, <1>2, TreeAssumption DEF Registered
<1>4. On("topic")' = On("topic") /\ On("main")' = On("main")
  BY <1>1, <1>2, <1>3 DEF On
<1>5. \A q \in Registered : Plain(tree'[q])
  BY <1>2 DEF Undisturbed, Registered
<1>6. Undisturbed'
  BY <1>3, <1>5 DEF Undisturbed
<1> QED BY <1>1, <1>2, <1>3, <1>4, <1>6 DEF Registered

LEMMA DisposableGoesOn ==
  ASSUME WorkInv, Disposable
  PROVE  Onward
<1>1. /\ pc = "disposable" /\ UNCHANGED <<plan, refs, tracking, remote, acts>>
      /\ \/ /\ pc' = "remove"
            /\ tree' = [tree EXCEPT ![Target].residue = @ \ {"disposable"}]
         \/ pc' = "idle" /\ tree' = tree
  BY DEF Disposable, At, Goes, Either
<1>2. /\ Target \in Registered /\ Target \in Paths /\ tree[Target] \in Tree
      /\ On("topic") = {Target} /\ tree[Target].on = "topic" /\ Removable(Target)
  BY <1>1, TargetStands
<1>3. CASE pc' = "idle" /\ tree' = tree
  <2>1. Looks
    BY <1>1, <1>3 DEF Looks
  <2>2. Undisturbed' /\ (Repeatable => Repeatable')
    BY <1>1, <2>1, LookingDisturbsNothing DEF WorkInv
  <2>3. Known'
    BY <1>3 DEF Known, Planned
  <2> QED BY <2>2, <2>3 DEF Onward
<1>4. CASE pc' = "remove" /\ tree' = [tree EXCEPT ![Target].residue = @ \ {"disposable"}]
  <2>1. PICK d \in Tree : tree[Target] = d
    BY <1>2
  <2>2. PICK e \in Tree : /\ e = [d EXCEPT !.residue = d.residue \ {"disposable"}]
                          /\ e.on = d.on /\ e.at = d.at /\ e.work = d.work /\ e.here = d.here
                          /\ e.residue = d.residue \ {"disposable"}
    <3>1. d.residue \ {"disposable"} \in SUBSET Residues
      BY TreeFields
    <3> QED BY ZenonT(60), <3>1, TreeResidue
  <2>3. tree' = [tree EXCEPT ![Target] = e]
    BY <1>2, <1>4, <2>1, <2>2 DEF WorkInv, RepositoryTypeOK
  <2>4. Plain(d)
    BY <1>2, <2>1 DEF WorkInv, Undisturbed
  <2>5. Plain(e)
    BY <2>2, <2>4 DEF Plain
  <2>6. /\ Undisturbed' /\ On("topic")' = On("topic") /\ On("main")' = On("main")
        /\ tree'[Target] = e /\ Registered' = Registered
        /\ \A q \in Registered \ {Target} : tree'[q] = tree[q]
    BY <1>1, <1>2, <2>1, <2>2, <2>3, <2>5, PlainUpdate DEF WorkInv
  <2>7. Removable(Target)'
    BY <1>1, <1>2, <2>1, <2>2, <2>6 DEF Removable, Clean, IsHere, Target
  <2>8. Known'
    BY <1>1, <1>4, <2>6 DEF WorkInv, Known, Planned
  <2>9. Target \notin On("main")
    BY <1>2 DEF On
  <2>10. \A q \in On("main") : /\ q \in Registered \ {Target} /\ tree'[q] = tree[q]
                               /\ HeadOf(q)' = HeadOf(q) /\ (Clean(q) => Clean(q)')
    BY <1>1, <2>6, <2>9 DEF On, HeadOf, Clean, IsHere
  <2>11. Ready(On("main"), remote["main"]) => Ready(On("main"), remote["main"])'
    BY <1>1, <2>6, <2>10 DEF Ready
  <2>12. ASSUME Eligible PROVE Eligible'
    <3>1. {refs["topic"], tracking["topic"], remote["topic"]}' \subseteq {Head, NoCommit}
      BY <2>6 DEF Undisturbed
    <3>2. \A p \in On("topic")' : Removable(p)' /\ (On("main")' = {} \/ p # Primary)
      <4>1. Target' = Target
        BY <1>1 DEF Target
      <4>2. On("main") = {} \/ Target # Primary
        BY <1>2, <2>12 DEF Eligible
      <4> QED BY <1>2, <2>6, <2>7, <4>1, <4>2
    <3>3. \/ Ready(On("main"), remote["main"])'
          \/ /\ On("main")' = {} /\ On("topic")' # {}
             /\ refs'["main"] # NoCommit /\ Ancestor(refs'["main"], remote'["main"])
      BY <1>1, <2>6, <2>11, <2>12 DEF Eligible
    <3> QED BY <3>1, <3>2, <3>3 DEF Eligible
  <2>13. Repeatable => Repeatable'
    BY <1>1, <2>6, <2>12 DEF Repeatable
  <2> QED BY <2>6, <2>8, <2>13 DEF Onward
<1> QED BY <1>1, <1>3, <1>4

LEMMA RemoveGoesOn ==
  ASSUME WorkInv, Remove \/ HalfRemoved
  PROVE  Onward
<1>1. /\ pc = "remove" /\ UNCHANGED <<refs, tracking, remote, acts>>
      /\ pc' \in {"idle", "lsremote", "postfetch"}
      /\ tree' = [tree EXCEPT ![Target] = NoTree] \/ tree' = tree
  BY DEF Remove, HalfRemoved, At, Goes, Either, AfterLocal, Stops, Fault
<1>2. /\ Target \in Registered /\ Target \in Paths
      /\ On("topic") = {Target} /\ tree[Target].on = "topic" /\ Removable(Target)
  BY <1>1, TargetStands
<1>3. Known'
  BY <1>1 DEF Known, Planned
<1>4. CASE tree' = tree
  <2>1. Looks
    BY <1>1, <1>4 DEF Looks
  <2> QED BY <1>1, <1>3, <2>1, LookingDisturbsNothing DEF WorkInv, Onward
<1>5. CASE tree' = [tree EXCEPT ![Target] = NoTree]
  <2>1. tree \in [Paths -> Tree \cup {NoTree}]
    BY DEF WorkInv, RepositoryTypeOK
  <2>2. Registered' = Registered \ {Target} /\ \A q \in Registered' : tree'[q] = tree[q]
    BY <1>2, <1>5, <2>1 DEF Registered
  <2>3. Undisturbed'
    BY <1>1, <2>2 DEF WorkInv, Undisturbed
  <2>4. On("topic")' = {} /\ On("main")' = On("main")
    BY <1>2, <2>2 DEF On
  <2>5. On("main") # {}
    BY <1>1 DEF WorkInv, Known, Planned
  <2>6. \A q \in On("main") : HeadOf(q)' = HeadOf(q) /\ (Clean(q) => Clean(q)')
    BY <1>1, <2>2, <2>4 DEF On, HeadOf, Clean, IsHere
  <2>7. Ready(On("main"), remote["main"]) => Ready(On("main"), remote["main"])'
    BY <1>1, <2>4, <2>6 DEF Ready
  <2>8. Eligible => Eligible'
    BY <1>1, <2>4, <2>5, <2>7 DEF Eligible
  <2>9. Repeatable => Repeatable'
    BY <1>1, <2>4, <2>8 DEF Repeatable
  <2> QED BY <1>3, <2>3, <2>9 DEF Onward
<1> QED BY <1>1, <1>4, <1>5

\* The single checkout goes to main.
LEMMA SwitchGoesOn ==
  ASSUME WorkInv, Switch
  PROVE  Onward
<1>1. /\ pc = "switch" /\ UNCHANGED <<plan, tracking, remote, acts>>
      /\ \/ /\ On("main") \subseteq {Target} /\ pc' = "forward" /\ tree' = OnMain
            /\ refs' = IF refs["main"] # NoCommit THEN refs
                       ELSE [refs EXCEPT !["main"] = tracking["main"]]
         \/ ~(On("main") \subseteq {Target}) \/ tree[Target].work
  BY DEF Switch, At, Goes
<1>2. /\ Target \in Registered /\ Target \in Paths /\ tree[Target] \in Tree
      /\ On("topic") = {Target} /\ tree[Target].on = "topic" /\ Removable(Target)
  BY <1>1, TargetStands
<1>3. On("main") = {} /\ ~tree[Target].work
  <2>1. plan.canonical = {} /\ plan.canonical = On("main")
    BY <1>1 DEF WorkInv, CleanupInv, Placed, Known, Planned
  <2> QED BY <1>2, <2>1 DEF Removable, Clean
<1>4. pc' = "forward" /\ tree' = OnMain /\ refs' = refs
  BY <1>1, <1>3, CommitsDiffer, RepositoryAssumption DEF WorkInv, Undisturbed, Canonical
<1>5. PICK d \in Tree : tree[Target] = d
  BY <1>2
<1>6. PICK e \in Tree : /\ e = WithHead(d, "main", NoCommit) /\ e.on = "main" /\ e.at = NoCommit
                        /\ e.here = d.here /\ e.work = d.work /\ e.residue = d.residue
  <2>1. "main" \in Branches \cup {"detached"}
    BY DEF Branches
  <2> QED BY <2>1, HistoryTypes, TreeOnAt
<1>7. tree \in [Paths -> Tree \cup {NoTree}]
  BY DEF WorkInv, RepositoryTypeOK
<1>8. tree' = [tree EXCEPT ![Target] = e]
  BY <1>2, <1>4, <1>5, <1>6, <1>7 DEF OnMain, WithHead
<1>9. tree'[Target] = e /\ \A q \in Paths \ {Target} : tree'[q] = tree[q]
  BY <1>2, <1>7, <1>8
<1>10. Registered' = Registered
  BY <1>2, <1>9, TreeAssumption DEF Registered
<1>11. On("topic")' = {} /\ On("main")' = {Target}
  <2>1. \A q \in Registered : q # Target => tree[q].on # "topic" /\ tree[q].on # "main"
    BY <1>2, <1>3 DEF On
  <2>2. \A q \in Registered : tree'[q].on # "topic" /\ (tree'[q].on = "main" <=> q = Target)
    BY <1>6, <1>9, <2>1 DEF Registered
  <2> QED BY <1>2, <1>10, <2>2 DEF On
<1>12. Plain(d) /\ ~d.work
  BY <1>2, <1>3, <1>5 DEF WorkInv, Undisturbed
<1>13. Plain(e)
  BY <1>6, <1>12 DEF Plain, Branches
<1>14. Undisturbed'
  <2>1. \A q \in Registered' : Plain(tree'[q])
    BY <1>9, <1>10, <1>13 DEF WorkInv, Undisturbed, Registered
  <2> QED BY <1>1, <1>4, <2>1 DEF WorkInv, Undisturbed
<1>15. Known'
  BY <1>4, <1>11 DEF Known, Planned
<1>16. Repeatable'
  <2>1. CASE refs'["main"] # remote'["main"]
    BY <1>11, <2>1 DEF Repeatable
  <2>2. CASE refs'["main"] = remote'["main"]
    <3>1. Clean(Target)' /\ HeadOf(Target)' = remote'["main"]
      <4>1. Target' = Target
        BY <1>1 DEF Target
      <4>2. tree'[Target].here /\ ~tree'[Target].work /\ tree'[Target].on = "main"
        BY <1>6, <1>9, <1>12 DEF Plain
      <4> QED BY <1>2, <1>10, <2>2, <4>1, <4>2 DEF Clean, IsHere, HeadOf
    <3>2. Cardinality({Target}) = 1
      BY FS_Singleton
    <3>3. Ready(On("main"), remote["main"])'
      <4>1. Target' = Target
        BY <1>1 DEF Target
      <4> QED BY <1>11, <3>1, <3>2, <4>1 DEF Ready
    <3>4. {refs["topic"], tracking["topic"], remote["topic"]}' \subseteq {Head, NoCommit}
      BY <1>14 DEF Undisturbed
    <3>5. Eligible'
      BY <1>11, <3>3, <3>4 DEF Eligible
    <3> QED BY <3>5 DEF Repeatable
  <2> QED BY <2>1, <2>2
<1> QED BY <1>14, <1>15, <1>16 DEF Onward

\* What git can fast-forward here is a main that lacks the merge.
LEMMA OnlyTheMerge ==
  ASSUME Undisturbed, ~Ancestor(tracking["main"], refs["main"]),
         Ancestor(refs["main"], tracking["main"])
  PROVE  refs["main"] = 0 /\ tracking["main"] = 1
<1>1. refs["main"] \in {0, 1, Own} /\ tracking["main"] \in {0, 1}
  BY DEF Undisturbed
<1>2. refs["main"] # Own
  BY <1>1, CommitsDiffer DEF Ancestor
<1>3. refs["main"] # tracking["main"]
  BY DEF Ancestor
<1>4. ~Ancestor(1, 0)
  BY CommitsDiffer, RepositoryAssumption DEF Ancestor, Canonical
<1> QED BY <1>1, <1>2, <1>3, <1>4

LEMMA ForwardedMain ==
  ASSUME RepositoryTypeOK, Undisturbed, UNCHANGED <<tree, tracking, remote, acts>>,
         refs' = [refs EXCEPT !["main"] = 1]
  PROVE  Undisturbed' /\ refs'["main"] = 1
<1>1. refs \in [Branches -> Heads]
  BY DEF RepositoryTypeOK, Heads
<1>2. refs'["main"] = 1 /\ refs'["topic"] = refs["topic"] /\ refs'["other"] = refs["other"]
  BY <1>1 DEF Branches
<1> QED BY <1>2 DEF Undisturbed, Registered

LEMMA ForwardGoesOn ==
  ASSUME WorkInv, Forward
  PROVE  Onward
<1>1. /\ pc = "forward" /\ pc' \in {"lsremote", "postfetch", "idle"} /\ IsHere(run.cwd)
      /\ UNCHANGED <<plan, tracking, remote, acts>>
      /\ \/ UNCHANGED <<refs, tree>>
         \/ /\ ~Ancestor(tracking["main"], HeadOf(Target))
            /\ Ancestor(HeadOf(Target), tracking["main"])
            /\ refs' = IF tree[Target].on = "detached" THEN refs
                       ELSE [refs EXCEPT ![tree[Target].on] = tracking["main"]]
            /\ tree' = IF tree[Target].on = "detached"
                       THEN [tree EXCEPT ![Target].at = tracking["main"]] ELSE tree
  BY DEF Forward, At, Goes, Either, AfterLocal, FastForwards
<1>2. Target \in Registered /\ tree[Target].on = "main" /\ On("topic") = {}
  <2>1. acts = run.checked
    BY NothingSince
  <2> QED BY <1>1, <2>1, SingleCheckout DEF WorkInv, CleanupInv, Retires, Known
<1>3. Known'
  BY <1>1 DEF Known, Planned
<1>4. CASE UNCHANGED <<refs, tree>>
  <2>1. Looks
    BY <1>1, <1>4 DEF Looks
  <2> QED BY <1>1, <1>3, <2>1, LookingDisturbsNothing DEF WorkInv, Onward
<1>5. CASE ~UNCHANGED <<refs, tree>>
  <2>1. /\ HeadOf(Target) = refs["main"] /\ tree' = tree
        /\ refs' = [refs EXCEPT !["main"] = tracking["main"]]
    BY <1>1, <1>2, <1>5 DEF HeadOf
  <2>2. refs' = [refs EXCEPT !["main"] = 1]
    BY <1>1, <1>5, <2>1, OnlyTheMerge DEF WorkInv
  <2>3. Undisturbed' /\ refs'["main"] = 1
    BY <1>1, <2>1, <2>2, ForwardedMain DEF WorkInv
  <2>4. On("topic")' = {} /\ On("main")' = On("main") /\ Registered' = Registered
    BY <1>2, <2>1 DEF On, Registered
  <2>5. Cardinality(On("main")) = 1
    <3>1. On("main") # {} /\ "main" \in Branches
      BY <1>2 DEF On, Branches
    <3> QED BY <3>1, BranchOnce DEF WorkInv
  <2>6. \A p \in On("main")' : Clean(p)' /\ HeadOf(p)' = remote'["main"]
    BY <2>3, <2>4 DEF On, Clean, IsHere, HeadOf, Undisturbed, Plain
  <2>7. Ready(On("main"), remote["main"])'
    BY <2>4, <2>5, <2>6 DEF Ready
  <2>8. Eligible'
    BY <2>3, <2>4, <2>7 DEF Eligible, Undisturbed
  <2> QED BY <1>3, <2>3, <2>8 DEF Onward, Repeatable
<1> QED BY <1>4, <1>5

\* A run of the cleanup, from its beginning on, while no closeout runs.
LEMMA CleanupRunKeeps ==
  ASSUME WorkInv, CleanupRuns
  PROVE  WorkInv' /\ (pc # "idle" /\ Repeatable => Repeatable')
<1>1. /\ step = "idle" /\ UNCHANGED <<issues, ci, step, co, verdict>>
      /\ Begin \/ Works \/ Refused \/ Lost \/ HalfRemoved \/ Killed \/ Gone
  BY DEF CleanupRuns, gitHubVars, closeoutVars
<1>2. CASE Begin
  <2>1. CleanupInv'
    BY <1>2, BeginKeeps DEF WorkInv
  <2>2. pc = "idle" /\ pc' = "fetch" /\ acts' = acts /\ Looks
    BY <1>2 DEF Begin, repoVars, Looks
  <2>3. Undisturbed'
    BY <2>2, LookingDisturbsNothing DEF WorkInv
  <2>4. Known'
    BY <2>2 DEF Known, Planned
  <2>5. CloseoutOK'
    BY <1>1, <2>2 DEF WorkInv, CloseoutOK
  <2> QED BY <1>1, <2>1, <2>2, <2>3, <2>4, <2>5 DEF WorkInv, CleanupInv
<1>3. CASE Works \/ Refused \/ Lost \/ HalfRemoved \/ Killed \/ Gone
  <2>1. pc # "idle" /\ acts' = acts
    BY <1>3 DEF Works, BuildPlan, ExecutePlan, Fetch, ReadRegistry, ReadTopic, CheckTarget,
       CheckCanonical, ReadRemoteTopic, ReadRefs, Control, Prefetch, Precanonical, Recheck,
       Disposable, Remove, Switch, Forward, LsRemote, Push, PostFetch, PostRegistry, PostTopic,
       PostRemote, PostRefs, At, Refused, Lost, HalfRemoved, Killed, Gone, Fault, repoVars
  <2>2. CleanupInv'
    BY <1>3, <2>1, CleanupStep DEF WorkInv, CleanupNext
  <2>3. Onward
    BY <1>3, FetchesGoOn, RegistryGoesOn, PlanningGoesOn, LooksGoOn, FailuresGoOn, PushesGoOn,
       RecheckGoesOn, DisposableGoesOn, RemoveGoesOn, SwitchGoesOn,
       ForwardGoesOn DEF Works, BuildPlan, ExecutePlan
  <2>4. CloseoutOK'
    BY <1>1, <2>1 DEF WorkInv, CloseoutOK
  <2> QED BY <1>1, <2>2, <2>3, <2>4 DEF WorkInv, CleanupInv, Onward
<1> QED BY <1>1, <1>2, <1>3

\* What a closeout does to an undisturbed repository.
LEMMA CloseoutTouches ==
  ASSUME WorkInv, CloseoutRuns
  PROVE  /\ UNCHANGED <<acts, remote, issues, ci, pc, run, plan, result>>
         /\ tracking'["main"] \in {0, 1} /\ tracking'["topic"] = tracking["topic"]
         /\ UNCHANGED <<refs, tree>> \/ (Merge /\ tracking' = tracking)
<1>1. UNCHANGED <<pc, run, plan, result>>
  BY DEF CloseoutRuns, cleanupVars
<1>2. CASE BeginCloseout
  BY <1>1, <1>2 DEF BeginCloseout, repoVars, gitHubVars, WorkInv, Undisturbed
<1>3. CASE RefreshCanonical \/ VerifyFetch
  <2>1. tracking \in [{"main", "topic"} -> Heads]
    BY DEF WorkInv, RepositoryTypeOK, Heads
  <2>2. /\ UNCHANGED <<acts, remote, issues, ci, refs, tree>>
        /\ tracking' = [tracking EXCEPT !["main"] = remote["main"]]
    BY <1>3 DEF RefreshCanonical, VerifyFetch, Doing, FetchMain
  <2> QED BY <1>1, <2>1, <2>2 DEF WorkInv, Undisturbed
<1>4. CASE Merge
  BY <1>1, <1>4 DEF Merge, Doing, WorkInv, Undisturbed
<1>5. CASE CloseoutStep /\ ~RefreshCanonical /\ ~VerifyFetch /\ ~Merge
  BY <1>1, <1>5 DEF CloseoutStep, ReadIssues, ReadWorkflows, Contained, CanonicalWorktree,
     CheckTargets, Synced, VerifyLocal, ReadIssuesAgain, ReadWorkflowsAgain, CheckTargetsAgain,
     Reads, Doing, WorkInv, Undisturbed
<1>6. CASE CloseoutRefused \/ CloseoutKilled \/ CloseoutGone
  BY <1>1, <1>6 DEF CloseoutRefused, CloseoutKilled, CloseoutGone, Interrupted, Reads, Fault,
     WorkInv, Undisturbed
<1> QED BY <1>2, <1>3, <1>4, <1>5, <1>6 DEF CloseoutRuns

\* The canonical worktree is on main when the closeout forwards it.
LEMMA MergesMain ==
  ASSUME WorkInv, Merge, ~UNCHANGED <<refs, tree>>
  PROVE  tree' = tree /\ refs' = [refs EXCEPT !["main"] = 1]
<1>1. /\ step = "forward" /\ CloseoutInv
      /\ ~Ancestor(tracking["main"], HeadOf(Can))
      /\ Ancestor(HeadOf(Can), tracking["main"])
      /\ refs' = IF tree[Can].on = "detached" THEN refs
                 ELSE [refs EXCEPT ![tree[Can].on] = tracking["main"]]
      /\ tree' = IF tree[Can].on = "detached"
                 THEN [tree EXCEPT ![Can].at = tracking["main"]] ELSE tree
  BY DEF Merge, Doing, FastForwards, WorkInv
<1>2. co.canonical = {Can}
  BY <1>1, CanIs DEF CloseoutInv, Chosen
<1>3. acts = co.chosen
  <2>1. PICK c \in CoType : co = c /\ acts >= c.chosen
    BY DEF WorkInv, CloseoutOK
  <2>2. acts = 0 /\ c.chosen \in 0..MaxActs
    BY <2>1, CoFields DEF WorkInv, Undisturbed
  <2> QED BY <2>1, <2>2, RepositoryAssumption
<1>4. tree[Can].on = "main"
  BY <1>1, <1>2, <1>3 DEF CloseoutInv, Chosen
<1>5. /\ HeadOf(Can) = refs["main"] /\ tree' = tree
      /\ refs' = [refs EXCEPT !["main"] = tracking["main"]]
  BY <1>1, <1>4 DEF HeadOf
<1> QED BY <1>1, <1>5, OnlyTheMerge DEF WorkInv

\* A run of the closeout, from its beginning on, while no cleanup runs.
LEMMA CloseoutRunKeeps ==
  ASSUME WorkInv, CloseoutRuns
  PROVE  WorkInv'
<1>1. /\ UNCHANGED <<acts, remote, issues, ci, pc, run, plan, result>>
      /\ tracking'["main"] \in {0, 1} /\ tracking'["topic"] = tracking["topic"]
      /\ UNCHANGED <<refs, tree>> \/ (Merge /\ tracking' = tracking)
  BY CloseoutTouches
<1>2. pc = "idle"
  BY DEF CloseoutRuns
<1>3. CloseoutInv'
  <2>1. CASE BeginCloseout
    BY <2>1, BeginCloseoutKeeps DEF WorkInv, RepoInv
  <2>2. CASE CloseoutStep \/ CloseoutRefused \/ CloseoutKilled \/ CloseoutGone
    <3>1. step # "idle"
      BY <2>2 DEF CloseoutStep, ReadIssues, ReadWorkflows, RefreshCanonical, Contained,
         CanonicalWorktree, CheckTargets, Merge, Synced, VerifyFetch, VerifyLocal,
         ReadIssuesAgain, ReadWorkflowsAgain, CheckTargetsAgain, Doing, CloseoutRefused,
         CloseoutKilled, CloseoutGone, Interrupted
    <3> QED BY <2>2, <3>1, CloseoutKeeps DEF WorkInv, CloseoutNext
  <2> QED BY <2>1, <2>2 DEF CloseoutRuns
<1>4. Undisturbed'
  <2>1. CASE UNCHANGED <<refs, tree>>
    <3>1. /\ remote'["main"] = 1 /\ tracking'["main"] \in {0, 1}
          /\ {tracking'["topic"], remote'["topic"]} \subseteq {Head, NoCommit}
      BY <1>1 DEF WorkInv, Undisturbed
    <3> QED BY <1>1, <2>1, <3>1, SameRepository DEF WorkInv
  <2>2. CASE Merge /\ tracking' = tracking /\ ~UNCHANGED <<refs, tree>>
    BY <1>1, <2>2, MergesMain, ForwardedMain DEF WorkInv
  <2> QED BY <1>1, <2>1, <2>2
<1>5. RunOK' /\ Known'
  BY <1>1, <1>2 DEF WorkInv, RunOK, Known, Planned
<1> QED BY <1>1, <1>2, <1>3, <1>4, <1>5 DEF WorkInv, CloseoutInv, RepoInv

LEMMA IdlingKeeps ==
  ASSUME WorkInv, UNCHANGED workVars
  PROVE  WorkInv' /\ (Repeatable => Repeatable')
<1>1. /\ UNCHANGED <<refs, tracking, remote, tree, acts, faults, issues, ci, step, co, verdict>>
      /\ UNCHANGED <<pc, run, plan, result>> /\ UNCHANGED allVars /\ UNCHANGED closeoutAll
      /\ Looks
  BY DEF workVars, repoVars, cleanupVars, gitHubVars, closeoutVars, allVars, closeoutAll, Looks
<1>2. (pc # "idle" => CleanupInv') /\ (step # "idle" => CloseoutInv')
  BY <1>1, CleanupStep, CloseoutKeeps DEF WorkInv
<1>3. /\ Undisturbed' /\ (Repeatable => Repeatable')
      /\ On("topic")' = On("topic") /\ On("main")' = On("main")
      /\ \A p \in Paths : Removable(p) => Removable(p)'
  BY <1>1, LookingDisturbsNothing DEF WorkInv
<1>4. RepositoryTypeOK' /\ OneTreeEach'
  BY <1>1 DEF WorkInv, RepositoryTypeOK, OneTreeEach, Registered
<1>5. RunOK' /\ CloseoutOK'
  BY <1>1 DEF WorkInv, RunOK, CloseoutOK
<1>6. Known'
  <2>1. Target' = Target /\ Registered' = Registered
    BY <1>1 DEF Target, Registered
  <2>2. Removable(Target) => Removable(Target)'
    BY <1>1, <2>1 DEF Removable, Clean, IsHere
  <2> QED BY <1>1, <1>3, <2>2 DEF WorkInv, Known
<1> QED BY <1>1, <1>2, <1>3, <1>4, <1>5, <1>6 DEF WorkInv

LEMMA WorkKeeps ==
  ASSUME WorkInv, [WorkNext]_workVars
  PROVE  WorkInv'
BY CleanupRunKeeps, CloseoutRunKeeps, IdlingKeeps DEF WorkNext

(***************************************************************************)
(* WorkInv, in whatever order an operator runs the two scripts and         *)
(* wherever either of them stops (PostMergeWork).                          *)
(***************************************************************************)
THEOREM WorkIsInductive == WorkSpec => []WorkInv
BY WorkStarts, WorkKeeps, PTL DEF WorkSpec

(***************************************************************************)
(* Wherever a cleanup stops it can be repeated, except on a main that is   *)
(* not forwarded yet or a worktree deleted in part (execute_plan).         *)
(***************************************************************************)
THEOREM CleanupStaysRepeatable == WorkSpec => StaysRepeatable
<1> DEFINE Stays == pc # "idle" /\ Repeatable => Repeatable'
<1>1. WorkInv /\ [WorkNext]_workVars => [Stays]_workVars
  <2>1. SUFFICES ASSUME WorkInv, [WorkNext]_workVars, pc # "idle", Repeatable PROVE Repeatable'
    OBVIOUS
  <2>2. CASE CloseoutRuns
    BY <2>1, <2>2 DEF CloseoutRuns
  <2> QED BY <2>1, <2>2, CleanupRunKeeps, IdlingKeeps DEF WorkNext
<1>2. StaysRepeatable <=> [][Stays]_workVars
  BY DEF StaysRepeatable
<1> HIDE DEF Stays
<1> QED BY <1>1, <1>2, WorkIsInductive, PTL DEF WorkSpec

--------------------------------------------------------------------------------
\* PASS of a closeout leaves what a cleanup accepts.
LEMMA CloseoutReadied ==
  ASSUME WorkInv, [WorkNext]_workVars, verdict # "pass", verdict' = "pass"
  PROVE  Eligible \/ tree[Primary].on = "topic"
<1>1. CloseoutRuns
  BY DEF WorkNext, CleanupRuns, closeoutVars, workVars
<1>2. step = "targetsAgain" /\ TargetsSafe
  BY <1>1 DEF CloseoutRuns, BeginCloseout, CloseoutStep, ReadIssues, ReadWorkflows,
     RefreshCanonical, Contained, CanonicalWorktree, CheckTargets, Merge, Synced, VerifyFetch,
     VerifyLocal, ReadIssuesAgain, ReadWorkflowsAgain, CheckTargetsAgain, Doing, Then, Reports,
     Require, CloseoutRefused, CloseoutKilled, CloseoutGone, Interrupted
<1>3. acts = co.verified
  <2>1. PICK c \in CoType : co = c /\ acts >= c.verified
    BY DEF WorkInv, CloseoutOK
  <2>2. acts = 0 /\ c.verified \in 0..MaxActs
    BY <2>1, CoFields DEF WorkInv, Undisturbed
  <2> QED BY <2>1, <2>2, RepositoryAssumption
<1>4. Ready(On("main"), remote["main"])
  BY <1>2, <1>3 DEF WorkInv, CloseoutInv, Confirmed, Reached, AfterFetch
<1>5. SUFFICES ASSUME tree[Primary].on # "topic" PROVE Eligible
  OBVIOUS
<1>6. \A p \in On("topic") : Removable(p) /\ p # Primary
  BY <1>2, <1>5 DEF On, TargetsSafe, Targets, Removable, WorkInv, Undisturbed, Plain
<1> QED BY <1>4, <1>6 DEF Eligible, WorkInv, Undisturbed

\* PASS of a cleanup leaves what can be closed out.
LEMMA CleanupReadied ==
  ASSUME WorkInv, [WorkNext]_workVars, result # "pass", result' = "pass"
  PROVE  Closeable
<1>1. CleanupRuns
  BY DEF WorkNext, CloseoutRuns, cleanupVars, workVars
<1>2. pc = "postrefs"
  <2>1. Verdict # "pass"
    BY DEF Verdict
  <2> QED BY <1>1, <2>1 DEF CleanupRuns, Begin, Works, BuildPlan, ExecutePlan, Fetch,
     ReadRegistry, ReadTopic, CheckTarget, CheckCanonical, ReadRemoteTopic, ReadRefs, Control,
     Prefetch, Precanonical, Recheck, Disposable, Remove, Switch, Forward, LsRemote, Push,
     PostFetch, PostRegistry, PostTopic, PostRemote, PostRefs, At, Goes, Either, Stops, Refused,
     Lost, HalfRemoved, Killed, Gone
<1>3. Ready(On("main"), remote["main"]) /\ On("topic") = {}
  BY <1>2, NothingSince DEF WorkInv, CleanupInv, Verified, Passed
<1>4. Targets = {}
  <2>1. ASSUME NEW p \in Registered PROVE tree[p].on # "topic" /\ HeadOf(p) # Head
    <3>1. tree[p].on \in {"main", "other"}
      BY <1>3, <2>1 DEF WorkInv, Undisturbed, Plain, Branches, On
    <3>2. refs["main"] # Head /\ refs["other"] # Head
      BY CommitsDiffer DEF WorkInv, Undisturbed
    <3> QED BY <3>1, <3>2 DEF HeadOf
  <2> QED BY <2>1 DEF Targets
<1>5. TargetsSafe
  BY <1>4 DEF TargetsSafe
<1>6. Ancestor(1, remote["main"])
  BY DEF WorkInv, Undisturbed, Ancestor
<1>7. /\ Cardinality(On("main")) = 1
      /\ \A p \in On("main") : Clean(p) /\ Ancestor(HeadOf(p), remote["main"])
  BY <1>3 DEF Ready, Ancestor
<1> QED BY <1>5, <1>6, <1>7 DEF Closeable, WorkInv

(***************************************************************************)
(* Each script leaves what the other accepts: a PASS of the closeout what  *)
(* build_plan of the cleanup requires, and the other way round.            *)
(***************************************************************************)
THEOREM ScriptsReadyEachOther == WorkSpec => EachReadiesTheOther
<1> DEFINE Closed == verdict # "pass" /\ verdict' = "pass" => Eligible \/ tree[Primary].on = "topic"
           Cleaned == result # "pass" /\ result' = "pass" => Closeable
<1>1. WorkInv /\ [WorkNext]_workVars => [Closed]_workVars /\ [Cleaned]_workVars
  BY CloseoutReadied, CleanupReadied
<1>2. EachReadiesTheOther <=> [][Closed]_workVars /\ [][Cleaned]_workVars
  BY DEF EachReadiesTheOther, CloseoutReadies, CleanupReadies
<1> HIDE DEF Closed, Cleaned
<1> QED BY <1>1, <1>2, WorkIsInductive, PTL DEF WorkSpec
================================================================================
