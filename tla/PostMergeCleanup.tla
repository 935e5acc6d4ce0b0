---------------------------- MODULE PostMergeCleanup ----------------------------
(***************************************************************************)
(* scripts/post_merge_cleanup.py: after a pull request is merged, remove   *)
(* its worktree or return the single checkout to main, and on request      *)
(* delete its branch on GitHub.  A run plans, shows the plan, plans again  *)
(* (--execute trusts nothing it read before), acts, and then looks at the  *)
(* repository once more before it says PASS.  Each effect is a step, and   *)
(* each look at one thing, at the moment of its first git process; anybody *)
(* may act between two steps.                                              *)
(***************************************************************************)
EXTENDS GitRepository

CONSTANT MaxRuns    \* bound on the runs of the command

ASSUME CleanupAssumption == MaxRuns \in Nat

VARIABLES
  pc,         \* the step the run does next, or idle
  run,        \* the command: where it runs, its switches, what it did and saw
  plan,       \* CleanupPlan
  shown,      \* print_plan printed that the tracking ref stays
  result,     \* what the run told the operator
  runs

cleanupVars == <<pc, run, plan, shown, result, runs>>
allVars == <<repoVars, cleanupVars>>

NoPlan == [main |-> NoCommit, trees |-> [p \in Paths |-> NoTree], topic |-> NoCommit,
           target |-> {}, canonical |-> {}, remote |-> NoCommit,
           base |-> [topic |-> NoCommit, other |-> NoCommit]]

CleanupInit ==
  /\ RepositoryInit
  /\ pc = "idle" /\ plan = NoPlan /\ result = "none" /\ runs = 0
  /\ run = [cwd |-> Primary, execute |-> FALSE, delete |-> FALSE, again |-> FALSE,
            effects |-> FALSE, main |-> NoCommit, checked |-> 0, scanned |-> 0]
  /\ shown = FALSE

--------------------------------------------------------------------------------
Linked == plan.canonical # {} /\ plan.target # {}
Single == plan.canonical = {} /\ plan.target # {}
Target == CHOOSE p \in Paths : plan.target = {p}

Verdict == IF ~run.again THEN "refused" ELSE IF run.effects THEN "incomplete" ELSE "blocked"

Stops(r) ==
  /\ pc' = "idle" /\ result' = r
  /\ UNCHANGED <<run, plan, shown, runs>>

\* One step of the run; every git process starts in the directory run.cwd.
At(s) == pc = s /\ IsHere(run.cwd) /\ UNCHANGED <<shown, runs, faults, acts>>
Goes(s) == pc' = s /\ UNCHANGED result
Looks == UNCHANGED <<refs, tracking, remote, tree>>
Either(ok, s) == IF ok THEN Goes(s) ELSE pc' = "idle" /\ result' = Verdict

Begin ==
  /\ pc = "idle" /\ runs < MaxRuns /\ runs' = runs + 1
  /\ \E p \in Paths, x, d \in BOOLEAN :
       /\ IsHere(p)
       /\ run' = [cwd |-> p, execute |-> x, delete |-> d, again |-> FALSE,
                  effects |-> FALSE, main |-> NoCommit, checked |-> 0, scanned |-> 0]
  /\ pc' = "fetch" /\ result' = "none" /\ plan' = NoPlan
  /\ shown' = FALSE
  /\ UNCHANGED repoVars

(***************************************************************************)
(* build_plan.  The evidence GitHub gives of a merged pull request does    *)
(* not change, so reading it is not a step of its own.                     *)
(***************************************************************************)
Fetch ==
  /\ At("fetch") /\ Goes("registry") /\ FetchMain
  /\ plan' = [NoPlan EXCEPT !.main = remote["main"]]
  /\ UNCHANGED <<run, refs, remote, tree>>

Registry ==
  [p \in Paths |-> IF tree[p] = NoTree THEN NoTree
                   ELSE [on |-> tree[p].on, head |-> HeadOf(p)]]

ReadRegistry ==
  /\ At("registry") /\ Goes("topic") /\ Looks /\ UNCHANGED run
  /\ plan' = [plan EXCEPT !.trees = Registry,
                          !.target = On("topic"), !.canonical = On("main")]

ReadTopic ==
  /\ At("topic") /\ Looks /\ UNCHANGED run
  /\ plan' = [plan EXCEPT !.topic = refs["topic"]]
  /\ Either(refs["topic"] \in {Head, NoCommit}, "target")

CheckTarget ==
  /\ At("target") /\ Looks /\ UNCHANGED <<run, plan>>
  /\ Either(/\ Cardinality(plan.target) <= 1
            /\ \A p \in plan.target :
                 Removable(p) /\ HeadOf(p) = Head /\ plan.topic # NoCommit, "canonical")

CheckCanonical ==
  /\ At("canonical") /\ Looks /\ UNCHANGED <<run, plan>>
  /\ Either(\/ /\ plan.canonical # {} /\ Ready(plan.canonical, plan.main)
               /\ Primary \notin plan.target
            \/ Single /\ refs["main"] # NoCommit /\ Ancestor(refs["main"], plan.main),
            "remoteTopic")

ReadRemoteTopic ==
  /\ At("remoteTopic") /\ Looks /\ UNCHANGED run
  /\ plan' = [plan EXCEPT !.remote = remote["topic"]]
  /\ Either(remote["topic"] \in {Head, NoCommit}, "refs")

\* snapshot_refs; then main prints the plan, or execute_plan goes on with it.
ReadRefs ==
  /\ pc = "refs" /\ IsHere(run.cwd) /\ Looks /\ UNCHANGED <<runs, faults, acts>>
  /\ plan' = [plan EXCEPT !.base = [topic |-> refs["topic"], other |-> refs["other"]]]
  /\ IF tracking["topic"] \notin {Head, NoCommit}
     THEN pc' = "idle" /\ result' = Verdict /\ UNCHANGED <<run, shown>>
     ELSE \/ run.again /\ Goes("control") /\ UNCHANGED <<run, shown>>
          \/ /\ ~run.again
             /\ shown' = (tracking["topic"] # NoCommit)
             /\ IF run.execute THEN Goes("fetch") /\ run' = [run EXCEPT !.again = TRUE]
                ELSE pc' = "idle" /\ result' = "planned" /\ UNCHANGED run

BuildPlan ==
  \/ Fetch \/ ReadRegistry \/ ReadTopic \/ CheckTarget \/ CheckCanonical
  \/ ReadRemoteTopic \/ ReadRefs

--------------------------------------------------------------------------------
(***************************************************************************)
(* execute_plan, up to the first effect.                                   *)
(***************************************************************************)
\* _stable_control_repo: a worktree that the run will not remove.
Surviving == IF plan.canonical # {} THEN plan.canonical ELSE plan.target

Control ==
  /\ At("control") /\ Looks /\ UNCHANGED plan
  /\ Either(\A p \in Surviving : IsHere(p), "prefetch")
  /\ run' = [run EXCEPT !.cwd = CHOOSE p \in Surviving : TRUE]

Prefetch ==
  /\ At("prefetch") /\ FetchMain /\ UNCHANGED <<run, plan, refs, remote, tree>>
  /\ Either(remote["main"] = plan.main, "precanonical")

Precanonical ==
  /\ At("precanonical") /\ Looks /\ UNCHANGED <<run, plan>>
  /\ Either(IF plan.canonical # {} THEN Ready(On("main"), plan.main)
            ELSE refs["main"] # NoCommit /\ Ancestor(refs["main"], plan.main),
            IF plan.target # {} THEN "recheck" ELSE IF run.delete THEN "lsremote" ELSE "postfetch")

Recheck ==
  /\ At("recheck") /\ Looks /\ UNCHANGED plan
  /\ LET ok == Removable(Target) /\ HeadOf(Target) = Head IN
     /\ Either(ok, IF Linked THEN "disposable" ELSE "switch")
     /\ run' = [run EXCEPT !.effects = ok, !.checked = acts]

(***************************************************************************)
(* The effects.                                                            *)
(***************************************************************************)
Disposable ==
  /\ At("disposable") /\ IsHere(Target) /\ UNCHANGED <<plan, refs, tracking, remote>>
  /\ LET ok == "kept" \notin tree[Target].residue IN
     /\ Either(ok, "remove")
     /\ tree' = IF ok THEN [tree EXCEPT ![Target].residue = @ \ {"disposable"}] ELSE tree
  /\ run' = [run EXCEPT !.scanned = acts]

AfterLocal == IF run.delete THEN "lsremote" ELSE "postfetch"

\* git worktree remove, never forced; it takes a vanished worktree too.
Remove ==
  /\ At("remove") /\ UNCHANGED <<run, plan, refs, tracking, remote>>
  /\ LET ok == Target \in Registered /\ Target # Primary
               /\ (tree[Target].here => ~tree[Target].work) IN
     /\ Either(ok, AfterLocal)
     /\ tree' = IF ok THEN [tree EXCEPT ![Target] = NoTree] ELSE tree

OnMain_Detached == [tree EXCEPT ![Target].on = "detached", ![Target].at = plan.main]
OnMain == [tree EXCEPT ![Target].on = "main", ![Target].at = NoCommit]

\* git switch main: uncommitted changes of somebody may or may not conflict,
\* and a main that is gone is made again from origin/main.
Switch ==
  /\ At("switch") /\ UNCHANGED <<run, plan, tracking, remote>>
  /\ LET free == On("main") \subseteq {Target} IN
     \/ /\ free /\ Goes("forward")
        /\ tree' = OnMain
        /\ refs' = IF refs["main"] # NoCommit THEN refs
                   ELSE [refs EXCEPT !["main"] = tracking["main"]]
     \/ (~free \/ tree[Target].work) /\ Either(FALSE, "") /\ UNCHANGED <<refs, tree>>

\* git merge --ff-only refs/remotes/origin/main, unless HEAD is the planned main.
Forward ==
  /\ At("forward") /\ UNCHANGED <<run, plan, tracking, remote>>
  /\ LET h == HeadOf(Target)
         t == tracking["main"]
         on == tree[Target].on IN
     \/ /\ h = plan.main \/ Ancestor(t, h)
        /\ Goes(AfterLocal) /\ UNCHANGED <<refs, tree>>
     \/ /\ h # plan.main /\ ~Ancestor(t, h) /\ FastForwards(h, t) /\ Goes(AfterLocal)
        /\ refs' = IF on = "detached" THEN refs ELSE [refs EXCEPT ![on] = t]
        /\ tree' = IF on = "detached" THEN [tree EXCEPT ![Target].at = t] ELSE tree
     \/ /\ h # plan.main /\ ~Ancestor(t, h) /\ (~FastForwards(h, t) \/ tree[Target].work)
        /\ Either(FALSE, "") /\ UNCHANGED <<refs, tree>>

\* _remote_delete_with_lease: look, then push with the lease on the PR head.
LsRemote ==
  /\ At("lsremote") /\ Looks /\ UNCHANGED plan
  /\ run' = [run EXCEPT !.effects = @ \/ plan.remote # NoCommit]
  /\ IF plan.remote # NoCommit /\ remote["topic"] = Head THEN Goes("push")
     ELSE IF remote["topic"] = NoCommit THEN Goes("postfetch")
     ELSE pc' = "idle" /\ result' = IF run'.effects THEN "incomplete" ELSE "blocked"

LeaseHolds_Forced == remote["topic"] # NoCommit
LeaseHolds == remote["topic"] = Head

\* A deletion that succeeds takes the remote-tracking branch with it.
Push ==
  /\ At("push") /\ UNCHANGED <<run, plan, refs, tree>>
  /\ Either(LeaseHolds, "postfetch")
  /\ remote' = IF LeaseHolds THEN [remote EXCEPT !["topic"] = NoCommit] ELSE remote
  /\ tracking' = IF LeaseHolds THEN [tracking EXCEPT !["topic"] = NoCommit] ELSE tracking

--------------------------------------------------------------------------------
(***************************************************************************)
(* The postconditions.  Failures are gathered in the code and reported     *)
(* together; the first one ends the run here, nothing after it changes     *)
(* anything.                                                               *)
(***************************************************************************)
PostFetch_Planned ==
  /\ At("postfetch") /\ Goes("postregistry")
  /\ run' = [run EXCEPT !.main = plan.main, !.checked = acts]
  /\ UNCHANGED <<plan, refs, tracking, remote, tree>>

PostFetch ==
  /\ At("postfetch") /\ Goes("postregistry") /\ FetchMain
  /\ run' = [run EXCEPT !.main = remote["main"], !.checked = acts]
  /\ UNCHANGED <<plan, refs, remote, tree>>

PostRegistry ==
  /\ At("postregistry") /\ Looks /\ UNCHANGED <<run, plan>>
  /\ Either(/\ Ready(On("main"), run.main) /\ On("topic") = {}
            /\ \A p \in Paths \ (plan.target \cup plan.canonical) :
                 plan.trees[p] = Registry[p], "posttopic")

PostTopic ==
  /\ At("posttopic") /\ Looks /\ UNCHANGED <<run, plan>>
  /\ Either(plan.topic # NoCommit => refs["topic"] = Head, "postremote")

PostRemote ==
  /\ At("postremote") /\ Looks /\ UNCHANGED <<run, plan>>
  /\ Either(run.delete => remote["topic"] = NoCommit, "postrefs")

PostRefs ==
  /\ At("postrefs") /\ Looks /\ UNCHANGED <<run, plan>>
  /\ pc' = "idle"
  /\ result' = IF plan.base = [topic |-> refs["topic"], other |-> refs["other"]]
               THEN "pass" ELSE Verdict

ExecutePlan ==
  \/ Control \/ Prefetch \/ Precanonical \/ Recheck
  \/ Disposable \/ Remove \/ Switch \/ Forward \/ LsRemote \/ Push
  \/ PostFetch \/ PostRegistry \/ PostTopic \/ PostRemote \/ PostRefs

--------------------------------------------------------------------------------
\* A git or gh process fails without having done anything.
Refused == Fault("refuse") /\ pc # "idle" /\ Stops(Verdict) /\ Looks

\* The branch is deleted on GitHub and the answer does not arrive.
Lost ==
  /\ Fault("lost") /\ pc = "push" /\ LeaseHolds /\ Stops(Verdict)
  /\ remote' = [remote EXCEPT !["topic"] = NoCommit] /\ UNCHANGED <<refs, tracking, tree>>

\* git worktree remove cannot delete every file: it deletes the registration
\* all the same and fails.
HalfRemoved ==
  /\ Fault("disk") /\ pc = "remove" /\ Clean(Target) /\ Target # Primary /\ Stops(Verdict)
  /\ tree' = [tree EXCEPT ![Target] = NoTree] /\ UNCHANGED <<refs, tracking, remote>>

Killed == Fault("crash") /\ pc # "idle" /\ Stops("died") /\ Looks

\* A directory the next process must start in is gone: resolve_worktree says
\* so at the start, later subprocess.run raises and nothing is reported.
Gone ==
  /\ pc # "idle" /\ UNCHANGED repoVars
  /\ \/ ~IsHere(run.cwd) /\ Stops("died")
     \/ ~IsHere(run.cwd) /\ pc = "fetch" /\ Stops(Verdict)
     \/ pc = "disposable" /\ ~IsHere(Target) /\ Stops("died")

Works == BuildPlan \/ ExecutePlan

CleanupNext ==
  \/ Begin \/ Works
  \/ Refused \/ Lost \/ HalfRemoved \/ Killed \/ Gone
  \/ Somebody /\ UNCHANGED cleanupVars

CleanupSpec == CleanupInit /\ [][CleanupNext]_allVars

--------------------------------------------------------------------------------
CleanupTypeOK ==
  /\ RepositoryTypeOK
  /\ pc \in {"idle", "fetch", "registry", "topic", "target", "canonical", "remoteTopic", "refs",
             "control", "prefetch", "precanonical", "recheck", "disposable", "remove", "switch",
             "forward", "lsremote", "push", "postfetch", "postregistry", "posttopic",
             "postremote", "postrefs"}
  /\ result \in {"none", "refused", "planned", "blocked", "incomplete", "died", "pass"}
  /\ plan.target \subseteq Paths /\ plan.canonical \subseteq Paths
  /\ Cardinality(plan.target) <= 1 /\ Cardinality(plan.canonical) <= 1
  /\ run.checked \in 0..MaxActs /\ run.scanned \in 0..MaxActs

(***************************************************************************)
(* The branch on GitHub is deleted only on request and only while it still *)
(* is the head of the merged pull request, whoever pushes between the look *)
(* and the push (_remote_delete_with_lease).                               *)
(***************************************************************************)
RemoteLease ==
  [][Mine /\ remote' # remote =>
       /\ remote' = [remote EXCEPT !["topic"] = NoCommit] /\ remote["topic"] = Head
       /\ run.again /\ run.delete]_allVars

(***************************************************************************)
(* A worktree that goes had nothing git status shows; what git status does *)
(* not show either was not there at the last look that could see it or     *)
(* somebody put it there since; and what was checked out was the head.     *)
(***************************************************************************)
RetiredSafely ==
  [][Mine => \A p \in Registered : (tree'[p] = NoTree /\ IsHere(p)) =>
       /\ p # Primary /\ ~tree[p].work
       /\ "kept" \in tree[p].residue => acts > run.scanned
       /\ "hidden" \in tree[p].residue \/ HeadOf(p) # Head => acts > run.checked]_allVars

(***************************************************************************)
(* The rest of the repository is left alone: only the worktree that was    *)
(* planned changes, main only moves forward, and the topic and the other   *)
(* branches move only where somebody switched that worktree meanwhile.     *)
(***************************************************************************)
LeavesTheRest ==
  [][Mine =>
       /\ \A p \in Registered : tree'[p] # tree[p] => plan.target = {p}
       /\ refs'["main"] # refs["main"] /\ refs["main"] # NoCommit =>
            Ancestor(refs["main"], refs'["main"])
       /\ \A b \in {"topic", "other"} : refs'[b] # refs[b] => acts > run.checked]_allVars

(***************************************************************************)
(* Both together: what a cleanup removes could not be saved by looking,    *)
(* and everything else is spared, whatever others do at the same time.     *)
(***************************************************************************)
SparesWork == RetiredSafely /\ LeavesTheRest

(***************************************************************************)
(* PASS is true of the repository unless somebody acted after the last     *)
(* fetch: main is checked out once, clean, at the newest main of GitHub,   *)
(* no worktree is on the topic, a topic branch that was planned to stay is *)
(* there, and a branch whose deletion was asked for is gone.               *)
(***************************************************************************)
PassIsTrue ==
  CleanupTypeOK /\
  (result = "pass" /\ acts = run.checked =>
    /\ Ready(On("main"), remote["main"]) /\ tracking["main"] = remote["main"]
    /\ On("topic") = {}
    /\ plan.topic # NoCommit => refs["topic"] = Head
    /\ run.delete => remote["topic"] = NoCommit)

--------------------------------------------------------------------------------
(***************************************************************************)
(* Nobody else at work: what a run meets when it begins, and what it       *)
(* leaves when a command of it fails or it is killed.                      *)
(***************************************************************************)
Eligible ==
  /\ {refs["topic"], tracking["topic"], remote["topic"]} \subseteq {Head, NoCommit}
  /\ \A p \in On("topic") : Removable(p) /\ (On("main") = {} \/ p # Primary)
  /\ \/ Ready(On("main"), remote["main"])
     \/ /\ On("main") = {} /\ On("topic") # {}
        /\ refs["main"] # NoCommit /\ Ancestor(refs["main"], remote["main"])

--------------------------------------------------------------------------------
(***************************************************************************)
(* ADR-0001 decision 9: "Existing tracking refs are retained".  The push   *)
(* that deletes the branch on GitHub deletes the tracking ref as well, and *)
(* main prints "remote_tracking_ref: retained by v1".                      *)
(***************************************************************************)
TrackingRetained ==
  result = "pass" /\ shown => tracking["topic"] # NoCommit
================================================================================
