--------------------------- MODULE PostMergeCloseout ---------------------------
(***************************************************************************)
(* scripts/post_merge_closeout.py: prove that a merged pull request is     *)
(* closed out.  It reads the evidence GitHub has (the closing issues, the  *)
(* CI of the merge commit), fast-forwards the local main, runs the local   *)
(* verifier, and reads the evidence again before it says PASS.  It may     *)
(* move main forward and nothing else.                                     *)
(***************************************************************************)
EXTENDS GitRepository

CONSTANT MaxCloseouts
ASSUME CloseoutAssumption == MaxCloseouts \in Nat

VARIABLES
  issues,     \* are the closing issues closed
  ci,         \* the required push workflows of the merge commit
  step,       \* the step the run does next, or idle
  co,         \* where it runs, the canonical worktree, and what it looked at
  verdict,
  closeouts

gitHubVars == <<issues, ci>>
closeoutVars == <<step, co, verdict, closeouts>>
closeoutAll == <<repoVars, gitHubVars, closeoutVars>>

Quiet == [cwd |-> Primary, canonical |-> {}, seen |-> NoCommit,
          chosen |-> 0, looked |-> 0, synced |-> 0, verified |-> 0]

CloseoutStart ==
  /\ issues \in BOOLEAN /\ ci \in {"pending", "success", "failed"}
  /\ step = "idle" /\ co = Quiet /\ verdict = "none" /\ closeouts = 0
CloseoutInit == RepositoryInit /\ CloseoutStart

--------------------------------------------------------------------------------
\* Where the processes of a step start: the worktree the command was given,
\* then the canonical one; gh asks GitHub from anywhere.
Within ==
  CASE step \in {"issues", "refresh", "contained", "choose", "targets"} -> {co.cwd}
    [] step \in {"forward", "synced", "verify", "verifyLocal", "targetsAgain"} -> co.canonical
    [] OTHER -> {}
Doing(s) ==
  /\ step = s /\ \A p \in Within : IsHere(p)
  /\ UNCHANGED <<closeouts, issues, ci, acts, faults>>
Then(s) == step' = s /\ UNCHANGED verdict
Reports(v) == step' = "idle" /\ verdict' = v
Require(ok, s) == IF ok THEN Then(s) ELSE Reports("fail")
Reads == UNCHANGED <<refs, tracking, remote, tree>>

BeginCloseout ==
  /\ step = "idle" /\ closeouts < MaxCloseouts /\ closeouts' = closeouts + 1
  /\ \E p \in Paths : IsHere(p) /\ co' = [Quiet EXCEPT !.cwd = p]
  /\ step' = "issues" /\ verdict' = "none"
  /\ UNCHANGED <<repoVars, gitHubVars>>

ReadIssues ==
  /\ Doing("issues") /\ Reads /\ UNCHANGED co /\ Require(issues, "workflows")

ReadWorkflows ==
  /\ Doing("workflows") /\ Reads /\ UNCHANGED co /\ Require(ci = "success", "refresh")

RefreshCanonical ==
  /\ Doing("refresh") /\ FetchMain /\ Then("contained")
  /\ co' = [co EXCEPT !.seen = remote["main"]] /\ UNCHANGED <<refs, remote, tree>>

Contained ==
  /\ Doing("contained") /\ Reads /\ UNCHANGED co /\ Require(Ancestor(1, co.seen), "choose")

CanonicalWorktree_Synced ==
  /\ Doing("choose") /\ Reads
  /\ co' = [co EXCEPT !.canonical = On("main"), !.chosen = acts]
  /\ Require(Ready(On("main"), co.seen), "targets")

CanonicalWorktree ==
  /\ Doing("choose") /\ Reads
  /\ co' = [co EXCEPT !.canonical = On("main"), !.chosen = acts]
  /\ Require(/\ Cardinality(On("main")) = 1
             /\ \A p \in On("main") : Clean(p) /\ Ancestor(HeadOf(p), co.seen), "targets")

Targets == {p \in Registered : tree[p].on = "topic" \/ HeadOf(p) = Head}
TargetsSafe == \A p \in Targets : Clean(p) /\ HeadOf(p) = Head

CheckTargets_Reported ==
  /\ Doing("targets") /\ Reads /\ co' = [co EXCEPT !.looked = acts] /\ Then("forward")

CheckTargets ==
  /\ Doing("targets") /\ Reads
  /\ co' = [co EXCEPT !.looked = acts] /\ Require(TargetsSafe, "forward")

Can == CHOOSE p \in Paths : co.canonical = {p}

\* git merge --ff-only origin/main, in whatever is checked out there by now.
Merge ==
  /\ Doing("forward") /\ UNCHANGED <<co, tracking, remote>>
  /\ LET h == HeadOf(Can)
         t == tracking["main"]
         on == tree[Can].on IN
     \/ Ancestor(t, h) /\ Then("synced") /\ UNCHANGED <<refs, tree>>
     \/ /\ ~Ancestor(t, h) /\ FastForwards(h, t) /\ Then("synced")
        /\ refs' = IF on = "detached" THEN refs ELSE [refs EXCEPT ![on] = t]
        /\ tree' = IF on = "detached" THEN [tree EXCEPT ![Can].at = t] ELSE tree
     \/ /\ ~Ancestor(t, h) /\ (~FastForwards(h, t) \/ tree[Can].work)
        /\ Reports("fail") /\ UNCHANGED <<refs, tree>>

Synced ==
  /\ Doing("synced") /\ Reads /\ co' = [co EXCEPT !.synced = acts]
  /\ Require(HeadOf(Can) = tracking["main"] /\ Ancestor(1, HeadOf(Can)), "verify")

VerifyFetch_Cached ==
  /\ Doing("verify") /\ Reads /\ Then("verifyLocal")
  /\ co' = [co EXCEPT !.seen = tracking["main"], !.verified = acts]

\* verify_local_closeout.py, started in the canonical worktree: it fetches
\* once more and then checks that worktree against what it fetched.
VerifyFetch ==
  /\ Doing("verify") /\ FetchMain /\ Then("verifyLocal")
  /\ co' = [co EXCEPT !.seen = remote["main"], !.verified = acts]
  /\ UNCHANGED <<refs, remote, tree>>

VerifyLocal ==
  /\ Doing("verifyLocal") /\ Reads /\ UNCHANGED co
  /\ Require(On("main") = {Can} /\ Ready({Can}, co.seen), "issuesAgain")

ReadIssuesAgain ==
  /\ Doing("issuesAgain") /\ Reads /\ UNCHANGED co /\ Require(issues, "workflowsAgain")

ReadWorkflowsAgain ==
  /\ Doing("workflowsAgain") /\ Reads /\ UNCHANGED co
  /\ Require(ci = "success", "targetsAgain")

CheckTargetsAgain ==
  /\ Doing("targetsAgain") /\ Reads /\ UNCHANGED co
  /\ Reports(IF TargetsSafe THEN "pass" ELSE "fail")

CloseoutStep ==
  \/ ReadIssues \/ ReadWorkflows \/ RefreshCanonical \/ Contained \/ CanonicalWorktree
  \/ CheckTargets \/ Merge \/ Synced \/ VerifyFetch \/ VerifyLocal
  \/ ReadIssuesAgain \/ ReadWorkflowsAgain \/ CheckTargetsAgain

--------------------------------------------------------------------------------
Interrupted(v) ==
  step # "idle" /\ Reports(v) /\ Reads /\ UNCHANGED <<co, closeouts, issues, ci>>

CloseoutRefused == Fault("refuse") /\ Interrupted("fail")
CloseoutKilled == Fault("crash") /\ Interrupted("died")
\* A directory a process must start in is gone: resolve_worktree, the fetch,
\* the merge and the verifier report it, elsewhere nobody handles the OSError.
CloseoutGone ==
  /\ \E p \in Within : ~IsHere(p)
  /\ Interrupted(IF step \in {"issues", "refresh", "forward", "verify", "verifyLocal"}
                 THEN "fail" ELSE "died")
  /\ UNCHANGED <<acts, faults>>

\* People and GitHub Actions: an issue is reopened or closed, CI runs again.
OnGitHub ==
  /\ Acts /\ Reads
  /\ \/ issues' = ~issues /\ UNCHANGED ci
     \/ ci' = "pending" /\ ci # "pending" /\ UNCHANGED issues
     \/ ci = "pending" /\ ci' \in {"success", "failed"} /\ UNCHANGED issues

CloseoutNext ==
  \/ BeginCloseout \/ CloseoutStep
  \/ CloseoutRefused \/ CloseoutKilled \/ CloseoutGone
  \/ Somebody /\ UNCHANGED <<gitHubVars, closeoutVars>>
  \/ OnGitHub /\ UNCHANGED closeoutVars

CloseoutSpec == CloseoutInit /\ [][CloseoutNext]_closeoutAll

--------------------------------------------------------------------------------
CloseoutTypeOK ==
  /\ RepositoryTypeOK
  /\ issues \in BOOLEAN /\ ci \in {"pending", "success", "failed"}
  /\ step \in {"idle", "issues", "workflows", "refresh", "contained", "choose", "targets",
               "forward", "synced", "verify", "verifyLocal", "issuesAgain", "workflowsAgain",
               "targetsAgain"}
  /\ verdict \in {"none", "fail", "died", "pass"}
  /\ co.canonical \subseteq Paths /\ Cardinality(co.canonical) <= 1
  /\ co.chosen \in 0..MaxActs /\ co.looked \in 0..MaxActs
  /\ co.synced \in 0..MaxActs /\ co.verified \in 0..MaxActs

(***************************************************************************)
(* The command "must not reset, rebase, discard, or force-update local     *)
(* work" or delete anything (SPEC-0005): it moves nothing but main, and    *)
(* main only to a descendant that GitHub has; another branch moves only    *)
(* where somebody checked it out in the canonical worktree meanwhile.      *)
(***************************************************************************)
NonDestructive ==
  [][Mine =>
       /\ UNCHANGED remote /\ tracking'["topic"] = tracking["topic"]
       /\ \A p \in Paths : tree'[p] # tree[p] =>
            /\ acts > co.chosen /\ tree'[p] = [tree[p] EXCEPT !.at = tracking["main"]]
            /\ Ancestor(tree[p].at, tree'[p].at)
       /\ \A b \in Branches : refs'[b] # refs[b] =>
            /\ refs'[b] = tracking["main"] /\ Ancestor(refs[b], refs'[b])
            /\ b # "main" => acts > co.chosen]_closeoutAll

(***************************************************************************)
(* "Every exact PR target must be safe before any canonical mutation"      *)
(* (post_merge_closeout.py:608), and main receives the merge commit, as    *)
(* long as origin/main is still what the run fetched and examined.         *)
(***************************************************************************)
TargetsSafeFirst ==
  [][Mine /\ refs'["main"] # refs["main"] /\ acts = co.looked =>
       /\ TargetsSafe
       /\ tracking["main"] = co.seen => Ancestor(1, refs'["main"])]_closeoutAll

(***************************************************************************)
(* PASS is true unless somebody acted after the verifier's fetch: the next *)
(* task can start from a clean main that is the newest main of GitHub, the *)
(* worktrees of the topic are clean at the head that was merged, CI        *)
(* succeeded and the issues are closed.  That this main holds the merge    *)
(* commit was looked at before (post_merge_closeout.py:631): it is true    *)
(* unless somebody acted after that look, since a history rewritten on     *)
(* GitHub and a reset to it go unnoticed from there on.                    *)
(***************************************************************************)
CloseoutPassIsTrue ==
  CloseoutTypeOK /\
  (verdict = "pass" /\ acts = co.verified =>
    /\ On("main") = co.canonical /\ Ready(On("main"), remote["main"])
    /\ acts = co.synced => Ancestor(1, refs["main"])
    /\ tracking["main"] = remote["main"]
    /\ TargetsSafe /\ issues /\ ci = "success")
================================================================================
