----------------------------- MODULE PostMergeWork -----------------------------
(***************************************************************************)
(* The two scripts one operator runs after a merge, in any order, one at a *)
(* time, on the same repository: the closeout that proves and forwards and *)
(* the cleanup that removes.  Each stops wherever a command fails, and the *)
(* other has to cope with what it left.  Nobody else acts here; what then  *)
(* happens is a question of each script alone.                             *)
(***************************************************************************)
EXTENDS PostMergeCleanup, PostMergeCloseout

workVars == <<repoVars, cleanupVars, gitHubVars, closeoutVars>>

\* GitHub has the evidence: CI succeeded and the issues are closed.
WorkInit == CleanupInit /\ CloseoutStart /\ issues /\ ci = "success"

CleanupRuns ==
  /\ step = "idle" /\ (Begin \/ Works \/ Refused \/ Lost \/ HalfRemoved \/ Killed \/ Gone)
  /\ UNCHANGED <<gitHubVars, closeoutVars>>
CloseoutRuns ==
  /\ pc = "idle" /\ (BeginCloseout \/ CloseoutStep \/ CloseoutRefused \/ CloseoutKilled
                     \/ CloseoutGone)
  /\ UNCHANGED cleanupVars

WorkNext == CleanupRuns \/ CloseoutRuns

CleanupWorks == step = "idle" /\ Works /\ UNCHANGED <<gitHubVars, closeoutVars>>
CloseoutWorks == pc = "idle" /\ CloseoutStep /\ UNCHANGED cleanupVars

\* git and gh return, if only with a failure: a started script comes to its end.
WorkSpec ==
  WorkInit /\ [][WorkNext]_workVars /\ WF_workVars(CleanupWorks) /\ WF_workVars(CloseoutWorks)

--------------------------------------------------------------------------------
\* What a closeout needs to find, its evidence and the repository.
Closeable ==
  /\ issues /\ ci = "success" /\ TargetsSafe /\ Ancestor(1, remote["main"])
  /\ Cardinality(On("main")) = 1
  /\ \A p \in On("main") : Clean(p) /\ Ancestor(HeadOf(p), remote["main"])

(***************************************************************************)
(* A closeout that passes leaves a repository the cleanup accepts: main is *)
(* forwarded even where a cleanup had switched to it and stopped.  The one *)
(* exception is the first checkout being the worktree that would go.       *)
(***************************************************************************)
CloseoutReadies ==
  [][verdict # "pass" /\ verdict' = "pass" => Eligible \/ tree[Primary].on = "topic"]_workVars

(***************************************************************************)
(* A cleanup that passes leaves a repository that can be closed out.       *)
(***************************************************************************)
CleanupReadies == [][result # "pass" /\ result' = "pass" => Closeable]_workVars

(***************************************************************************)
(* Neither script is stricter than the other leaves it: in whatever order  *)
(* they pass, the operator is never stuck between the two.                 *)
(***************************************************************************)
EachReadiesTheOther == CloseoutReadies /\ CleanupReadies

(***************************************************************************)
(* A closeout of what can be closed out passes once nothing fails any      *)
(* more, also after a cleanup or a closeout that stopped anywhere.         *)
(***************************************************************************)
CloseoutPasses ==
  (step = "issues" /\ Closeable /\ faults = MaxFaults) ~> verdict = "pass"

(***************************************************************************)
(* A cleanup whose execution begins on a repository that is eligible       *)
(* passes when nothing fails any more, from whatever worktree it is        *)
(* started and whatever stopped the scripts that ran before it.            *)
(***************************************************************************)
CleanupPasses ==
  (pc = "fetch" /\ run.execute /\ ~run.again /\ Eligible /\ faults = MaxFaults)
    ~> result = "pass"

(***************************************************************************)
(* Both scripts come through in the end, each on what it was made for.     *)
(***************************************************************************)
EachPasses == CloseoutPasses /\ CleanupPasses

(***************************************************************************)
(* Wherever a cleanup stops it can be repeated, also where removing the    *)
(* worktree left files behind, with one exception: the single checkout was *)
(* switched to a main that is not forwarded yet.                           *)
(***************************************************************************)
Repeatable ==
  \/ Eligible
  \/ On("main") # {} /\ refs["main"] # remote["main"]
StaysRepeatable == [][pc # "idle" /\ Repeatable => Repeatable']_workVars
================================================================================
