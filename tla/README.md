# x-context: a verification of the program in TLA+

x-context is a set of command line tools in Python.  One half reads the
operator's own X account (posts, bookmarks, likes) with a credential it keeps
and refreshes; the other half publishes a small set of synthetic documents to
Google Drive, so that other readers can follow one index, `CURRENT`.  Beside
them live maintenance scripts that close and clean up after a merged pull
request.  None of it has a server or a thread: what makes it hard is that every
command is a long sequence of single requests and file operations, any of which
may fail, be lost, or be the last before a crash, while other people and other
processes change the same files and documents in between.

The modules here model that, one step per request or file operation.  TLC
checks them on small instances; the theorems are proved by TLAPS for every value
of the constants.

## 1. The system

| component | code | state | operations | what makes it hard | what makes it correct |
|---|---|---|---|---|---|
| Drive publication planner | `shared_context/drive.py` | none of its own: plans and expected documents | preview, apply (upsert of every record, then CURRENT), final check | five inventories per document, each a moment for somebody else to edit | CURRENT is written last, over complete records; never over an owner's text |
| App-scoped publisher | `shared_context/google_publish.py` | the registry file with its `pending` journal; Drive | init-sandbox, publish `--dry-run`, `--apply` | crashes and lost responses between request, journal and registry | one document per title; a journalled effect bars the next run; COMPLETE is true |
| Connector backend | `connector.py` | pending list, observed receipts | create, update, read, list | the receipt must stay the one that justified the update | conditional writes only over what was observed |
| Google REST transport | `google_api.py` | none | create, children, read, replace_text | lost responses; revision conditions | one request per call, no retry of effects |
| Google authorization | `google_auth.py` | token and client files | login ceremony, access token with refresh | a callback that never comes; an atomic file replaced or not | no credential without consent, atomic replacement |
| First-create recovery | `google_recovery.py` | the sidecar, an append-only file; Drive | plan, resume | two executors at once; torn appends | one executor; every effect announced before it happens |
| Recovery reconciliation | `google_reconcile.py` | a copy of the registry, the registry | plan, commit | replays another module's sidecar; the registry is replaced once | only a whole, verified history replaces the registry |
| Local publication files | `core.py`, `fixtures.py`, `__main__.py` | an output directory | generate, verify | files replaced one by one, the manifest last, while somebody uses the directory | a manifest that matches the files |
| X credential lifecycle | `credential_lifecycle.py` | one protected file; the tokens X accepts | persist, resolve with refresh, revoke, delete | rotation: the old token is spent before the new one is saved | no unsaved or expired token is used; reports are true |
| OAuth acquisition | `oauth.py` | one ceremony: listener, state, verifier | acquire | callbacks that are late, repeated, foreign | one exchange per ceremony, only for its own state |
| Bookmark store | `bookmark_store.py` | one JSON file | preflight, save | time passes between preflight and replacement | one subject per store; nothing is lost; reports are true |
| Commands and X reads | `cli.py`, `x_api.py`, ... | none | auth login, bookmarks, likes, posts, read, context | four modules count requests; accounts may change between two requests | every request reported, whatever ends the command |
| Post-merge cleanup | `scripts/post_merge_cleanup.py`, `closeout_state.py` | a Git repository, its worktrees, its remote | plan, execute | developers keep working in the same repository | nothing but the merged topic is touched |
| Post-merge closeout | `scripts/post_merge_closeout.py`, `verify_local_closeout.py` | the same | closeout | evidence from GitHub changes under way | PASS only on evidence, canonical only fast-forwarded |
| Branch cleanup audit | `scripts/branch_cleanup_*.py` | none | classify | none: a pure read | a classification that never authorizes deletion |
| Validation tooling | `scripts/validation_workspace.py`, `verify_repo.py`, ... | none | | plumbing | |

How they interact: the publisher (`google_publish`) drives the planner
(`drive.apply`) through a backend (`AppBackend`, a `connector.Backend`) over the
transport (`google_api`), with an access token from `google_auth`; the recovery
and the reconciliation run beside it over the same registry file and the same
Drive folder.  The commands (`cli`) call the credential lifecycle, then the X
API, then the store; `auth login` puts what `oauth` acquired into the credential
file.  The scripts share nothing with the rest but `closeout_state`.

PROJECT.json lists under "hazards" where each difficulty bites, line by line, and
which property would catch it.

## 2. Modules and the code they model

```
Documents <- Publication                       the promise of a publication
Documents <- DrivePublisher <- DrivePublisherInv <- FirstCreateRecovery
Processes <- GoogleAuth
Processes <- LocalOutput
Processes <- Credentials   <-+- LoginCeremony
                             +- XContextCli
Processes <- BookmarkStore <-+
GitRepository <- PostMergeCleanup  <-+- PostMergeWork
GitRepository <- PostMergeCloseout <-+

DrivePublisherInv   <- DrivePublisherProofs <- FirstCreateRecoveryProofs
Credentials         <- CredentialsProofs    <- LoginCeremonyProofs, XContextCliProofs
GoogleAuth          <- GoogleAuthProofs
LocalOutput         <- LocalOutputProofs
PostMergeWork       <- PostMergeProofs
```

The `MC*` modules only give values to constants; the `*Proofs` modules hold the
inductive invariants, the lemmas and the theorems, and nothing the runs need.  PROJECT.json's "map" names the
lines behind every definition.  A definition whose comment ends "a fault for the
checks" is a wrong variant of the one below it, which no specification uses: with
it in place of the right one, a property has to fail.

**Documents** holds what a document of a fixture says (`Markdown`) and what
CURRENT says (`Index`, which names the documents of the records).  Texts are
abstract: `Text[v][r]` tells apart only whether a record differs between fixtures.

**DrivePublisher** is `google_publish.py` with everything it calls:
`drive.preview`/`apply`, the `Backend` methods of `connector.py` that `AppBackend`
inherits, and the requests of `google_api.py`.  `pc` is the place in the program;
`disk` is the registry file and `mem` the object in memory; `role`, `body`,
`rev`, `placed` are Drive; `seen`, `expected`, `receipt`, `required` are what the
run has observed.  A run is `InvokeInit` or `InvokePublish`, or `InvokeBarred`
where the journal is not empty.  `ListChildren` and `Observe` are an inventory,
one request each, and `purpose` says which of the six it is; `Attempt`,
`UpdateReady`, `StageUpdate`, `Write`, `Readback` are an update; `CreateReady`,
`StageCreate`, `CreateDoc`, `StageMade`, `Register`, `ReadEmpty` and then
`Settled`, `StageContent`, `Write` a create; `FinalDone` and `Commit` end an apply.
`Saved` replaces the file atomically; a save may fail before or after the
replacement (`SaveFails`).  `Refuse` is any request answered with an error or
never answered, `Crash` the end of the process at any step, and `OwnerEdits` and
`OwnerMoves` are the owner of the Drive, at any moment.

Abstractions: two reads the code compares at once are one observation, where a
mismatch is `Refuse`; the two listings of `_allowed` and of update or create are one
("effect"); namespace, owner and permission of a file are folded into `placed`
and `role`; the gate OMISSION_IS_NOT_WITHDRAWAL cannot fire, since the
fixtures never drop a record; the owner restoring an older revision is an edit;
the cap of 100 pending entries cannot be reached by one run.

**Publication** is what a reader of the Drive relies on, without scans, journal,
crashes or lost answers: homes of titles, what is shown in them, and a barrier.
Nothing is created or shown but under the barrier, CURRENT is shown only over
records of its own fixture, and the barrier is lowered only over a complete
publication.

**FirstCreateRecovery** adds `google_recovery.py` (plan, `resume_first_create`) and
`google_reconcile.py` (`commit_reconciliation`) to the publisher: the sidecar
file, claimed by exclusive creation and appended to line by line; the executors
`ex[e]`; the claim and backup of the registry.  Each look at the local files
(`Local`) and each append (`Append1`, which may fail, tear, or succeed and raise) is a
step of its own, as between `local()` and the append in `record` another process may
append.  An append accepts any file it can read, so what comes in between is not
noticed before the next look.  An executor that gives up goes through `LookBack`
(is the file what it remembers?) and, at any later moment, `SayStopped`.  `Answer` is
the look behind COMPLETE, on which the run's answer depends.  Two looks in a row
with nothing of the executor's own between them are one, the later: the files never
return to what they were.  A resume starts only while no publisher runs (the
documented single writer), but two executors may start at once.  `History` is the
replay of the sidecar as `google_reconcile` reads it, `Projected` the registry it
derives.

**GoogleAuth** is `google_auth.py`: `Provider.access_token` (`Ask`, `LoadGrant`,
`SendRenewal`, ...) and `bootstrap`, over one protected file that is replaced atomically.
`session[p].at` is the place in the program.  Google's tokens are numbered in the
order it issues them, so that a later authorization has a larger number; an
authorization may come with a new refresh token or keep the old one.  Access
tokens and refresh tokens share the numbers.  `access_token` reads the clock before
its request; `bootstrap` reads it after the answer, which may take up to `Delay`,
so that the file can promise the token a longer life than Google gave it: the
window of 300 seconds is wider than the timeout of the request.  A foreign request is answered with 400 and
leaves no trace in the model; a client that connects and sends nothing has one,
because `handle_request` waits for it.  The categories of the diagnostics are left
out.

**LocalOutput** is `core.py`: `generate`, `verify` and `preview` over one output
directory, read file by file, each file one step and in any order that Python's
`rglob` may give it (the entries of the directory before those of `records`).
`files` are the managed files, `temp` and `litter` the temporary files of commands
alive and dead, which the listing of another command sees and takes for
corruption; `run[p]` is the command, `touches` counts what the operator did to the
directory.  Two history variables serve the properties: `whole[p]` holds the sets
that were there, whole, at some moment of the command, and `raced[p]` how often
(up to twice) the files changed under its last look.  A request is a set of
at least one record, because `normalize` accepts no other.

**Processes**, **Credentials**, **LoginCeremony**, **BookmarkStore**, **XContextCli** are
the personal half.  `Credentials` has X's side (who a token belongs to, which refresh tokens it
still accepts, which access tokens it has revoked, when they end), the one
credential file and one `call` per process; refresh, replace, revoke and delete
are separate steps.  Whether X keeps accepting a refresh token that was used is
open, as docs/specs/0003 leaves it.  `LoginCeremony` is `oauth.py` step by step, in front of the `Persist` of
`Credentials`: `call[p].at` goes from `bind` through `browser`, `listen`, `held` (a
connection is open and no request there yet) to `exchange`; `attempt[p]` stands for
the state and verifier of a ceremony, `page[n]` for the browser page of attempt n,
which may answer long after the attempt has ended, and `left[p]` for the time to
the deadline.  It has one process, since docs/specs/0003 makes that a
precondition; `auth login` demands a refresh token and a lifetime, and only other
callers of the library may save less.  The kinds of error a callback can end a
ceremony with are not told apart, since all take the same way out.  `XContextCli`, which is about the requests a
whole command makes, keeps the ceremony as the one step `Login`.
`BookmarkStore` has the store's file, one `saver` per process, and an operator who
removes, damages or restores the file (`Touch`); `XContextCli` runs login and
collections of several processes over the credential file and the store.

**GitRepository** is the repository both scripts work on: branches, remote-tracking
branches, the branches on GitHub, two worktrees with what `git status` shows
(`work`) and does not (`residue`: hidden, kept or disposable ignored files), and
`Somebody`, who may commit, switch, push, fetch, pull, reset, leave files, and delete
or move branches, also to the tip of a history rewritten on GitHub.
Commits are main's 0..MaxMain, of which 1 is the merge, the head of the pull
request and a few others.  **PostMergeCleanup** is `build_plan`, the printed plan,
`execute_plan` with its second plan, and its postconditions; **PostMergeCloseout**
is the closeout script with the verifier it starts.  **PostMergeWork** is both, in
any order, one at a time.

Every effect is a step of its own (a push, a fetch, a removal, a switch, a merge),
and so is every look at one thing.  A look may take several git processes
(`CheckTarget`, `Recheck`, `CheckCanonical`, `CanonicalWorktree`, `CheckTargets`: the
registry, `git status`, ignored files, HEAD of a worktree).  It is one step at the
moment of its first process, and what others do until its last one counts as done
after the look.  The later processes can then only refuse more than the model does,
or see what the model does not claim any more: a property says "unless somebody
acted after the look" (`acts` greater than the look's value), and `git worktree
remove` and `git merge --ff-only` look again on their own.  A process starts in the worktree that the
command was given, later in the canonical one (`Within`); when that directory is
gone, `invoke_native` and the verifier report it, and elsewhere the OSError ends the
run without a report.

Facts about git that the model relies on: `git switch main` creates main from
origin/main where it does not exist; a push that deletes a branch removes its
remote-tracking branch; `git worktree remove` refuses on what `git status` shows
and not on ignored files, and where it cannot delete every file it fails but has
dropped the registration.

## 3. What is checked

`tlc -config X.cfg M` checks a run, with X.cfg and the module M that begins the
same name; `tlapm` checks the proofs of DrivePublisherProofs,
FirstCreateRecoveryProofs, GoogleAuthProofs, CredentialsProofs, LoginCeremonyProofs,
XContextCliProofs, LocalOutputProofs and PostMergeProofs, each with
`tlapm <module>.tla`.

| run | configuration | bounds | distinct states | checks |
|---|---|---|---|---|
| publisher_safety | MCDrivePublisher.cfg | 4 runs, 2 edits, all faults | 73,380 | `OnePerRole`, `IInv`, `ClearMeansWhole`, `CompleteIsPublished`, `OwnerTextKept`, `CurrentLast`, `WriteAhead`, `KeepsPromise` |
| publisher_partial | MCDrivePublisherPartial.cfg | 2 runs, 1 edit, all faults | until violated | `PartialKeepsJournal` is violated |
| recovery_safety | MCFirstCreateRecovery.cfg | 2 executors, 3 tries, 3 publisher runs, 1 edit | 364,994 | `RecoveryInv`, `OneExecutor`, `CompleteIsHistory`, `OwnerTextKept`, `KeepsPromise`, `IntentAhead`, `OriginalKept` |
| recovery_calm | MCFirstCreateRecoveryCalm.cfg | 1 executor, 3 tries, 3 runs, the crash that makes the incident | 49,874 | `CalmRecovery` |
| local_output | MCLocalOutput.cfg | 2 commands side by side, 2 records, 2 requests, 1 touch | 2,957,199 | `OutcomeIsTrue`, `MergeKeeps` |
| login | MCLoginCeremony.cfg | 1 process, 3 commands, 3 tokens, patience 2, time 0..3 | 178,964 | `TokenIsSound`, `AttemptsTold`, `CodesOnce`, `SpentStaysSpent`, `RemovedIsRevoked`, `CeremonyEnds` |
| google_auth | MCGoogleAuth.cfg | 2 processes, 3 commands, 1 fault of any kind, time 0..3 | 307,720 | `LiveWhenRead`, `ReauthorizationSticks`, `RenewsAlone` |
| cli | MCXContextCli.cfg | 2 processes, 2 accounts, 2 posts, 3 commands, 3 tokens, time 0..1, 1 touch | 3,167,676 | `RequestsTold`, `SubjectIsolated`, `EffectTold`, `OnlyAdds` |
| cleanup | MCPostMergeCleanup.cfg | 2 worktrees, 1 run, 2 acts of others, 1 fault | 4,750,607 | `PassIsTrue`, `RemoteLease`, `SparesWork` |
| cleanup_tracking | MCPostMergeCleanupTracking.cfg | 1 run, alone, no fault | until violated | `TrackingRetained` is violated |
| closeout | MCPostMergeCloseout.cfg | 2 worktrees, 1 run, 2 acts, 1 fault | 2,483,891 | `CloseoutPassIsTrue`, `NonDestructive`, `TargetsSafeFirst` |
| work | MCPostMergeWork.cfg | 2 cleanups, 2 closeouts, alone, 1 fault | 940,456 | `EachReadiesTheOther`, `StaysRepeatable`, `EachPasses` |

- **publisher_safety**: Four invocations of init-sandbox, dry-run or apply with every fault and two owner actions keep the publisher's safety properties, its inductive invariant and its abstract specification.
- **publisher_partial**: A run may report PARTIAL_UNPUBLISHED and leave the journal empty.
- **recovery_safety**: Two executors resume and reconcile a publication that crashed after its first create, beside three publisher runs and an owner's edit, with every append and request free to fail, tear or get lost: no effect is repeated, the sidecar announces every effect, and the registry is only ever replaced by a whole baseline.
- **recovery_calm**: Left alone, a resume completes, the reconciliation accepts its sidecar, and the publisher accepts the reconciled registry.
- **local_output**: Two of generate, preview and verify at a time over one output directory, file by file, with every file operation free to fail, crashes and an operator who damages or removes it: a set that is reported was whole at some moment of the command, if the files changed at most once under its last look, a refusal has replaced nothing, and a new manifest keeps every earlier record.
- **login**: Login ceremonies, reads with and without refresh, revocations and deletions one after the other, with refused and lost requests, disk failures and crashes anywhere, and callbacks that come from the pages of earlier attempts or never: no unsaved or expired token is used, no code and no spent refresh token is presented again, the file is only removed after the provider has confirmed, and every ceremony ends.
- **google_auth**: Two processes ask for access tokens, bootstrap and reauthorize over one file, with one fault of any kind: a token that is handed out was saved and is still accepted, a save goes back to an older authorization only where the file changed while the process waited for Google, and an authorization that is still good renews itself without a browser.
- **cli**: Two processes run auth login, printed and saved collections over one credential file and one store, with refused and lost requests, disk failures, crashes anywhere and an operator who removes, damages or restores the store: every request is accounted for whatever ends the command, what the store says was observed of its own subject, a failed save says whether it took effect, and a save only adds.
- **cleanup**: One cleanup, every layout of two worktrees, two acts of other people or tools between any two of its processes and one failed, lost, half-done or killed command: nothing is removed that its last look could have saved, the remote branch goes only under its lease, and PASS is true.
- **cleanup_tracking**: A cleanup with --delete-remote reports that the remote-tracking ref was retained, which its own push has deleted.
- **closeout**: One closeout beside two acts of people, GitHub or CI and one failed command: it moves nothing but main, forward, after the targets were found safe, and its PASS is true of what it looked at last.
- **work**: Two cleanups and two closeouts in any order, one of their commands failing: a closeout that passes makes the repository eligible for the cleanup, also after a cleanup that stopped halfway, and the other way round; where a cleanup that stopped can be repeated; and each script passes in the end, also after an earlier one that stopped anywhere.

**Publisher.**  `OnePerRole`: no sequence of runs, faults and edits makes a second
folder or a second document of a title.  `ClearMeansWhole`: an empty journal
means the registry lists all the app has made and that it is one whole
publication or nothing.  `CompleteIsPublished`, `OwnerTextKept`, `CurrentLast`,
`WriteAhead` as their comments say.  `KeepsPromise` is the refinement of
Publication.  `IInv` is the inductive invariant of section 5, which contains the
type invariant.

**Recovery.**  `RecoveryInv`: the recovery leaves the publisher's whole invariant
in place; `OneExecutor`, `IntentAhead`, `CompleteIsHistory` (the writer and the reader
of the sidecar, two modules, agree on what a complete history is: whoever answers
COMPLETE has left one, and a sidecar that ends in COMPLETE is one exactly if nobody
has said STOPPED in it), `OriginalKept`, and `OwnerTextKept` and `KeepsPromise` once more, now of publisher and recovery
together.  `CalmRecovery`: incident, resume, reconciliation and the next
publication succeed one after the other; its last part says that an apply with
nothing journalled completes or crashes: without faults, the publisher's own
writes never look to it like somebody else's.

An executor that lost the claim, with the same plan and approval, remembers the
winner's first line as its own.  If it looks while that is still the only line, it
may append STOPPED at any later moment: in front of the winner's COMPLETE, between
two of its lines, or behind the last one.  The runs have all of these.  The winner
stops at its next look, and answers COMPLETE only if that look, behind COMPLETE,
still finds the sidecar it wrote.  A sidecar that ends `..., STOPPED, COMPLETE` is
refused by the reconciliation, although everything is published.

**Personal half.**  `SubjectIsolated`: whatever the store says of a post was
observed of the store's own subject, at the times it gives.  `EffectTold`: a
failed save says truly whether it took effect.  `OnlyAdds`: a save never loses an
item or a first observation, unless the file changed after its last look, which
docs/specs/0007 excludes.  `TokenIsSound`, `SpentStaysSpent`, `RemovedIsRevoked`: no
token is used that is not in the file, no refresh token is presented again after
its successor was saved, the file is removed only when X has revoked.
`AttemptsTold` and `RequestsTold`: the request counts in reports are true however a
command ends.  `CodesOnce`: the code of a page is presented
to X by its own attempt and once, whatever callbacks older pages send.
`CeremonyEnds`: every login ends, in a credential, a report or a crash.

**Google authorization.**  `LiveWhenRead`: a token that is handed out was in the
file, and Google still accepted it when the clock was read, although `bootstrap`
may have saved an end later than Google's.
`ReauthorizationSticks`: a save goes back to an older authorization only where the
file changed while the process was waiting for Google; that exception is real,
since a renewal under way overwrites a reauthorization that finishes before it.
`RenewsAlone`: an unattended run with a good authorization gets its token, without
a browser.

**Local output.**  `OutcomeIsTrue`: a set that a command reports was whole at some
moment of the command, also while another one writes, if the files changed at
most once under its last look; and a command that reports a refusal has replaced
no managed file.  The condition is needed: `verify` reads file by file, and one
that overlaps two generates can put the files of the first and of the second
together to a set that was never there.  That takes three commands, one more than
the run has; the theorem covers any number (section 5).  `MergeKeeps`: a new manifest describes the
files that are there and keeps every record of the old one, unless somebody
changed the files after the last look (README.md: "Use one writer").

**Closeout.**  `SparesWork`: a worktree that goes had nothing the last look could
have seen, and no other branch moves; `RemoteLease`: the branch on GitHub goes only
as the merged head, whoever pushes meanwhile; `NonDestructive` and
`TargetsSafeFirst`: a closeout moves main only, forward, after the targets were
found safe; `PassIsTrue`, `CloseoutPassIsTrue`: PASS is true of the repository,
unless somebody acted after the last look.  The variable `acts` counts what others
did, and "unless somebody acted since" is said with the value of `acts` at that
look: the code can promise no more, and the runs show it promises no less.
`EachReadiesTheOther`, `StaysRepeatable`, `EachPasses`: wherever one script stops,
what it leaves can be taken up.  The
exception in `StaysRepeatable` is real: after `git switch main` and a failed
fast-forward the cleanup refuses until a closeout has forwarded main.

`CloseoutPassIsTrue` has two looks.  What the verifier compares and what is read
again after it is true unless somebody acted after the verifier's fetch.  That main
holds the merge is asked at post_merge_closeout.py:631 and not again, so that it is
claimed only if nobody acted after that look.  Without this condition TLC finds the
run that shows why: after :631 somebody rewrites main on GitHub and resets the
canonical worktree to it, the verifier fetches, finds HEAD equal to the new main, and
the closeout says PASS over a main that lacks the merge, with nobody acting after
that fetch.

### Bounds

Two records stand for all: one whose text differs between the two fixtures and
one whose text does not (an update and a skip); the index is the third document.
Three publisher runs are what it takes to fail, be barred or start again, and
complete, and a fourth finds what they left; five identifiers
are one more than the folder and the three documents, so that a second one of any
of them could be made if anything allowed it.  Two edits put one before and one after any check.  Two
processes, two users and two posts are the least for an interleaving, a change of
account and a merge.  In `login`, three commands are enough for a page of one
attempt to answer the next and for the token of a first login to be refreshed or
revoked; a lifetime of 2 and a window of 1 put a token before, in and after its
window, here and in `google_auth`.  Three commands in `google_auth` are an
authorization, and a renewal that overlaps with another; one fault is lost,
refused, a crash or a failed save at any of their steps.  Two records of
`local_output` are one that a request changes and one that it must keep, and two
commands are at work on the directory side by side.  Two acts of others fall before and after any look of a
script; one command fails in `cleanup`, `closeout` and `work`, anywhere, and the
other runs of `work` are enough to take up what it left.  Identifiers, processes and users are symmetric in the safety
runs only.  CHECK_DEADLOCK is FALSE everywhere because the numbers of
runs, calls and acts are bounded, and the system stops when they are used up.

### Fairness

`RecoveryFairSpec`, `WorkSpec`, `LoginSpec` and `GoogleSpec` assume weak fairness of the
steps of a started command, and nothing of invocations, owners or operators.
`LoginSpec` and `GoogleSpec` also let time pass, and let a client that has connected
to the loopback listener send its request or let go: without that,
`handle_request` waits for it for ever (see below).  Nobody has to complete a
login: a ceremony nobody answers ends at its deadline.
Every request to Google and X has a timeout of 30 seconds, and no step waits for
another process of the model, so a command that has started takes its next step.
The scripts give git and gh no timeout: `WorkSpec` assumes that these return, with
success or failure, and the liveness property of `work` holds under that
assumption only.

### Disagreements with the documents

- `PartialKeepsJournal` (publisher_partial, x_context/shared_context/drive.py:158): docs/specs/0008-unattended-drive-publisher.md:162 says "A partial run retains the pending journal and needs inspection, not blind repeat." drive.apply counts the attempt (drive.py:158) before backend.update or backend.create has journalled anything: when their pre-effect checks refuse (connector.py:222-230, google_publish.py:169-172) the run reports PARTIAL_UNPUBLISHED with an empty journal, and the next invocation is not barred.
- `TrackingRetained` (cleanup_tracking, scripts/post_merge_cleanup.py:667): docs/adr/0001-post-merge-safe-cleanup.md:18 says "Local topic refs and remote-tracking refs are retained." and :30 "Existing tracking refs are retained rather than pruned from a non-atomic remote-absence observation."; main prints "remote_tracking_ref: retained by v1" (:667-668) from the plan. The git push that deletes the remote topic branch (:380) also deletes refs/remotes/<remote>/<topic>, which allowed_refs (:583) exempts from the comparison, so the run passes and reports as retained a ref it removed.

Met while modelling, without a run of their own:

- ADR-0001 decision 8 (docs/adr/0001-post-merge-safe-cleanup.md:29) says a local
  topic ref that existed at plan time must still be there after cleanup.
  `execute_plan` replaces the plan that was printed by a fresh one
  (post_merge_cleanup.py:458) and compares with that one, so a branch somebody
  deletes between the two is not missed, and `main` prints that it was retained.
- docs/specs/0008-first-create-recovery.md:108-109 says "Append STOPPED only if the
  current sidecar still equals the in-memory history".  `resume_first_create`
  compares (google_recovery.py:311) and then appends (:312) to whatever the file is
  by then: between the two another executor may have gone on.
- The loopback listeners (oauth.py:446-460, google_auth.py:224) check their
  deadline between requests.  A client that connects and sends nothing holds the
  ceremony past it, as long as it stays connected, and a request on a connection
  made before the deadline is accepted after it.
- docs/specs/0002 lists browser_launch_attempted among the diagnostic facts; an
  error after the callback (oauth.py:208-230, 281-313, 387) reports it as False,
  although the browser was opened.
- README.md:126 tells the operator to generate in a fresh, empty destination;
  `_read_managed` refuses an existing directory that is empty, also the one a
  generate leaves that fails between making it and the first replacement.
- A command that dies between its temporary file and the replacement leaves the
  temporary file, and every later read of that output is CORRUPT until somebody
  removes it.
- `bootstrap` looks for an existing credential at its start only, and a renewal in
  flight overwrites a reauthorization that ends before it: each of the two
  saves without looking at the file again.

## 4. Liveness, and why it stays with TLC

`CalmRecovery`, `CeremonyEnds`, `RenewsAlone` and `EachPasses` (of the cleanup and of
the closeout) are checked under the fairness above.  Liveness under fairness, and ENABLED, are out of the
installed provers' reach.

## 5. What is proved

Every safety invariant and action property that a run checks is also a theorem,
for every value of the constants that satisfies their assumptions.  These are named
and stand in the modules that declare the constants; TLC evaluates them on every
run.  They say that names are distinct, that the order lists every record exactly
once, that bounds are naturals and sets of processes and paths finite, that requests
may be refused where the owner may edit, that a response of Google takes no longer
than the window (`GoogleAssumption`: 30 against 300 seconds), that a request to `generate` has a
record (`LocalAssumption`), and that the value for "no worktree" is none
(`TreeAssumption`).  Where a document makes one process at a time a precondition, the
theorem has it as a hypothesis (`OneProcess`) and no theorem relies on it otherwise.

- `Invariant` (DrivePublisherProofs), `IInv`: The inductive invariant of the publisher: registry file, process memory, plan, receipts and Drive agree at every moment of any run, fault, crash or edit.
- `TypeCorrect` (DrivePublisherProofs): Every variable of the publisher keeps its type.
- `OneDocumentPerTitle` (DrivePublisherProofs), `OnePerRole`: No sequence of runs, faults and edits makes a second folder or a second document of a title.
- `ClearJournalMeansWhole` (DrivePublisherProofs), `ClearMeansWhole`: A registry whose journal is empty lists every file the app made, and they hold one whole publication or there are none.
- `CompleteMeansPublished` (DrivePublisherProofs), `CompleteIsPublished`: COMPLETE is reported only of a complete publication of the fixture that was asked for.
- `OwnerTextIsKept` (DrivePublisherProofs), `OwnerTextKept`: The publisher never overwrites a text of the owner, at whatever moment the owner edits.
- `JournalWritesAhead` (DrivePublisherProofs), `WriteAhead`: At every remote effect the last journal entry on disk names that effect.
- `CurrentIsLast` (DrivePublisherProofs), `CurrentLast`: The index is only written over records that are all in place, in the documents it names.
- `PublisherKeepsPromise` (DrivePublisherProofs), `KeepsPromise`: The publisher, with its scans, journal, crashes and lost responses, implements the abstract Publication.
- `RecoveryIsInductive` (FirstCreateRecoveryProofs): The inductive invariant of publisher and recovery together: the barrier, the claim of the sidecar, and the memory of each executor as the story of what it did on Drive, of which the sidecar holds the lines in order, with what others have said on giving up between or behind them.
- `RecoveryKeepsInvariant` (FirstCreateRecoveryProofs), `RecoveryInv`: The recovery leaves the publisher's whole inductive invariant in place, so that a publisher may start from whatever it has written.
- `ExecutorsAreAlone` (FirstCreateRecoveryProofs), `OneExecutor`: At most one executor is past the claim of the sidecar, and one past the claim of the registry's copy, however many are started.
- `CompleteStandsForHistory` (FirstCreateRecoveryProofs), `CompleteIsHistory`: Who answers COMPLETE has left a history that the other module, the reconciliation, accepts; it accepts a sidecar exactly if that ends in COMPLETE without a STOPPED in it, and then every document holds the baseline.
- `RecoveryKeepsOwnerText` (FirstCreateRecoveryProofs), `OwnerTextKept`: Neither a recovery nor a publisher beside it overwrites a text of the owner.
- `TheOriginalIsKept` (FirstCreateRecoveryProofs), `OriginalKept`: While no publisher runs, the registry changes only from the incident to a whole baseline, with the original in the copy.
- `IntentsAreAhead` (FirstCreateRecoveryProofs), `IntentAhead`: At every effect of a recovery the sidecar on disk already names it, with the revision it writes over.
- `RecoveryKeepsPromise` (FirstCreateRecoveryProofs), `KeepsPromise`: Publisher, recovery and reconciliation together implement the abstract Publication.
- `LocalIsInductive` (LocalOutputProofs): The inductive invariant of the output directory: what every command has read, planned and written relates to the files of each moment since.
- `OutcomesAreTrue` (LocalOutputProofs), `OutcomeIsTrue`: For any number of commands side by side, a set that is reported was whole at some moment of the command if the files changed at most once under its last look, and a refusal has replaced nothing.
- `MergesKeep` (LocalOutputProofs), `MergeKeeps`: A new manifest describes the files that are there and keeps every record of the old one, if nothing changed after the last look.
- `GoogleIsInductive` (GoogleAuthProofs): The inductive invariant of the Google authorization: what each run has read, waits for or is about to save is a grant Google gave, with an end no later than Google's plus the wait for its answer.
- `TokensAreLive` (GoogleAuthProofs), `LiveWhenRead`: A token that access_token hands out was in the file, and Google accepted it when the clock was read: for any window of at least the timeout of a request.
- `ReauthorizationsStick` (GoogleAuthProofs), `ReauthorizationSticks`: For any number of processes, a save goes back to an older authorization only where the file changed while the process waited for Google.
- `LoginIsInductive` (LoginCeremonyProofs): The inductive invariant of auth login and the credential lifecycle: the ledger of codes, attempts and tokens agrees with what every process holds.
- `CodesArePresentedOnce` (LoginCeremonyProofs), `CodesOnce`: For any number of pages and attempts, a code is presented to X once and by its own attempt only.
- `TokensAreSound` (LoginCeremonyProofs), `TokenIsSound`: A token that is used is that of a record that was committed and had not expired as far as the record says, and none is used after a failed refresh.
- `AttemptsAreTold` (LoginCeremonyProofs), `AttemptsTold`: The report of a command says truly whether a request to the token endpoint was made, whatever ended it.
- `SoloIsInductive` (LoginCeremonyProofs): With one process at a time, a command of the lifecycle works on the record that is in the file from its look to its last effect.
- `SpentTokensStaySpent` (LoginCeremonyProofs), `SpentStaysSpent`: With one process at a time (the precondition of docs/specs/0003), no refresh token is presented again after its successor was saved, whatever failed or crashed.
- `RemovedTokensAreRevoked` (LoginCeremonyProofs), `RemovedIsRevoked`: With one process at a time, the credential file is deleted by a revocation only when X has revoked what is in it.
- `CliIsInductive` (XContextCliProofs): The inductive invariant of the commands: store, saves, credential and the counts of every command agree, for any processes, accounts and posts.
- `RequestsAreTold` (XContextCliProofs), `RequestsTold`: Every request that was sent is in the report of its command, whatever ended it and whatever other commands did.
- `StoreIsOfOneSubject` (XContextCliProofs), `SubjectIsolated`: What the store says of a post was observed of the store's own subject, at the times it gives, also after the account changed between two requests.
- `EffectsAreTold` (XContextCliProofs), `EffectTold`: A failed save says truly whether it may have replaced the file.
- `SavesOnlyAdd` (XContextCliProofs), `OnlyAdds`: A save loses no item and no first observation, unless the file changed after its last look.
- `CleanupIsInductive` (PostMergeProofs): The inductive invariant of a cleanup beside other people: what each look has established, and until which act of others it holds.
- `PassedCleanupIsTrue` (PostMergeProofs), `PassIsTrue`: PASS of a cleanup is true of the repository unless somebody acted after the last fetch.
- `LeasesAreKept` (PostMergeProofs), `RemoteLease`: The branch on GitHub is deleted only as the head of the merged pull request, whoever pushes in between.
- `WorkIsSpared` (PostMergeProofs), `SparesWork`: A cleanup removes nothing its last look could have seen to be somebody's work, and moves no other branch.
- `CloseoutIsInductive` (PostMergeProofs): The inductive invariant of a closeout beside other people, with the verifier it starts: what each look has established, and until which act of others it holds, whatever they do to main.
- `PassedCloseoutIsTrue` (PostMergeProofs), `CloseoutPassIsTrue`: PASS of a closeout is true unless somebody acted after the verifier's fetch, and main holds the merge unless somebody acted after that was looked at.
- `CloseoutIsNotDestructive` (PostMergeProofs), `NonDestructive`: A closeout only moves main forward, and another branch only where somebody checked it out in the canonical worktree after that was chosen.
- `TargetsAreSafeFirst` (PostMergeProofs), `TargetsSafeFirst`: Main moves only after every target was found safe, and then contains the merge commit.
- `WorkIsInductive` (PostMergeProofs): The inductive invariant of both scripts in turn where nobody else acts: what a cleanup planned with is what it finds at its effects, and the repository stays one both can begin on.
- `CleanupStaysRepeatable` (PostMergeProofs), `StaysRepeatable`: Wherever a cleanup stops, for any number of runs and failures, it can be repeated, or main waits to be forwarded.
- `ScriptsReadyEachOther` (PostMergeProofs), `EachReadiesTheOther`: A PASS of the closeout leaves what the cleanup accepts, and a PASS of the cleanup leaves what can be closed out, in any order and after any failures.

None of these properties is inductive: each says what an observer may rely on, and
it stays true because of what the runs in progress know.  Every module of proofs
begins with the inductive invariant that says so, then has one lemma per action
(`...Step`) or per group of actions that touch the same state, and ends with the
theorems, most of which follow from the invariant in a step.  TLC checked every
inductive invariant on the instance of the component's run before it was proved.

**Publisher** (`IInv`, in DrivePublisherInv, since the recovery refers to it).

- `Truth`, `OnePerRole`, `Bodies`, `ClearMeansWhole`: facts about the file and Drive
  that hold whether or not a run is alive;
- `Copy`, `Stages`, `Views`, `Plans`, `Armed`, `Announcing`: what a run may take for
  granted at each place: its memory is the file, the journal is not empty
  between the first effect and the commit, what was planned is what was
  published so far, a document about to be written shows what was observed or has
  a newer revision, and the last entry names the effect to come;
- `Orphanage`: the one file the registry may not list is the one just created, and
  with an empty journal there is none.

The refinement maps a title's home to the identifier with its role, what is shown
to what the publisher last wrote there, and the barrier to a journal that is not
empty: the initial states map to `Publication`'s, and every step to one of its steps
or a stutter.

**Recovery** (`RecInv`).  Three things carry it.  The barrier: from the operator's plan
on, the publisher is idle at the incident until the registry is reconciled
(`Phases`).  The claim: one executor works on Drive, and the sidecar goes beyond what
it remembers only by what others say on giving up; after a STOPPED it records one
more line at most, as the look behind that fails (`Works`, `Follows`).  The story: the
events it remembers are determined by the place it is at (`Place`, `Told`), so a
sidecar in which COMPLETE has its place is a whole history (`Ends`, `Meant`), unless a
STOPPED came before.  `IInv` is part of it: the publisher's proof is
used again, action by action, for what the executors do to Drive.

**Google authorization** (`GoogleInv`).  `Sound`: a saved record promises its token at most
`Delay` more than Google gave it; `Knows`: what was loaded is still the file unless
that changed, and a grant on its way is not older than the file's; `Numbered`: each
command that may still ask has one number left, so that numbers never run out.

**Personal half.**  CredentialsProofs has what the operations on the credential file
preserve, whoever runs them (`CredentialInv`: records are of tokens X issued; `Holds`
and `Counts` say which token and how many requests a command has at each place), and
two modules build on it.  LoginCeremonyProofs adds that an attempt belongs to one
process and is presented when the ceremony is left for good (`Attempting`, `Ledger`).
With one process, `Solo` says that a command works on the record that is in the file;
with two, `SpentStaysSpent` and `RemovedIsRevoked` are not true, and docs/specs/0003 does
not promise them.  XContextCliProofs has `Truthful` (every item of a store was
observed, in order of time) for the file and for every copy a save holds, and for
the commands how the four counts add up at each place (`CmdKnows`).

**Local output** (`LocalInv`).  A look under which nothing changed fits the files and
covers them (`Fits`, `Covers`); one under which they changed once fits what was there
before or after that change (`LookOK`), which is why a set that is accepted was whole at
one of the two moments.  `PlanOK`: a generate goes on only over the files it saw, and
what is still to be written is what differs.  The proof of it corrected the model
and the property: `OutcomeIsTrue` had no condition on changes under the look and held
in the run only because of its bound of two commands.

**Closeout** (`CleanupInv`, `CloseoutInv`).  Every fact a script relies on was seen at a look, and
holds as long as nobody acted after it; the invariants say for each place which
look that is (`run.checked`, `run.scanned`, `co.chosen`, `co.looked`, `co.synced`, `co.verified`).
Beside them stands what git enforces: a branch is checked out once (`OneTreeEach`).
That main holds the merge (`Merged`) goes with `co.synced`, and as the script itself
moves nothing after that look, it lasts until somebody else does.

Where both scripts run in turn and nobody else acts, `WorkInv` puts the two together:
an idle script claims nothing, the one that runs keeps its invariant, and the
repository stays one both can begin on (`Undisturbed`: main of GitHub is the merge, every
worktree is on a branch and clean).
What a cleanup planned with is then what it still finds (`Known`).  `StaysRepeatable` needs
that at its effects: the worktree that goes is not the last way back to an eligible
repository, and a switch goes to a main that is the merge or can be forwarded to it.

## 6. Only model-checked

- Liveness under fairness (section 4).
- The two disagreements that a run exhibits (`PartialKeepsJournal`, `TrackingRetained`) are
  counterexamples, and nothing is to be proved of them.

## 7. Not modelled

The connector's own create, which makes a document in the root of the Drive and
moves it afterwards (connector.py:185-219): no command reaches it.  `AppBackend`
overrides it, and no transport in the program has the `create_empty` and `move` it
calls; only its test does.  The branch cleanup audit is a
read-only classification, a sequence of lookups without an actor beside them.
Left out for good: parsing and validation of provider responses, HTTP framing,
DPAPI, output formatting (sequential conversions without state), `read` and
`context`, which keep no state, and the validation tooling (file and process
plumbing).

## 8. Plan

Done, in this order: Documents, DrivePublisher, Publication and its proofs;
FirstCreateRecovery; Credentials, BookmarkStore, XContextCli; GitRepository, the two
scripts and PostMergeWork; LoginCeremony, GoogleAuth, LocalOutput.

No module is left that the program's commands would need, and every safety invariant
and action property of a passing run is a theorem.  Left: an abstract specification
of the bookmark store (a set of observations that only grows, of one subject), with
BookmarkStore as its refinement, and one of the credential lifecycle for a single
process (a grant that is replaced, never forked), with Credentials as its refinement.
