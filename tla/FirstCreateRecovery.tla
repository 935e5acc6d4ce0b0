-------------------------- MODULE FirstCreateRecovery --------------------------
EXTENDS DrivePublisherInv
(***************************************************************************)
(* The first-create incident and its way out, beside the publisher itself: *)
(* a run that died with the first record's document registered and empty,  *)
(* resume_first_create of google_recovery.py, which completes the baseline *)
(* publication under a journal of its own (the sidecar), and               *)
(* commit_reconciliation of google_reconcile.py, which puts the outcome    *)
(* into the publisher's registry.  The publisher's commands stay available *)
(* all the time; its barrier is what keeps them out.                       *)
(*                                                                         *)
(* Several executors may be started: the files they create exclusively are *)
(* all that stands between two of them.  One action is one group of remote *)
(* reads, one remote effect, one look at the local files or one append.  A *)
(* line is appended behind whatever is in the file by then, and only the   *)
(* next look tells: another executor's line may come in between.  Two      *)
(* looks in a row are one, the later, as the files never return to what    *)
(* they were.  An Item is compared through its revision, which every       *)
(* change of the text moves.                                               *)
(***************************************************************************)
CONSTANTS
  Baseline,   \* the fixture the recovery completes
  Execs,      \* processes that may run resume or commit
  MaxTries,   \* bound on resumes and commits started
  Trouble     \* which of refuse, lost, disk, crash strike the executors

First == Order[1]

ASSUME RecoveryAssumption ==
  /\ Baseline \in Fixtures /\ Order # << >> /\ MaxTries \in Nat
  /\ MaxEdits > 0 => "refuse" \in Trouble

VARIABLES
  sidecar,    \* the recovery journal, << >> when there is no file
  claimed,    \* the reconciliation's claim file exists
  backup,     \* and holds this registry
  plan,       \* the revision in the FirstCreatePlan the operator holds, or 0
  ex,         \* ex[e]: the state of executor e
  tries

rvars == <<sidecar, claimed, backup, plan, ex, tries>>
publisher == <<pc, args, mem, work, result, bounds>>
allvars == <<vars, rvars>>

Event(type, r, i, n) == [type |-> type, role |-> r, id |-> i, rev |-> n]
Begin(i, n) == Event("BEGIN", First, i, n)
Completed == Event("COMPLETE", Current, NoId, 0)
Stopped == Event("STOPPED", First, NoId, 0)
Torn == Event("TORN", First, NoId, 0)       \* a line that does not parse, the last:
                                            \* what is appended to it belongs to it

Scans == {"before", "again", "after", "last"}

(***************************************************************************)
(* An executor: where it is, which document it works on (step and doing),  *)
(* what its scan still has to look at, its copy of the sidecar, and the    *)
(* items it expects, by title.                                             *)
(***************************************************************************)
NoWork == [at |-> "idle", step |-> 0, doing |-> "none", todo |-> {},
           events |-> << >>, ids |-> [r \in Roles |-> NoId],
           revs |-> [r \in Roles |-> 0]]

RecoveryInit ==
  /\ Init
  /\ sidecar = << >> /\ claimed = FALSE /\ backup = EmptyRegistry
  /\ plan = 0 /\ ex = [e \in Execs |-> NoWork] /\ tries = 0

RoleAt(n) == IF n <= Len(Order) THEN Order[n] ELSE Current
Role(e) == RoleAt(ex[e].step)
Expected(e) == {r \in Roles : ex[e].ids[r] # NoId}
BodyOverFirst(ids, r) ==                              \* a fault for the checks
  IF r = Current THEN Index(Baseline, [q \in Records |-> ids[First]])
  ELSE Markdown(Baseline, r)
Body(ids, r) ==
  IF r = Current THEN Index(Baseline, [q \in Records |-> ids[q]])
  ELSE Markdown(Baseline, r)

Goes(e, place) == ex' = [ex EXCEPT ![e].at = place, ![e].todo = {}]
Gone(e) == ex' = [ex EXCEPT ![e] = NoWork]

--------------------------------------------------------------------------------
(***************************************************************************)
(* inspect_first_create: only the exact incident is recognised, a registry *)
(* with the first document and its two entries, and a Drive with that one  *)
(* document, empty.  The document's revision is what the plan remembers.   *)
(***************************************************************************)
Incident ==
  LET i == disk.documents[First] IN
    /\ Known(disk) = {First}
    /\ disk.pending = <<[id |-> NoId, phase |-> "CREATE_ATTEMPT"],
                        [id |-> i, phase |-> "CREATED_EMPTY_UNVERIFIED"]>>

EmptyFirst(n) ==
  LET i == disk.documents[First] IN
    /\ Incident
    /\ placed[disk.folder] /\ placed[i] /\ Visible = {i}
    /\ body[i] = Empty /\ rev[i] = n

PlanFirstCreate ==
  /\ pc = "idle"
  /\ \E i \in Ids : EmptyFirst(rev[i]) /\ plan' = rev[i] /\ plan # rev[i]
  /\ UNCHANGED <<vars, sidecar, claimed, backup, ex, tries>>

(***************************************************************************)
(* resume_first_create, started with a plan once the interrupted publisher *)
(* is gone.  Any sidecar stops it before it asks the provider anything;    *)
(* the plan must be reproduced; the claim is an exclusive create.          *)
(***************************************************************************)
Start(e) ==
  /\ pc = "idle" /\ ex[e].at = "idle" /\ tries < MaxTries
  /\ plan # 0 /\ sidecar = << >>
  /\ tries' = tries + 1
  /\ ex' = [ex EXCEPT ![e].at = "replan",
                      ![e].ids[First] = disk.documents[First],
                      ![e].revs[First] = plan]
  /\ UNCHANGED <<vars, sidecar, claimed, backup, plan>>

Replan(e) ==
  /\ ex[e].at = "replan"
  /\ EmptyFirst(ex[e].revs[First])
  /\ ex' = [ex EXCEPT ![e].at = "claim",
                      ![e].events = <<Begin(ex[e].ids[First], ex[e].revs[First])>>]
  /\ UNCHANGED <<vars, sidecar, claimed, backup, plan, tries>>

ClaimAnyway == TRUE                                   \* a fault for the checks
Unclaimed == sidecar = << >>

Claim(e) ==
  /\ ex[e].at = "claim"
  /\ Unclaimed
  /\ sidecar' = ex[e].events
  /\ ex' = [ex EXCEPT ![e].at = "before", ![e].step = 1, ![e].doing = "write",
                      ![e].todo = {Folder, First}]
  /\ UNCHANGED <<vars, claimed, backup, plan, tries>>

--------------------------------------------------------------------------------
(***************************************************************************)
(* local(): neither file has moved since this executor last looked.        *)
(***************************************************************************)
Local(e) ==
  /\ Incident /\ disk.documents[First] = ex[e].ids[First]
  /\ sidecar = ex[e].events

(***************************************************************************)
(* record(): a look, an append and a look.  The append itself reads the    *)
(* file again, and takes whatever it finds as long as it can be read; the  *)
(* look after it is the one its next step begins with.                     *)
(***************************************************************************)
Readable == sidecar # << >> /\ sidecar[Len(sidecar)] # Torn

Append1(e, event) ==
  /\ Readable
  /\ sidecar' = Append(sidecar, event)
  /\ UNCHANGED <<vars, claimed, backup, plan, tries>>

Recorded(e, event) == [ex[e] EXCEPT !.events = Append(@, event), !.todo = {}]

(***************************************************************************)
(* preflight(): the folder's children are exactly the expected items, and  *)
(* each of them, read again, is as expected; a look before and after.      *)
(***************************************************************************)
ListItems(e) ==
  /\ ex[e].at \in Scans /\ Folder \in ex[e].todo
  /\ Local(e)
  /\ placed[disk.folder]
  /\ Visible = {ex[e].ids[r] : r \in Expected(e)}
  /\ ex' = [ex EXCEPT ![e].todo = @ \ {Folder}]
  /\ UNCHANGED <<vars, sidecar, claimed, backup, plan, tries>>

Recheck(e, r) ==
  /\ ex[e].at \in Scans /\ Folder \notin ex[e].todo /\ r \in ex[e].todo
  /\ placed[ex[e].ids[r]] /\ rev[ex[e].ids[r]] = ex[e].revs[r]
  /\ ex' = [ex EXCEPT ![e].todo = @ \ {r}]
  /\ UNCHANGED <<vars, sidecar, claimed, backup, plan, tries>>

AfterUnannounced(e) ==                                \* a fault for the checks
  CASE ex[e].at \in {"before", "again"} -> "effect"
    [] ex[e].at = "after" -> "verify"
    [] ex[e].at = "last" -> "complete"
After(e) ==
  CASE ex[e].at = "before" -> "intent"
    [] ex[e].at = "again" ->
         IF ex[e].doing = "write" /\ Role(e) = First THEN "reinspect" ELSE "effect"
    [] ex[e].at = "after" -> "verify"
    [] ex[e].at = "last" -> "complete"

Preflighted(e) ==
  /\ ex[e].at \in Scans /\ ex[e].todo = {}
  /\ Local(e)
  /\ Goes(e, After(e))
  /\ UNCHANGED <<vars, sidecar, claimed, backup, plan, tries>>

IntentBlind(e) ==                                     \* a fault for the checks
  IF ex[e].doing = "create" THEN Event("INTENT_CREATE", Role(e), NoId, 0)
  ELSE Event("INTENT_WRITE", Role(e), ex[e].ids[Role(e)], 0)
IntentOf(e) ==
  IF ex[e].doing = "create" THEN Event("INTENT_CREATE", Role(e), NoId, 0)
  ELSE Event("INTENT_WRITE", Role(e), ex[e].ids[Role(e)], ex[e].revs[Role(e)])

Intend(e) ==
  /\ ex[e].at = "intent"
  /\ Append1(e, IntentOf(e))
  /\ ex' = [ex EXCEPT ![e] = [Recorded(e, IntentOf(e)) EXCEPT
                                !.at = "again", !.todo = {Folder} \cup Expected(e)]]

(***************************************************************************)
(* The incident is inspected once more before its document is written.     *)
(***************************************************************************)
Reinspect(e) ==
  /\ ex[e].at = "reinspect"
  /\ EmptyFirst(ex[e].revs[First]) /\ Local(e)
  /\ Goes(e, "effect")
  /\ UNCHANGED <<vars, sidecar, claimed, backup, plan, tries>>

(***************************************************************************)
(* An executor that gives up looks at the sidecar once more; if it is the  *)
(* one it knows, and from the claim on it knows one, it says so, but where *)
(* the file ends by then: behind the lines of an executor that goes on.    *)
(***************************************************************************)
GivesUp(e) ==
  ex' = [ex EXCEPT ![e] = IF @.events = << >> THEN NoWork
                          ELSE [NoWork EXCEPT !.at = "failed", !.events = ex[e].events]]

LookBack(e) ==
  /\ ex[e].at = "failed"
  /\ \/ sidecar = ex[e].events /\ Goes(e, "stopping")
     \/ (sidecar # ex[e].events \/ "disk" \in Trouble) /\ Gone(e)
  /\ UNCHANGED <<vars, sidecar, claimed, backup, plan, tries>>

SayStopped(e) ==
  /\ ex[e].at = "stopping"
  /\ Gone(e)
  /\ \/ Readable /\ sidecar' = Append(sidecar, Stopped)
     \/ Readable /\ "disk" \in Trouble /\ sidecar' = Append(sidecar, Torn)
     \/ (~Readable \/ "disk" \in Trouble) /\ UNCHANGED sidecar
  /\ UNCHANGED <<vars, claimed, backup, plan, tries>>

CreateRemote(e) ==
  /\ ex[e].at = "effect" /\ ex[e].doing = "create"
  /\ \E i \in Ids :
       /\ Land(i, Role(e))
       /\ \/ ex' = [ex EXCEPT ![e].at = "created", ![e].ids[Role(e)] = i]
          \/ "lost" \in Trouble /\ GivesUp(e)
  /\ UNCHANGED <<pc, mem, work, result, sidecar, claimed, backup, plan, tries>>

LookForCreated(e) ==
  /\ \/ ex[e].at = "created" /\ Goes(e, "register")
     \/ ex[e].at = "registered" /\ Goes(e, "observe")
  /\ Local(e)
  /\ UNCHANGED <<vars, sidecar, claimed, backup, plan, tries>>

CreatedOf(e) == Event("CREATED", Role(e), ex[e].ids[Role(e)], 0)

Created(e) ==
  /\ ex[e].at = "register"
  /\ Append1(e, CreatedOf(e))
  /\ ex' = [ex EXCEPT ![e] = [Recorded(e, CreatedOf(e)) EXCEPT !.at = "registered"]]

RequiredIgnored(e, i) == TRUE                         \* a fault for the checks
Required(e, i) == rev[i] = ex[e].revs[Role(e)]

WriteRemote(e) ==
  /\ ex[e].at = "effect" /\ ex[e].doing = "write"
  /\ LET i == ex[e].ids[Role(e)] IN
       /\ Required(e, i)
       /\ body' = [body EXCEPT ![i] = Body(ex[e].ids, Role(e))]
       /\ wrote' = [wrote EXCEPT ![i] = Body(ex[e].ids, Role(e))]
       /\ rev' = [rev EXCEPT ![i] = @ + 1]
  /\ \/ Goes(e, "observe")
     \/ "lost" \in Trouble /\ GivesUp(e)
  /\ UNCHANGED <<role, placed, disk, publisher, sidecar, claimed, backup, plan, tries>>

(***************************************************************************)
(* The document after an effect: empty if new, and otherwise the text just *)
(* written, at a revision of its own; this is the item expected from now.  *)
(***************************************************************************)
OldRevision(e, i) == ex[e].revs[Role(e)]              \* a fault for the checks
ReadRevision(e, i) == rev[i]

ObserveItem(e) ==
  /\ ex[e].at = "observe"
  /\ LET i == ex[e].ids[Role(e)] IN
       /\ placed[i]
       /\ IF ex[e].doing = "create" THEN body[i] = Empty
          ELSE body[i] = Body(ex[e].ids, Role(e)) /\ rev[i] # ex[e].revs[Role(e)]
       /\ ex' = [ex EXCEPT ![e].at = "after", ![e].todo = {Folder} \cup Expected(e),
                           ![e].revs[Role(e)] = ReadRevision(e, i)]
  /\ UNCHANGED <<vars, sidecar, claimed, backup, plan, tries>>

VerifiedOf(e) ==
  Event(IF ex[e].doing = "create" THEN "VERIFIED_EMPTY" ELSE "VERIFIED",
        Role(e), ex[e].ids[Role(e)], ex[e].revs[Role(e)])

StepAfter(e) ==
  IF ex[e].doing = "write" /\ ex[e].step <= Len(Order) THEN ex[e].step + 1
  ELSE ex[e].step

Verify(e) ==
  /\ ex[e].at = "verify"
  /\ Append1(e, VerifiedOf(e))
  /\ LET done == Recorded(e, VerifiedOf(e)) IN
       ex' = [ex EXCEPT ![e] = [done EXCEPT
                !.todo = {Folder} \cup Expected(e),
                !.at = IF done.doing = "write" /\ done.step = Len(Order) + 1
                       THEN "last" ELSE "before",
                !.step = StepAfter(e),
                !.doing = IF done.doing = "create" THEN "write" ELSE "create"]]

(***************************************************************************)
(* COMPLETE closes the sidecar; the run answers COMPLETE only after one    *)
(* more look, which may fail with the line on disk.                        *)
(***************************************************************************)
Complete(e) ==
  /\ ex[e].at = "complete"
  /\ Append1(e, Completed)
  /\ ex' = [ex EXCEPT ![e] = [NoWork EXCEPT !.at = "closed",
                                !.ids[First] = ex[e].ids[First],
                                !.events = Append(ex[e].events, Completed)]]

Answer(e) ==
  /\ ex[e].at = "closed"
  /\ Local(e)
  /\ Gone(e)
  /\ UNCHANGED <<vars, sidecar, claimed, backup, plan, tries>>

(***************************************************************************)
(* An append that raises may have reached the disk, whole or torn, and     *)
(* then the sidecar is not the one in memory; so may one cut by a crash.   *)
(***************************************************************************)
Recording == {"intent", "register", "verify", "complete"}
Pending(e) ==
  CASE ex[e].at = "claim" -> ex[e].events[1]
    [] ex[e].at = "intent" -> IntentOf(e)
    [] ex[e].at = "register" -> CreatedOf(e)
    [] ex[e].at = "verify" -> VerifiedOf(e)
    [] ex[e].at = "complete" -> Completed
    [] OTHER -> Torn

AppendFails(e) ==
  /\ \/ ex[e].at = "claim" /\ Unclaimed
     \/ ex[e].at \in Recording /\ Readable
  /\ sidecar' \in {Append(sidecar, Pending(e)), Append(sidecar, Torn)}
  /\ \/ "disk" \in Trouble /\ GivesUp(e)
     \/ "crash" \in Trouble /\ Gone(e)
  /\ UNCHANGED <<vars, claimed, backup, plan, tries>>

--------------------------------------------------------------------------------
(***************************************************************************)
(* inspect_local: the sidecar is exactly the history of one whole recovery *)
(* of this registry, and so it names every document and its last revision. *)
(***************************************************************************)
Base(n) == 4 + 5 * (n - 2)
IdAt(n) == IF n = 1 THEN disk.documents[First] ELSE sidecar[Base(n) + 1].id
RevAt(n) == IF n = 1 THEN sidecar[3].rev ELSE sidecar[Base(n) + 4].rev

CreatedAndWritten(n) ==
  LET r == RoleAt(n)  i == IdAt(n)  empty == sidecar[Base(n) + 2].rev IN
    /\ sidecar[Base(n)] = Event("INTENT_CREATE", r, NoId, 0)
    /\ sidecar[Base(n) + 1] = Event("CREATED", r, i, 0)
    /\ sidecar[Base(n) + 2] = Event("VERIFIED_EMPTY", r, i, empty)
    /\ sidecar[Base(n) + 3] = Event("INTENT_WRITE", r, i, empty)
    /\ sidecar[Base(n) + 4] = Event("VERIFIED", r, i, RevAt(n)) /\ RevAt(n) # empty

Account ==
  /\ LET i == IdAt(1)  n == sidecar[1].rev IN
       /\ sidecar[1] = Begin(i, n)
       /\ sidecar[2] = Event("INTENT_WRITE", First, i, n)
       /\ sidecar[3] = Event("VERIFIED", First, i, RevAt(1)) /\ RevAt(1) # n
  /\ \A n \in 2..Len(Order) + 1 : CreatedAndWritten(n)
  /\ \A m, n \in 1..Len(Order) + 1 : IdAt(m) = IdAt(n) => m = n
  /\ sidecar[Base(Len(Order) + 2)] = Completed

History == Len(sidecar) = Base(Len(Order) + 2) /\ Account

PositionOf(r) == CHOOSE n \in 1..Len(Order) + 1 : RoleAt(n) = r
Manifest == [r \in Roles |-> IdAt(PositionOf(r))]

(***************************************************************************)
(* plan_reconciliation: Drive still is what the last receipts say.  It is  *)
(* read twice, and as revisions never return to an earlier value it was    *)
(* all so between the two readings.                                        *)
(***************************************************************************)
AsReceived ==
  /\ placed[disk.folder] /\ Visible = {IdAt(n) : n \in 1..Len(Order) + 1}
  /\ \A n \in 1..Len(Order) + 1 :
       /\ placed[IdAt(n)] /\ rev[IdAt(n)] = RevAt(n)
       /\ body[IdAt(n)] = Body(Manifest, RoleAt(n))
Reconcilable == Incident /\ sidecar # << >> /\ History /\ AsReceived

ProjectedKept == [disk EXCEPT !.pending = << >>]      \* a fault for the checks
ProjectedPending == [disk EXCEPT !.documents = Manifest] \* a fault
Projected == [disk EXCEPT !.documents = Manifest, !.pending = << >>]

(***************************************************************************)
(* commit_reconciliation: plan again, claim by exclusive create of a copy  *)
(* of the registry, plan once more, and replace the registry.              *)
(***************************************************************************)
StartCommit(e) ==
  /\ ex[e].at = "idle" /\ tries < MaxTries
  /\ ~claimed /\ Reconcilable
  /\ tries' = tries + 1
  /\ Goes(e, "copy")
  /\ UNCHANGED <<vars, sidecar, claimed, backup, plan>>

Uncopied == ~claimed

CopyRegistry(e) ==
  /\ ex[e].at = "copy"
  /\ Uncopied
  /\ claimed' = TRUE
  /\ \/ backup' = disk /\ Goes(e, "confirm")
     \/ /\ Trouble \cap {"disk", "crash"} # {}        \* torn, or not confirmed
        /\ backup' \in {EmptyRegistry, disk}
        /\ Gone(e)
  /\ UNCHANGED <<vars, sidecar, plan, tries>>

Confirm(e) ==
  /\ ex[e].at = "confirm"
  /\ Reconcilable
  /\ Goes(e, "replace")
  /\ UNCHANGED <<vars, sidecar, claimed, backup, plan, tries>>

ReplaceRegistry(e) ==
  /\ ex[e].at = "replace"
  /\ \/ disk' = Projected
     \/ Trouble \cap {"disk", "crash"} # {} /\ disk' = disk
  /\ Gone(e)
  /\ UNCHANGED <<drive, publisher, sidecar, claimed, backup, plan, tries>>

--------------------------------------------------------------------------------
(***************************************************************************)
(* A check that fails ends the executor; so does a request or a file that  *)
(* fails, or a crash.  Nothing is retried.                                 *)
(***************************************************************************)
Looking == Scans \cup {"created", "registered", "reinspect", "closed"}

Beaten(e) ==
  \/ ex[e].at \in {"replan", "reinspect"} /\ ~EmptyFirst(ex[e].revs[First])
  \/ ex[e].at = "claim" /\ ~Unclaimed
  \/ ex[e].at \in Looking /\ ~Local(e)
  \/ ex[e].at \in Recording /\ ~Readable
  \/ ex[e].at = "copy" /\ ~Uncopied
  \/ ex[e].at = "confirm" /\ ~Reconcilable

Stop(e) ==
  /\ ex[e].at \notin {"idle", "failed", "stopping"}
  /\ Beaten(e) \/ Trouble \cap {"refuse", "disk"} # {}
  /\ GivesUp(e)
  /\ UNCHANGED <<vars, sidecar, claimed, backup, plan, tries>>

Die(e) ==
  /\ "crash" \in Trouble /\ ex[e].at # "idle"
  /\ Gone(e)
  /\ UNCHANGED <<vars, sidecar, claimed, backup, plan, tries>>

Step(e) ==
  \/ Replan(e) \/ Claim(e) \/ ListItems(e) \/ (\E r \in Roles : Recheck(e, r))
  \/ Preflighted(e) \/ Intend(e) \/ Reinspect(e) \/ CreateRemote(e)
  \/ LookForCreated(e) \/ Created(e) \/ WriteRemote(e) \/ ObserveItem(e) \/ Verify(e)
  \/ Complete(e) \/ Answer(e) \/ AppendFails(e) \/ Stop(e) \/ LookBack(e) \/ SayStopped(e)
  \/ CopyRegistry(e) \/ Confirm(e) \/ ReplaceRegistry(e)

Recover == \E e \in Execs : Start(e) \/ StartCommit(e) \/ Step(e) \/ Die(e)

RecoveryNext ==
  \/ Next /\ UNCHANGED rvars
  \/ PlanFirstCreate
  \/ Recover

RecoverySpec == RecoveryInit /\ [][RecoveryNext]_allvars

(***************************************************************************)
(* Nothing in a run waits for anybody, because every request has a timeout *)
(* and there is no lock: who can take the next step takes it.  Invocations *)
(* and the owner owe nothing.                                              *)
(***************************************************************************)
RecoveryFairSpec == RecoverySpec /\ WF_vars(Run) /\ \A e \in Execs : WF_allvars(Step(e))

--------------------------------------------------------------------------------
EventType == [type : {"BEGIN", "INTENT_CREATE", "CREATED", "VERIFIED_EMPTY",
                      "INTENT_WRITE", "VERIFIED", "COMPLETE", "STOPPED", "TORN"},
              role : Roles, id : Ids \cup {NoId}, rev : Nat]
ExecType == [at : Scans \cup Recording \cup
                  {"idle", "replan", "claim", "reinspect", "effect", "created", "registered",
                   "observe", "closed", "failed", "stopping", "copy", "confirm", "replace"},
             step : 0..Len(Order) + 1, doing : {"none", "create", "write"},
             todo : SUBSET (Roles \cup {Folder}), events : Seq(EventType),
             ids : [Roles -> Ids \cup {NoId}], revs : [Roles -> Nat]]

RecoveryTypeOK ==
  /\ sidecar \in Seq(EventType)
  /\ claimed \in BOOLEAN /\ backup \in Registry /\ plan \in Nat /\ tries \in Nat
  /\ ex \in [Execs -> ExecType]

(***************************************************************************)
(* A recovery leaves everything the publisher's invariant says in place:   *)
(* whatever it has written, the publisher may start from there again.      *)
(***************************************************************************)
RecoveryInv == RecoveryTypeOK /\ IInv

(***************************************************************************)
(* However many executors are started, one at most is past the claim of    *)
(* the sidecar and one past the claim of the registry's copy: no effect is *)
(* attempted twice.                                                        *)
(***************************************************************************)
OneExecutor ==
  \A e, f \in Execs :
    /\ ex[e].step # 0 /\ ex[f].step # 0 => e = f
    /\ ex[e].at \in {"confirm", "replace"} /\ ex[f].at \in {"confirm", "replace"} => e = f

(***************************************************************************)
(* At every effect of a recovery the sidecar ends with the intent that     *)
(* names the effect, followed at most by what others have said on giving   *)
(* up: which title is created, or which document is written over which     *)
(* revision.                                                               *)
(***************************************************************************)
Foretold(i, event) ==
  IF role[i] = NoRole THEN event = Event("INTENT_CREATE", role'[i], NoId, 0)
  ELSE event = Event("INTENT_WRITE", role[i], i, rev[i])
IntentAhead ==
  [][pc = "idle" /\ edits' = edits =>
       \A i \in Ids : rev'[i] # rev[i] =>
         \E n \in 1..Len(sidecar) :
           /\ Foretold(i, sidecar[n])
           /\ \A m \in n + 1..Len(sidecar) : sidecar[m] \in {Stopped, Torn}]_allvars

(***************************************************************************)
(* The writer and the reader of the sidecar agree: who answers COMPLETE    *)
(* has left a history the reconciliation accepts; and a sidecar is such a  *)
(* history exactly when COMPLETE is its last line and nobody has said      *)
(* STOPPED in it, before the last line or after.  Its documents hold the   *)
(* baseline.                                                               *)
(***************************************************************************)
CompleteIsHistory ==
  /\ \A e \in Execs : ex[e].at = "closed" /\ Local(e) => History
  /\ Incident /\ sidecar # << >> =>
       /\ History <=> /\ sidecar[Len(sidecar)] = Completed
                      /\ \A n \in 1..Len(sidecar) : sidecar[n] # Stopped
       /\ History => Holds(Baseline, Manifest)

(***************************************************************************)
(* While no publisher runs the registry changes at most by reconciliation: *)
(* from the incident to a whole baseline, with the original kept.          *)
(***************************************************************************)
OriginalKept ==
  [][pc = "idle" /\ disk' # disk =>
       /\ Incident /\ claimed /\ backup = disk
       /\ disk'.pending = << >> /\ disk'.folder = disk.folder
       /\ Holds(Baseline, disk'.documents)]_allvars

(***************************************************************************)
(* Left alone, a resume that starts completes, a commit that starts clears *)
(* the registry, and no check of the publisher stands in its own way, nor  *)
(* in the way of what they leave: a publication without a pending journal  *)
(* ends COMPLETE unless it is killed.                                      *)
(***************************************************************************)
CalmRecovery ==
  /\ \A e \in Execs : ex[e].at = "replan" ~> sidecar # << >> /\ History
  /\ \A e \in Execs : ex[e].at = "copy" ~> disk.pending = << >>
  /\ (pc # "idle" /\ mode = "apply" /\ disk.pending = << >>) ~> result \in {"COMPLETE", "CRASHED"}
================================================================================
