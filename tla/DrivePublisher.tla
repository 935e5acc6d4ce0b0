---------------------------- MODULE DrivePublisher ----------------------------
EXTENDS Documents, Naturals, Sequences
(***************************************************************************)
(* The app-scoped Google Drive publisher: `init-sandbox' and `publish' of  *)
(* google_publish.py, with drive.apply, the connector's conditional        *)
(* update, the registry file and its pending journal, the Drive folder the *)
(* app can see, and the owner who may edit or move the documents meanwhile.*)
(*                                                                         *)
(* One action is one remote request group or one registry save, because a  *)
(* crash, a lost response or an owner's edit may fall between any two.     *)
(* The second read of a document that the code compares with the first one *)
(* before it trusts either (list then read, children then read, readback   *)
(* twice) is one observation here: a mismatch is a refusal, and Refuse is  *)
(* always possible where the provider is asked.                            *)
(***************************************************************************)
CONSTANTS
  Folder,     \* role of the sandbox folder
  Order,      \* the records in the order core.normalize gives them
  Faults,     \* which of refuse, lost, disk, crash the environment shows
  MaxRuns,    \* bound on invocations of the command
  MaxEdits    \* bound on what the owner does to the documents

NoRole == "none"

ASSUME OrderAssumption ==
  /\ Folder \notin Roles
  /\ NoRole \notin Roles \cup {Folder}
  /\ Order \in Seq(Records)
  /\ \A r \in Records : \E n \in 1..Len(Order) : Order[n] = r
  /\ \A m, n \in 1..Len(Order) : Order[m] = Order[n] => m = n

ASSUME BoundsAssumption ==
  /\ MaxRuns \in Nat /\ MaxEdits \in Nat
  /\ MaxEdits > 0 => "refuse" \in Faults

VARIABLES
  \* Google Drive, as far as the app may see it; wrote is a history variable
  role,       \* role[i]: the appProperties role of file i, NoRole if none
  body,       \* body[i]: the text the document shows
  wrote,      \* wrote[i]: the text the publisher last put there
  rev,        \* rev[i]: its revision
  placed,     \* placed[i]: private, untrashed and where the app created it
  \* the registry file
  disk,
  \* the process
  pc, mode, fixture,
  mem,        \* AppBackend.state
  purpose,    \* which inventory or listing is under way
  todo, seen, \* its titles still to read, and the bodies read
  receipt,    \* receipt[r]: revision captured by Backend.read
  expected,   \* drive.apply's expected, bodies by title
  at,         \* which upsert of drive.apply
  attempted,  \* writes_attempted > 0
  required,   \* the revision the next replace_text demands
  made,       \* identity the last files.create returned
  \* what was reported, and the bounds
  result, runs, edits

drive == <<role, body, wrote, rev, placed>>
work == <<purpose, todo, seen, receipt, expected, at, attempted, required, made>>
args == <<mode, fixture>>
bounds == <<runs, edits>>
vars == <<drive, disk, pc, args, mem, work, result, bounds>>

Phase == {"FOLDER_CREATE_ATTEMPT", "CREATE_ATTEMPT", "CREATED_EMPTY_UNVERIFIED",
          "CONTENT_ATTEMPTED", "UPDATE_ATTEMPT"}
Entry == [id : Ids \cup {NoId}, phase : Phase]
Registry == [folder : Ids \cup {NoId}, documents : [Roles -> Ids \cup {NoId}],
             pending : Seq(Entry)]
EmptyRegistry == [folder |-> NoId, documents |-> [r \in Roles |-> NoId],
                  pending |-> << >>]

Modes == {"init", "dry-run", "apply"}
Inventories == {"preview", "recheck", "upsert", "final"}
Listings == {"effect", "settle"}

NothingSeen == [r \in Roles |-> NoDoc]
NoReceipts == [r \in Roles |-> 0]

Init ==
  /\ role = [i \in Ids |-> NoRole]
  /\ body = [i \in Ids |-> NoDoc]
  /\ wrote = [i \in Ids |-> NoDoc]
  /\ rev = [i \in Ids |-> 0]
  /\ placed = [i \in Ids |-> FALSE]
  /\ disk = EmptyRegistry
  /\ pc = "idle" /\ mode = "init" /\ fixture \in Fixtures
  /\ mem = EmptyRegistry
  /\ purpose = "none" /\ todo = {} /\ seen = NothingSeen
  /\ receipt = NoReceipts /\ expected = NothingSeen
  /\ at = 0 /\ attempted = FALSE /\ required = 0 /\ made = NoId
  /\ result = "none" /\ runs = 0 /\ edits = 0

--------------------------------------------------------------------------------
(***************************************************************************)
(* The end of a run: the process and everything it held are gone.          *)
(***************************************************************************)
Forget ==
  /\ pc' = "idle" /\ mem' = EmptyRegistry
  /\ purpose' = "none" /\ todo' = {} /\ seen' = NothingSeen
  /\ receipt' = NoReceipts /\ expected' = NothingSeen
  /\ at' = 0 /\ attempted' = FALSE /\ required' = 0 /\ made' = NoId

Exit(outcome) == Forget /\ result' = outcome

(***************************************************************************)
(* What is reported of a run that gives up: drive.apply's two categories   *)
(* once it has begun, a safe error category before.                        *)
(***************************************************************************)
Failure ==
  IF attempted THEN "PARTIAL_UNPUBLISHED"
  ELSE IF purpose \in {"none", "preview"} THEN "ERROR" ELSE "BLOCKED"

(***************************************************************************)
(* State.save through atomic_write: the new registry is in the file before *)
(* the call returns; a call that raises may have replaced the file or not. *)
(***************************************************************************)
SavedInMemory(reg) == mem' = reg /\ disk' = disk      \* a fault for the checks
Saved(reg) == mem' = reg /\ disk' = reg
SaveFails(reg) ==
  /\ "disk" \in Faults
  /\ disk' \in {disk, reg}
  /\ Exit(Failure)

JournalCreates(reg, id, phase) ==                     \* a fault for the checks
  IF phase = "UPDATE_ATTEMPT" THEN reg
  ELSE [reg EXCEPT !.pending = Append(@, [id |-> id, phase |-> phase])]
Journal(reg, id, phase) ==
  [reg EXCEPT !.pending = Append(@, [id |-> id, phase |-> phase])]

(***************************************************************************)
(* AppBackend._journal: the entry is durable before the effect it covers.  *)
(***************************************************************************)
Stage(id, phase, next) ==
  /\ UNCHANGED <<drive, args, bounds>>
  /\ \/ /\ Saved(Journal(mem, id, phase))
        /\ pc' = next
        /\ UNCHANGED <<work, result>>
     \/ SaveFails(Journal(mem, id, phase))

Doc(r) == mem.documents[r]
LinksOfFirst(reg) == [r \in Records |-> reg.documents[Order[1]]] \* a fault
LinksOf(reg) == [r \in Records |-> reg.documents[r]]

Target == IF at <= Len(Order) THEN Order[at] ELSE Current
Wanted(r) ==
  IF r = Current THEN Index(fixture, LinksOf(mem)) ELSE Markdown(fixture, r)

(***************************************************************************)
(* The app-visible children of the folder.                                 *)
(***************************************************************************)
Visible == {i \in Ids : role[i] \in Roles /\ placed[i]}
Known(reg) == {r \in Roles : reg.documents[r] # NoId}

BeginScan(why, reg) ==
  /\ pc' = "list" /\ purpose' = why
  /\ todo' = Known(reg) /\ seen' = NothingSeen

(***************************************************************************)
(* drive.preview's test of a folder that is not empty: CURRENT is the      *)
(* index of a record set, and every record reads as that set says.         *)
(***************************************************************************)
Coherent(bodies) ==
  \/ \A r \in Roles : bodies[r] = NoDoc
  \/ \E v \in Fixtures :
       /\ bodies[Current] = Index(v, LinksOf(mem))
       /\ \A r \in Records : bodies[r] = Markdown(v, r)

--------------------------------------------------------------------------------
(***************************************************************************)
(* The command line.  A pending journal stops every Drive operation before *)
(* authentication or the network; so does publishing without a sandbox.    *)
(***************************************************************************)
Invoked(m, v) ==
  /\ pc = "idle" /\ runs < MaxRuns
  /\ runs' = runs + 1 /\ mode' = m /\ fixture' = v
  /\ UNCHANGED <<drive, disk, edits>>

ClearAlways == TRUE                                   \* a fault for the checks
Clear == disk.pending = << >>

InvokeBarred(m, v) ==
  /\ Invoked(m, v)
  /\ ~Clear \/ (m # "init" /\ disk.folder = NoId)
  /\ Exit("ERROR")

InvokeInit ==
  /\ Invoked("init", fixture)
  /\ Clear
  /\ mem' = disk
  /\ pc' = IF disk.folder = NoId THEN "stageFolder" ELSE "checkFolder"
  /\ result' = "none"
  /\ UNCHANGED work

InvokePublish(m, v) ==
  /\ Invoked(m, v) /\ m # "init"
  /\ Clear /\ disk.folder # NoId
  /\ mem' = disk
  /\ BeginScan("preview", disk)
  /\ result' = "none"
  /\ UNCHANGED <<receipt, expected, at, attempted, required, made>>

--------------------------------------------------------------------------------
(***************************************************************************)
(* files.create: the provider makes an empty private file; the response    *)
(* that carries its identity may be lost.                                  *)
(***************************************************************************)
Land(i, r) ==
  /\ role[i] = NoRole
  /\ role' = [role EXCEPT ![i] = r]
  /\ body' = [body EXCEPT ![i] = Empty]
  /\ wrote' = [wrote EXCEPT ![i] = Empty]
  /\ rev' = [rev EXCEPT ![i] = 1]
  /\ placed' = [placed EXCEPT ![i] = TRUE]
  /\ UNCHANGED <<disk, args, bounds>>

CreateAs(r, next) ==
  \E i \in Ids :
    /\ Land(i, r)
    /\ \/ /\ made' = i /\ pc' = next
          /\ UNCHANGED <<mem, purpose, todo, seen, receipt, expected, at,
                         attempted, required, result>>
       \/ "lost" \in Faults /\ Exit(Failure)

(***************************************************************************)
(* AppBackend.initialize: journal, create, journal the identity, check the *)
(* folder is ours and empty, then save it and clear the journal in one.    *)
(***************************************************************************)
StageFolder == pc = "stageFolder" /\ Stage(NoId, "FOLDER_CREATE_ATTEMPT", "createFolder")
CreateFolder == pc = "createFolder" /\ CreateAs(Folder, "stageFolderMade")
StageFolderMade ==
  pc = "stageFolderMade" /\ Stage(made, "CREATED_EMPTY_UNVERIFIED", "adoptFolder")

AdoptFolder ==
  /\ pc = "adoptFolder"
  /\ placed[made] /\ Visible = {}
  /\ LET reg == [mem EXCEPT !.folder = made, !.pending = << >>] IN
       \/ disk' = reg /\ Exit("INITIALIZED")
       \/ SaveFails(reg)
  /\ UNCHANGED <<drive, args, bounds>>

CheckFolder ==
  /\ pc = "checkFolder"
  /\ placed[mem.folder]
  /\ Exit("INITIALIZED")
  /\ UNCHANGED <<drive, disk, args, bounds>>

--------------------------------------------------------------------------------
(***************************************************************************)
(* An inventory or a listing: the folder and its children first, which     *)
(* must be exactly the registry's documents, then the documents one by     *)
(* one.  Only drive._inventory reads through Backend.read, which takes the *)
(* receipt; the listings inside an effect must not.                        *)
(***************************************************************************)
ListChildren ==
  /\ pc = "list"
  /\ placed[mem.folder]
  /\ Visible = {Doc(r) : r \in Known(mem)}
  /\ pc' = "scan"
  /\ UNCHANGED <<drive, disk, args, mem, work, result, bounds>>

Observe(r) ==
  /\ pc = "scan" /\ r \in todo
  /\ placed[Doc(r)] /\ (purpose \in Inventories => placed[mem.folder])
  /\ todo' = todo \ {r}
  /\ seen' = [seen EXCEPT ![r] = body[Doc(r)]]
  /\ receipt' = IF purpose \in Inventories
                THEN [receipt EXCEPT ![r] = rev[Doc(r)]] ELSE receipt
  /\ UNCHANGED <<drive, disk, pc, args, mem, purpose, expected, at, attempted,
                 required, made, result, bounds>>

Scanned(why) == pc = "scan" /\ todo = {} /\ purpose = why

(***************************************************************************)
(* main: drive.preview; a dry run ends here.  The plan is the snapshot.    *)
(***************************************************************************)
PreviewDone ==
  /\ Scanned("preview") /\ Coherent(seen)
  /\ IF mode = "dry-run" THEN Exit("PREVIEW")
     ELSE /\ BeginScan("recheck", mem)
          /\ expected' = seen
          /\ UNCHANGED <<mem, receipt, at, attempted, required, made, result>>
  /\ UNCHANGED <<drive, disk, args, bounds>>

(***************************************************************************)
(* drive.apply: preview again, and the plan must be the same.              *)
(***************************************************************************)
RecheckDone ==
  /\ Scanned("recheck") /\ Coherent(seen)
  /\ seen = expected
  /\ BeginScan("upsert", mem)
  /\ at' = 1
  /\ UNCHANGED <<drive, disk, args, mem, receipt, expected, attempted, required,
                 made, result, bounds>>

(***************************************************************************)
(* The next upsert, CURRENT's after all the records', or the final check.  *)
(***************************************************************************)
Advance ==
  IF at <= Len(Order)
  THEN at' = at + 1 /\ BeginScan("upsert", mem)
  ELSE at' = at /\ BeginScan("final", mem)

UpToDateIfThere == expected[Target] # NoDoc           \* a fault for the checks
UpToDate == expected[Target] = Wanted(Target)

Skip ==
  /\ Scanned("upsert") /\ seen = expected
  /\ UpToDate
  /\ Advance
  /\ UNCHANGED <<drive, disk, args, mem, receipt, expected, attempted, required,
                 made, result, bounds>>

Attempt ==
  /\ Scanned("upsert") /\ seen = expected
  /\ ~UpToDate
  /\ attempted' = TRUE
  /\ BeginScan("effect", mem)
  /\ UNCHANGED <<drive, disk, args, mem, receipt, expected, at, required, made,
                 result, bounds>>

--------------------------------------------------------------------------------
(***************************************************************************)
(* Backend._allowed: CURRENT may only index records as listed just now.    *)
(***************************************************************************)
Allowed ==
  Target = Current =>
    \A r \in Records : seen[r] = Markdown(fixture, r)

(***************************************************************************)
(* Backend.update: the document still is, body and revision, what the      *)
(* inventory took the receipt of.                                          *)
(***************************************************************************)
ReceiptStands(i) ==
  /\ body[i] = seen[Target] /\ body[i] = expected[Target]
  /\ rev[i] = receipt[Target]

UpdateReady ==
  /\ Scanned("effect") /\ expected[Target] # NoDoc
  /\ Allowed
  /\ placed[Doc(Target)] /\ ReceiptStands(Doc(Target))
  /\ required' = rev[Doc(Target)]
  /\ pc' = "stageUpdate"
  /\ UNCHANGED <<drive, disk, args, mem, purpose, todo, seen, receipt, expected,
                 at, attempted, made, result, bounds>>

StageUpdate ==
  pc = "stageUpdate" /\ Stage(Doc(Target), "UPDATE_ATTEMPT", "write")

(***************************************************************************)
(* AppBackend.create.  The title must be new to the registry.              *)
(***************************************************************************)
CreateReady ==
  /\ Scanned("effect") /\ expected[Target] = NoDoc
  /\ Allowed
  /\ Doc(Target) = NoId
  /\ pc' = "stageCreate"
  /\ UNCHANGED <<drive, disk, args, mem, work, result, bounds>>

StageCreate == pc = "stageCreate" /\ Stage(NoId, "CREATE_ATTEMPT", "createDoc")
CreateDoc == pc = "createDoc" /\ CreateAs(Target, "stageMade")
StageMade ==
  pc = "stageMade" /\ Stage(made, "CREATED_EMPTY_UNVERIFIED", "register")

Register ==
  /\ pc = "register"
  /\ LET reg == [mem EXCEPT !.documents[Target] = made] IN
       \/ /\ Saved(reg) /\ pc' = "readEmpty"
          /\ UNCHANGED <<work, result>>
       \/ SaveFails(reg)
  /\ UNCHANGED <<drive, args, bounds>>

ReadEmpty ==
  /\ pc = "readEmpty"
  /\ placed[made] /\ body[made] = Empty
  /\ required' = rev[made]
  /\ BeginScan("settle", mem)
  /\ UNCHANGED <<drive, disk, args, mem, receipt, expected, at, attempted, made,
                 result, bounds>>

Settled ==
  /\ Scanned("settle")
  /\ pc' = "stageContent"
  /\ UNCHANGED <<drive, disk, args, mem, work, result, bounds>>

StageContent ==
  pc = "stageContent" /\ Stage(made, "CONTENT_ATTEMPTED", "write")

(***************************************************************************)
(* Transport.replace_text: the provider applies the batch only if the      *)
(* revision is the required one; its response may be lost.                 *)
(***************************************************************************)
RevisionIgnored(i) == TRUE                            \* a fault for the checks
RevisionStands(i) == rev[i] = required

Write ==
  /\ pc = "write"
  /\ LET i == Doc(Target) IN
       /\ RevisionStands(i)
       /\ body' = [body EXCEPT ![i] = Wanted(Target)]
       /\ wrote' = [wrote EXCEPT ![i] = Wanted(Target)]
       /\ rev' = [rev EXCEPT ![i] = @ + 1]
  /\ \/ pc' = "readback" /\ UNCHANGED <<mem, work, result>>
     \/ "lost" \in Faults /\ Exit(Failure)
  /\ UNCHANGED <<role, placed, disk, args, bounds>>

Readback ==
  /\ pc = "readback"
  /\ LET i == Doc(Target) IN
       /\ placed[mem.folder] /\ placed[i] /\ body[i] = Wanted(Target)
       /\ receipt' = [receipt EXCEPT ![Target] = rev[i]]
  /\ expected' = [expected EXCEPT ![Target] = Wanted(Target)]
  /\ Advance
  /\ UNCHANGED <<drive, disk, args, mem, attempted, required, made, result, bounds>>

--------------------------------------------------------------------------------
(***************************************************************************)
(* drive.apply's last preview, then google_publish.publish clears the      *)
(* journal of a complete publication.                                      *)
(***************************************************************************)
FinalDone ==
  /\ Scanned("final") /\ Coherent(seen)
  /\ seen = expected
  /\ IF mem.pending = << >> THEN Exit("COMPLETE")
     ELSE pc' = "commit" /\ UNCHANGED <<mem, work, result>>
  /\ UNCHANGED <<drive, disk, args, bounds>>

Commit ==
  /\ pc = "commit"
  /\ LET reg == [mem EXCEPT !.pending = << >>] IN
       \/ disk' = reg /\ Exit("COMPLETE")
       \/ SaveFails(reg)
  /\ UNCHANGED <<drive, args, bounds>>

(***************************************************************************)
(* A request that fails without effect, or a check that does not hold:     *)
(* every one of them ends the run, nothing is retried.                     *)
(***************************************************************************)
Asking == {"createFolder", "adoptFolder", "checkFolder", "list", "scan",
           "createDoc", "readEmpty", "write", "readback"}

Refuse ==
  /\ "refuse" \in Faults
  /\ pc \in Asking
  /\ Exit(Failure)
  /\ UNCHANGED <<drive, disk, args, bounds>>

Crash ==
  /\ "crash" \in Faults
  /\ pc # "idle"
  /\ Exit("CRASHED")
  /\ UNCHANGED <<drive, disk, args, bounds>>

(***************************************************************************)
(* The owner types into a document or undoes it, and moves, shares or      *)
(* trashes it or puts it back.                                             *)
(***************************************************************************)
OwnerActs(i) ==
  /\ role[i] # NoRole /\ edits < MaxEdits
  /\ edits' = edits + 1
  /\ UNCHANGED <<role, wrote, disk, pc, args, mem, work, result, runs>>

OwnerEdits(i) ==
  /\ OwnerActs(i) /\ role[i] \in Roles
  /\ body' = [body EXCEPT ![i] = IF @ = Foreign THEN wrote[i] ELSE Foreign]
  /\ rev' = [rev EXCEPT ![i] = @ + 1]
  /\ UNCHANGED placed

OwnerMoves(i) ==
  /\ OwnerActs(i)
  /\ placed' = [placed EXCEPT ![i] = ~@]
  /\ UNCHANGED <<body, rev>>

--------------------------------------------------------------------------------
Run ==
  \/ StageFolder \/ CreateFolder \/ StageFolderMade \/ AdoptFolder \/ CheckFolder
  \/ ListChildren \/ (\E r \in Roles : Observe(r))
  \/ PreviewDone \/ RecheckDone \/ Skip \/ Attempt
  \/ UpdateReady \/ StageUpdate
  \/ CreateReady \/ StageCreate \/ CreateDoc \/ StageMade \/ Register
  \/ ReadEmpty \/ Settled \/ StageContent
  \/ Write \/ Readback \/ FinalDone \/ Commit
  \/ Refuse

Invoke ==
  \/ \E m \in Modes, v \in Fixtures : InvokeBarred(m, v)
  \/ InvokeInit
  \/ \E m \in Modes, v \in Fixtures : InvokePublish(m, v)

Owner == \E i \in Ids : OwnerEdits(i) \/ OwnerMoves(i)

Next == Run \/ Invoke \/ Crash \/ Owner

Spec == Init /\ [][Next]_vars

--------------------------------------------------------------------------------
TypeOK ==
  /\ role \in [Ids -> Roles \cup {Folder, NoRole}]
  /\ body \in [Ids -> Written \cup {NoDoc, Empty, Foreign}]
  /\ wrote \in [Ids -> Written \cup {NoDoc, Empty}]
  /\ rev \in [Ids -> Nat]
  /\ placed \in [Ids -> BOOLEAN]
  /\ disk \in Registry /\ mem \in Registry
  /\ pc \in Asking \cup {"idle", "stageFolder", "stageFolderMade", "stageUpdate",
                         "stageCreate", "stageMade", "register", "stageContent",
                         "commit"}
  /\ mode \in Modes /\ fixture \in Fixtures
  /\ purpose \in Inventories \cup Listings \cup {"none"}
  /\ todo \subseteq Roles
  /\ seen \in [Roles -> Written \cup {NoDoc, Empty, Foreign}]
  /\ expected \in [Roles -> Written \cup {NoDoc, Empty, Foreign}]
  /\ receipt \in [Roles -> Nat]
  /\ at \in 0..Len(Order) + 1
  /\ attempted \in BOOLEAN /\ required \in Nat /\ made \in Ids \cup {NoId}
  /\ result \in {"none", "ERROR", "BLOCKED", "PARTIAL_UNPUBLISHED", "COMPLETE",
                 "INITIALIZED", "PREVIEW", "CRASHED"}
  /\ runs \in Nat /\ edits \in Nat

(***************************************************************************)
(* However often the command is run, whatever crashes, gets lost or fails, *)
(* and whatever the owner trashes: one folder and one document per title.  *)
(***************************************************************************)
OnePerRole ==
  \A i, j \in Ids : role[i] # NoRole /\ role[i] = role[j] => i = j

(***************************************************************************)
(* Fixture v as the publisher would leave it: every title has a document   *)
(* of its own and last received the text of v, the index naming them.      *)
(***************************************************************************)
Holds(v, documents) ==
  /\ \A r \in Roles : documents[r] # NoId /\ role[documents[r]] = r
  /\ \A r \in Records : wrote[documents[r]] = Markdown(v, r)
  /\ wrote[documents[Current]] = Index(v, [r \in Records |-> documents[r]])

(***************************************************************************)
(* A registry whose journal is empty tells the truth: it knows every file  *)
(* the app made, and they hold one whole publication, or there are none.   *)
(* So the next run that the barrier lets through starts from a known state.*)
(***************************************************************************)
ClearMeansWhole ==
  disk.pending = << >> =>
    /\ \A i \in Ids : role[i] # NoRole =>
         i = disk.folder \/ \E r \in Roles : disk.documents[r] = i
    /\ \/ \A r \in Roles : disk.documents[r] = NoId
       \/ \E v \in Fixtures : Holds(v, disk.documents)

(***************************************************************************)
(* COMPLETE is reported only of a publication that took place, all of it.  *)
(***************************************************************************)
CompleteIsPublished ==
  result = "COMPLETE" => disk.pending = << >> /\ Holds(fixture, disk.documents)

(***************************************************************************)
(* What the owner typed is never overwritten: a revision made by the       *)
(* publisher replaces a text of its own, whenever the owner edits.         *)
(***************************************************************************)
OwnerTextKept ==
  [][edits' = edits => \A i \in Ids : rev'[i] # rev[i] => body[i] # Foreign]_vars

(***************************************************************************)
(* CURRENT last: an index is only ever written over a Drive where every    *)
(* record it lists is, in the document it names, of the same fixture.      *)
(***************************************************************************)
CurrentLast ==
  [][\A i \in Ids :
       wrote'[i] # wrote[i] /\ role'[i] = Current /\ wrote'[i] # Empty =>
         \E v \in Fixtures, links \in Links :
           /\ wrote'[i] = Index(v, links)
           /\ \A r \in Records : /\ links[r] # NoId
                                 /\ role[links[r]] = r
                                 /\ wrote[links[r]] = Markdown(v, r)]_vars

(***************************************************************************)
(* Write-ahead: at the moment of an effect on Drive, the last entry of the *)
(* journal on disk names that very effect, so an inspector always knows    *)
(* which one may or may not have happened.                                 *)
(***************************************************************************)
LastEntry == disk.pending[Len(disk.pending)]
Announced(i) ==
  IF role[i] = NoRole
  THEN LastEntry.id = NoId /\
       LastEntry.phase = IF role'[i] = Folder THEN "FOLDER_CREATE_ATTEMPT"
                         ELSE "CREATE_ATTEMPT"
  ELSE LastEntry.id = i /\
       LastEntry.phase = IF body[i] = Empty THEN "CONTENT_ATTEMPTED"
                         ELSE "UPDATE_ATTEMPT"
WriteAhead ==
  [][edits' = edits =>
       \A i \in Ids : rev'[i] # rev[i] => disk.pending # << >> /\ Announced(i)]_vars

(***************************************************************************)
(* docs/specs/0008-unattended-drive-publisher.md: "A partial run retains   *)
(* the pending journal and needs inspection, not blind repeat."            *)
(***************************************************************************)
PartialKeepsJournal == result = "PARTIAL_UNPUBLISHED" => disk.pending # << >>
================================================================================
