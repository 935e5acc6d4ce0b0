----------------------- MODULE FirstCreateRecoveryProofs -----------------------
EXTENDS FirstCreateRecovery, DrivePublisherProofs, Integers
(***************************************************************************)
(* The recovery of a first create, for any records, fixtures and number of *)
(* executors.  Three things carry the argument.  The barrier: from the     *)
(* operator's plan on the publisher is idle at the incident, until the     *)
(* registry is reconciled.  The claim: one executor works on Drive; others *)
(* may say STOPPED in its sidecar, and after that it records one event at  *)
(* most, as the next look fails.  And the story: the events it holds are   *)
(* determined by the place the executor is at, so where COMPLETE is the    *)
(* last line and nobody has said STOPPED the sidecar is a whole history.   *)
(***************************************************************************)

(***************************************************************************)
(* A file that the registry does not list is the one whose creation the    *)
(* journal is about; so at the incident there is none.                     *)
(***************************************************************************)
Creates == {"FOLDER_CREATE_ATTEMPT", "CREATE_ATTEMPT"}

Strays ==
  /\ \A i \in Ids : Unlisted(i) =>
       disk.pending # << >> /\ (LastEntry.phase \in Creates \/ LastEntry.id = i)
  /\ pc \in {"stageFolderMade", "stageMade"} => LastEntry.phase \in Creates
  /\ pc \in {"adoptFolder", "register"} => LastEntry.id = made

(***************************************************************************)
(* The phases of the recovery as a whole.                                  *)
(***************************************************************************)
Begun == plan # 0 \/ sidecar # << >> \/ \E e \in Execs : ex[e].at # "idle"
Whole == Base(Len(Order) + 2)              \* the lines of a whole recovery
Closed == Len(sidecar) >= Whole /\ sidecar[Whole] = Completed
Spoiled == \E n \in 1..Len(sidecar) : sidecar[n] = Stopped
Frozen == pc = "idle" /\ Incident
Reconciled == claimed /\ Closed /\ \A r \in Roles : disk.documents[r] # NoId

Phases ==
  /\ Begun => Frozen \/ Reconciled
  /\ claimed => Closed
  /\ sidecar = << >> => Strays

(***************************************************************************)
(* An executor that does not work on Drive.                                *)
(***************************************************************************)
Aside == {"idle", "replan", "claim", "closed", "failed", "stopping", "copy", "confirm", "replace"}

Unwritten(i, n) == n <= rev[i] /\ (rev[i] = n => body[i] = Empty)

Asides(c) ==
  /\ c.step = 0 <=> c.at \in Aside
  /\ c.at = "idle" => c = NoWork
  /\ c.at \in {"replan", "copy", "confirm", "replace"} => c.events = << >>
  /\ c.at = "closed" => Len(c.events) = Whole /\ c.events[Whole] = Completed
  /\ c.at = "claim" => c.events = <<Begin(c.ids[First], c.revs[First])>>
  /\ c.at \in {"replan", "claim"} => \A r \in Roles \ {First} : c.ids[r] = NoId
  /\ c.at \in {"replan", "claim"} /\ sidecar = << >> => c.ids[First] = disk.documents[First]
  /\ c.at = "claim" /\ sidecar = << >> => Unwritten(c.ids[First], c.revs[First])
  /\ c.at \in {"copy", "confirm", "replace"} => Closed
  /\ c.at \in {"confirm", "replace"} => claimed /\ Frozen /\ backup = disk

(***************************************************************************)
(* The executor that works on Drive: how many events it has recorded, and  *)
(* which.  The events about the k-th document begin at Base(k).            *)
(***************************************************************************)
Titles == 1..Len(Order) + 1
Doing(c, what, places) == c.doing = what /\ c.at \in places

Place(c) ==
  LET n == c.step  l == Len(c.events) IN
    /\ c.doing \in {"create", "write"}
    /\ Doing(c, "create", {"before", "intent"}) => l = Base(n) - 1
    /\ Doing(c, "create", {"again", "effect", "created", "register"}) => l = Base(n)
    /\ Doing(c, "create", {"registered", "observe", "after", "verify"}) => l = Base(n) + 1
    /\ Doing(c, "write", {"before", "intent"}) => l = Base(n) + 2
    /\ Doing(c, "write", {"again", "reinspect", "effect", "observe", "after", "verify"}) =>
         l = Base(n) + 3
    /\ c.at \in {"last", "complete"} =>
         l = Base(n) + 4 /\ n = Len(Order) + 1 /\ c.doing = "create"
    /\ c.doing = "create" => n # 1 /\ c.at # "reinspect"
    /\ c.doing = "write" => c.at \notin {"created", "register", "registered"}

Told(s, k, i, v) ==
  LET r == RoleAt(k)  b == Base(k)  m == s[b + 2].rev IN
    /\ k > 1 /\ b <= Len(s) => s[b] = Event("INTENT_CREATE", r, NoId, 0)
    /\ k > 1 /\ b + 1 <= Len(s) => s[b + 1] = Event("CREATED", r, i, 0)
    /\ b + 2 <= Len(s) =>
         s[b + 2] = IF k = 1 THEN Begin(i, m) ELSE Event("VERIFIED_EMPTY", r, i, m)
    /\ b + 3 <= Len(s) => s[b + 3] = Event("INTENT_WRITE", r, i, m)
    /\ b + 4 <= Len(s) => s[b + 4] = Event("VERIFIED", r, i, v) /\ v # m

Stories(s, ids, revs) == \A k \in Titles : Told(s, k, ids[RoleAt(k)], revs[RoleAt(k)])

WillWrite(c) ==
  \/ Doing(c, "write", {"before", "intent", "again", "reinspect", "effect"})
  \/ Doing(c, "create", {"after", "verify"})

Story(c) ==
  LET r == RoleAt(c.step)  m == c.events[Base(c.step) + 2].rev IN
    /\ Stories(c.events, c.ids, c.revs)
    /\ Doing(c, "write", {"before", "intent", "again", "reinspect", "effect", "observe"}) =>
         c.revs[r] = m
    /\ Doing(c, "write", {"after", "verify"}) => c.revs[r] # m
    /\ WillWrite(c) => Unwritten(c.ids[r], c.revs[r])

(***************************************************************************)
(* The documents it knows are all there are; it has created those up to    *)
(* its step, and written those before.                                     *)
(***************************************************************************)
Finished(c, k) ==
  \/ k < c.step \/ c.at \in {"last", "complete"}
  \/ k = c.step /\ Doing(c, "write", {"observe", "after", "verify"})

Its(c) ==
  /\ c.ids[First] = disk.documents[First]
  /\ \A r \in Roles : c.ids[r] # NoId => role[c.ids[r]] = r
  /\ \A k \in Titles :
       c.ids[RoleAt(k)] = NoId <=>
         \/ k > c.step
         \/ k = c.step /\ Doing(c, "create", {"before", "intent", "again", "effect"})
  /\ \A i \in Ids : role[i] # NoRole => i = disk.folder \/ \E r \in Roles : c.ids[r] = i
  /\ \A k \in Titles : Finished(c, k) => wrote[c.ids[RoleAt(k)]] = Body(c.ids, RoleAt(k))

(***************************************************************************)
(* The file goes beyond its copy only by what is said on giving up, unless *)
(* it has just recorded an event behind that and has not looked yet.       *)
(***************************************************************************)
Follows(c) ==
  /\ Len(c.events) <= Len(sidecar)
  /\ \A n \in 1..Len(sidecar) :
       IF n <= Len(c.events) THEN sidecar[n] = c.events[n] ELSE sidecar[n] \in {Stopped, Torn}

Unconfirmed(c) == \/ c.at = "registered"
                  \/ c.at \in Scans /\ Folder \in c.todo

Works(c) ==
  c.step # 0 =>
    /\ c.events # << >> /\ \A n \in 1..Len(c.events) : c.events[n] # Stopped
    /\ sidecar # << >> /\ \A n \in 1..Len(sidecar) : sidecar[n] # Completed
    /\ Follows(c) \/ (Unconfirmed(c) /\ Spoiled)
    /\ Place(c) /\ Story(c) /\ Its(c)

(***************************************************************************)
(* What may come after COMPLETE, and before it; and what it stands for.    *)
(***************************************************************************)
Ends ==
  /\ Closed =>
       \A n \in 1..Len(sidecar) :
         IF n <= Whole THEN sidecar[n] # Stopped ELSE sidecar[n] \in {Stopped, Torn}
  /\ sidecar # << >> /\ sidecar[Len(sidecar)] = Completed => Closed \/ Spoiled

Meant ==
  Closed /\ Frozen =>
    /\ Account /\ Holds(Baseline, Manifest)
    /\ \A i \in Ids : role[i] # NoRole => i = disk.folder \/ \E r \in Roles : Manifest[r] = i

RecInv ==
  /\ RecoveryInv /\ OneExecutor /\ Phases /\ Ends /\ Meant
  /\ \A e \in Execs : Asides(ex[e]) /\ Works(ex[e])

--------------------------------------------------------------------------------
(***************************************************************************)
(* The titles in the order they are worked on, and where their events are. *)
(***************************************************************************)
LEMMA Numbered ==
  /\ Len(Order) \in Nat /\ Len(Order) >= 1 /\ 1 \in Titles
  /\ \A k \in Titles : k \in Nat /\ 1 <= k /\ k <= Len(Order) + 1
  /\ \A k \in 1..Len(Order) : k \in Titles /\ RoleAt(k) = Order[k] /\ RoleAt(k) \in Records
  /\ Len(Order) + 1 \in Titles /\ RoleAt(Len(Order) + 1) = Current
<1>1. Len(Order) \in Nat /\ Order \in Seq(Records) /\ Order # << >>
  BY OrderAssumption, RecoveryAssumption
<1>2. Len(Order) >= 1
  BY <1>1
<1>3. \A k \in 1..Len(Order) : Order[k] \in Records
  BY <1>1
<1> QED BY <1>1, <1>2, <1>3 DEF Titles, RoleAt

LEMMA TitlesAreRoles ==
  /\ RoleAt(1) = First /\ First \in Records /\ First \in Roles /\ First # Current
  /\ \A k \in Titles : RoleAt(k) \in Roles
  /\ \A j, k \in Titles : RoleAt(j) = RoleAt(k) => j = k
  /\ \A r \in Roles : \E k \in Titles : RoleAt(k) = r
<1>1. RoleAt(1) = First /\ First \in Records
  BY Numbered DEF First
<1>2. \A k \in Titles : k \in 1..Len(Order) \/ k = Len(Order) + 1
  BY Numbered DEF Titles
<1>3. \A k \in Titles : RoleAt(k) \in Roles
  BY <1>2, Numbered DEF Roles
<1>4. ASSUME NEW j \in Titles, NEW k \in Titles, RoleAt(j) = RoleAt(k) PROVE j = k
  BY <1>2, <1>4, Numbered, NamesAssumption, OrderAssumption
<1>5. ASSUME NEW r \in Roles PROVE \E k \in Titles : RoleAt(k) = r
  <2>1. CASE r = Current
    BY <2>1, Numbered
  <2>2. CASE r \in Records
    <3>1. PICK n \in 1..Len(Order) : Order[n] = r
      BY <2>2, OrderAssumption
    <3> QED BY <3>1, Numbered
  <2> QED BY <2>1, <2>2 DEF Roles
<1> QED BY <1>1, <1>3, <1>4, <1>5, NamesAssumption DEF Roles

LEMMA Bases ==
  /\ \A k \in Titles : Base(k) \in Int /\ Base(k) = 5 * k - 6
  /\ Base(1) = -1 /\ Base(Len(Order) + 2) = 5 * Len(Order) + 4
BY Numbered DEF Base

LEMMA Lines ==
  /\ Whole \in Nat /\ Whole >= 9 /\ Whole = 5 * Len(Order) + 4
  /\ Base(Len(Order) + 1) + 4 = Whole - 1
<1>1. Base(Len(Order) + 1) = 5 * (Len(Order) + 1) - 6
  BY Bases, Numbered
<1> QED BY <1>1, Bases, Numbered DEF Whole

LEMMA Grown ==
  ASSUME NEW S, NEW s \in Seq(S), NEW x \in S
  PROVE  /\ Append(s, x) \in Seq(S) /\ Append(s, x) # << >>
         /\ Len(Append(s, x)) = Len(s) + 1 /\ Len(s) \in Nat
         /\ Append(s, x)[Len(s) + 1] = x
         /\ \A n \in 1..Len(s) : Append(s, x)[n] = s[n]
         /\ s # << >> => Len(s) >= 1 /\ s[Len(s)] \in S
<1>1. Len(s) \in Nat /\ (s # << >> => Len(s) >= 1)
  OBVIOUS
<1>2. s # << >> => s[Len(s)] \in S
  BY <1>1
<1>3. /\ Append(s, x) \in Seq(S) /\ Append(s, x) # << >>
      /\ Len(Append(s, x)) = Len(s) + 1
      /\ Append(s, x)[Len(s) + 1] = x
      /\ \A n \in 1..Len(s) : Append(s, x)[n] = s[n]
  OBVIOUS
<1> QED BY <1>1, <1>2, <1>3

LEMMA Events ==
  /\ \A r \in Roles, i \in Ids \cup {NoId}, n \in Nat :
       /\ Event("INTENT_CREATE", r, i, n) \in EventType
       /\ Event("CREATED", r, i, n) \in EventType
       /\ Event("VERIFIED_EMPTY", r, i, n) \in EventType
       /\ Event("INTENT_WRITE", r, i, n) \in EventType
       /\ Event("VERIFIED", r, i, n) \in EventType
  /\ \A i \in Ids \cup {NoId}, n \in Nat : Begin(i, n) \in EventType
  /\ Completed \in EventType /\ Stopped \in EventType /\ Torn \in EventType
  /\ Completed # Stopped /\ Completed # Torn /\ Stopped # Torn
  /\ \A i, n : Begin(i, n) # Completed /\ Begin(i, n) # Stopped
BY TitlesAreRoles, Numbered DEF Event, EventType, Begin, Completed, Stopped, Torn, Roles

LEMMA Distinct ==
  \A r, i, n :
       /\ Event("INTENT_CREATE", r, i, n) \notin {Completed, Stopped}
       /\ Event("CREATED", r, i, n) \notin {Completed, Stopped}
       /\ Event("VERIFIED_EMPTY", r, i, n) \notin {Completed, Stopped}
       /\ Event("INTENT_WRITE", r, i, n) \notin {Completed, Stopped}
       /\ Event("VERIFIED", r, i, n) \notin {Completed, Stopped}
BY DEF Event, Completed, Stopped

(***************************************************************************)
(* Reading the story of a copy that grew by one event.                     *)
(***************************************************************************)
LEMMA ToldOn ==
  ASSUME NEW s \in Seq(EventType), NEW x \in EventType, NEW k \in Titles, NEW i, NEW v,
         Told(s, k, i, v),
         k > 1 /\ Base(k) = Len(s) + 1 => x = Event("INTENT_CREATE", RoleAt(k), NoId, 0),
         k > 1 /\ Base(k) + 1 = Len(s) + 1 => x = Event("CREATED", RoleAt(k), i, 0),
         Base(k) + 2 = Len(s) + 1 =>
           x = IF k = 1 THEN Begin(i, x.rev)
               ELSE Event("VERIFIED_EMPTY", RoleAt(k), i, x.rev),
         Base(k) + 3 = Len(s) + 1 =>
           x = Event("INTENT_WRITE", RoleAt(k), i, s[Base(k) + 2].rev),
         Base(k) + 4 = Len(s) + 1 =>
           x = Event("VERIFIED", RoleAt(k), i, v) /\ v # s[Base(k) + 2].rev
  PROVE  Told(Append(s, x), k, i, v)
<1> DEFINE t == Append(s, x)  b == Base(k)
<1>1. Len(t) = Len(s) + 1 /\ Len(s) \in Nat /\ t[Len(s) + 1] = x
  BY Grown
<1>2. \A n \in 1..Len(s) : t[n] = s[n]
  BY Grown
<1>3. b \in Int /\ b >= -1 /\ k \in Nat /\ k >= 1 /\ (k > 1 => b \in Nat /\ b >= 4)
  <2>1. b \in Int /\ b = 5 * k - 6 /\ k \in Nat /\ k >= 1
    BY Bases, Numbered
  <2> HIDE DEF b
  <2> QED BY <2>1
<1> HIDE DEF t, b
<1>4. b + 2 <= Len(s) => t[b + 2] = s[b + 2]
  BY <1>1, <1>2, <1>3
<1>5. k > 1 /\ b <= Len(t) => t[b] = Event("INTENT_CREATE", RoleAt(k), NoId, 0)
  BY <1>1, <1>2, <1>3 DEF Told, b
<1>6. k > 1 /\ b + 1 <= Len(t) => t[b + 1] = Event("CREATED", RoleAt(k), i, 0)
  BY <1>1, <1>2, <1>3 DEF Told, b
<1>7. b + 2 <= Len(t) =>
        t[b + 2] = IF k = 1 THEN Begin(i, t[b + 2].rev)
                   ELSE Event("VERIFIED_EMPTY", RoleAt(k), i, t[b + 2].rev)
  <2>1. CASE b + 2 <= Len(s)
    BY <2>1, <1>4 DEF Told, b
  <2>2. CASE b + 2 = Len(s) + 1
    BY <2>2, <1>1 DEF b
  <2> QED BY <2>1, <2>2, <1>1, <1>3
<1>8. b + 3 <= Len(t) =>
        t[b + 3] = Event("INTENT_WRITE", RoleAt(k), i, t[b + 2].rev)
  <2>1. CASE b + 3 <= Len(s)
    <3>1. t[b + 3] = s[b + 3] /\ b + 2 <= Len(s)
      BY <2>1, <1>1, <1>2, <1>3
    <3> QED BY <2>1, <3>1, <1>4 DEF Told, b
  <2>2. CASE b + 3 = Len(s) + 1
    <3>1. b + 2 <= Len(s)
      BY <2>2, <1>1, <1>3
    <3> QED BY <2>2, <3>1, <1>1, <1>4 DEF b
  <2> QED BY <2>1, <2>2, <1>1, <1>3
<1>9. b + 4 <= Len(t) => t[b + 4] = Event("VERIFIED", RoleAt(k), i, v) /\ v # t[b + 2].rev
  <2>1. CASE b + 4 <= Len(s)
    <3>1. t[b + 4] = s[b + 4] /\ b + 2 <= Len(s)
      BY <2>1, <1>1, <1>2, <1>3
    <3> QED BY <2>1, <3>1, <1>4 DEF Told, b
  <2>2. CASE b + 4 = Len(s) + 1
    <3>1. b + 2 <= Len(s)
      BY <2>2, <1>1, <1>3
    <3> QED BY <2>2, <3>1, <1>1, <1>4 DEF b
  <2> QED BY <2>1, <2>2, <1>1, <1>3
<1> QED BY <1>5, <1>6, <1>7, <1>8, <1>9 DEF Told, t, b

--------------------------------------------------------------------------------
(***************************************************************************)
(* The publisher's steps beside a recovery: what they do to the registry.  *)
(***************************************************************************)
LEMMA RegistrySteps ==
  ASSUME IInv, [Next]_vars
  PROVE  \/ disk' = disk /\ role' = role /\ (pc' \in MadeNotListed => pc' = pc /\ made' = made)
         \/ pc \in {"createFolder", "createDoc"} /\ disk' = disk
         \/ pc \in {"stageFolderMade", "stageMade"} /\ role' = role /\ disk.pending # << >>
              /\ disk' = Journal(disk, made, "CREATED_EMPTY_UNVERIFIED")
              /\ (pc' \in MadeNotListed => made' = made /\ pc' \in {"adoptFolder", "register"})
         \/ /\ pc \notin MadeNotListed \cup {"idle"} /\ pc' \notin MadeNotListed
            /\ role' = role
            /\ \/ \E i \in Ids \cup {NoId}, p \in Phase : disk' = Journal(disk, i, p)
               \/ disk' = [disk EXCEPT !.pending = << >>]
         \/ /\ pc = "adoptFolder" /\ pc' = "idle" /\ role' = role
            /\ disk' = [disk EXCEPT !.folder = made, !.pending = << >>]
         \/ /\ pc = "register" /\ pc' \in {"idle", "readEmpty"} /\ role' = role
            /\ disk' = [disk EXCEPT !.documents[Target] = made]
<1> USE DEF MadeNotListed
<1>0. pc # "idle" => mem = disk /\ (Doc(Target) = mem.documents[Target])
  BY DEF IInv, RunFacts, Copy, Doc
<1>1. CASE StageFolder \/ StageUpdate \/ StageCreate \/ StageContent
  <2>1. PICK i, p, next :
          /\ Stage(i, p, next) /\ pc \in {"stageFolder", "stageUpdate", "stageCreate", "stageContent"}
          /\ i \in {NoId, Doc(Target), made} /\ p \in Phase
          /\ next \in {"createFolder", "write", "createDoc"}
          /\ pc = "stageUpdate" => i = Doc(Target)
          /\ i # NoId /\ pc # "stageUpdate" => i = made
    BY <1>1 DEF StageFolder, StageUpdate, StageCreate, StageContent, Phase
  <2>2. i \in Ids \cup {NoId}
    BY <2>1, UpsertTarget DEF IInv, TypeOK, RunFacts, Stages, InEffect, Registry, Doc
  <2>3. pc' \notin MadeNotListed /\ role' = role /\ disk' \in {disk, Journal(disk, i, p)}
    BY <1>0, <2>1 DEF Stage, Saved, SaveFails, Exit, Forget, drive
  <2> QED BY <2>1, <2>2, <2>3
<1>2. CASE StageFolderMade \/ StageMade
  <2>1. disk.pending # << >>
    BY <1>2 DEF StageFolderMade, StageMade, IInv, RunFacts, Stages
  <2> QED BY <1>0, <1>2, <2>1 DEF StageFolderMade, StageMade, Stage, Saved, SaveFails, Exit,
                            Forget, drive, work
<1>3. CASE CreateFolder \/ CreateDoc
  BY <1>3 DEF CreateFolder, CreateDoc, CreateAs, Land
<1>4. CASE AdoptFolder
  BY <1>0, <1>4 DEF AdoptFolder, SaveFails, Exit, Forget, drive
<1>5. CASE Register
  BY <1>0, <1>5 DEF Register, Saved, SaveFails, Exit, Forget, drive
<1>6. CASE Commit
  BY <1>0, <1>6 DEF Commit, SaveFails, Exit, Forget, drive
<1>7. CASE CheckFolder \/ ListChildren \/ (\E r \in Roles : Observe(r)) \/ Refuse
  BY <1>7 DEF CheckFolder, ListChildren, Observe, Refuse, Exit, Forget, drive
<1>11. CASE PreviewDone \/ RecheckDone \/ Skip \/ Attempt \/ UpdateReady \/ CreateReady
  <2>1. disk' = disk /\ role' = role
    BY <1>11 DEF PreviewDone, RecheckDone, Skip, Attempt, UpdateReady, CreateReady, drive
  <2>2. pc' \in {"idle", "list", "stageUpdate", "stageCreate"}
    BY <1>11 DEF PreviewDone, RecheckDone, Skip, Attempt, UpdateReady, CreateReady, Exit,
         Forget, BeginScan, Advance
  <2> QED BY <2>1, <2>2
<1>12. CASE ReadEmpty \/ Settled \/ Write \/ Readback \/ FinalDone
  <2>1. disk' = disk /\ role' = role
    BY <1>12 DEF ReadEmpty, Settled, Write, Readback, FinalDone, drive
  <2>2. pc' \in {"idle", "list", "stageContent", "readback", "commit"}
    BY <1>12 DEF ReadEmpty, Settled, Write, Readback, FinalDone, Exit, Forget, BeginScan, Advance
  <2> QED BY <2>1, <2>2
<1>8. CASE Invoke \/ Crash
  BY <1>8 DEF Invoke, InvokeBarred, InvokeInit, InvokePublish, Invoked, BeginScan, Crash,
       Exit, Forget, drive
<1>9. CASE Owner
  BY <1>9 DEF Owner, OwnerEdits, OwnerMoves, OwnerActs, work
<1>10. CASE UNCHANGED vars
  BY <1>10 DEF vars, drive, work
<1> QED BY <1>1, <1>2, <1>3, <1>4, <1>5, <1>6, <1>7, <1>8, <1>9, <1>10, <1>11, <1>12
    DEF Next, Run

(***************************************************************************)
(* A document the registry knows, it knows for ever.                       *)
(***************************************************************************)
LEMMA Bound ==
  ASSUME IInv, [Next]_vars, NEW r \in Roles, disk.documents[r] # NoId
  PROVE  disk'.documents[r] # NoId
<1>1. disk \in Registry
  BY DEF IInv, TypeOK
<1>2. CASE disk' = [disk EXCEPT !.documents[Target] = made] /\ pc = "register"
  <2>1. made # NoId
    BY <1>2, NamesAssumption DEF IInv, Orphanage, MadeNotListed
  <2> QED BY <1>1, <1>2, <2>1 DEF Registry
<1>3. ASSUME NEW i \in Ids \cup {NoId}, NEW p \in Phase, disk' = Journal(disk, i, p)
      PROVE  disk'.documents[r] = disk.documents[r]
  BY <1>1, <1>3, JournalIsRegistry
<1>4. CASE disk' = [disk EXCEPT !.pending = << >>]
  BY <1>1, <1>4, ClearedIsRegistry
<1>5. CASE disk' = [disk EXCEPT !.folder = made, !.pending = << >>]
  BY <1>1, <1>5 DEF Registry
<1>6. CASE pc \in {"stageFolderMade", "stageMade"} /\ disk' = Journal(disk, made, "CREATED_EMPTY_UNVERIFIED")
  <2>1. made \in Ids \cup {NoId} /\ "CREATED_EMPTY_UNVERIFIED" \in Phase
    BY DEF IInv, TypeOK, Phase
  <2> QED BY <1>3, <1>6, <2>1
<1> QED BY <1>2, <1>3, <1>4, <1>5, <1>6, RegistrySteps

LEMMA CreatesEnd ==
  ASSUME IInv, pc \in {"createFolder", "createDoc"}, [Next]_vars
  PROVE  pc' \notin {"adoptFolder", "register"}
BY DEF Next, Run, StageFolder, CreateFolder, StageFolderMade, AdoptFolder, CheckFolder,
       ListChildren, Observe, PreviewDone, RecheckDone, Skip, Attempt, UpdateReady,
       StageUpdate, CreateReady, StageCreate, CreateDoc, StageMade, Register, ReadEmpty,
       Settled, StageContent, Write, Readback, FinalDone, Commit, Refuse, Scanned, Crash,
       CreateAs, Exit, Forget, Invoke, InvokeBarred, InvokeInit, InvokePublish, Invoked,
       Owner, OwnerEdits, OwnerMoves, OwnerActs, vars

LEMMA StraysStep == ASSUME IInv, Strays, [Next]_vars PROVE Strays'
<1>1. disk \in Registry /\ made \in Ids \cup {NoId}
  BY DEF IInv, TypeOK
<1>2. CASE disk' = disk /\ role' = role /\ (pc' \in MadeNotListed => pc' = pc /\ made' = made)
  BY <1>2 DEF Strays, Unlisted, LastEntry, MadeNotListed
<1>3. CASE pc \in {"createFolder", "createDoc"} /\ disk' = disk
  <2>1. disk.pending # << >> /\ LastEntry.phase \in Creates
    BY <1>3 DEF IInv, RunFacts, Stages, Announcing, Creates
  <2>2. LastEntry' = LastEntry
    BY <1>3 DEF LastEntry
  <2>3. pc' \notin {"adoptFolder", "register"}
    BY <1>3, CreatesEnd
  <2> QED BY <1>3, <2>1, <2>2, <2>3 DEF Strays
<1>4. CASE /\ pc \in {"stageFolderMade", "stageMade"} /\ role' = role /\ disk.pending # << >>
           /\ disk' = Journal(disk, made, "CREATED_EMPTY_UNVERIFIED")
           /\ (pc' \in MadeNotListed => made' = made /\ pc' \in {"adoptFolder", "register"})
  <2>1. "CREATED_EMPTY_UNVERIFIED" \in Phase
    BY DEF Phase
  <2>2. /\ disk'.folder = disk.folder /\ disk'.documents = disk.documents
        /\ disk'.pending # << >> /\ LastEntry' = [id |-> made, phase |-> "CREATED_EMPTY_UNVERIFIED"]
    BY <1>1, <1>4, <2>1, JournalIsRegistry DEF LastEntry
  <2>3. \A i \in Ids : Unlisted(i)' => i = made
    BY <1>4, <2>2 DEF Unlisted, IInv, Orphanage, MadeNotListed
  <2> QED BY <1>4, <2>2, <2>3 DEF Strays, MadeNotListed
<1>5. CASE /\ pc \notin MadeNotListed \cup {"idle"} /\ pc' \notin MadeNotListed
           /\ role' = role
           /\ \/ \E i \in Ids \cup {NoId}, p \in Phase : disk' = Journal(disk, i, p)
              \/ disk' = [disk EXCEPT !.pending = << >>]
  <2>1. disk'.folder = disk.folder /\ disk'.documents = disk.documents
    <3>1. ASSUME NEW i \in Ids \cup {NoId}, NEW p \in Phase, disk' = Journal(disk, i, p)
          PROVE  disk'.folder = disk.folder /\ disk'.documents = disk.documents
      BY <1>1, <3>1, JournalIsRegistry
    <3>2. CASE disk' = [disk EXCEPT !.pending = << >>]
      BY <1>1, <3>2, ClearedIsRegistry
    <3> QED BY <1>5, <3>1, <3>2
  <2>2. \A i \in Ids : ~Unlisted(i)'
    BY <1>5, <2>1 DEF Unlisted, IInv, Orphanage
  <2> QED BY <1>5, <2>2 DEF Strays, MadeNotListed
<1>6. CASE /\ pc = "adoptFolder" /\ pc' = "idle" /\ role' = role
           /\ disk' = [disk EXCEPT !.folder = made, !.pending = << >>]
  <2>1. disk'.folder = made /\ disk'.documents = disk.documents
    BY <1>1, <1>6 DEF Registry
  <2>2. disk.folder = NoId
    BY <1>6 DEF IInv, RunFacts, Stages, InInit
  <2>3. \A i \in Ids : ~Unlisted(i)'
    BY <1>6, <2>1, <2>2, NamesAssumption DEF Unlisted, IInv, Orphanage, MadeNotListed
  <2> QED BY <1>6, <2>3 DEF Strays
<1>7. CASE /\ pc = "register" /\ pc' \in {"idle", "readEmpty"} /\ role' = role
           /\ disk' = [disk EXCEPT !.documents[Target] = made]
  <2>1. Target \in Roles /\ disk.documents[Target] = NoId
    BY <1>7, UpsertTarget DEF IInv, RunFacts, Stages, InEffect
  <2>2. /\ disk'.folder = disk.folder /\ disk'.documents[Target] = made
        /\ \A r \in Roles : r # Target => disk'.documents[r] = disk.documents[r]
    BY <1>1, <1>7, <2>1 DEF Registry
  <2>3. \A i \in Ids : ~Unlisted(i)'
    BY <1>7, <2>1, <2>2, NamesAssumption DEF Unlisted, IInv, Orphanage, MadeNotListed
  <2> QED BY <1>7, <2>3 DEF Strays
<1> QED BY <1>2, <1>3, <1>4, <1>5, <1>6, <1>7, RegistrySteps

LEMMA NoStrays == ASSUME IInv, Strays, Frozen PROVE \A i \in Ids : ~Unlisted(i)
<1>1. /\ LastEntry.id = disk.documents[First] /\ LastEntry.phase = "CREATED_EMPTY_UNVERIFIED"
  BY DEF Frozen, Incident, LastEntry
<1> QED BY <1>1, TitlesAreRoles DEF Strays, Creates, Unlisted

(***************************************************************************)
(* At the incident the publisher is barred: only the owner does something. *)
(***************************************************************************)
LEMMA FrozenSteps ==
  ASSUME IInv, Frozen, [Next]_vars
  PROVE  /\ pc' = pc /\ disk' = disk /\ role' = role /\ wrote' = wrote
         /\ \A i \in Ids : (rev'[i] = rev[i] /\ body'[i] = body[i]) \/ rev'[i] = rev[i] + 1
<1>1. pc = "idle" /\ disk.pending # << >>
  BY DEF Frozen, Incident
<1>2. CASE Invoke
  BY <1>1, <1>2 DEF Invoke, InvokeBarred, InvokeInit, InvokePublish, Invoked, Clear, Exit,
       Forget, drive
<1>3. CASE Owner
  BY <1>3 DEF Owner, OwnerEdits, OwnerMoves, OwnerActs, IInv, TypeOK
<1>4. CASE Run \/ Crash
  BY <1>1, <1>4 DEF Run, StageFolder, CreateFolder, StageFolderMade, AdoptFolder, CheckFolder,
       ListChildren, Observe, PreviewDone, RecheckDone, Skip, Attempt, UpdateReady,
       StageUpdate, CreateReady, StageCreate, CreateDoc, StageMade, Register, ReadEmpty,
       Settled, StageContent, Write, Readback, FinalDone, Commit, Refuse, Scanned, Asking, Crash
<1>5. CASE UNCHANGED vars
  BY <1>5 DEF vars, drive
<1> QED BY <1>2, <1>3, <1>4, <1>5 DEF Next

--------------------------------------------------------------------------------
LEMMA NoWorkIs ==
  /\ NoWork \in ExecType
  /\ NoWork.at = "idle" /\ NoWork.step = 0 /\ NoWork.events = << >>
BY Numbered DEF NoWork, ExecType

LEMMA RecoveryInitInv == ASSUME RecoveryInit PROVE RecInv
<1>1. RecoveryTypeOK
  <2>1. backup \in Registry
    BY DEF RecoveryInit, EmptyRegistry, Registry
  <2>2. ex \in [Execs -> ExecType]
    BY NoWorkIs DEF RecoveryInit
  <2>3. sidecar \in Seq(EventType) /\ claimed \in BOOLEAN /\ plan \in Nat /\ tries \in Nat
    <3>1. << >> \in Seq(EventType)
      OBVIOUS
    <3>2. FALSE \in BOOLEAN /\ 0 \in Nat
      OBVIOUS
    <3> QED BY <3>1, <3>2 DEF RecoveryInit
  <2> QED BY <2>1, <2>2, <2>3 DEF RecoveryTypeOK
<1>2. IInv
  BY InitInv DEF RecoveryInit
<1>3. \A e \in Execs : ex[e] = NoWork
  BY DEF RecoveryInit
<1>4. OneExecutor
  BY <1>3, NoWorkIs DEF OneExecutor
<1>5. \A i \in Ids : ~Unlisted(i)
  BY DEF RecoveryInit, Init, Unlisted
<1>6. Phases /\ Ends /\ Meant
  <2>1. ~Closed
    <3>1. Len(sidecar) = 0
      BY DEF RecoveryInit
    <3> QED BY <3>1, Lines DEF Closed
  <2>2. ~Begun /\ Strays /\ sidecar = << >> /\ ~claimed
    BY <1>3, <1>5, NoWorkIs DEF RecoveryInit, Init, Begun, Strays
  <2> QED BY <2>1, <2>2 DEF Phases, Ends, Meant
<1>7. \A e \in Execs : Asides(ex[e]) /\ Works(ex[e])
  BY <1>3, NoWorkIs DEF Asides, Works, Aside
<1> QED BY <1>1, <1>2, <1>4, <1>6, <1>7 DEF RecInv, RecoveryInv

LEMMA AtIncident ==
  ASSUME IInv, Incident
  PROVE  /\ disk.documents[First] \in Ids /\ role[disk.documents[First]] = First
         /\ disk.folder # NoId
         /\ disk.pending # << >> /\ \A r \in Roles \ {First} : disk.documents[r] = NoId
<1>1. disk.documents[First] # NoId /\ \A r \in Roles \ {First} : disk.documents[r] = NoId
  BY TitlesAreRoles DEF Incident, Known
<1>2. disk.documents[First] \in Ids /\ role[disk.documents[First]] = First
  BY <1>1, DocTyped, TitlesAreRoles DEF IInv, Facts, Truth
<1> QED BY <1>1, <1>2, TitlesAreRoles DEF IInv, Facts, Truth, Incident

LEMMA NotBoth == ASSUME Frozen, Reconciled PROVE FALSE
BY TitlesAreRoles, Numbered DEF Frozen, Reconciled, Incident, Known, Roles

LEMMA NotBothNext == (~(Frozen /\ Reconciled))'
<1>1. ~(Frozen /\ Reconciled)
  BY NotBoth
<1> QED BY <1>1, PTL

(***************************************************************************)
(* The document about to be written is one of Drive's.                     *)
(***************************************************************************)
LEMMA WrittenTyped ==
  ASSUME NEW c \in ExecType, c.step # 0, Place(c), Its(c)
  PROVE  /\ c.step \in Titles /\ RoleAt(c.step) \in Roles
         /\ c.revs[RoleAt(c.step)] \in Nat
         /\ \A k \in Titles : k < c.step => c.ids[RoleAt(k)] \in Ids
         /\ ~Doing(c, "create", {"before", "intent", "again", "effect"}) =>
              c.ids[RoleAt(c.step)] \in Ids
<1>1. c.step \in Titles /\ c.step \in Nat
  BY Numbered DEF ExecType, Titles
<1>2. RoleAt(c.step) \in Roles /\ \A k \in Titles : RoleAt(k) \in Roles
  BY <1>1, TitlesAreRoles
<1>3. \A r \in Roles : c.ids[r] \in Ids \cup {NoId} /\ c.revs[r] \in Nat
  BY DEF ExecType
<1>4. ASSUME NEW k \in Titles, k < c.step PROVE c.ids[RoleAt(k)] # NoId
  BY <1>1, <1>4, Numbered DEF Its
<1>5. ~Doing(c, "create", {"before", "intent", "again", "effect"}) => c.ids[RoleAt(c.step)] # NoId
  BY <1>1 DEF Its
<1> QED BY <1>1, <1>2, <1>3, <1>4, <1>5

(***************************************************************************)
(* Who works does so at the incident, with an open sidecar.                *)
(***************************************************************************)
LEMMA WorkerIsFrozen ==
  ASSUME RecInv, NEW e \in Execs, ex[e].step # 0
  PROVE  /\ ~Closed /\ Frozen /\ ~claimed /\ sidecar # << >>
         /\ ex[e].events \in Seq(EventType) /\ Len(ex[e].events) >= 1
         /\ \A f \in Execs : f # e =>
              ex[f].step = 0 /\ ex[f].at \notin {"copy", "confirm", "replace"}
<1>1. /\ ex[e].events \in Seq(EventType) /\ ex[e].events # << >>
      /\ sidecar # << >> /\ \A n \in 1..Len(sidecar) : sidecar[n] # Completed
  BY DEF RecInv, Works, RecoveryInv, RecoveryTypeOK, ExecType
<1>2. Len(ex[e].events) >= 1
  BY <1>1, Grown
<1>3. Len(sidecar) \in Nat
  BY DEF RecInv, RecoveryInv, RecoveryTypeOK
<1>4. ~Closed
  <2>1. Len(sidecar) >= Whole => Whole \in 1..Len(sidecar)
    BY <1>3, Lines
  <2> QED BY <1>1, <2>1 DEF Closed
<1>5. ~claimed /\ Frozen
  BY <1>1, <1>4 DEF RecInv, Phases, Begun, Reconciled
<1>6. ASSUME NEW f \in Execs, f # e
      PROVE  ex[f].step = 0 /\ ex[f].at \notin {"copy", "confirm", "replace"}
  BY <1>4, <1>6 DEF RecInv, OneExecutor, Asides
<1> QED BY <1>1, <1>2, <1>4, <1>5, <1>6

LEMMA ClosedIsLong ==
  ASSUME RecoveryTypeOK, Closed PROVE sidecar # << >> /\ Whole \in 1..Len(sidecar)
<1>1. Len(sidecar) \in Nat /\ Len(sidecar) >= 9
  BY Lines DEF RecoveryTypeOK, Closed
<1>2. sidecar # << >>
  BY <1>1
<1> QED BY <1>1, <1>2, Lines DEF Closed

(***************************************************************************)
(* A sidecar that is not touched means what it meant.                      *)
(***************************************************************************)
LEMMA SameMeaning ==
  ASSUME Ends, Meant, UNCHANGED sidecar,
         Frozen' => Frozen /\ UNCHANGED <<disk, role, wrote>>
  PROVE  Ends' /\ Meant'
<1>1. Ends'
  BY DEF Ends, Closed, Spoiled
<1>2. ASSUME Frozen', Closed' PROVE Meant'
  <2>1. Closed /\ Frozen /\ disk' = disk /\ role' = role /\ wrote' = wrote
    BY <1>2 DEF Closed
  <2>2. (Account' <=> Account) /\ Manifest' = Manifest
    BY <2>1 DEF Account, CreatedAndWritten, Manifest, IdAt, RevAt
  <2> QED BY <2>1, <2>2 DEF Meant, Holds
<1> QED BY <1>1, <1>2 DEF Meant

(***************************************************************************)
(* What an executor that has just looked knows of the sidecar.             *)
(***************************************************************************)
LEMMA Confirmed ==
  ASSUME RecInv, NEW e \in Execs, ex[e].step # 0, Local(e) \/ ~Unconfirmed(ex[e])
  PROVE  Follows(ex[e])
<1>1. CASE Local(e)
  <2>1. sidecar = ex[e].events /\ Len(sidecar) \in Nat
    BY <1>1 DEF Local, RecInv, RecoveryInv, RecoveryTypeOK
  <2> QED BY <2>1 DEF Follows
<1>2. CASE ~Unconfirmed(ex[e])
  BY <1>2 DEF RecInv, Works
<1> QED BY <1>1, <1>2

(***************************************************************************)
(* The publisher and the owner, beside the recovery.                       *)
(***************************************************************************)
LEMMA PublisherStep ==
  ASSUME RecInv, [Next]_vars, UNCHANGED rvars PROVE RecInv'
<1>0. IInv /\ RecoveryTypeOK
  BY DEF RecInv, RecoveryInv
<1>1. RecoveryInv'
  BY <1>0, NextInv DEF RecoveryInv, RecoveryTypeOK, rvars
<1>2. OneExecutor'
  BY DEF RecInv, OneExecutor, rvars
<1>3. (Begun' <=> Begun) /\ (Closed' <=> Closed) /\ (claimed' <=> claimed)
  BY DEF Begun, Closed, rvars
<1>4. sidecar' = << >> => Strays'
  BY <1>0, StraysStep DEF RecInv, Phases, rvars
<1>5. CASE ~Begun
  <2>1. sidecar = << >> /\ \A e \in Execs : ex[e] = NoWork
    BY <1>5 DEF Begun, RecInv, Asides
  <2>2. Phases' /\ Ends' /\ Meant'
    <3>1. ~Closed /\ UNCHANGED sidecar
      BY <1>0, <2>1, ClosedIsLong DEF rvars
    <3>2. Ends' /\ Meant'
      BY <1>3, <3>1 DEF Ends, Meant, RecInv, Spoiled
    <3> QED BY <1>3, <1>4, <1>5, <3>1, <3>2 DEF Phases, RecInv
  <2>3. \A e \in Execs : (Asides(ex[e]) /\ Works(ex[e]))'
    BY <2>1, NoWorkIs DEF Asides, Works, rvars, Aside
  <2> QED BY <1>1, <1>2, <2>2, <2>3 DEF RecInv
<1>6. CASE Frozen
  <2>1. /\ pc' = pc /\ disk' = disk /\ role' = role /\ wrote' = wrote
        /\ \A i \in Ids : (rev'[i] = rev[i] /\ body'[i] = body[i]) \/ rev'[i] = rev[i] + 1
    BY <1>0, <1>6, FrozenSteps
  <2>2. Frozen'
    BY <1>6, <2>1 DEF Frozen, Incident, Known
  <2>3. Phases'
    BY <1>3, <1>4, <2>2 DEF Phases, RecInv
  <2>6. Ends' /\ Meant'
    BY <1>6, <2>1, SameMeaning DEF RecInv, rvars
  <2>7. \A i \in Ids, n \in Nat : Unwritten(i, n) => Unwritten(i, n)'
    BY <1>0, <2>1 DEF Unwritten, IInv, TypeOK
  <2>8. ASSUME NEW e \in Execs PROVE (Asides(ex[e]) /\ Works(ex[e]))'
    <3>1. PICK c \in ExecType : c = ex[e] /\ c = ex'[e]
      BY <1>0 DEF RecoveryTypeOK, rvars
    <3>2. c.revs \in [Roles -> Nat] /\ First \in Roles /\ Asides(c) /\ Works(c)
      BY <3>1, TitlesAreRoles DEF ExecType, RecInv
    <3>3. disk.documents[First] \in Ids
      BY <1>0, <1>6, AtIncident DEF Frozen
    <3>4. Asides(c)'
      BY <1>3, <2>1, <2>2, <2>7, <3>2, <3>3 DEF Asides, rvars
    <3>5. ASSUME c.step # 0 PROVE Works(c)'
      <4>1. Its(c)'
        BY <2>1, <3>2, <3>5 DEF Works, Its
      <4>2. Story(c) /\ Its(c) /\ Place(c)
        BY <3>2, <3>5 DEF Works
      <4>3. WillWrite(c) =>
              c.ids[RoleAt(c.step)] \in Ids /\ c.revs[RoleAt(c.step)] \in Nat
        BY <3>2, <3>5, <4>2, WrittenTyped DEF WillWrite, Doing
      <4>4. Story(c)'
        BY <2>7, <4>2, <4>3 DEF Story
      <4>5. sidecar' = sidecar
        BY DEF rvars
      <4> QED BY <3>2, <3>5, <4>1, <4>4, <4>5 DEF Works, Follows, Spoiled
    <3>6. Works(c)'
      BY <3>5 DEF Works
    <3> QED BY <3>1, <3>4, <3>6
  <2> QED BY <1>1, <1>2, <2>3, <2>6, <2>8 DEF RecInv
<1>7. CASE Reconciled
  <2>1. Reconciled' /\ ~Frozen'
    <3>1. Reconciled'
      BY <1>0, <1>3, <1>7, Bound DEF Reconciled
    <3> QED BY <3>1, NotBothNext
  <2>2. Phases' /\ Ends' /\ Meant'
    <3>1. Ends' /\ Meant'
      BY <2>1, SameMeaning DEF RecInv, rvars
    <3> QED BY <1>3, <1>4, <2>1, <3>1 DEF Phases, RecInv
  <2>3. ASSUME NEW e \in Execs PROVE (Asides(ex[e]) /\ Works(ex[e]))'
    <3>1. PICK c \in ExecType : c = ex[e] /\ c = ex'[e]
      BY <1>0 DEF RecoveryTypeOK, rvars
    <3>2. Asides(c) /\ c.step = 0 /\ sidecar # << >>
      BY <1>0, <1>7, <3>1, ClosedIsLong, WorkerIsFrozen DEF RecInv, Reconciled
    <3>3. c.at \notin {"confirm", "replace"}
      BY <1>7, <3>2, NotBoth DEF Asides
    <3>4. Asides(c)' /\ Works(c)'
      BY <1>3, <3>2, <3>3 DEF Asides, Works, rvars
    <3> QED BY <3>1, <3>4
  <2> QED BY <1>1, <1>2, <2>2, <2>3 DEF RecInv
<1> QED BY <1>5, <1>6, <1>7 DEF RecInv, Phases

--------------------------------------------------------------------------------
(***************************************************************************)
(* The steps of an executor, as far as the others are concerned: it looks, *)
(* or it changes the sidecar or Drive while that is open.                  *)
(***************************************************************************)
LEMMA SameSight ==
  ASSUME NEW d \in ExecType, UNCHANGED <<vars, sidecar, claimed, backup>>
  PROVE  (Asides(d) => Asides(d)') /\ (Works(d) => Works(d)')
<1>1. /\ role' = role /\ body' = body /\ wrote' = wrote /\ rev' = rev /\ disk' = disk
      /\ pc' = pc
  BY DEF vars, drive
<1>2. Frozen' <=> Frozen
  BY <1>1 DEF Frozen, Incident, Known
<1>3. (Closed' <=> Closed) /\ \A i, n : Unwritten(i, n)' <=> Unwritten(i, n)
  BY <1>1 DEF Closed, Unwritten
<1>4. Asides(d) => Asides(d)'
  BY <1>1, <1>2, <1>3 DEF Asides
<1>5. Its(d) => Its(d)'
  BY <1>1 DEF Its
<1>6. Story(d) => Story(d)'
  BY <1>3 DEF Story
<1>7. Works(d) => Works(d)'
  BY <1>5, <1>6 DEF Works, Follows, Spoiled
<1> QED BY <1>4, <1>7

LEMMA QuietStep ==
  ASSUME RecInv, NEW e \in Execs, NEW c \in ExecType, ex' = [ex EXCEPT ![e] = c],
         UNCHANGED <<vars, sidecar, claimed, backup, plan>>, tries' \in Nat,
         Asides(c), Works(c), c.step # 0 => ex[e].step # 0,
         c.at \in {"confirm", "replace"} => ex[e].at \in {"confirm", "replace"},
         c.at # "idle" => Begun
  PROVE  RecInv'
<1>0. /\ IInv /\ RecoveryTypeOK /\ ex \in [Execs -> ExecType]
      /\ role' = role /\ body' = body /\ wrote' = wrote /\ rev' = rev /\ disk' = disk
      /\ pc' = pc /\ made' = made
  BY DEF RecInv, RecoveryInv, RecoveryTypeOK, vars, drive, work
<1>1. ex'[e] = c /\ \A f \in Execs : f # e => ex'[f] = ex[f]
  BY <1>0
<1>2. RecoveryInv'
  <2>1. IInv'
    BY <1>0, Stutter
  <2>2. ex' \in [Execs -> ExecType]
    BY <1>0
  <2> QED BY <1>0, <2>1, <2>2 DEF RecoveryInv, RecoveryTypeOK
<1>3. OneExecutor'
  BY <1>1 DEF RecInv, OneExecutor
<1>4. /\ Frozen' <=> Frozen
      /\ Closed' <=> Closed
      /\ Reconciled' <=> Reconciled
      /\ Strays' <=> Strays
  <2>1. Incident' <=> Incident
    BY <1>0 DEF Incident, Known
  <2>2. (Closed' <=> Closed)
    BY DEF Closed
  <2>3. LastEntry' = LastEntry /\ \A i : Unlisted(i)' <=> Unlisted(i)
    BY <1>0 DEF LastEntry, Unlisted
  <2> QED BY <1>0, <2>1, <2>2, <2>3 DEF Frozen, Reconciled, Strays
<1>5. Begun' => Begun
  BY <1>1 DEF Begun
<1>6. Phases'
  BY <1>4, <1>5 DEF Phases, RecInv
<1>7. Ends' /\ Meant'
  BY <1>0, <1>4, SameMeaning DEF RecInv
<1>8. ASSUME NEW f \in Execs PROVE (Asides(ex[f]) /\ Works(ex[f]))'
  <2>1. PICK d \in ExecType : d = ex'[f]
    BY <1>0, <1>1
  <2>2. Asides(d) /\ Works(d)
    BY <1>1, <2>1 DEF RecInv
  <2>3. Asides(d)' /\ Works(d)'
    BY <2>2, SameSight
  <2> QED BY <2>1, <2>3
<1> QED BY <1>2, <1>3, <1>6, <1>7, <1>8 DEF RecInv

LEMMA OpenStep ==
  ASSUME RecInv, NEW e \in Execs, NEW c \in ExecType, ex' = [ex EXCEPT ![e] = c],
         IInv', UNCHANGED <<pc, disk, claimed, backup, plan, tries>>,
         ~Closed, Frozen, sidecar' \in Seq(EventType), sidecar' # << >>,
         \A f \in Execs : f # e => ex[f].step = 0,
         c.at \notin {"copy", "confirm", "replace"},
         Asides(c)', Works(c)', Ends', Meant'
  PROVE  RecInv'
<1>0. IInv /\ RecoveryTypeOK /\ ex \in [Execs -> ExecType]
  BY DEF RecInv, RecoveryInv, RecoveryTypeOK
<1>1. ex'[e] = c /\ \A f \in Execs : f # e => ex'[f] = ex[f]
  BY <1>0
<1>2. RecoveryInv'
  <2>2. ex' \in [Execs -> ExecType]
    BY <1>0
  <2> QED BY <1>0, <2>2 DEF RecoveryInv, RecoveryTypeOK
<1>3. OneExecutor'
  BY <1>1 DEF RecInv, OneExecutor
<1>4. Frozen'
  BY DEF Frozen, Incident, Known
<1>5. Phases'
  BY <1>4 DEF Phases, RecInv
<1>6. ASSUME NEW f \in Execs PROVE (Asides(ex[f]) /\ Works(ex[f]))'
  <2>1. PICK d \in ExecType : d = ex'[f]
    BY <1>0, <1>1
  <2>2. CASE f = e
    BY <1>1, <2>2
  <2>3. CASE f # e
    <3>1. d = ex[f] /\ Asides(d) /\ d.step = 0
      BY <1>1, <2>1, <2>3 DEF RecInv
    <3>2. d.at \notin {"copy", "confirm", "replace"}
      BY <3>1 DEF Asides
    <3>3. Asides(d)'
      BY <3>1, <3>2 DEF Asides
    <3>4. Works(d)'
      BY <3>1 DEF Works
    <3> QED BY <2>1, <3>3, <3>4
  <2> QED BY <2>2, <2>3
<1> QED BY <1>2, <1>3, <1>5, <1>6 DEF RecInv

(***************************************************************************)
(* An executor that is gone, or gives up, claims nothing any more.         *)
(***************************************************************************)
LEMMA GoneIsAside == Asides(NoWork) /\ Works(NoWork)
BY NoWorkIs DEF Asides, Works, Aside

LEMMA GoneIsAsideNext == (Asides(NoWork) /\ Works(NoWork))'
BY GoneIsAside, PTL

LEMMA Leaving ==
  ASSUME RecInv, NEW e \in Execs, GivesUp(e) \/ Gone(e)
  PROVE  \E c \in ExecType :
           /\ ex' = [ex EXCEPT ![e] = c] /\ c.step = 0 /\ c.at \in {"idle", "failed"}
           /\ c.at = "failed" => ex[e].at # "idle"
           /\ Asides(c) /\ Works(c) /\ Asides(c)' /\ Works(c)'
<1>1. /\ ex \in [Execs -> ExecType] /\ ex[e] \in ExecType /\ Asides(ex[e])
  BY DEF RecInv, RecoveryInv, RecoveryTypeOK
<1>2. CASE ex' = [ex EXCEPT ![e] = NoWork]
  <2>1. PICK c \in ExecType : c = NoWork
    BY NoWorkIs
  <2> QED BY <1>2, <2>1, NoWorkIs, GoneIsAside, GoneIsAsideNext
<1>3. CASE ex[e].events # << >> /\ GivesUp(e)
  <2>1. PICK d \in ExecType : d = NoWork
    BY NoWorkIs
  <2>2. PICK s \in Seq(EventType) : s = ex[e].events
    BY <1>1 DEF ExecType
  <2> DEFINE c == [d EXCEPT !.at = "failed", !.events = s]
  <2>3. c \in ExecType /\ c.at = "failed" /\ c.step = d.step
    <3> HIDE DEF EventType
    <3> QED BY DEF ExecType
  <2>4. ex' = [ex EXCEPT ![e] = c]
    BY <1>1, <1>3, <2>1, <2>2 DEF GivesUp
  <2> HIDE DEF c
  <2>5. c.step = 0 /\ ex[e].at # "idle"
    BY <1>1, <1>3, <2>1, <2>3, NoWorkIs DEF Asides
  <2>6. Asides(c) /\ Works(c) /\ Asides(c)' /\ Works(c)'
    BY <2>3, <2>5 DEF Asides, Works, Aside
  <2> QED BY <2>3, <2>4, <2>5, <2>6
<1>4. CASE ex[e].events = << >> /\ GivesUp(e)
  BY <1>1, <1>2, <1>4 DEF GivesUp
<1> QED BY <1>2, <1>3, <1>4 DEF Gone

LEMMA LeavingStep ==
  ASSUME RecInv, NEW e \in Execs, GivesUp(e) \/ Gone(e),
         UNCHANGED <<vars, sidecar, claimed, backup, plan, tries>>
  PROVE  RecInv'
<1>1. PICK c \in ExecType :
        /\ ex' = [ex EXCEPT ![e] = c] /\ c.step = 0 /\ c.at \in {"idle", "failed"}
        /\ c.at = "failed" => ex[e].at # "idle"
        /\ Asides(c) /\ Works(c)
  BY Leaving
<1>2. tries' \in Nat
  BY DEF RecInv, RecoveryInv, RecoveryTypeOK
<1>3. c.at # "idle" => Begun
  BY <1>1 DEF Begun
<1> QED BY <1>1, <1>2, <1>3, QuietStep

LEMMA DieStep ==
  ASSUME RecInv, NEW e \in Execs, ex' = [ex EXCEPT ![e] = NoWork],
         UNCHANGED <<vars, sidecar, claimed, backup, plan, tries>>
  PROVE  RecInv'
BY LeavingStep DEF Gone

--------------------------------------------------------------------------------
(***************************************************************************)
(* What the steps that only look make of an executor.                      *)
(***************************************************************************)
Places == Scans \cup Recording \cup {"reinspect", "effect", "observe", "stopping",
                                     "copy", "confirm", "replace"}

LEMMA GoesTo ==
  ASSUME RecoveryTypeOK, NEW e \in Execs, NEW place \in Places, Goes(e, place)
  PROVE  \E c \in ExecType :
           /\ ex' = [ex EXCEPT ![e] = c]
           /\ c.at = place
           /\ c.step = ex[e].step /\ c.doing = ex[e].doing /\ c.events = ex[e].events
           /\ c.ids = ex[e].ids /\ c.revs = ex[e].revs
<1>1. PICK d \in ExecType : d = ex[e]
  BY DEF RecoveryTypeOK
<1>4. PICK t \in SUBSET (Roles \cup {Folder}) : t = {}
  OBVIOUS
<1> DEFINE c == [d EXCEPT !.at = place, !.todo = t]
<1>2. /\ c \in ExecType /\ c.at = place
      /\ c.step = d.step /\ c.doing = d.doing /\ c.events = d.events
      /\ c.ids = d.ids /\ c.revs = d.revs
  BY DEF ExecType, Places, Scans, Recording
<1>3. ex' = [ex EXCEPT ![e] = c]
  BY <1>1, <1>4 DEF Goes, RecoveryTypeOK
<1> QED BY <1>1, <1>2, <1>3

(***************************************************************************)
(* A worker that takes a step for which its place, its story and what it   *)
(* knows of Drive are those of its next place.                             *)
(***************************************************************************)
LEMMA LooksOn ==
  ASSUME RecInv, NEW e \in Execs, NEW c \in ExecType, ex' = [ex EXCEPT ![e] = c],
         UNCHANGED <<vars, sidecar, claimed, backup, plan, tries>>,
         ex[e].step # 0, Local(e) \/ ~Unconfirmed(ex[e]),
         c.step = ex[e].step, c.events = ex[e].events,
         c.at \notin Aside, Place(c), Story(c), Its(c)
  PROVE  RecInv'
<1>1. Works(c)
  BY Confirmed DEF RecInv, Works, Follows
<1>2. Asides(c)
  BY DEF Asides, Aside
<1>3. tries' \in Nat /\ Begun
  BY WorkerIsFrozen DEF RecInv, RecoveryInv, RecoveryTypeOK, Begun
<1> QED BY <1>1, <1>2, <1>3, QuietStep DEF Aside

LEMMA ScanStep ==
  ASSUME RecInv, NEW e \in Execs, ListItems(e) \/ \E r \in Roles : Recheck(e, r)
  PROVE  RecInv'
<1>1. RecoveryTypeOK /\ ex[e] \in ExecType /\ Asides(ex[e]) /\ Works(ex[e])
  BY DEF RecInv, RecoveryInv, RecoveryTypeOK
<1>2. PICK t \in SUBSET (Roles \cup {Folder}) : ex' = [ex EXCEPT ![e].todo = t]
  BY <1>1 DEF ListItems, Recheck, ExecType
<1> DEFINE c == [ex[e] EXCEPT !.todo = t]
<1>3. /\ c \in ExecType /\ ex' = [ex EXCEPT ![e] = c]
      /\ c.at = ex[e].at /\ c.step = ex[e].step /\ c.doing = ex[e].doing
      /\ c.events = ex[e].events /\ c.ids = ex[e].ids /\ c.revs = ex[e].revs
  BY <1>1, <1>2 DEF ExecType, RecoveryTypeOK
<1>4. ex[e].at \notin Aside /\ ex[e].step # 0
  BY <1>1 DEF ListItems, Recheck, Scans, Aside, Asides
<1>5. /\ UNCHANGED <<vars, sidecar, claimed, backup, plan, tries>>
      /\ Local(e) \/ ~Unconfirmed(ex[e])
  BY DEF ListItems, Recheck, Unconfirmed, Scans
<1> HIDE DEF c
<1>6. Place(c) /\ Story(c) /\ Its(c)
  BY <1>1, <1>3, <1>4 DEF Works, Place, Story, Its, Doing, WillWrite, Finished
<1> QED BY <1>3, <1>4, <1>5, <1>6, LooksOn

LEMMA PreflightedStep ==
  ASSUME RecInv, NEW e \in Execs, Preflighted(e) \/ Reinspect(e) PROVE RecInv'
<1>1. RecoveryTypeOK /\ ex[e] \in ExecType /\ Asides(ex[e]) /\ Works(ex[e])
  BY DEF RecInv, RecoveryInv, RecoveryTypeOK
<1>2. /\ ex[e].at \notin Aside /\ ex[e].step # 0
      /\ ex[e].at \in {"before", "again", "after", "last", "reinspect"}
  BY <1>1 DEF Preflighted, Reinspect, Scans, Aside, Asides
<1>3. PICK place \in Places :
        /\ Goes(e, place)
        /\ ex[e].at = "before" => place = "intent"
        /\ ex[e].at = "again" =>
             place = IF ex[e].doing = "write" /\ Role(e) = First THEN "reinspect" ELSE "effect"
        /\ ex[e].at = "after" => place = "verify"
        /\ ex[e].at = "last" => place = "complete"
        /\ ex[e].at = "reinspect" => place = "effect"
  BY <1>2 DEF Preflighted, Reinspect, After, Places, Scans, Recording
<1>4. PICK c \in ExecType :
        /\ ex' = [ex EXCEPT ![e] = c]
        /\ c.at = place
        /\ c.step = ex[e].step /\ c.doing = ex[e].doing /\ c.events = ex[e].events
        /\ c.ids = ex[e].ids /\ c.revs = ex[e].revs
  BY <1>1, <1>3, GoesTo
<1>5. UNCHANGED <<vars, sidecar, claimed, backup, plan, tries>> /\ Local(e)
  BY DEF Preflighted, Reinspect
<1>6. Place(ex[e]) /\ Story(ex[e]) /\ Its(ex[e])
  BY <1>1, <1>2 DEF Works
<1>7. Place(c) /\ c.at \notin Aside
  BY <1>2, <1>3, <1>4, <1>6 DEF Place, Doing, Aside
<1>8. Story(c)
  <2>1. c.doing = "write" /\ c.at \in {"before", "intent", "again", "reinspect", "effect", "observe"}
          => ex[e].at \in {"before", "intent", "again", "reinspect", "effect", "observe"}
    BY <1>2, <1>3, <1>4, <1>6 DEF Place
  <2>2. c.at \in {"after", "verify"} => ex[e].at \in {"after", "verify"}
    BY <1>2, <1>3, <1>4
  <2>3. WillWrite(c) => WillWrite(ex[e])
    BY <1>2, <1>3, <1>4, <1>6 DEF WillWrite, Doing, Place
  <2>4. /\ Doing(c, "write", {"before", "intent", "again", "reinspect", "effect", "observe"}) =>
             Doing(ex[e], "write", {"before", "intent", "again", "reinspect", "effect", "observe"})
        /\ Doing(c, "write", {"after", "verify"}) => Doing(ex[e], "write", {"after", "verify"})
    BY <1>4, <2>1, <2>2 DEF Doing
  <2> QED BY <1>4, <1>6, <2>3, <2>4 DEF Story
<1>9. Its(c)
  <2>1. Doing(c, "create", {"before", "intent", "again", "effect"}) <=>
          Doing(ex[e], "create", {"before", "intent", "again", "effect"})
    BY <1>2, <1>3, <1>4, <1>6 DEF Doing, Place
  <2>2. \A k \in Titles : Finished(c, k) => Finished(ex[e], k)
    BY <1>2, <1>3, <1>4, <1>6 DEF Doing, Finished, Place
  <2> QED BY <1>4, <1>6, <2>1, <2>2 DEF Its
<1> QED BY <1>2, <1>4, <1>5, <1>7, <1>8, <1>9, LooksOn

LEMMA LookForCreatedStep == ASSUME RecInv, NEW e \in Execs, LookForCreated(e) PROVE RecInv'
<1>1. RecoveryTypeOK /\ ex[e] \in ExecType /\ Asides(ex[e]) /\ Works(ex[e])
  BY DEF RecInv, RecoveryInv, RecoveryTypeOK
<1>2. ex[e].step # 0 /\ ex[e].at \in {"created", "registered"}
  BY <1>1 DEF LookForCreated, Aside, Asides
<1>3. PICK place \in Places :
        /\ Goes(e, place)
        /\ \/ ex[e].at = "created" /\ place = "register"
           \/ ex[e].at = "registered" /\ place = "observe"
  BY DEF LookForCreated, Places, Recording
<1>4. PICK c \in ExecType :
        /\ ex' = [ex EXCEPT ![e] = c]
        /\ c.at = place
        /\ c.step = ex[e].step /\ c.doing = ex[e].doing /\ c.events = ex[e].events
        /\ c.ids = ex[e].ids /\ c.revs = ex[e].revs
  BY <1>1, <1>3, GoesTo
<1>5. UNCHANGED <<vars, sidecar, claimed, backup, plan, tries>> /\ Local(e)
  BY DEF LookForCreated
<1>6. Place(ex[e]) /\ Story(ex[e]) /\ Its(ex[e])
  BY <1>1, <1>2 DEF Works
<1>7. Place(c) /\ c.at \notin Aside
  BY <1>2, <1>3, <1>4, <1>6 DEF Place, Doing, Aside
<1>8. c.doing = "create" /\ c.at \in {"register", "observe"}
  BY <1>2, <1>3, <1>4, <1>6 DEF Place
<1>9. Story(c)
  BY <1>4, <1>6, <1>8 DEF Story, Doing, WillWrite
<1>10. Its(c)
  BY <1>2, <1>4, <1>6, <1>8 DEF Its, Doing, Finished
<1> QED BY <1>2, <1>4, <1>5, <1>7, <1>9, <1>10, LooksOn

(***************************************************************************)
(* The item observed after an effect is the one expected from now on.      *)
(***************************************************************************)
LEMMA ObserveItemStep == ASSUME RecInv, NEW e \in Execs, ObserveItem(e) PROVE RecInv'
<1>1. /\ RecoveryTypeOK /\ ex[e] \in ExecType /\ Asides(ex[e]) /\ Works(ex[e])
      /\ rev \in [Ids -> Nat]
  BY DEF RecInv, RecoveryInv, RecoveryTypeOK, IInv, TypeOK
<1>2. ex[e].at = "observe" /\ ex[e].step # 0
  BY <1>1 DEF ObserveItem, Aside, Asides
<1>3. PICK d \in ExecType : d = ex[e]
  BY <1>1
<1>4. Place(d) /\ Story(d) /\ Its(d) /\ d.at = "observe" /\ d.step # 0
  BY <1>1, <1>2, <1>3 DEF Works
<1>5. PICK r \in Roles : r = Role(e) /\ r = RoleAt(d.step)
  BY <1>3, <1>4, WrittenTyped DEF Role
<1>6. PICK i \in Ids : i = d.ids[r]
  BY <1>4, <1>5, WrittenTyped DEF Doing
<1>7. PICK t \in SUBSET (Roles \cup {Folder}) : t = {Folder} \cup Expected(e)
  BY DEF Expected
<1> DEFINE c == [d EXCEPT !.at = "after", !.todo = t, !.revs[r] = rev[i]]
<1>8. ex' = [ex EXCEPT ![e] = c]
  BY <1>1, <1>3, <1>5, <1>6, <1>7 DEF ObserveItem, ReadRevision, RecoveryTypeOK
<1>9. rev[i] \in Nat
  BY <1>1
<1>10. /\ c \in ExecType /\ c.at = "after"
       /\ c.step = d.step /\ c.doing = d.doing /\ c.events = d.events
       /\ c.ids = d.ids /\ c.revs = [d.revs EXCEPT ![r] = rev[i]] /\ d.revs \in [Roles -> Nat]
  BY <1>9 DEF ExecType, Scans
<1> HIDE DEF c
<1>11. /\ d.doing \in {"create", "write"}
       /\ d.doing = "create" => body[i] = Empty
       /\ d.doing = "write" => rev[i] # d.revs[r]
  BY <1>3, <1>4, <1>5, <1>6 DEF ObserveItem, Place
<1>12. Place(c)
  BY <1>4, <1>10 DEF Place, Doing
<1>13. Its(c)
  <2>1. Doing(c, "create", {"before", "intent", "again", "effect"}) <=>
          Doing(d, "create", {"before", "intent", "again", "effect"})
    BY <1>4, <1>10 DEF Doing
  <2>2. \A k \in Titles : Finished(c, k) => Finished(d, k)
    BY <1>4, <1>10 DEF Doing, Finished
  <2> QED BY <1>4, <1>10, <2>1, <2>2 DEF Its
<1>14. c.revs[r] = rev[i] /\ \A q \in Roles : q # r => c.revs[q] = d.revs[q]
  BY <1>10
<1>15. ASSUME NEW k \in Titles PROVE Told(c.events, k, c.ids[RoleAt(k)], c.revs[RoleAt(k)])
  <2>1. Told(d.events, k, d.ids[RoleAt(k)], d.revs[RoleAt(k)]) /\ RoleAt(k) \in Roles
    BY <1>4, TitlesAreRoles DEF Story, Stories
  <2>2. CASE RoleAt(k) # r
    BY <1>10, <1>14, <2>1, <2>2
  <2>3. CASE RoleAt(k) = r
    <3>1. k = d.step
      BY <1>4, <1>5, <2>3, TitlesAreRoles, WrittenTyped
    <3>2. ~(Base(k) + 4 <= Len(d.events))
      <4>1. Len(d.events) = Base(k) + 1 \/ Len(d.events) = Base(k) + 3
        BY <1>4, <1>11, <3>1 DEF Place, Doing
      <4> QED BY <4>1, Bases
    <3> QED BY <1>10, <2>1, <3>2 DEF Told
  <2> QED BY <2>2, <2>3
<1>16. Story(c)
  <2>1. c.doing = "write" => c.revs[r] # c.events[Base(c.step) + 2].rev
    BY <1>4, <1>5, <1>10, <1>11, <1>14 DEF Story, Doing
  <2>2. c.doing = "create" => Unwritten(c.ids[r], c.revs[r])
    BY <1>6, <1>9, <1>10, <1>11, <1>14 DEF Unwritten
  <2> QED BY <1>5, <1>10, <1>15, <2>1, <2>2 DEF Story, Stories, Doing, WillWrite
<1>17. UNCHANGED <<vars, sidecar, claimed, backup, plan, tries>> /\ ~Unconfirmed(ex[e])
  BY <1>2 DEF ObserveItem, Unconfirmed, Scans
<1> QED BY <1>2, <1>3, <1>8, <1>10, <1>12, <1>13, <1>16, <1>17, LooksOn DEF Aside

--------------------------------------------------------------------------------
(***************************************************************************)
(* The operator's plan, and an executor before its claim.                  *)
(***************************************************************************)
LEMMA PlanFirstCreateStep == ASSUME RecInv, PlanFirstCreate PROVE RecInv'
<1>1. /\ Frozen /\ UNCHANGED <<vars, sidecar, claimed, backup, ex, tries>>
  BY DEF PlanFirstCreate, EmptyFirst, Frozen
<1>2. plan' \in Nat /\ IInv /\ RecoveryTypeOK
  BY DEF PlanFirstCreate, RecInv, RecoveryInv, IInv, TypeOK
<1>3. /\ role' = role /\ body' = body /\ wrote' = wrote /\ rev' = rev /\ disk' = disk
      /\ pc' = pc /\ made' = made
  BY <1>1 DEF vars, drive, work
<1>4. RecoveryInv' /\ OneExecutor'
  BY <1>1, <1>2, Stutter DEF RecoveryInv, RecoveryTypeOK, RecInv, OneExecutor
<1>5. Phases'
  BY <1>1, <1>3 DEF RecInv, Phases, Frozen, Incident, Known, Closed, Strays, Unlisted, LastEntry
<1>6. Ends' /\ Meant'
  BY <1>1, <1>3, SameMeaning DEF RecInv
<1>7. ASSUME NEW e \in Execs PROVE (Asides(ex[e]) /\ Works(ex[e]))'
  <2>1. PICK d \in ExecType : d = ex[e] /\ d = ex'[e]
    BY <1>1, <1>2 DEF RecoveryTypeOK
  <2> QED BY <1>1, <2>1, SameSight DEF RecInv
<1> QED BY <1>4, <1>5, <1>6, <1>7 DEF RecInv

LEMMA StartStep == ASSUME RecInv, NEW e \in Execs, Start(e) PROVE RecInv'
<1>1. /\ RecoveryTypeOK /\ IInv /\ Asides(ex[e])
      /\ disk.documents[First] \in Ids \cup {NoId}
  BY TitlesAreRoles DEF RecInv, RecoveryInv, RecoveryTypeOK, IInv, TypeOK, Registry
<1>2. ex[e] = NoWork /\ plan \in Nat /\ plan # 0 /\ sidecar = << >> /\ First \in Roles
  BY <1>1, TitlesAreRoles DEF Start, Asides, RecoveryTypeOK
<1>3. PICK d \in ExecType : d = ex[e] /\ d = NoWork
  BY <1>2, NoWorkIs
<1>4. PICK i \in Ids \cup {NoId} : i = disk.documents[First]
  BY <1>1
<1> DEFINE c == [d EXCEPT !.at = "replan", !.ids[First] = i, !.revs[First] = plan]
<1>5. ex' = [ex EXCEPT ![e] = c]
  BY <1>1, <1>3, <1>4 DEF Start, RecoveryTypeOK
<1>6. /\ c \in ExecType /\ c.at = "replan" /\ c.step = d.step /\ c.events = d.events
      /\ c.ids = [d.ids EXCEPT ![First] = i] /\ d.ids \in [Roles -> Ids \cup {NoId}]
  BY <1>2 DEF ExecType
<1>7. c.step = 0 /\ c.events = << >> /\ \A r \in Roles : d.ids[r] = NoId
  BY <1>3, <1>6 DEF NoWork
<1> HIDE DEF c
<1>8. Asides(c) /\ Works(c)
  BY <1>2, <1>4, <1>6, <1>7 DEF Asides, Works, Aside
<1>9. UNCHANGED <<vars, sidecar, claimed, backup, plan>> /\ tries' \in Nat /\ Begun
  BY <1>1, <1>2 DEF Start, RecoveryTypeOK, Begun
<1> QED BY <1>5, <1>6, <1>7, <1>8, <1>9, QuietStep

LEMMA ReplanStep == ASSUME RecInv, NEW e \in Execs, Replan(e) PROVE RecInv'
<1>1. /\ RecoveryTypeOK /\ IInv /\ Asides(ex[e])
  BY DEF RecInv, RecoveryInv
<1>2. PICK d \in ExecType : d = ex[e]
  BY <1>1 DEF RecoveryTypeOK
<1>3. d.at = "replan" /\ Asides(d) /\ d.step = 0 /\ EmptyFirst(d.revs[First])
  BY <1>1, <1>2 DEF Replan, Asides, Aside
<1>4. PICK s \in Seq(EventType) : s = <<Begin(d.ids[First], d.revs[First])>>
  <2>1. d.ids[First] \in Ids \cup {NoId} /\ d.revs[First] \in Nat
    BY TitlesAreRoles DEF ExecType
  <2>2. PICK x \in EventType : x = Begin(d.ids[First], d.revs[First])
    BY <2>1, Events
  <2>3. <<x>> \in Seq(EventType)
    OBVIOUS
  <2> QED BY <2>2, <2>3
<1> DEFINE c == [d EXCEPT !.at = "claim", !.events = s]
<1>5. ex' = [ex EXCEPT ![e] = c]
  BY <1>1, <1>2, <1>4 DEF Replan, RecoveryTypeOK
<1>6. /\ c \in ExecType /\ c.at = "claim" /\ c.step = d.step /\ c.events = s
      /\ c.ids = d.ids /\ c.revs = d.revs
  <2> HIDE DEF EventType
  <2> QED BY DEF ExecType
<1> HIDE DEF c
<1>7. sidecar = << >> => Unwritten(c.ids[First], c.revs[First])
  <2>1. d.revs[First] \in Nat
    BY TitlesAreRoles DEF ExecType
  <2> QED BY <1>3, <1>6, <2>1 DEF Asides, EmptyFirst, Unwritten
<1>8. Asides(c)
  BY <1>3, <1>4, <1>6, <1>7 DEF Asides, Aside
<1>9. Works(c)
  BY <1>3, <1>6 DEF Works
<1>10. UNCHANGED <<vars, sidecar, claimed, backup, plan>> /\ tries' \in Nat /\ Begun
  BY <1>1, <1>2, <1>3 DEF Replan, RecoveryTypeOK, Begun
<1> QED BY <1>3, <1>5, <1>6, <1>8, <1>9, <1>10, QuietStep

--------------------------------------------------------------------------------
(***************************************************************************)
(* An accepted history ends with COMPLETE, where a whole recovery ends; it *)
(* names a file of Drive for every title.                                  *)
(***************************************************************************)
LEMMA HistoryIsClosed == ASSUME History PROVE Closed
BY Lines DEF History, Account, Closed, Whole

LEMMA ManifestTyped ==
  ASSUME IInv, RecoveryTypeOK, Incident, Closed
  PROVE  /\ Manifest \in [Roles -> Ids \cup {NoId}]
         /\ \A k \in Titles : Manifest[RoleAt(k)] = IdAt(k)
<1>1. \A k \in Titles : PositionOf(RoleAt(k)) = k
  BY TitlesAreRoles DEF PositionOf, Titles
<1>2. ASSUME NEW k \in Titles PROVE IdAt(k) \in Ids \cup {NoId}
  <2>1. CASE k = 1
    BY <2>1, AtIncident DEF IdAt
  <2>2. CASE k # 1
    <3>1. Base(k) + 1 \in 1..Len(sidecar)
      <4>1. Len(sidecar) >= 5 * Len(Order) + 4 /\ Len(sidecar) \in Nat
        BY Lines DEF Closed, RecoveryTypeOK
      <4>2. k \in Nat /\ 2 <= k /\ k <= Len(Order) + 1 /\ Base(k) = 5 * k - 6
        BY <2>2, Bases, Numbered
      <4> QED BY <4>1, <4>2, Numbered
    <3>2. sidecar[Base(k) + 1] \in EventType
      BY <3>1 DEF RecoveryTypeOK
    <3> QED BY <2>2, <3>2 DEF IdAt, EventType
  <2> QED BY <2>1, <2>2
<1>3. \A r \in Roles : \E k \in Titles : r = RoleAt(k) /\ PositionOf(r) = k
  BY <1>1, TitlesAreRoles
<1> QED BY <1>1, <1>2, <1>3, TitlesAreRoles DEF Manifest

LEMMA StartCommitStep == ASSUME RecInv, NEW e \in Execs, StartCommit(e) PROVE RecInv'
<1>1. /\ RecoveryTypeOK /\ Asides(ex[e]) /\ ex[e].at = "idle" /\ ex[e] = NoWork
  BY DEF RecInv, RecoveryInv, Asides, StartCommit
<1>2. Closed /\ Begun /\ tries' \in Nat
  BY <1>1, HistoryIsClosed DEF StartCommit, Reconcilable, Begun, RecoveryTypeOK
<1>3. "copy" \in Places
  BY DEF Places
<1>4. PICK c \in ExecType :
        /\ ex' = [ex EXCEPT ![e] = c] /\ c.at = "copy"
        /\ c.step = ex[e].step /\ c.events = ex[e].events
  BY <1>1, <1>3, GoesTo DEF StartCommit
<1>5. Asides(c) /\ Works(c)
  BY <1>1, <1>2, <1>4, NoWorkIs DEF Asides, Works, Aside
<1>6. UNCHANGED <<vars, sidecar, claimed, backup, plan>>
  BY DEF StartCommit
<1> QED BY <1>1, <1>2, <1>4, <1>5, <1>6, NoWorkIs, QuietStep

LEMMA ConfirmStep == ASSUME RecInv, NEW e \in Execs, Confirm(e) PROVE RecInv'
<1>1. /\ RecoveryTypeOK /\ Asides(ex[e]) /\ ex[e].at = "confirm"
  BY DEF RecInv, RecoveryInv, Confirm
<1>2. Begun /\ tries' \in Nat /\ ex[e].step = 0 /\ ex[e].events = << >>
  BY <1>1 DEF Confirm, Begun, RecoveryTypeOK, Asides, Aside
<1>3. "replace" \in Places
  BY DEF Places
<1>4. PICK c \in ExecType :
        /\ ex' = [ex EXCEPT ![e] = c] /\ c.at = "replace"
        /\ c.step = ex[e].step /\ c.events = ex[e].events
  BY <1>1, <1>3, GoesTo DEF Confirm
<1>5. Asides(c) /\ Works(c)
  BY <1>1, <1>2, <1>4 DEF Asides, Works, Aside
<1>6. UNCHANGED <<vars, sidecar, claimed, backup, plan>>
  BY DEF Confirm
<1> QED BY <1>1, <1>2, <1>4, <1>5, <1>6, QuietStep

(***************************************************************************)
(* The claim of the registry's copy: whoever gets it is the only one.      *)
(***************************************************************************)
LEMMA CopyRegistryStep == ASSUME RecInv, NEW e \in Execs, CopyRegistry(e) PROVE RecInv'
<1>1. /\ RecoveryTypeOK /\ IInv /\ Asides(ex[e]) /\ ex[e].at = "copy"
      /\ ~claimed /\ claimed' = TRUE /\ UNCHANGED <<vars, sidecar, plan, tries>>
      /\ ex \in [Execs -> ExecType]
  BY DEF RecInv, RecoveryInv, CopyRegistry, Uncopied, RecoveryTypeOK
<1>2. Closed /\ Frozen /\ ex[e].step = 0 /\ ex[e].events = << >>
  BY <1>1 DEF Asides, Aside, RecInv, Phases, Begun, Reconciled
<1>3. /\ role' = role /\ body' = body /\ wrote' = wrote /\ rev' = rev /\ disk' = disk
      /\ pc' = pc /\ made' = made
  BY <1>1 DEF vars, drive, work
<1>4. PICK c \in ExecType :
        /\ ex' = [ex EXCEPT ![e] = c] /\ c.step = 0 /\ c.events = << >>
        /\ backup' \in Registry
        /\ c = NoWork \/ (c.at = "confirm" /\ backup' = disk)
  <2>1. EmptyRegistry \in Registry /\ disk \in Registry
    BY <1>1 DEF EmptyRegistry, Registry, IInv, TypeOK
  <2>2. CASE Gone(e) /\ backup' \in {EmptyRegistry, disk}
    <3>1. backup' \in Registry
      BY <2>1, <2>2
    <3> QED BY <2>2, <3>1, NoWorkIs DEF Gone
  <2>3. CASE backup' = disk /\ Goes(e, "confirm")
    <3>1. "confirm" \in Places
      BY DEF Places
    <3> QED BY <1>1, <1>2, <2>1, <2>3, <3>1, GoesTo
  <2> QED BY <2>2, <2>3 DEF CopyRegistry
<1>5. ex'[e] = c /\ \A f \in Execs : f # e => ex'[f] = ex[f]
  BY <1>1, <1>4
<1>6. ASSUME NEW f \in Execs PROVE ex[f].at \notin {"confirm", "replace"} /\ ex[f].step = 0
  BY <1>1, <1>2, WorkerIsFrozen DEF RecInv, Asides
<1>7. RecoveryInv'
  <2>1. IInv' /\ claimed' \in BOOLEAN
    BY <1>1, Stutter
  <2>2. ex' \in [Execs -> ExecType]
    BY <1>1, <1>4
  <2> QED BY <1>1, <1>4, <2>1, <2>2 DEF RecoveryInv, RecoveryTypeOK
<1>8. OneExecutor'
  BY <1>4, <1>5, <1>6 DEF OneExecutor
<1>9. Frozen' /\ Closed' /\ sidecar' # << >>
  BY <1>1, <1>2, <1>3, ClosedIsLong DEF Frozen, Incident, Known, Closed
<1>10. Phases'
  BY <1>1, <1>9 DEF Phases
<1>11. Ends' /\ Meant'
  BY <1>1, <1>2, <1>3, SameMeaning DEF RecInv
<1>12. Asides(c)' /\ Works(c)'
  <2>1. CASE c = NoWork
    BY <2>1, GoneIsAsideNext
  <2>2. CASE c.at = "confirm" /\ backup' = disk
    BY <1>1, <1>3, <1>4, <1>9, <2>2 DEF Asides, Works, Aside
  <2> QED BY <1>4, <2>1, <2>2
<1>13. ASSUME NEW f \in Execs PROVE (Asides(ex[f]) /\ Works(ex[f]))'
  <2>1. PICK d \in ExecType : d = ex'[f]
    BY <1>1, <1>4
  <2>2. CASE f = e
    BY <1>5, <1>12, <2>1, <2>2
  <2>3. CASE f # e
    <3>1. d = ex[f] /\ Asides(d) /\ d.step = 0 /\ d.at \notin {"confirm", "replace"}
      BY <1>5, <1>6, <2>1, <2>3 DEF RecInv
    <3>2. Works(d)'
      BY <3>1 DEF Works
    <3>3. sidecar # << >>
      BY <1>1, <1>2, ClosedIsLong
    <3>4. Asides(d)'
      BY <1>1, <1>9, <3>1, <3>3 DEF Asides
    <3> QED BY <2>1, <3>2, <3>4
  <2> QED BY <2>2, <2>3
<1> QED BY <1>7, <1>8, <1>10, <1>11, <1>13 DEF RecInv

(***************************************************************************)
(* The registry is replaced: by the baseline that Drive holds.             *)
(***************************************************************************)
LEMMA ReplaceKeeps ==
  ASSUME RecInv, NEW e \in Execs, ReplaceRegistry(e), disk' = Projected
  PROVE  /\ IInv' /\ \A r \in Roles : disk'.documents[r] # NoId
         /\ disk'.pending = << >> /\ disk'.folder = disk.folder
         /\ Holds(Baseline, disk'.documents)
         /\ Incident /\ claimed /\ backup = disk /\ pc = "idle" /\ Closed
<1>0. /\ IInv /\ RecoveryTypeOK
      /\ UNCHANGED <<drive, publisher, sidecar, claimed, backup, plan, tries>>
  BY DEF RecInv, RecoveryInv, ReplaceRegistry
<1>1. Closed /\ claimed /\ Frozen /\ backup = disk
  BY DEF RecInv, Asides, ReplaceRegistry
<1>2. /\ Holds(Baseline, Manifest)
      /\ \A i \in Ids : role[i] # NoRole => i = disk.folder \/ \E r \in Roles : Manifest[r] = i
  BY <1>1 DEF RecInv, Meant
<1>3. Manifest \in [Roles -> Ids \cup {NoId}]
  BY <1>0, <1>1, ManifestTyped DEF Frozen
<1>4. PICK m \in [Roles -> Ids \cup {NoId}] : m = Manifest
  BY <1>3
<1>5. /\ disk' \in Registry /\ disk'.documents = m /\ disk'.pending = << >>
      /\ disk'.folder = disk.folder
  <2>1. disk' = [disk EXCEPT !.documents = m, !.pending = << >>] /\ disk \in Registry
    BY <1>0, <1>4 DEF Projected, IInv, TypeOK
  <2>2. << >> \in Seq(Entry)
    OBVIOUS
  <2> HIDE DEF Entry
  <2> QED BY <2>1, <2>2 DEF Registry
<1>6. /\ \A r \in Roles : m[r] # NoId /\ role[m[r]] = r
      /\ \A i \in Ids : role[i] # NoRole => i = disk.folder \/ \E r \in Roles : m[r] = i
      /\ Holds(Baseline, m) /\ Baseline \in Fixtures
  BY <1>2, <1>4, RecoveryAssumption DEF Holds
<1>7. disk.folder # NoId /\ disk.pending # << >> /\ pc = "idle"
  BY <1>0, <1>1, AtIncident DEF Frozen
<1>8. TypeOK'
  BY <1>0, <1>5 DEF IInv, TypeOK, drive, publisher, work, args, bounds
<1>9. Truth' /\ OnePerRole' /\ Bodies'
  BY <1>0, <1>5, <1>6, <1>7 DEF IInv, Facts, Truth, OnePerRole, Bodies, drive
<1>10. Holds(Baseline, m)'
  BY <1>0, <1>6 DEF Holds, drive
<1>11. ClearMeansWhole'
  BY <1>0, <1>5, <1>6, <1>10 DEF ClearMeansWhole, Holds, drive
<1>12. pc' = "idle" /\ purpose' = purpose /\ attempted' = attempted /\ at' = at
  BY <1>0, <1>7 DEF publisher, work
<1>13. Copy' /\ Stages' /\ Views' /\ Plans' /\ Armed' /\ Announcing'
  <2>1. purpose = "none" /\ ~attempted
    BY <1>0, <1>7 DEF IInv, RunFacts, Stages
  <2>2. Stages'
    BY <1>0, <1>5, <1>12, <2>1 DEF IInv, RunFacts, Stages, InInit, InEffect, Settling, MadeNotListed
  <2> QED BY <1>12, <2>1, <2>2 DEF Copy, Views, Plans, Planned, Armed, Settling, Announcing
<1>14. \A i \in Ids : ~Unlisted(i)'
  BY <1>0, <1>5, <1>6 DEF Unlisted, drive
<1>15. Orphanage'
  BY <1>12, <1>14 DEF Orphanage, MadeNotListed
<1>16. CompleteIsPublished'
  BY <1>0, <1>7 DEF IInv, CompleteIsPublished, publisher
<1> QED BY <1>1, <1>5, <1>6, <1>7, <1>8, <1>9, <1>10, <1>11, <1>13, <1>15, <1>16
        DEF IInv, Facts, RunFacts, Frozen, Holds

LEMMA ReplaceRegistryStep == ASSUME RecInv, NEW e \in Execs, ReplaceRegistry(e) PROVE RecInv'
<1>0. /\ IInv /\ RecoveryTypeOK
      /\ UNCHANGED <<drive, publisher, sidecar, claimed, backup, plan, tries>>
      /\ ex' = [ex EXCEPT ![e] = NoWork] /\ ex \in [Execs -> ExecType]
      /\ ex[e].at = "replace"
  BY DEF RecInv, RecoveryInv, ReplaceRegistry, RecoveryTypeOK, Gone
<1>1. CASE disk' = disk
  BY <1>0, <1>1, DieStep DEF vars, publisher
<1>2. CASE disk' = Projected
  <2>1. /\ IInv' /\ \A r \in Roles : disk'.documents[r] # NoId
        /\ claimed /\ Closed /\ sidecar # << >>
    BY <1>0, <1>2, ReplaceKeeps, ClosedIsLong
  <2>2. Reconciled' /\ claimed' /\ Closed' /\ sidecar' # << >>
    BY <1>0, <2>1 DEF Reconciled, Closed
  <2>3. Phases' /\ Ends' /\ Meant'
    <3>1. ~Frozen'
      BY <2>2, NotBothNext
    <3>2. Ends' /\ Meant'
      BY <1>0, <3>1, SameMeaning DEF RecInv
    <3> QED BY <2>2, <3>2 DEF Phases
  <2>4. ex'[e] = NoWork /\ \A f \in Execs : f # e => ex'[f] = ex[f]
    BY <1>0
  <2>5. RecoveryInv'
    <3>1. ex' \in [Execs -> ExecType]
      BY <1>0, NoWorkIs
    <3> QED BY <1>0, <2>1, <3>1 DEF RecoveryInv, RecoveryTypeOK
  <2>6. OneExecutor'
    BY <2>4, NoWorkIs DEF RecInv, OneExecutor
  <2>7. ASSUME NEW f \in Execs PROVE (Asides(ex[f]) /\ Works(ex[f]))'
    <3>1. PICK d \in ExecType : d = ex'[f]
      BY <2>5 DEF RecoveryInv, RecoveryTypeOK
    <3>2. CASE f = e
      BY <2>4, <3>1, <3>2, GoneIsAsideNext
    <3>3. CASE f # e
      <4>1. d = ex[f] /\ Asides(d) /\ d.step = 0 /\ d.at \notin {"confirm", "replace"}
        BY <1>0, <2>1, <2>4, <3>1, <3>3, WorkerIsFrozen DEF RecInv, OneExecutor
      <4>2. Asides(d)' /\ Works(d)'
        BY <2>1, <2>2, <4>1 DEF Asides, Works
      <4> QED BY <3>1, <4>2
    <3> QED BY <3>2, <3>3
  <2> QED BY <2>3, <2>5, <2>6, <2>7 DEF RecInv
<1> QED BY <1>1, <1>2 DEF ReplaceRegistry

--------------------------------------------------------------------------------
(***************************************************************************)
(* What a line does to the sidecar: it is open until COMPLETE stands where *)
(* a whole recovery ends.                                                  *)
(***************************************************************************)
LEMMA OpenAfter ==
  ASSUME RecInv, NEW e \in Execs, ex[e].step # 0, NEW x \in EventType, x # Completed,
         sidecar' = Append(sidecar, x)
  PROVE  /\ sidecar' # << >> /\ sidecar' \in Seq(EventType)
         /\ \A n \in 1..Len(sidecar') : sidecar'[n] # Completed
         /\ Ends' /\ Meant'
<1>1. sidecar \in Seq(EventType) /\ \A n \in 1..Len(sidecar) : sidecar[n] # Completed
  BY DEF RecInv, RecoveryInv, RecoveryTypeOK, Works
<1>2. PICK t \in Seq(EventType) : t = sidecar'
  BY <1>1, Grown
<1>3. /\ t # << >> /\ Len(t) = Len(sidecar) + 1 /\ Len(sidecar) \in Nat
      /\ t[Len(sidecar) + 1] = x /\ \A n \in 1..Len(sidecar) : t[n] = sidecar[n]
  BY <1>1, <1>2, Grown
<1>4. \A n \in 1..Len(t) : t[n] # Completed
  BY <1>1, <1>3
<1>5. Len(t) >= Whole => t[Whole] # Completed
  BY <1>3, <1>4, Lines
<1>6. ~Closed'
  BY <1>2, <1>5 DEF Closed, Whole
<1>7. t[Len(t)] # Completed
  BY <1>3
<1>8. Ends' /\ Meant'
  BY <1>2, <1>6, <1>7 DEF Ends, Meant
<1> QED BY <1>2, <1>3, <1>4, <1>8

(***************************************************************************)
(* A worker whose effect ended it: the sidecar stays as it is.             *)
(***************************************************************************)
LEMMA GivesUpStep ==
  ASSUME RecInv, NEW e \in Execs, GivesUp(e), IInv', ex[e].step # 0,
         UNCHANGED <<pc, disk, sidecar, claimed, backup, plan, tries>>
  PROVE  RecInv'
<1>1. /\ ~Closed /\ Frozen /\ sidecar # << >>
      /\ \A f \in Execs : f # e => ex[f].step = 0
  BY WorkerIsFrozen
<1>2. PICK c \in ExecType :
        /\ ex' = [ex EXCEPT ![e] = c] /\ c.step = 0 /\ c.at \in {"idle", "failed"}
        /\ Asides(c)' /\ Works(c)'
  BY Leaving
<1>3. sidecar' # << >> /\ sidecar' \in Seq(EventType)
  BY <1>1 DEF RecInv, RecoveryInv, RecoveryTypeOK
<1>4. Ends' /\ Meant'
  BY <1>1 DEF RecInv, Ends, Meant, Closed, Spoiled
<1> QED BY <1>1, <1>2, <1>3, <1>4, OpenStep

(***************************************************************************)
(* An executor that gave up says so, behind whatever is there by now.      *)
(***************************************************************************)
LEMMA AccountKept ==
  ASSUME Account, sidecar \in Seq(EventType), Len(sidecar) >= Whole, NEW x \in EventType,
         sidecar' = Append(sidecar, x), disk' = disk
  PROVE  Account' /\ \A k \in Titles : IdAt(k)' = IdAt(k)
<1>1. PICK s \in Seq(EventType) : s = sidecar
  OBVIOUS
<1>2. PICK t \in Seq(EventType) : t = sidecar'
  BY Grown
<1>3. Len(s) \in Nat /\ \A n \in 1..Len(s) : t[n] = s[n]
  BY <1>1, <1>2, Grown
<1>4. Len(s) >= 5 * Len(Order) + 4 /\ Len(s) >= 9
  BY <1>1, Lines
<1>5. t[1] = s[1] /\ t[2] = s[2] /\ t[3] = s[3]
  <2>1. 1 \in 1..Len(s) /\ 2 \in 1..Len(s) /\ 3 \in 1..Len(s)
    BY <1>3, <1>4
  <2> QED BY <1>3, <2>1
<1>6. t[Whole] = s[Whole]
  BY <1>1, <1>3, Lines
<1>7. ASSUME NEW k \in Titles, k # 1
      PROVE  /\ t[Base(k)] = s[Base(k)] /\ t[Base(k) + 1] = s[Base(k) + 1]
             /\ t[Base(k) + 2] = s[Base(k) + 2] /\ t[Base(k) + 3] = s[Base(k) + 3]
             /\ t[Base(k) + 4] = s[Base(k) + 4]
  <2>1. k \in Nat /\ k >= 1 /\ k <= Len(Order) + 1 /\ Base(k) = 5 * k - 6
    BY Numbered, Bases
  <2>2. /\ Base(k) \in 1..Len(s) /\ Base(k) + 1 \in 1..Len(s) /\ Base(k) + 2 \in 1..Len(s)
        /\ Base(k) + 3 \in 1..Len(s) /\ Base(k) + 4 \in 1..Len(s)
    BY <1>3, <1>4, <1>7, <2>1, Numbered
  <2> QED BY <1>3, <2>2
<1>8. \A k \in Titles : IdAt(k)' = IdAt(k) /\ RevAt(k)' = RevAt(k)
  BY <1>1, <1>2, <1>5, <1>7 DEF IdAt, RevAt
<1>9. ASSUME NEW k \in 2..Len(Order) + 1 PROVE CreatedAndWritten(k)'
  <2>1. k \in Titles /\ k # 1
    BY Numbered DEF Titles
  <2>2. CreatedAndWritten(k)
    BY DEF Account
  <2> QED BY <1>1, <1>2, <1>7, <1>8, <2>1, <2>2 DEF CreatedAndWritten
<1>10. \A j, k \in 1..Len(Order) + 1 : IdAt(j)' = IdAt(k)' => j = k
  BY <1>8 DEF Account, Titles
<1>11. /\ t[1] = Begin(IdAt(1)', t[1].rev)
       /\ t[2] = Event("INTENT_WRITE", First, IdAt(1)', t[1].rev)
       /\ t[3] = Event("VERIFIED", First, IdAt(1)', RevAt(1)') /\ RevAt(1)' # t[1].rev
  BY <1>1, <1>5, <1>8, Numbered DEF Account
<1>12. t[Whole] = Completed
  BY <1>1, <1>6 DEF Account, Whole
<1>13. Account'
  BY <1>2, <1>9, <1>10, <1>11, <1>12 DEF Account, Whole
<1> QED BY <1>8, <1>13

LEMMA SaysStep ==
  ASSUME RecInv, NEW e \in Execs, ex[e].at = "stopping", Gone(e), sidecar # << >>,
         UNCHANGED <<vars, claimed, backup, plan, tries>>,
         NEW x \in {Stopped, Torn}, sidecar' = Append(sidecar, x)
  PROVE  RecInv'
<1>0. /\ IInv /\ RecoveryTypeOK /\ ex \in [Execs -> ExecType] /\ sidecar \in Seq(EventType)
      /\ x \in EventType /\ x # Completed
  BY Events DEF RecInv, RecoveryInv, RecoveryTypeOK
<1>1. /\ role' = role /\ body' = body /\ wrote' = wrote /\ rev' = rev /\ disk' = disk
      /\ pc' = pc
  BY DEF vars, drive
<1>2. PICK t \in Seq(EventType) : t = sidecar'
  BY <1>0, Grown
<1>3. PICK l \in Nat : l = Len(sidecar)
  BY <1>0
<1>4. /\ t # << >> /\ Len(t) = l + 1 /\ t[l + 1] = x
      /\ \A n \in 1..l : t[n] = sidecar[n]
  BY <1>0, <1>2, <1>3, Grown
<1>5. Frozen' <=> Frozen
  BY <1>1 DEF Frozen, Incident, Known
<1>6. Closed' <=> Closed
  <2>1. CASE l >= Whole
    <3>1. t[Whole] = sidecar[Whole] /\ l + 1 >= Whole
      BY <1>4, <2>1, Lines
    <3> QED BY <1>2, <1>3, <1>4, <2>1, <3>1 DEF Closed, Whole
  <2>2. CASE ~(l >= Whole)
    <3>1. l + 1 >= Whole => t[Whole] = x
      BY <1>4, <2>2, Lines
    <3> QED BY <1>0, <1>2, <1>3, <1>4, <2>2, <3>1 DEF Closed, Whole
  <2> QED BY <2>1, <2>2
<1>7. Ends'
  <2>1. ASSUME Closed, NEW n \in 1..l + 1
        PROVE  IF n <= Whole THEN t[n] # Stopped ELSE t[n] \in {Stopped, Torn}
    <3>1. Whole <= l /\ Whole \in Nat
      BY <1>3, <2>1, Lines DEF Closed
    <3>2. CASE n = l + 1
      <4>1. ~(n <= Whole)
        BY <3>1, <3>2
      <4> QED BY <1>4, <3>2, <4>1
    <3>3. CASE n \in 1..l
      BY <1>3, <1>4, <2>1, <3>3 DEF RecInv, Ends
    <3> QED BY <3>2, <3>3
  <2>2. t[Len(t)] # Completed
    BY <1>0, <1>4
  <2> QED BY <1>2, <1>4, <1>6, <2>1, <2>2 DEF Ends, Whole
<1>8. Meant'
  <2>1. ASSUME Closed, Frozen
        PROVE  /\ Account' /\ Manifest' = Manifest /\ Holds(Baseline, Manifest)
               /\ \A i \in Ids : role[i] # NoRole =>
                    i = disk.folder \/ \E r \in Roles : Manifest[r] = i
    <3>1. /\ Account /\ Holds(Baseline, Manifest)
          /\ \A i \in Ids : role[i] # NoRole =>
               i = disk.folder \/ \E r \in Roles : Manifest[r] = i
      BY <2>1 DEF RecInv, Meant
    <3>2. Account' /\ \A k \in Titles : IdAt(k)' = IdAt(k)
      BY <1>0, <1>1, <2>1, <3>1, AccountKept DEF Closed
    <3>3. \A r \in Roles : PositionOf(r) \in Titles
      BY TitlesAreRoles DEF PositionOf, Titles
    <3>4. Manifest' = Manifest
      BY <3>2, <3>3 DEF Manifest
    <3> QED BY <3>1, <3>2, <3>4
  <2> QED BY <1>1, <1>5, <1>6, <2>1 DEF Meant, Holds
<1>9. Phases'
  <2>1. Begun
    BY DEF Begun
  <2>2. Frozen' \/ Reconciled'
    BY <1>1, <1>5, <1>6, <2>1 DEF RecInv, Phases, Reconciled
  <2> QED BY <1>2, <1>4, <1>6, <2>2 DEF RecInv, Phases
<1>10. ex'[e] = NoWork /\ \A f \in Execs : f # e => ex'[f] = ex[f]
  BY <1>0 DEF Gone
<1>11. RecoveryInv'
  <2>1. ex' \in [Execs -> ExecType]
    BY <1>0, NoWorkIs DEF Gone
  <2>2. IInv'
    BY <1>0, Stutter
  <2> QED BY <1>0, <1>2, <2>1, <2>2 DEF RecoveryInv, RecoveryTypeOK
<1>12. OneExecutor'
  BY <1>10, NoWorkIs DEF RecInv, OneExecutor
<1>13. ASSUME NEW f \in Execs PROVE (Asides(ex[f]) /\ Works(ex[f]))'
  <2>1. PICK d \in ExecType : d = ex'[f]
    BY <1>11 DEF RecoveryInv, RecoveryTypeOK
  <2>2. CASE f = e
    BY <1>10, <2>1, <2>2, GoneIsAsideNext
  <2>3. CASE f # e
    <3>1. d = ex[f] /\ Asides(d) /\ Works(d)
      BY <1>10, <2>1, <2>3 DEF RecInv
    <3>2. Asides(d)'
      BY <1>1, <1>2, <1>4, <1>5, <1>6, <3>1 DEF Asides
    <3>3. ASSUME d.step # 0 PROVE Works(d)'
      <4>1. /\ d.events # << >> /\ \A n \in 1..Len(d.events) : d.events[n] # Stopped
            /\ \A n \in 1..l : sidecar[n] # Completed
            /\ Follows(d) \/ (Unconfirmed(d) /\ Spoiled)
            /\ Place(d) /\ Story(d) /\ Its(d)
        BY <1>3, <3>1, <3>3 DEF Works
      <4>2. \A n \in 1..Len(t) : t[n] # Completed
        BY <1>0, <1>4, <4>1
      <4>3. Follows(d) => Follows(d)'
        <5>1. Len(d.events) \in Nat
          BY DEF ExecType
        <5>2. ASSUME Follows(d), NEW n \in 1..l + 1
              PROVE  IF n <= Len(d.events) THEN t[n] = d.events[n] ELSE t[n] \in {Stopped, Torn}
          <6>1. Len(d.events) <= l
            BY <1>3, <5>2 DEF Follows
          <6>2. CASE n \in 1..l
            BY <1>3, <1>4, <5>2, <6>2 DEF Follows
          <6>3. CASE n = l + 1
            <7>1. ~(n <= Len(d.events))
              BY <5>1, <6>1, <6>3
            <7> QED BY <1>4, <6>3, <7>1
          <6> QED BY <6>2, <6>3
        <5>3. Follows(d) => Len(d.events) <= l + 1
          BY <1>3, <5>1 DEF Follows
        <5> QED BY <1>2, <1>4, <5>2, <5>3 DEF Follows
      <4>4. Spoiled => Spoiled'
        <5>1. ASSUME NEW n \in 1..l, sidecar[n] = Stopped PROVE n \in 1..Len(t) /\ t[n] = Stopped
          BY <1>4, <5>1
        <5> QED BY <1>2, <1>3, <5>1 DEF Spoiled
      <4>5. Its(d)'
        BY <1>1, <4>1 DEF Its
      <4>6. Story(d)'
        BY <1>1, <4>1 DEF Story, Unwritten
      <4> QED BY <1>2, <1>4, <4>1, <4>2, <4>3, <4>4, <4>5, <4>6 DEF Works
    <3>4. Works(d)'
      BY <3>3 DEF Works
    <3> QED BY <2>1, <3>2, <3>4
  <2> QED BY <2>2, <2>3
<1> QED BY <1>7, <1>8, <1>9, <1>11, <1>12, <1>13 DEF RecInv

LEMMA SayStoppedStep == ASSUME RecInv, NEW e \in Execs, SayStopped(e) PROVE RecInv'
<1>1. CASE UNCHANGED sidecar
  BY <1>1, LeavingStep DEF SayStopped
<1>2. ASSUME NEW x \in {Stopped, Torn}, Readable, sidecar' = Append(sidecar, x) PROVE RecInv'
  BY <1>2, SaysStep DEF SayStopped, Readable
<1> QED BY <1>1, <1>2 DEF SayStopped

LEMMA LookBackStep == ASSUME RecInv, NEW e \in Execs, LookBack(e) PROVE RecInv'
<1>1. /\ RecoveryTypeOK /\ Asides(ex[e]) /\ ex[e].at = "failed" /\ ex[e].step = 0
      /\ UNCHANGED <<vars, sidecar, claimed, backup, plan, tries>>
  BY DEF RecInv, RecoveryInv, LookBack, Asides, Aside
<1>2. CASE Gone(e)
  BY <1>1, <1>2, LeavingStep
<1>3. CASE Goes(e, "stopping")
  <2>1. "stopping" \in Places
    BY DEF Places
  <2>2. PICK c \in ExecType :
          /\ ex' = [ex EXCEPT ![e] = c] /\ c.at = "stopping" /\ c.step = ex[e].step
    BY <1>1, <1>3, <2>1, GoesTo
  <2>3. Asides(c) /\ Works(c) /\ Begun /\ tries' \in Nat
    BY <1>1, <2>2 DEF Asides, Works, Aside, Begun, RecoveryTypeOK
  <2> QED BY <1>1, <2>2, <2>3, QuietStep
<1> QED BY <1>2, <1>3 DEF LookBack

LEMMA ClaimFacts ==
  ASSUME RecInv, NEW e \in Execs, ex[e].at = "claim", sidecar = << >>
  PROVE  /\ ~Closed /\ Frozen /\ \A f \in Execs : ex[f].step = 0
         /\ ex[e].events = <<Begin(ex[e].ids[First], ex[e].revs[First])>>
         /\ Begin(ex[e].ids[First], ex[e].revs[First]) \in EventType
         /\ ex[e].ids[First] = disk.documents[First]
         /\ Unwritten(ex[e].ids[First], ex[e].revs[First])
         /\ \A r \in Roles \ {First} : ex[e].ids[r] = NoId
<1>1. ~Closed
  BY ClosedIsLong DEF RecInv, RecoveryInv
<1>2. Frozen
  BY <1>1 DEF RecInv, Phases, Begun, Reconciled
<1>3. \A f \in Execs : ex[f].step = 0
  BY WorkerIsFrozen
<1>4. ex[e].ids[First] \in Ids \cup {NoId} /\ ex[e].revs[First] \in Nat
  BY TitlesAreRoles DEF RecInv, RecoveryInv, RecoveryTypeOK, ExecType
<1>5. Begin(ex[e].ids[First], ex[e].revs[First]) \in EventType
  BY <1>4, Events
<1> QED BY <1>1, <1>2, <1>3, <1>5 DEF RecInv, Asides

(***************************************************************************)
(* The events an executor is about to record.                              *)
(***************************************************************************)
LEMMA Recordable ==
  ASSUME RecInv, NEW e \in Execs, ex[e].step # 0
  PROVE  /\ IntentOf(e) \in EventType \ {Completed, Stopped}
         /\ CreatedOf(e) \in EventType \ {Completed, Stopped}
         /\ VerifiedOf(e) \in EventType \ {Completed, Stopped}
<1>1. PICK d \in ExecType : d = ex[e]
  BY DEF RecInv, RecoveryInv, RecoveryTypeOK
<1>2. Place(d) /\ Its(d)
  BY <1>1 DEF RecInv, Works
<1>3. PICK r \in Roles : r = Role(e)
  BY <1>1, <1>2, WrittenTyped DEF Role
<1>4. d.ids[r] \in Ids \cup {NoId} /\ d.revs[r] \in Nat /\ 0 \in Nat
  BY DEF ExecType
<1>5. NoId \in Ids \cup {NoId}
  OBVIOUS
<1>6. IntentOf(e) \in EventType \ {Completed, Stopped}
  BY <1>1, <1>3, <1>4, <1>5, Events, Distinct DEF IntentOf
<1>7. CreatedOf(e) \in EventType \ {Completed, Stopped}
  BY <1>1, <1>3, <1>4, Events, Distinct DEF CreatedOf
<1>8. VerifiedOf(e) \in EventType \ {Completed, Stopped}
  <2>1. VerifiedOf(e) = Event("VERIFIED_EMPTY", r, d.ids[r], d.revs[r])
          \/ VerifiedOf(e) = Event("VERIFIED", r, d.ids[r], d.revs[r])
    BY <1>1, <1>3 DEF VerifiedOf
  <2> QED BY <1>4, <2>1, Events, Distinct
<1> QED BY <1>6, <1>7, <1>8

--------------------------------------------------------------------------------
(***************************************************************************)
(* A worker records what it is about to do, or what it has seen.           *)
(***************************************************************************)
Fits(s, x, n, j, ids, revs) ==
  LET r == RoleAt(n)  m == s[Base(n) + 2].rev IN
    /\ Len(s) + 1 = Base(n) + j /\ (n = 1 => j >= 3)
    /\ j = 0 => x = Event("INTENT_CREATE", r, NoId, 0)
    /\ j = 1 => x = Event("CREATED", r, ids[r], 0)
    /\ j = 2 => x = Event("VERIFIED_EMPTY", r, ids[r], x.rev)
    /\ j = 3 => x = Event("INTENT_WRITE", r, ids[r], m)
    /\ j = 4 => x = Event("VERIFIED", r, ids[r], revs[r]) /\ revs[r] # m

LEMMA StoryGrows ==
  ASSUME NEW s \in Seq(EventType), NEW x \in EventType, NEW n \in Titles, NEW j \in 0..4,
         NEW ids, NEW revs, Stories(s, ids, revs), Fits(s, x, n, j, ids, revs)
  PROVE  /\ Stories(Append(s, x), ids, revs)
         /\ j > 2 => Append(s, x)[Base(n) + 2] = s[Base(n) + 2]
<1>0. Len(s) + 1 = Base(n) + j /\ (n = 1 => j >= 3)
  BY DEF Fits
<1>1. /\ n \in Nat /\ n >= 1 /\ Base(n) = 5 * n - 6 /\ Len(s) \in Nat
      /\ Append(s, x)[Len(s) + 1] = x
      /\ \A m \in 1..Len(s) : Append(s, x)[m] = s[m]
  BY Numbered, Bases, Grown
<1>2. ASSUME NEW k \in Titles PROVE Told(Append(s, x), k, ids[RoleAt(k)], revs[RoleAt(k)])
  <2>1. k \in Nat /\ k >= 1 /\ Base(k) = 5 * k - 6
    BY Numbered, Bases
  <2>3. /\ Base(k) = Len(s) + 1 => k = n /\ j = 0
        /\ Base(k) + 1 = Len(s) + 1 => k = n /\ j = 1
        /\ Base(k) + 2 = Len(s) + 1 => k = n /\ j = 2 /\ k # 1
        /\ Base(k) + 3 = Len(s) + 1 => k = n /\ j = 3
        /\ Base(k) + 4 = Len(s) + 1 => k = n /\ j = 4
    BY <1>0, <1>1, <2>1
  <2>4. Told(s, k, ids[RoleAt(k)], revs[RoleAt(k)])
    BY DEF Stories
  <2>5. /\ k > 1 /\ Base(k) = Len(s) + 1 => x = Event("INTENT_CREATE", RoleAt(k), NoId, 0)
        /\ k > 1 /\ Base(k) + 1 = Len(s) + 1 => x = Event("CREATED", RoleAt(k), ids[RoleAt(k)], 0)
        /\ Base(k) + 2 = Len(s) + 1 =>
             x = IF k = 1 THEN Begin(ids[RoleAt(k)], x.rev)
                 ELSE Event("VERIFIED_EMPTY", RoleAt(k), ids[RoleAt(k)], x.rev)
        /\ Base(k) + 3 = Len(s) + 1 =>
             x = Event("INTENT_WRITE", RoleAt(k), ids[RoleAt(k)], s[Base(k) + 2].rev)
        /\ Base(k) + 4 = Len(s) + 1 =>
             x = Event("VERIFIED", RoleAt(k), ids[RoleAt(k)], revs[RoleAt(k)])
             /\ revs[RoleAt(k)] # s[Base(k) + 2].rev
    BY <2>3 DEF Fits
  <2> QED BY <2>4, <2>5, ToldOn
<1>3. j > 2 => Append(s, x)[Base(n) + 2] = s[Base(n) + 2]
  <2>1. j > 2 => Base(n) + 2 \in 1..Len(s)
    BY <1>0, <1>1
  <2> QED BY <1>1, <2>1
<1> QED BY <1>2, <1>3 DEF Stories

LEMMA RecordStep ==
  ASSUME RecInv, NEW e \in Execs, NEW c \in ExecType, NEW x \in EventType,
         x # Completed, x # Stopped,
         ex' = [ex EXCEPT ![e] = c], ex[e].step # 0, Append1(e, x),
         ~Unconfirmed(ex[e]), Unconfirmed(c),
         c.events = Append(ex[e].events, x), c.step # 0, c.at \notin Aside,
         Place(c), Story(c), Its(c)
  PROVE  RecInv'
<1>1. /\ ~Closed /\ Frozen
      /\ \A f \in Execs : f # e => ex[f].step = 0
      /\ IInv /\ sidecar \in Seq(EventType)
  BY WorkerIsFrozen DEF RecInv, RecoveryInv, RecoveryTypeOK
<1>2. /\ Readable /\ sidecar' = Append(sidecar, x)
      /\ UNCHANGED <<vars, claimed, backup, plan, tries>>
  BY DEF Append1
<1>3. /\ role' = role /\ body' = body /\ wrote' = wrote /\ rev' = rev /\ disk' = disk
      /\ pc' = pc /\ IInv'
  BY <1>1, <1>2, Stutter DEF vars, drive
<1>4. /\ sidecar' # << >> /\ sidecar' \in Seq(EventType)
      /\ \A n \in 1..Len(sidecar') : sidecar'[n] # Completed
      /\ Ends' /\ Meant'
  BY <1>2, OpenAfter
<1>5. Its(c)' /\ Story(c)'
  BY <1>3 DEF Its, Story, Unwritten
<1>6. PICK s \in Seq(EventType) : s = ex[e].events /\ Len(s) >= 1 /\ Len(s) \in Nat
  BY WorkerIsFrozen
<1>7. /\ \A n \in 1..Len(s) : s[n] # Stopped
      /\ Len(s) <= Len(sidecar)
      /\ \A n \in 1..Len(sidecar) :
           IF n <= Len(s) THEN sidecar[n] = s[n] ELSE sidecar[n] \in {Stopped, Torn}
  BY <1>6, Confirmed DEF RecInv, Works, Follows
<1>8. PICK t \in Seq(EventType) : t = c.events /\ t = Append(s, x)
  BY <1>6, Grown
<1>9. /\ t # << >> /\ Len(t) = Len(s) + 1 /\ t[Len(s) + 1] = x
      /\ \A n \in 1..Len(s) : t[n] = s[n]
  BY <1>8, Grown
<1>10. PICK u \in Seq(EventType) : u = sidecar'
  BY <1>4
<1>11. PICK l \in Nat : l = Len(sidecar)
  BY <1>1
<1>12. Len(u) = l + 1 /\ u[l + 1] = x /\ \A n \in 1..l : u[n] = sidecar[n]
  BY <1>1, <1>2, <1>10, <1>11, Grown
<1>13. ASSUME NEW n \in 1..Len(t) PROVE t[n] # Stopped
  <2>1. CASE n \in 1..Len(s)
    BY <1>7, <1>9, <2>1
  <2>2. CASE n = Len(s) + 1
    BY <1>9, <2>2
  <2> QED BY <1>6, <1>9, <2>1, <2>2
<1>14. Follows(c)' \/ Spoiled'
  <2>1. CASE l = Len(s)
    <3>1. Len(t) = Len(u) /\ \A n \in 1..Len(u) : n <= Len(t) /\ u[n] = t[n]
      BY <1>6, <1>7, <1>9, <1>11, <1>12, <2>1
    <3>2. Len(t) <= Len(u)
      BY <1>12, <3>1
    <3> QED BY <1>8, <1>10, <3>1, <3>2 DEF Follows
  <2>2. CASE l # Len(s)
    <3>1. l \in 1..l /\ ~(l <= Len(s)) /\ l \in 1..Len(u)
      BY <1>6, <1>7, <1>11, <1>12, <2>2
    <3>2. sidecar[l] \in {Stopped, Torn} /\ sidecar[l] # Torn
      BY <1>2, <1>7, <1>11, <3>1 DEF Readable
    <3>3. u[l] = Stopped
      BY <1>12, <3>1, <3>2
    <3> QED BY <1>10, <3>1, <3>3 DEF Spoiled
  <2> QED BY <2>1, <2>2
<1>15. Works(c)'
  BY <1>4, <1>5, <1>8, <1>9, <1>13, <1>14 DEF Works
<1>16. Asides(c)'
  BY DEF Asides, Aside
<1> QED BY <1>1, <1>2, <1>3, <1>4, <1>15, <1>16, OpenStep DEF Aside

LEMMA ClaimStep == ASSUME RecInv, NEW e \in Execs, Claim(e) PROVE RecInv'
<1>1. PICK d \in ExecType : d = ex[e]
  BY DEF RecInv, RecoveryInv, RecoveryTypeOK
<1>2. d.at = "claim" /\ sidecar = << >> /\ UNCHANGED <<vars, claimed, backup, plan, tries>>
  BY <1>1 DEF Claim, Unclaimed
<1>3. PICK i \in Ids \cup {NoId}, m \in Nat : i = d.ids[First] /\ m = d.revs[First]
  BY TitlesAreRoles DEF ExecType
<1>4. /\ ~Closed /\ Frozen /\ \A f \in Execs : ex[f].step = 0
      /\ d.events = <<Begin(i, m)>> /\ i = disk.documents[First] /\ Unwritten(i, m)
      /\ \A r \in Roles \ {First} : d.ids[r] = NoId
  BY <1>1, <1>2, <1>3, ClaimFacts
<1>5. /\ IInv /\ RecoveryTypeOK /\ Strays
  BY <1>2 DEF RecInv, RecoveryInv, Phases
<1>6. /\ i \in Ids /\ role[i] = First /\ \A q \in Ids : ~Unlisted(q)
      /\ \A r \in Roles \ {First} : disk.documents[r] = NoId
  BY <1>4, <1>5, AtIncident, NoStrays DEF Frozen
<1>7. PICK t \in SUBSET (Roles \cup {Folder}) : t = {Folder, First}
  BY TitlesAreRoles
<1> DEFINE c == [d EXCEPT !.at = "before", !.step = 1, !.doing = "write", !.todo = t]
<1>8. ex' = [ex EXCEPT ![e] = c]
  BY <1>1, <1>5, <1>7 DEF Claim, RecoveryTypeOK
<1>9. 1 \in 0..Len(Order) + 1
  BY Numbered
<1>10. /\ c \in ExecType /\ c.at = "before" /\ c.step = 1 /\ c.doing = "write"
       /\ c.events = d.events /\ c.ids = d.ids /\ c.revs = d.revs
  BY <1>9 DEF ExecType, Scans
<1> HIDE DEF c
<1>11. Len(c.events) = 1 /\ c.events[1] = Begin(i, m) /\ c.events[1].rev = m /\ c.events # << >>
  BY <1>4, <1>10 DEF Begin, Event
<1>12. Place(c)
  BY <1>10, <1>11, Bases, Numbered DEF Place, Doing
<1>13. Story(c)
  <2>1. ASSUME NEW k \in Titles PROVE Told(c.events, k, c.ids[RoleAt(k)], c.revs[RoleAt(k)])
    <3>1. CASE k = 1
      <4>1. Base(k) = -1 /\ RoleAt(k) = First
        BY <3>1, Bases, TitlesAreRoles
      <4>2. Base(k) + 2 = 1 /\ Base(k) + 3 = 2 /\ Base(k) + 4 = 3
        BY <4>1
      <4> QED BY <1>3, <1>10, <1>11, <3>1, <4>1, <4>2 DEF Told
    <3>2. CASE k # 1
      <4>1. Base(k) >= 4 /\ Base(k) \in Int
        <5>1. k \in Nat /\ k >= 1 /\ Base(k) = 5 * k - 6
          BY Bases, Numbered
        <5> QED BY <3>2, <5>1
      <4> QED BY <1>11, <4>1 DEF Told
    <3> QED BY <3>1, <3>2
  <2>2. RoleAt(c.step) = First /\ Base(c.step) + 2 = 1
    <3>1. Base(1) + 2 = 1
      BY Bases
    <3> QED BY <1>10, <3>1, TitlesAreRoles
  <2> QED BY <1>3, <1>4, <1>10, <1>11, <2>1, <2>2 DEF Story, Stories, Doing, WillWrite
<1>14. Its(c)
  <2>1. \A r \in Roles : c.ids[r] # NoId => r = First
    BY <1>4, <1>10
  <2>2. \A q \in Ids : role[q] # NoRole => q = disk.folder \/ q = i
    BY <1>4, <1>6, NamesAssumption DEF Unlisted
  <2>3. ASSUME NEW k \in Titles PROVE c.ids[RoleAt(k)] = NoId <=> k > 1
    <3>1. RoleAt(k) \in Roles /\ (RoleAt(k) = First <=> k = 1)
      BY Numbered, TitlesAreRoles
    <3>2. k > 1 <=> k # 1
      BY Numbered
    <3> QED BY <1>3, <1>4, <1>6, <1>10, <3>1, <3>2, NamesAssumption
  <2>4. \A k \in Titles : ~Finished(c, k)
    BY <1>10, Numbered DEF Finished, Doing
  <2> QED BY <1>3, <1>4, <1>6, <1>10, <2>1, <2>2, <2>3, <2>4, TitlesAreRoles DEF Its, Doing
<1>15. /\ role' = role /\ body' = body /\ wrote' = wrote /\ rev' = rev /\ disk' = disk
       /\ pc' = pc /\ IInv'
  BY <1>2, <1>5, Stutter DEF vars, drive
<1>16. sidecar' = c.events
  BY <1>1, <1>10 DEF Claim
<1>17. Ends' /\ Meant' /\ sidecar' # << >> /\ sidecar' \in Seq(EventType)
  <2>1. sidecar' \in Seq(EventType)
    BY <1>10, <1>16 DEF ExecType
  <2>2. Len(sidecar') = 1 /\ sidecar'[1] # Completed
    BY <1>11, <1>16, Events
  <2>3. Ends' /\ Meant'
    BY <2>2, Lines DEF Ends, Meant, Closed, Whole
  <2> QED BY <1>11, <1>16, <2>1, <2>3
<1>18. Works(c)'
  <2>1. Its(c)' /\ Story(c)'
    BY <1>13, <1>14, <1>15 DEF Its, Story, Unwritten
  <2>2. Follows(c)'
    BY <1>11, <1>16 DEF Follows
  <2>3. \A k \in 1..Len(c.events) : c.events[k] # Completed /\ c.events[k] # Stopped
    BY <1>11, Events
  <2> QED BY <1>11, <1>12, <1>16, <2>1, <2>2, <2>3 DEF Works
<1>19. Asides(c)'
  BY <1>10 DEF Asides, Aside
<1> QED BY <1>2, <1>4, <1>8, <1>10, <1>15, <1>17, <1>18, <1>19, OpenStep

--------------------------------------------------------------------------------
LEMMA Worker ==
  ASSUME RecInv, NEW e \in Execs, ex[e].at \notin Aside
  PROVE  \E d \in ExecType :
           /\ d = ex[e] /\ d.step # 0 /\ Place(d) /\ Story(d) /\ Its(d)
           /\ d.events \in Seq(EventType) /\ Len(d.events) \in Nat
           /\ d.step \in Titles /\ RoleAt(d.step) \in Roles
           /\ d.doing \in {"create", "write"} /\ (d.doing = "create" => d.step # 1)
<1>1. PICK d \in ExecType : d = ex[e]
  BY DEF RecInv, RecoveryInv, RecoveryTypeOK
<1>2. d.step # 0
  BY <1>1 DEF RecInv, Asides
<1>3. Place(d) /\ Story(d) /\ Its(d)
  BY <1>1, <1>2 DEF RecInv, Works
<1>4. d.events \in Seq(EventType)
  BY DEF ExecType
<1>5. Len(d.events) \in Nat
  BY <1>4
<1>6. d.step \in Titles /\ RoleAt(d.step) \in Roles
  BY <1>2, <1>3, WrittenTyped
<1>7. d.doing \in {"create", "write"} /\ (d.doing = "create" => d.step # 1)
  BY <1>3 DEF Place
<1> QED BY <1>1, <1>2, <1>3, <1>4, <1>5, <1>6, <1>7

LEMMA IntendStep == ASSUME RecInv, NEW e \in Execs, Intend(e) PROVE RecInv'
<1>1. PICK d \in ExecType :
        /\ d = ex[e] /\ d.step # 0 /\ Place(d) /\ Story(d) /\ Its(d)
        /\ d.events \in Seq(EventType) /\ Len(d.events) \in Nat
        /\ d.step \in Titles /\ RoleAt(d.step) \in Roles
        /\ d.doing \in {"create", "write"} /\ (d.doing = "create" => d.step # 1)
  BY Worker DEF Intend, Aside
<1>2. d.at = "intent"
  BY <1>1 DEF Intend
<1>3. PICK x \in EventType : x = IntentOf(e) /\ x # Completed /\ x # Stopped
  BY <1>1, Recordable
<1>4. PICK s \in Seq(EventType) : s = Append(d.events, x)
  BY <1>1, Grown
<1>5. PICK t \in SUBSET (Roles \cup {Folder}) : t = {Folder} \cup Expected(e)
  BY DEF Expected
<1> DEFINE c == [[d EXCEPT !.events = s, !.todo = {}] EXCEPT !.at = "again", !.todo = t]
<1>6. ex' = [ex EXCEPT ![e] = c]
  BY <1>1, <1>3, <1>4, <1>5 DEF Intend, Recorded
<1>7. /\ c \in ExecType /\ c.at = "again" /\ c.step = d.step /\ c.doing = d.doing
      /\ c.events = s /\ c.ids = d.ids /\ c.revs = d.revs /\ c.todo = t
  <2> HIDE DEF EventType
  <2> QED BY DEF ExecType, Scans
<1> HIDE DEF c
<1> DEFINE n == d.step  r == RoleAt(d.step)
<1>8. x = IF d.doing = "create" THEN Event("INTENT_CREATE", r, NoId, 0)
          ELSE Event("INTENT_WRITE", r, d.ids[r], d.revs[r])
  BY <1>1, <1>3 DEF IntentOf, Role
<1>9. /\ d.doing = "create" => Len(d.events) = Base(n) - 1
      /\ d.doing = "write" => Len(d.events) = Base(n) + 2
      /\ d.doing = "write" => d.revs[r] = d.events[Base(n) + 2].rev
      /\ WillWrite(c) => WillWrite(d)
  BY <1>1, <1>2, <1>7 DEF Place, Story, Doing, WillWrite
<1>10. Stories(d.events, d.ids, d.revs)
  BY <1>1 DEF Story
<1>11. Base(n) \in Int /\ Len(s) = Len(d.events) + 1
  BY <1>1, <1>4, Bases, Grown
<1>12. PICK j \in 0..4 : /\ j = IF d.doing = "create" THEN 0 ELSE 3
                         /\ Len(d.events) + 1 = Base(n) + j
  <2> HIDE DEF n
  <2>1. CASE d.doing = "create"
    BY <2>1, <1>1, <1>9, <1>11
  <2>2. CASE d.doing = "write"
    BY <2>2, <1>1, <1>9, <1>11
  <2> QED BY <1>1, <2>1, <2>2
<1>13. /\ Stories(s, d.ids, d.revs)
       /\ d.doing = "write" => s[Base(n) + 2] = d.events[Base(n) + 2]
  <2>1. Fits(d.events, x, n, j, d.ids, d.revs)
    <3>1. CASE d.doing = "create"
      BY <1>1, <1>8, <1>12, <3>1 DEF Fits
    <3>2. CASE d.doing = "write"
      BY <1>8, <1>9, <1>12, <3>2 DEF Fits
    <3> QED BY <1>1, <3>1, <3>2
  <2>2. d.doing = "write" => j > 2
    BY <1>12
  <2> QED BY <1>1, <1>4, <1>10, <2>1, <2>2, StoryGrows
<1>14. Place(c)
  BY <1>1, <1>7, <1>9, <1>11 DEF Place, Doing
<1>15. Story(c)
  <2>1. c.doing = "write" => c.revs[r] = c.events[Base(n) + 2].rev
    BY <1>7, <1>9, <1>13
  <2>2. WillWrite(c) => Unwritten(c.ids[r], c.revs[r])
    BY <1>1, <1>7, <1>9 DEF Story
  <2> QED BY <1>7, <1>13, <2>1, <2>2 DEF Story, Doing
<1>16. Its(c)
  BY <1>1, <1>2, <1>7 DEF Its, Doing, Finished
<1>17. Append1(e, x) /\ ~Unconfirmed(ex[e]) /\ Unconfirmed(c)
  BY <1>1, <1>2, <1>3, <1>5, <1>7 DEF Intend, Unconfirmed, Scans
<1> QED BY <1>1, <1>3, <1>4, <1>6, <1>7, <1>14, <1>15, <1>16, <1>17, RecordStep DEF Aside

LEMMA CreatedStep == ASSUME RecInv, NEW e \in Execs, Created(e) PROVE RecInv'
<1>1. PICK d \in ExecType :
        /\ d = ex[e] /\ d.step # 0 /\ Place(d) /\ Story(d) /\ Its(d)
        /\ d.events \in Seq(EventType) /\ Len(d.events) \in Nat
        /\ d.step \in Titles /\ RoleAt(d.step) \in Roles
        /\ d.doing \in {"create", "write"} /\ (d.doing = "create" => d.step # 1)
  BY Worker DEF Created, Aside
<1>2. d.at = "register" /\ d.doing = "create"
  BY <1>1 DEF Created, Place
<1> DEFINE n == d.step  r == RoleAt(d.step)
<1>3. PICK x \in EventType : /\ x = CreatedOf(e) /\ x # Completed /\ x # Stopped
                             /\ x = Event("CREATED", r, d.ids[r], 0)
  BY <1>1, Recordable DEF Role, CreatedOf
<1>4. PICK s \in Seq(EventType) : s = Append(d.events, x)
  BY <1>1, Grown
<1> DEFINE c == [[d EXCEPT !.events = s, !.todo = {}] EXCEPT !.at = "registered"]
<1>6. ex' = [ex EXCEPT ![e] = c]
  BY <1>1, <1>3, <1>4 DEF Created, Recorded
<1>7. /\ c \in ExecType /\ c.at = "registered" /\ c.step = d.step /\ c.doing = d.doing
      /\ c.events = s /\ c.ids = d.ids /\ c.revs = d.revs
  <2> HIDE DEF EventType
  <2> QED BY DEF ExecType, Scans
<1> HIDE DEF c
<1>9. Len(d.events) = Base(n) /\ ~WillWrite(c)
  BY <1>1, <1>2, <1>7 DEF Place, Doing, WillWrite
<1>10. Stories(d.events, d.ids, d.revs)
  BY <1>1 DEF Story
<1>11. Base(n) \in Int /\ Len(s) = Len(d.events) + 1 /\ 1 \in 0..4
  BY <1>1, <1>4, Bases, Grown
<1>13. Stories(s, d.ids, d.revs)
  <2>1. PICK j \in 0..4 : j = 1
    BY <1>11
  <2>2. Fits(d.events, x, n, j, d.ids, d.revs)
    BY <1>1, <1>2, <1>3, <1>9, <2>1 DEF Fits
  <2> QED BY <1>1, <1>4, <1>10, <2>2, StoryGrows
<1>14. Place(c)
  BY <1>1, <1>2, <1>7, <1>9, <1>11 DEF Place, Doing
<1>15. Story(c)
  BY <1>2, <1>7, <1>9, <1>13 DEF Story, Doing
<1>16. Its(c)
  BY <1>1, <1>2, <1>7 DEF Its, Doing, Finished
<1>17. Append1(e, x) /\ ~Unconfirmed(ex[e]) /\ Unconfirmed(c)
  BY <1>1, <1>2, <1>3, <1>7 DEF Created, Unconfirmed, Scans
<1> QED BY <1>1, <1>3, <1>4, <1>6, <1>7, <1>14, <1>15, <1>16, <1>17, RecordStep DEF Aside

LEMMA VerifyStep == ASSUME RecInv, NEW e \in Execs, Verify(e) PROVE RecInv'
<1>1. PICK d \in ExecType :
        /\ d = ex[e] /\ d.step # 0 /\ Place(d) /\ Story(d) /\ Its(d)
        /\ d.events \in Seq(EventType) /\ Len(d.events) \in Nat
        /\ d.step \in Titles /\ RoleAt(d.step) \in Roles
        /\ d.doing \in {"create", "write"} /\ (d.doing = "create" => d.step # 1)
  BY Worker DEF Verify, Aside
<1>2. d.at = "verify"
  BY <1>1 DEF Verify
<1> DEFINE n == d.step  r == RoleAt(d.step)
<1>3. PICK x \in EventType : x = VerifiedOf(e) /\ x # Completed /\ x # Stopped
  BY <1>1, Recordable
<1>4. PICK s \in Seq(EventType) : s = Append(d.events, x)
  BY <1>1, Grown
<1>5. PICK t \in SUBSET (Roles \cup {Folder}) : t = {Folder} \cup Expected(e)
  BY DEF Expected
<1>20. PICK p \in Scans : p = IF d.doing = "write" /\ n = Len(Order) + 1 THEN "last" ELSE "before"
  BY DEF Scans
<1>21. PICK m \in 1..Len(Order) + 1 :
         m = IF d.doing = "write" /\ n <= Len(Order) THEN n + 1 ELSE n
  BY <1>1, Numbered DEF Titles
<1>22. PICK w \in {"create", "write"} : w = IF d.doing = "create" THEN "write" ELSE "create"
  OBVIOUS
<1> DEFINE b == [d EXCEPT !.events = s, !.todo = {}]
           c == [b EXCEPT !.todo = t, !.at = p, !.step = m, !.doing = w]
<1>23. b.doing = d.doing /\ b.step = d.step
  BY DEF ExecType
<1>6. ex' = [ex EXCEPT ![e] = c]
  <2>1. Recorded(e, VerifiedOf(e)) = b /\ StepAfter(e) = m
    BY <1>1, <1>3, <1>4, <1>21 DEF Recorded, StepAfter
  <2>2. ex' = [ex EXCEPT ![e] = [b EXCEPT
                !.todo = t,
                !.at = IF b.doing = "write" /\ b.step = Len(Order) + 1
                       THEN "last" ELSE "before",
                !.step = m,
                !.doing = IF b.doing = "create" THEN "write" ELSE "create"]]
    BY <1>5, <2>1 DEF Verify
  <2> HIDE DEF b
  <2> QED BY <1>20, <1>22, <1>23, <2>2
<1>7. /\ c \in ExecType /\ c.at = p /\ c.step = m /\ c.doing = w
      /\ c.events = s /\ c.ids = d.ids /\ c.revs = d.revs /\ c.todo = t
  <2>1. m \in 0..Len(Order) + 1
    BY <1>21
  <2> HIDE DEF EventType
  <2> QED BY <2>1 DEF ExecType
<1> HIDE DEF c, b
<1>8. x = IF d.doing = "create" THEN Event("VERIFIED_EMPTY", r, d.ids[r], d.revs[r])
          ELSE Event("VERIFIED", r, d.ids[r], d.revs[r])
  BY <1>1, <1>3 DEF VerifiedOf, Role
<1>9. /\ d.doing = "create" => Len(d.events) = Base(n) + 1 /\ Unwritten(d.ids[r], d.revs[r])
      /\ d.doing = "write" => Len(d.events) = Base(n) + 3 /\ d.revs[r] # d.events[Base(n) + 2].rev
  BY <1>1, <1>2 DEF Place, Story, Doing, WillWrite
<1>26. /\ d.doing = "create" => Len(d.events) = Base(n) + 1
       /\ d.doing = "write" => Len(d.events) = Base(n) + 3
  BY <1>9
<1>10. Stories(d.events, d.ids, d.revs)
  BY <1>1 DEF Story
<1>11. /\ Base(n) \in Int /\ Len(s) = Len(d.events) + 1 /\ Base(n) = 5 * n - 6 /\ n \in Nat
       /\ n >= 1 /\ n <= Len(Order) + 1
  BY <1>1, <1>4, Bases, Grown, Numbered
<1>12. PICK j \in 0..4 : /\ j = IF d.doing = "create" THEN 2 ELSE 4
                         /\ Len(d.events) + 1 = Base(n) + j
  <2> HIDE DEF n
  <2>1. CASE d.doing = "create"
    BY <2>1, <1>26, <1>11
  <2>2. CASE d.doing = "write"
    BY <2>2, <1>26, <1>11
  <2> QED BY <1>1, <2>1, <2>2
<1>13. /\ Stories(s, d.ids, d.revs)
       /\ d.doing = "create" => s[Base(n) + 2] = x
  <2>1. x.rev = d.revs[r]
    BY <1>8 DEF Event
  <2>2. Fits(d.events, x, n, j, d.ids, d.revs)
    <3>1. CASE d.doing = "create"
      BY <1>1, <1>8, <1>12, <2>1, <3>1 DEF Fits
    <3>2. CASE d.doing = "write"
      BY <1>8, <1>9, <1>12, <3>2 DEF Fits
    <3> QED BY <1>1, <3>1, <3>2
  <2>3. d.doing = "create" => j = 2
    BY <1>12
  <2>4. Stories(Append(d.events, x), d.ids, d.revs)
    BY <1>1, <1>10, <2>2, StoryGrows
  <2>5. j = 2 => Append(d.events, x)[Base(n) + 2] = x
    BY <1>1, <1>12, Grown
  <2> QED BY <1>4, <2>3, <2>4, <2>5
<1>24. /\ d.doing = "create" => m = n /\ p = "before" /\ w = "write"
       /\ d.doing = "write" /\ n <= Len(Order) => m = n + 1 /\ p = "before" /\ w = "create"
       /\ d.doing = "write" /\ n = Len(Order) + 1 => m = n /\ p = "last" /\ w = "create"
       /\ n <= Len(Order) \/ n = Len(Order) + 1
  <2>1. n <= Len(Order) \/ n = Len(Order) + 1
    BY <1>11, Numbered
  <2>2. n = Len(Order) + 1 => ~(n <= Len(Order))
    BY Numbered
  <2> HIDE DEF n
  <2> QED BY <1>20, <1>21, <1>22, <2>1, <2>2
<1>25. m \in Nat /\ m >= 1 /\ Base(m) = 5 * m - 6 /\ Base(m) \in Int
  BY <1>21, Bases, Numbered DEF Titles
<1>14. Place(c)
  <2>1. CASE d.doing = "create"
    <3>1. Len(s) = Base(m) + 2
      <4>1. m = n /\ Len(d.events) = Base(n) + 1
        BY <1>26, <1>24, <2>1
      <4> HIDE DEF n
      <4> QED BY <1>11, <1>25, <4>1
    <3> QED BY <1>7, <1>24, <2>1, <3>1 DEF Place, Doing
  <2>2. CASE d.doing = "write" /\ n <= Len(Order)
    <3>1. Len(s) = Base(m) - 1 /\ m # 1
      <4>1. m = n + 1 /\ Len(d.events) = Base(n) + 3
        BY <1>26, <1>24, <2>2
      <4> HIDE DEF n
      <4> QED BY <1>11, <1>25, <4>1
    <3> QED BY <1>7, <1>24, <2>2, <3>1 DEF Place, Doing
  <2>3. CASE d.doing = "write" /\ n = Len(Order) + 1
    <3>1. Len(s) = Base(m) + 4 /\ m # 1
      <4>1. m = n /\ Len(d.events) = Base(n) + 3 /\ m = Len(Order) + 1
        BY <1>26, <1>24, <2>3
      <4> HIDE DEF n
      <4> QED BY <1>11, <1>25, <4>1, Numbered
    <3> QED BY <1>7, <1>24, <2>3, <3>1 DEF Place, Doing
  <2> QED BY <1>1, <1>24, <2>1, <2>2, <2>3
<1>15. Story(c)
  <2>1. CASE d.doing = "create"
    <3>1. c.revs[r] = c.events[Base(n) + 2].rev /\ Unwritten(c.ids[r], c.revs[r])
      BY <1>7, <1>8, <1>9, <1>13, <2>1 DEF Event
    <3> QED BY <1>7, <1>13, <1>24, <2>1, <3>1 DEF Story, Doing
  <2>2. CASE d.doing = "write"
    BY <1>7, <1>13, <1>24, <2>2 DEF Story, Doing, WillWrite
  <2> QED BY <1>1, <2>1, <2>2
<1>16. Its(c)
  <2>1. \A k \in Titles : k \in Nat /\ k <= Len(Order) + 1
    BY Numbered
  <2>2. ASSUME NEW k \in Titles
        PROVE  (k > m \/ (k = m /\ Doing(c, "create", {"before", "intent", "again", "effect"})))
                 <=> k > n
    <3>1. CASE d.doing = "create"
      BY <1>7, <1>24, <3>1 DEF Doing
    <3>2. CASE d.doing = "write" /\ n <= Len(Order)
      <4>1. (k > n + 1 \/ k = n + 1) <=> k > n
        BY <1>11, <2>1
      <4> QED BY <1>7, <1>24, <3>2, <4>1 DEF Doing
    <3>3. CASE d.doing = "write" /\ n = Len(Order) + 1
      BY <1>7, <1>24, <3>3 DEF Doing
    <3> QED BY <1>1, <1>24, <3>1, <3>2, <3>3
  <2>3. ASSUME NEW k \in Titles PROVE d.ids[RoleAt(k)] = NoId <=> k > n
    BY <1>1, <1>2 DEF Its, Doing
  <2>4. ASSUME NEW k \in Titles, Finished(c, k) PROVE Finished(d, k)
    <3>1. CASE d.doing = "create"
      BY <1>7, <1>24, <3>1, <2>4 DEF Doing, Finished
    <3>2. CASE d.doing = "write" /\ n <= Len(Order)
      <4>1. k < n + 1
        BY <1>7, <1>24, <3>2, <2>4 DEF Doing, Finished
      <4>2. k < n \/ k = n
        BY <1>11, <2>1, <4>1
      <4> QED BY <1>2, <3>2, <4>2 DEF Doing, Finished
    <3>3. CASE d.doing = "write" /\ n = Len(Order) + 1
      <4>1. k < n \/ k = n
        BY <1>11, <2>1, <3>3
      <4> QED BY <1>2, <3>3, <4>1 DEF Doing, Finished
    <3> QED BY <1>1, <1>24, <3>1, <3>2, <3>3
  <2> QED BY <1>1, <1>7, <2>2, <2>3, <2>4 DEF Its
<1>17. Append1(e, x) /\ ~Unconfirmed(ex[e]) /\ Unconfirmed(c)
  BY <1>1, <1>2, <1>3, <1>5, <1>7 DEF Verify, Unconfirmed, Scans
<1>18. c.at \notin Aside /\ c.step # 0
  BY <1>7, <1>24, <1>25, <1>1 DEF Aside
<1> QED BY <1>1, <1>3, <1>4, <1>6, <1>7, <1>14, <1>15, <1>16, <1>17, <1>18, RecordStep

--------------------------------------------------------------------------------
(***************************************************************************)
(* The story of an executor that has come to its end is a whole account.   *)
(***************************************************************************)
LEMMA CompleteIsWhole ==
  ASSUME RecInv, NEW e \in Execs, ex[e].at = "complete", sidecar = ex[e].events,
         UNCHANGED vars, sidecar' = Append(sidecar, Completed)
  PROVE  Meant'
<1>1. PICK d \in ExecType :
        /\ d = ex[e] /\ d.step # 0 /\ Place(d) /\ Story(d) /\ Its(d)
        /\ d.events \in Seq(EventType) /\ Len(d.events) \in Nat
        /\ d.step \in Titles /\ RoleAt(d.step) \in Roles
        /\ d.doing \in {"create", "write"} /\ (d.doing = "create" => d.step # 1)
  BY Worker DEF Aside
<1>2. PICK s \in Seq(EventType) : s = d.events
  BY <1>1
<1>3. PICK t \in Seq(EventType) : t = Append(s, Completed) /\ t = sidecar'
  BY <1>1, <1>2, Events, Grown
<1>4. PICK ids \in [Roles -> Ids \cup {NoId}] : ids = d.ids
  BY DEF ExecType
<1>5. PICK revs \in [Roles -> Nat] : revs = d.revs
  BY DEF ExecType
<1>6. Len(s) = Base(Len(Order) + 1) + 4 /\ d.step = Len(Order) + 1
  BY <1>1, <1>2 DEF Place
<1>7. Len(s) = 5 * Len(Order) + 3
  <2>1. Base(Len(Order) + 1) = 5 * (Len(Order) + 1) - 6
    BY Bases, Numbered
  <2> QED BY <1>6, <2>1, Numbered
<1>8. /\ Len(t) = 5 * Len(Order) + 4 /\ t # << >> /\ t[Len(t)] = Completed
      /\ \A m \in 1..Len(s) : t[m] = s[m]
  <2>1. Len(t) = Len(s) + 1 /\ t # << >> /\ t[Len(s) + 1] = Completed
        /\ \A m \in 1..Len(s) : t[m] = s[m]
    <3>1. PICK x \in EventType : x = Completed
      BY Events
    <3>2. /\ Len(Append(s, x)) = Len(s) + 1 /\ Append(s, x) # << >>
          /\ Append(s, x)[Len(s) + 1] = x
          /\ \A m \in 1..Len(s) : Append(s, x)[m] = s[m]
      BY Grown
    <3>3. t = Append(s, x)
      BY <1>3, <3>1
    <3> QED BY <3>1, <3>2, <3>3
  <2> QED BY <1>7, <2>1, Numbered
<1>9. ASSUME NEW k \in Titles
      PROVE  /\ Base(k) + 2 \in 1..Len(s) /\ Base(k) + 3 \in 1..Len(s)
             /\ Base(k) + 4 \in 1..Len(s)
             /\ k > 1 => Base(k) \in 1..Len(s) /\ Base(k) + 1 \in 1..Len(s)
  <2>1. k \in Nat /\ k >= 1 /\ k <= Len(Order) + 1 /\ Base(k) = 5 * k - 6
    BY Numbered, Bases
  <2> QED BY <1>7, <2>1, Numbered
<1>10. ASSUME NEW k \in Titles
       PROVE  LET r == RoleAt(k)  b == Base(k)  m == t[b + 2].rev IN
                /\ k > 1 => t[b] = Event("INTENT_CREATE", r, NoId, 0)
                /\ k > 1 => t[b + 1] = Event("CREATED", r, ids[r], 0)
                /\ t[b + 2] = IF k = 1 THEN Begin(ids[r], m)
                              ELSE Event("VERIFIED_EMPTY", r, ids[r], m)
                /\ t[b + 3] = Event("INTENT_WRITE", r, ids[r], m)
                /\ t[b + 4] = Event("VERIFIED", r, ids[r], revs[r]) /\ revs[r] # m
  <2>1. Told(s, k, ids[RoleAt(k)], revs[RoleAt(k)])
    BY <1>1, <1>2, <1>4, <1>5 DEF Story, Stories
  <2>2. /\ t[Base(k) + 2] = s[Base(k) + 2] /\ t[Base(k) + 3] = s[Base(k) + 3]
        /\ t[Base(k) + 4] = s[Base(k) + 4]
        /\ k > 1 => t[Base(k)] = s[Base(k)] /\ t[Base(k) + 1] = s[Base(k) + 1]
    BY <1>8, <1>9
  <2>3. /\ Base(k) + 2 <= Len(s) /\ Base(k) + 3 <= Len(s) /\ Base(k) + 4 <= Len(s)
        /\ k > 1 => Base(k) <= Len(s) /\ Base(k) + 1 <= Len(s)
    BY <1>9
  <2> QED BY <2>1, <2>2, <2>3 DEF Told
<1>11. /\ pc' = pc /\ disk' = disk /\ role' = role /\ wrote' = wrote /\ sidecar' = t
  BY <1>3 DEF vars, drive
<1>12. \A k \in Titles : IdAt(k)' = ids[RoleAt(k)]
  <2>1. ids[First] = disk.documents[First] /\ RoleAt(1) = First
    BY <1>1, <1>4, TitlesAreRoles DEF Its
  <2>2. ASSUME NEW k \in Titles, k # 1 PROVE t[Base(k) + 1].id = ids[RoleAt(k)]
    <3>1. k > 1
      BY <2>2, Numbered
    <3>2. t[Base(k) + 1] = Event("CREATED", RoleAt(k), ids[RoleAt(k)], 0)
      BY <1>10, <3>1
    <3> QED BY <3>2 DEF Event
  <2> QED BY <1>11, <2>1, <2>2 DEF IdAt
<1>13. \A k \in Titles : RevAt(k)' = revs[RoleAt(k)]
  <2>1. ASSUME NEW k \in Titles PROVE t[Base(k) + 4].rev = revs[RoleAt(k)]
    <3>1. t[Base(k) + 4] = Event("VERIFIED", RoleAt(k), ids[RoleAt(k)], revs[RoleAt(k)])
      BY <1>10
    <3> QED BY <3>1 DEF Event
  <2>2. Base(1) + 4 = 3
    BY Bases
  <2> QED BY <1>11, <2>1, <2>2, Numbered DEF RevAt
<1>14. \A k \in Titles : ids[RoleAt(k)] # NoId
  <2>1. \A k \in Titles : ~(k > d.step)
    BY <1>6, Numbered
  <2>2. ~Doing(d, "create", {"before", "intent", "again", "effect"})
    BY <1>1 DEF Doing
  <2> QED BY <1>1, <1>4, <2>1, <2>2 DEF Its
<1>15. \A r \in Roles : ids[r] # NoId /\ role[ids[r]] = r
  BY <1>1, <1>4, <1>14, TitlesAreRoles DEF Its
<1>16. ASSUME NEW j \in Titles, NEW k \in Titles, ids[RoleAt(j)] = ids[RoleAt(k)] PROVE j = k
  BY SMTT(30), <1>15, <1>16, TitlesAreRoles
<1>17. Account'
  <2>1. t[Base(Len(Order) + 2)] = Completed
    BY <1>8, Bases
  <2>2. /\ t[1] = Begin(IdAt(1)', t[1].rev)
        /\ t[2] = Event("INTENT_WRITE", First, IdAt(1)', t[1].rev)
        /\ t[3] = Event("VERIFIED", First, IdAt(1)', RevAt(1)') /\ RevAt(1)' # t[1].rev
    <3>1. Base(1) + 2 = 1 /\ Base(1) + 3 = 2 /\ Base(1) + 4 = 3 /\ 1 \in Titles /\ RoleAt(1) = First
      BY SMTT(30), Bases, Numbered, TitlesAreRoles
    <3>2. IdAt(1)' = ids[First] /\ RevAt(1)' = revs[First]
      BY <1>12, <1>13, <3>1
    <3> QED BY <1>10, <3>1, <3>2
  <2>3. ASSUME NEW k \in 2..Len(Order) + 1 PROVE CreatedAndWritten(k)'
    <3>1. k \in Titles /\ k > 1 /\ k # 1
      BY Numbered DEF Titles
    <3>2. IdAt(k)' = ids[RoleAt(k)] /\ RevAt(k)' = revs[RoleAt(k)]
      BY <1>12, <1>13, <3>1
    <3> QED BY <1>10, <1>11, <3>1, <3>2 DEF CreatedAndWritten
  <2>4. \A j, k \in 1..Len(Order) + 1 : IdAt(j)' = IdAt(k)' => j = k
    BY <1>12, <1>16 DEF Titles
  <2> QED BY <1>11, <2>1, <2>2, <2>3, <2>4 DEF Account
<1>18. Manifest' = ids
  <2>1. \A k \in Titles : PositionOf(RoleAt(k)) = k
    BY TitlesAreRoles DEF PositionOf, Titles
  <2>2. ASSUME NEW r \in Roles PROVE IdAt(PositionOf(r))' = ids[r]
    <3>1. PICK k \in Titles : RoleAt(k) = r
      BY TitlesAreRoles
    <3>2. PositionOf(r) = k
      BY <2>1, <3>1
    <3> QED BY <1>12, <3>1, <3>2
  <2>3. Manifest' = [r \in Roles |-> IdAt(PositionOf(r))']
    BY DEF Manifest
  <2> QED BY <2>2, <2>3
<1>19. Holds(Baseline, ids)
  <2>1. \A k \in Titles : wrote[ids[RoleAt(k)]] = Body(ids, RoleAt(k))
    BY <1>1, <1>4 DEF Its, Finished
  <2>2. \A r \in Roles : wrote[ids[r]] = Body(ids, r)
    BY <2>1, TitlesAreRoles
  <2>3. /\ \A r \in Records : r \in Roles /\ Body(ids, r) = Markdown(Baseline, r)
        /\ Current \in Roles /\ Body(ids, Current) = Index(Baseline, [q \in Records |-> ids[q]])
    BY NamesAssumption DEF Body, Roles
  <2> QED BY <1>15, <2>2, <2>3 DEF Holds
<1>20. \A i \in Ids : role[i] # NoRole => i = disk.folder \/ \E r \in Roles : ids[r] = i
  BY <1>1, <1>4 DEF Its
<1> QED BY <1>11, <1>17, <1>18, <1>19, <1>20 DEF Meant, Holds

(***************************************************************************)
(* COMPLETE is where it belongs, or somebody has said STOPPED before it.   *)
(***************************************************************************)
LEMMA CompleteEnds ==
  ASSUME RecInv, NEW e \in Execs, ex[e].at = "complete", Readable,
         UNCHANGED vars, sidecar' = Append(sidecar, Completed)
  PROVE  /\ Ends' /\ Meant' /\ sidecar' # << >> /\ sidecar' \in Seq(EventType)
         /\ ex[e].events \in Seq(EventType) /\ Len(ex[e].events) = Whole - 1
<1>1. /\ ex[e].step # 0 /\ ~Unconfirmed(ex[e])
      /\ sidecar \in Seq(EventType) /\ Completed \in EventType
  BY Events DEF RecInv, RecoveryInv, RecoveryTypeOK, Asides, Aside, Unconfirmed, Scans
<1>2. PICK s \in Seq(EventType) : s = ex[e].events /\ Len(s) >= 1 /\ Len(s) \in Nat
  BY <1>1, WorkerIsFrozen
<1>3. /\ \A n \in 1..Len(s) : s[n] # Stopped
      /\ Len(s) <= Len(sidecar)
      /\ \A n \in 1..Len(sidecar) :
           IF n <= Len(s) THEN sidecar[n] = s[n] ELSE sidecar[n] \in {Stopped, Torn}
  BY <1>1, <1>2, Confirmed DEF RecInv, Works, Follows
<1>4. Len(s) = Whole - 1
  <2>1. Len(s) = Base(ex[e].step) + 4 /\ ex[e].step = Len(Order) + 1
    BY <1>1, <1>2 DEF RecInv, Works, Place
  <2> QED BY <2>1, Lines
<1>5. PICK l \in Nat : l = Len(sidecar)
  BY <1>1
<1>6. PICK u \in Seq(EventType) : u = sidecar'
  BY <1>1, Grown
<1>7. /\ u # << >> /\ Len(u) = l + 1 /\ u[l + 1] = Completed
      /\ \A n \in 1..l : u[n] = sidecar[n]
  BY <1>1, <1>5, <1>6, Grown
<1>8. CASE l = Len(s)
  <2>1. sidecar = s
    <3>1. PICK v \in Seq(EventType) : v = sidecar
      BY <1>1
    <3>2. Len(v) = Len(s)
      BY <1>5, <1>8, <3>1
    <3>4. ASSUME NEW n \in 1..Len(s) PROVE v[n] = s[n]
      <4>1. n \in 1..Len(sidecar) /\ n <= Len(s)
        BY <1>2, <3>1, <3>2
      <4> QED BY <1>3, <3>1, <4>1
    <3>3. v = [n \in 1..Len(v) |-> v[n]] /\ s = [n \in 1..Len(s) |-> s[n]]
      OBVIOUS
    <3> QED BY <3>1, <3>2, <3>3, <3>4
  <2>2. Meant'
    BY <1>2, <2>1, CompleteIsWhole
  <2>3. ASSUME NEW n \in 1..Len(u) PROVE n <= Whole /\ u[n] # Stopped
    <3>1. CASE n = l + 1
      BY <1>4, <1>7, <1>8, <3>1, Events, Lines
    <3>2. CASE n \in 1..l
      BY <1>3, <1>4, <1>7, <1>8, <2>1, <3>2, Lines
    <3> QED BY <1>5, <1>7, <3>1, <3>2
  <2>4. Closed'
    BY <1>4, <1>6, <1>7, <1>8, Lines DEF Closed, Whole
  <2>5. Ends'
    BY <1>6, <2>3, <2>4 DEF Ends, Whole
  <2> QED BY <1>2, <1>4, <1>6, <1>7, <2>2, <2>5
<1>9. CASE l # Len(s)
  <2>1. Whole \in 1..l /\ l \in 1..l /\ ~(Whole <= Len(s)) /\ ~(l <= Len(s))
    BY <1>2, <1>3, <1>4, <1>5, <1>9, Lines
  <2>2. u[Whole] \in {Stopped, Torn} /\ u[l] \in {Stopped, Torn} /\ u[l] # Torn
    BY <1>3, <1>5, <1>7, <2>1 DEF Readable
  <2>3. ~Closed'
    BY <1>6, <2>2, Events DEF Closed, Whole
  <2>4. Spoiled'
    <3>1. l \in 1..Len(u)
      BY <1>7, <2>1
    <3> QED BY <1>6, <2>2, <3>1 DEF Spoiled
  <2>5. Ends' /\ Meant'
    BY <2>3, <2>4 DEF Ends, Meant
  <2> QED BY <1>2, <1>4, <1>6, <1>7, <2>5
<1> QED BY <1>8, <1>9

(***************************************************************************)
(* An executor at its end, whatever has become of the sidecar.             *)
(***************************************************************************)
LEMMA EndsStep ==
  ASSUME RecInv, NEW e \in Execs, NEW c \in ExecType, ex' = [ex EXCEPT ![e] = c],
         c.step = 0, c.at \in {"idle", "failed", "closed"}, Asides(c)',
         UNCHANGED <<vars, claimed, backup, plan, tries>>,
         ~Closed, Frozen, \A f \in Execs : f # e => ex[f].step = 0,
         Ends', Meant', sidecar' # << >>, sidecar' \in Seq(EventType)
  PROVE  RecInv'
<1>1. IInv' /\ UNCHANGED <<pc, disk>>
  BY Stutter DEF RecInv, RecoveryInv, vars
<1>2. Works(c)'
  BY DEF Works
<1> QED BY <1>1, <1>2, OpenStep

LEMMA CompleteStep == ASSUME RecInv, NEW e \in Execs, Complete(e) PROVE RecInv'
<1>1. /\ ex[e].at = "complete" /\ Readable /\ sidecar' = Append(sidecar, Completed)
      /\ UNCHANGED <<vars, claimed, backup, plan, tries>> /\ ex[e].step # 0
  BY DEF Complete, Append1, RecInv, Asides, Aside
<1>2. /\ Ends' /\ Meant' /\ sidecar' # << >> /\ sidecar' \in Seq(EventType)
  BY <1>1, CompleteEnds
<1>3. ~Closed /\ Frozen /\ \A f \in Execs : f # e => ex[f].step = 0
  BY <1>1, WorkerIsFrozen
<1>4. PICK s \in Seq(EventType) : s = ex[e].events /\ Len(s) = Whole - 1
  BY <1>1, CompleteEnds
<1>5. PICK t \in Seq(EventType) : t = Append(s, Completed)
  BY Events, Grown
<1>6. Len(t) = Whole /\ t[Whole] = Completed
  <2>1. Len(t) = Len(s) + 1 /\ t[Len(s) + 1] = Completed
    BY <1>5, Events, Grown
  <2> QED BY <1>4, <2>1, Lines
<1>7. PICK i \in Ids \cup {NoId} : i = ex[e].ids[First]
  BY TitlesAreRoles DEF RecInv, RecoveryInv, RecoveryTypeOK, ExecType
<1>8. PICK d \in ExecType : d = NoWork
  BY NoWorkIs
<1> DEFINE c == [d EXCEPT !.at = "closed", !.ids[First] = i, !.events = t]
<1>9. ex' = [ex EXCEPT ![e] = c]
  BY <1>4, <1>5, <1>7, <1>8 DEF Complete
<1>10. c \in ExecType /\ c.at = "closed" /\ c.step = d.step /\ c.events = t
  <2> HIDE DEF EventType
  <2> QED BY DEF ExecType
<1>11. c.step = 0
  BY <1>8, <1>10, NoWorkIs
<1> HIDE DEF c
<1>12. Asides(c)'
  BY <1>6, <1>10, <1>11 DEF Asides, Aside, Whole
<1> QED BY <1>1, <1>2, <1>3, <1>9, <1>10, <1>11, <1>12, EndsStep

LEMMA AppendFailsStep == ASSUME RecInv, NEW e \in Execs, AppendFails(e) PROVE RecInv'
<1>1. /\ ex[e].at \in Recording \cup {"claim"}
      /\ UNCHANGED <<vars, claimed, backup, plan, tries>>
      /\ sidecar' \in {Append(sidecar, Pending(e)), Append(sidecar, Torn)}
      /\ sidecar \in Seq(EventType)
  BY DEF AppendFails, RecInv, RecoveryInv, RecoveryTypeOK
<1>2. PICK c \in ExecType :
        /\ ex' = [ex EXCEPT ![e] = c] /\ c.step = 0 /\ c.at \in {"idle", "failed"}
        /\ Asides(c)'
  BY Leaving DEF AppendFails
<1>3. CASE ex[e].at = "claim"
  <2>1. sidecar = << >>
    BY <1>3 DEF AppendFails, Unclaimed, Recording
  <2>2. /\ ~Closed /\ Frozen /\ \A f \in Execs : ex[f].step = 0
        /\ Pending(e) \in EventType /\ Pending(e) # Completed
    BY <1>3, <2>1, ClaimFacts, Events DEF Pending
  <2>3. PICK x \in EventType : x # Completed /\ sidecar' = <<x>>
    BY <1>1, <2>1, <2>2, Events
  <2>4. Len(sidecar') = 1 /\ sidecar'[1] # Completed
    BY <2>3
  <2>5. Ends' /\ Meant'
    BY <2>4, Lines DEF Ends, Meant, Closed, Whole
  <2>6. sidecar' # << >> /\ sidecar' \in Seq(EventType)
    BY <2>3
  <2> QED BY <1>1, <1>2, <2>2, <2>5, <2>6, EndsStep
<1>4. CASE ex[e].at # "claim"
  <2>1. Readable /\ ex[e].at \in Recording /\ ex[e].step # 0
    BY <1>1, <1>4 DEF AppendFails, Recording, Aside, RecInv, Asides
  <2>2. ~Closed /\ Frozen /\ \A f \in Execs : f # e => ex[f].step = 0
    BY <2>1, WorkerIsFrozen
  <2>3. CASE sidecar' = Append(sidecar, Completed) /\ ex[e].at = "complete"
    BY <1>1, <1>2, <2>1, <2>2, <2>3, CompleteEnds, EndsStep
  <2>4. CASE \E x \in EventType : sidecar' = Append(sidecar, x) /\ x # Completed
    BY <1>1, <1>2, <2>1, <2>2, <2>4, OpenAfter, EndsStep
  <2>5. ex[e].at # "complete" => Pending(e) \in EventType /\ Pending(e) # Completed
    BY <2>1, Recordable DEF Pending, Recording
  <2>6. ex[e].at = "complete" => Pending(e) = Completed
    BY DEF Pending
  <2> QED BY <1>1, <2>3, <2>4, <2>5, <2>6, Events
<1> QED BY <1>3, <1>4

--------------------------------------------------------------------------------
(***************************************************************************)
(* The effects on Drive.  The publisher is idle and its journal pending,   *)
(* so of its invariant only what is said of Drive is at stake.             *)
(***************************************************************************)
LEMMA IdleEffect ==
  ASSUME IInv, pc = "idle", disk.pending # << >>, UNCHANGED <<disk, publisher>>, Facts',
         role' \in [Ids -> Roles \cup {Folder, NoRole}],
         body' \in [Ids -> Written \cup {NoDoc, Empty, Foreign}],
         wrote' \in [Ids -> Written \cup {NoDoc, Empty}],
         rev' \in [Ids -> Nat], placed' \in [Ids -> BOOLEAN]
  PROVE  IInv'
<1>1. /\ pc' = "idle" /\ disk' = disk /\ UNCHANGED <<args, mem, work, result, bounds>>
      /\ purpose' = purpose /\ attempted' = attempted /\ at' = at
  BY DEF publisher, work
<1>2. TypeOK'
  BY <1>1 DEF IInv, TypeOK, args, work, bounds
<1>3. purpose = "none" /\ ~attempted
  BY DEF IInv, RunFacts, Stages
<1>4. Copy' /\ Views' /\ Plans' /\ Armed' /\ Announcing'
  BY <1>1, <1>3 DEF Copy, Views, Plans, Planned, Armed, Settling, Announcing
<1>5. Stages'
  BY <1>1, <1>3 DEF IInv, RunFacts, Stages, InInit, InEffect, Settling, MadeNotListed
<1>6. Orphanage'
  BY <1>1 DEF Orphanage, MadeNotListed
<1>7. CompleteIsPublished'
  BY <1>1 DEF IInv, CompleteIsPublished
<1> QED BY <1>2, <1>4, <1>5, <1>6, <1>7 DEF IInv, RunFacts

(***************************************************************************)
(* A title that is about to be created has no file yet, listed or not.     *)
(***************************************************************************)
LEMMA FreshTitle ==
  ASSUME IInv, Frozen, NEW c \in ExecType, c.step # 0, Place(c), Its(c),
         Doing(c, "create", {"before", "intent", "again", "effect"})
  PROVE  /\ c.ids[RoleAt(c.step)] = NoId /\ RoleAt(c.step) # First
         /\ \A j \in Ids : role[j] # RoleAt(c.step)
<1>1. PICK r \in Roles : r = RoleAt(c.step) /\ c.step \in Titles
  BY WrittenTyped
<1>2. c.ids[r] = NoId
  BY <1>1 DEF Its
<1>3. r # First
  BY <1>1, Numbered, TitlesAreRoles DEF Place, Doing
<1>4. role[disk.folder] # r /\ r # NoRole
  BY AtIncident, OrderAssumption DEF Frozen, IInv, Facts, Truth
<1>5. ASSUME NEW j \in Ids, role[j] = r PROVE FALSE
  <2>1. PICK q \in Roles : c.ids[q] = j
    BY <1>4, <1>5 DEF Its
  <2>2. role[c.ids[q]] = q
    BY <2>1, NamesAssumption DEF Its
  <2> QED BY <1>2, <1>5, <2>1, <2>2, NamesAssumption
<1> QED BY <1>1, <1>2, <1>3, <1>5

LEMMA CreateFacts ==
  ASSUME RecInv, NEW e \in Execs, CreateRemote(e)
  PROVE  /\ IInv' /\ UNCHANGED <<disk, publisher>> /\ pc = "idle" /\ disk.pending # << >>
         /\ ex[e].at = "effect" /\ ex[e].step # 0 /\ Role(e) \in Roles
         /\ \E i \in Ids :
              /\ Land(i, Role(e)) /\ role[i] = NoRole
              /\ \A j \in Ids : role'[j] = IF j = i THEN Role(e) ELSE role[j]
              /\ \A j \in Ids : j # i => wrote'[j] = wrote[j] /\ rev'[j] = rev[j]
              /\ ex' = [ex EXCEPT ![e].at = "created", ![e].ids[Role(e)] = i] \/ GivesUp(e)
<1>1. PICK d \in ExecType :
        /\ d = ex[e] /\ d.step # 0 /\ Place(d) /\ Story(d) /\ Its(d)
        /\ d.events \in Seq(EventType) /\ Len(d.events) \in Nat
        /\ d.step \in Titles /\ RoleAt(d.step) \in Roles
        /\ d.doing \in {"create", "write"} /\ (d.doing = "create" => d.step # 1)
  BY Worker DEF CreateRemote, Aside
<1>2. d.at = "effect" /\ d.doing = "create" /\ Role(e) = RoleAt(d.step)
  BY <1>1 DEF CreateRemote, Role
<1>3. IInv /\ Frozen /\ pc = "idle" /\ disk.pending # << >>
  BY <1>1, WorkerIsFrozen, AtIncident DEF RecInv, RecoveryInv, Frozen
<1>4. \A j \in Ids : role[j] # Role(e)
  BY <1>1, <1>2, <1>3, FreshTitle DEF Doing
<1>5. PICK i \in Ids :
        /\ Land(i, Role(e))
        /\ ex' = [ex EXCEPT ![e].at = "created", ![e].ids[Role(e)] = i] \/ GivesUp(e)
  BY DEF CreateRemote
<1>6. UNCHANGED <<disk, publisher>>
  BY <1>5 DEF CreateRemote, Land, publisher
<1>7. /\ Facts' /\ role' \in [Ids -> Roles \cup {Folder, NoRole}]
      /\ body' \in [Ids -> Written \cup {NoDoc, Empty, Foreign}]
      /\ wrote' \in [Ids -> Written \cup {NoDoc, Empty}]
      /\ rev' \in [Ids -> Nat] /\ placed' \in [Ids -> BOOLEAN]
      /\ \A j \in Ids : role'[j] = IF j = i THEN Role(e) ELSE role[j]
      /\ \A j \in Ids : wrote'[j] = IF j = i THEN Empty ELSE wrote[j]
  BY <1>1, <1>2, <1>3, <1>4, <1>5, Lands
<1>8. IInv'
  BY <1>3, <1>6, <1>7, IdleEffect
<1>9. role[i] = NoRole /\ \A j \in Ids : j # i => rev'[j] = rev[j]
  BY <1>3, <1>5 DEF Land, IInv, TypeOK
<1> QED BY <1>1, <1>2, <1>3, <1>5, <1>6, <1>7, <1>8, <1>9

(***************************************************************************)
(* A worker whose effect has changed Drive and not the sidecar.            *)
(***************************************************************************)
LEMMA EffectStep ==
  ASSUME RecInv, NEW e \in Execs, NEW c \in ExecType, ex' = [ex EXCEPT ![e] = c],
         IInv', UNCHANGED <<pc, disk, sidecar, claimed, backup, plan, tries>>,
         ex[e].step # 0, ex[e].at = "effect", c.step = ex[e].step, c.events = ex[e].events,
         c.at \notin Aside, Place(c), Story(c)', Its(c)'
  PROVE  RecInv'
<1>1. /\ ~Closed /\ Frozen /\ sidecar # << >>
      /\ \A f \in Execs : f # e => ex[f].step = 0
  BY WorkerIsFrozen
<1>2. sidecar' # << >> /\ sidecar' \in Seq(EventType)
  BY <1>1 DEF RecInv, RecoveryInv, RecoveryTypeOK
<1>5. Ends' /\ Meant'
  BY <1>1 DEF RecInv, Ends, Meant, Closed, Spoiled
<1>6. Follows(ex[e])
  BY Confirmed DEF Unconfirmed, Scans
<1>3. Works(c)'
  BY <1>6 DEF RecInv, Works, Follows
<1>4. Asides(c)'
  BY DEF Asides, Aside
<1> QED BY <1>1, <1>2, <1>3, <1>4, <1>5, OpenStep DEF Aside

LEMMA CreateRemoteStep == ASSUME RecInv, NEW e \in Execs, CreateRemote(e) PROVE RecInv'
<1>1. PICK d \in ExecType :
        /\ d = ex[e] /\ d.step # 0 /\ Place(d) /\ Story(d) /\ Its(d)
        /\ d.events \in Seq(EventType) /\ Len(d.events) \in Nat
        /\ d.step \in Titles /\ RoleAt(d.step) \in Roles
        /\ d.doing \in {"create", "write"} /\ (d.doing = "create" => d.step # 1)
  BY Worker DEF CreateRemote, Aside
<1>2. d.at = "effect" /\ d.doing = "create" /\ Role(e) = RoleAt(d.step)
  BY <1>1 DEF CreateRemote, Role
<1>3. /\ IInv' /\ UNCHANGED <<disk, publisher>> /\ pc' = pc /\ IInv /\ Frozen
      /\ RecoveryTypeOK
  BY <1>1, CreateFacts, WorkerIsFrozen DEF publisher, RecInv, RecoveryInv
<1>8. UNCHANGED <<sidecar, claimed, backup, plan, tries>>
  BY DEF CreateRemote
<1> DEFINE n == d.step
<1>4. PICK r \in Roles : r = RoleAt(n) /\ r = Role(e)
  BY <1>1, <1>2
<1>5. PICK i \in Ids :
        /\ role[i] = NoRole
        /\ \A j \in Ids : role'[j] = IF j = i THEN r ELSE role[j]
        /\ \A j \in Ids : j # i => wrote'[j] = wrote[j]
        /\ ex' = [ex EXCEPT ![e].at = "created", ![e].ids[r] = i] \/ GivesUp(e)
  BY <1>4, CreateFacts
<1>6. CASE GivesUp(e)
  BY <1>1, <1>3, <1>6, <1>8, GivesUpStep
<1>7. CASE ex' = [ex EXCEPT ![e].at = "created", ![e].ids[r] = i]
  <2> DEFINE c == [d EXCEPT !.at = "created", !.ids[r] = i]
  <2>1. ex' = [ex EXCEPT ![e] = c]
    BY <1>1, <1>3, <1>7 DEF RecoveryTypeOK
  <2>2. /\ c \in ExecType /\ c.at = "created" /\ c.step = d.step /\ c.doing = d.doing
        /\ c.events = d.events /\ c.revs = d.revs
        /\ c.ids = [d.ids EXCEPT ![r] = i] /\ d.ids \in [Roles -> Ids \cup {NoId}]
    <3> HIDE DEF EventType
    <3> QED BY DEF ExecType, Scans
  <2> HIDE DEF c
  <2>3. c.ids[r] = i /\ \A q \in Roles : q # r => c.ids[q] = d.ids[q]
    BY <2>2
  <2>4. d.ids[r] = NoId /\ r # First /\ i # NoId /\ r # NoRole
    BY <1>1, <1>2, <1>3, <1>4, FreshTitle, NamesAssumption, OrderAssumption DEF Doing
  <2>5. \A k \in Titles : RoleAt(k) \in Roles /\ (RoleAt(k) = r <=> k = n)
    BY <1>1, <1>4, TitlesAreRoles
  <2>6. Place(c)
    BY <1>1, <1>2, <2>2 DEF Place, Doing
  <2>7. Stories(c.events, c.ids, c.revs)
    <3>1. ASSUME NEW k \in Titles PROVE Told(c.events, k, c.ids[RoleAt(k)], c.revs[RoleAt(k)])
      <4>1. Told(d.events, k, d.ids[RoleAt(k)], d.revs[RoleAt(k)])
        BY <1>1 DEF Story, Stories
      <4>2. CASE k # n
        BY <2>2, <2>3, <2>5, <4>1, <4>2
      <4>3. CASE k = n
        <5>1. Len(d.events) = Base(k)
          BY <1>1, <1>2, <4>3 DEF Place, Doing
        <5>2. Base(k) \in Int
          BY Bases
        <5>3. /\ ~(Base(k) + 1 <= Len(d.events)) /\ ~(Base(k) + 2 <= Len(d.events))
              /\ ~(Base(k) + 3 <= Len(d.events)) /\ ~(Base(k) + 4 <= Len(d.events))
          BY <5>1, <5>2
        <5> QED BY <2>2, <4>1, <5>3 DEF Told
      <4> QED BY <4>2, <4>3
    <3> QED BY <3>1 DEF Stories
  <2>8. Story(c)'
    BY <1>2, <2>2, <2>7 DEF Story, Doing, WillWrite
  <2>9. Its(c)'
    <3>1. First \in Roles /\ c.ids[First] = disk.documents[First]
      BY <1>1, <2>3, <2>4, TitlesAreRoles DEF Its
    <3>2. ASSUME NEW q \in Roles, c.ids[q] # NoId PROVE role'[c.ids[q]] = q
      <4>1. CASE q = r
        BY <1>5, <2>3, <4>1
      <4>2. CASE q # r
        <5>1. d.ids[q] # NoId /\ c.ids[q] = d.ids[q] /\ d.ids[q] \in Ids
          BY <2>2, <2>3, <3>2, <4>2
        <5>2. role[d.ids[q]] = q /\ q # NoRole
          BY <1>1, <5>1, OrderAssumption DEF Its
        <5> QED BY <1>5, <5>1, <5>2
      <4> QED BY <4>1, <4>2
    <3>3. ASSUME NEW k \in Titles PROVE c.ids[RoleAt(k)] = NoId <=> k > n
      <4>1. d.ids[RoleAt(k)] = NoId <=> k > n \/ k = n
        BY <1>1, <1>2 DEF Its, Doing
      <4>2. k = n => ~(k > n)
        BY Numbered
      <4> QED BY <2>3, <2>4, <2>5, <4>1, <4>2
    <3>4. ASSUME NEW j \in Ids, role'[j] # NoRole
          PROVE  j = disk.folder \/ \E q \in Roles : c.ids[q] = j
      <4>1. CASE j = i
        BY <2>3, <4>1
      <4>2. CASE j # i
        <5>1. j = disk.folder \/ \E q \in Roles : d.ids[q] = j
          BY <1>1, <1>5, <3>4, <4>2 DEF Its
        <5> QED BY <2>3, <2>4, <5>1, NamesAssumption
      <4> QED BY <4>1, <4>2
    <3>5. ASSUME NEW k \in Titles, Finished(c, k)
          PROVE  wrote'[c.ids[RoleAt(k)]] = Body(c.ids, RoleAt(k))
      <4>1. k < n
        BY <1>2, <2>2, <3>5 DEF Finished, Doing
      <4>2. k # n /\ k \in 1..Len(Order)
        BY <1>1, <4>1, Numbered DEF Titles
      <4>3. RoleAt(k) \in Records /\ RoleAt(k) # Current /\ RoleAt(k) # r
        BY <2>5, <4>2, Numbered, NamesAssumption
      <4>4. wrote[d.ids[RoleAt(k)]] = Body(d.ids, RoleAt(k)) /\ d.ids[RoleAt(k)] \in Ids
        BY <1>1, <4>1, WrittenTyped DEF Its, Finished
      <4>5. d.ids[RoleAt(k)] # i
        BY <1>1, <1>5, <2>5, <4>4, OrderAssumption, NamesAssumption DEF Its
      <4> QED BY <1>5, <2>3, <2>5, <4>3, <4>4, <4>5 DEF Body
    <3>6. disk' = disk
      BY <1>3
    <3> QED BY <1>2, <2>2, <3>1, <3>2, <3>3, <3>4, <3>5, <3>6 DEF Its, Doing
  <2> QED BY <1>1, <1>2, <1>3, <1>8, <2>1, <2>2, <2>6, <2>8, <2>9, EffectStep DEF Aside
<1> QED BY <1>5, <1>6, <1>7

LEMMA WriteFacts ==
  ASSUME RecInv, NEW e \in Execs, WriteRemote(e)
  PROVE  LET i == ex[e].ids[Role(e)]  t == Body(ex[e].ids, Role(e)) IN
           /\ IInv' /\ UNCHANGED <<role, disk, publisher>> /\ pc = "idle" /\ disk.pending # << >>
           /\ ex[e].at = "effect" /\ ex[e].step # 0
           /\ i \in Ids /\ Role(e) \in Roles /\ role[i] = Role(e)
           /\ body[i] = Empty /\ rev[i] = ex[e].revs[Role(e)]
           /\ wrote' = [wrote EXCEPT ![i] = t] /\ t \in Written
           /\ \A j \in Ids : j # i => rev'[j] = rev[j]
<1>1. PICK d \in ExecType :
        /\ d = ex[e] /\ d.step # 0 /\ Place(d) /\ Story(d) /\ Its(d)
        /\ d.events \in Seq(EventType) /\ Len(d.events) \in Nat
        /\ d.step \in Titles /\ RoleAt(d.step) \in Roles
        /\ d.doing \in {"create", "write"} /\ (d.doing = "create" => d.step # 1)
  BY Worker DEF WriteRemote, Aside
<1>2. d.at = "effect" /\ d.doing = "write" /\ Role(e) = RoleAt(d.step)
  BY <1>1 DEF WriteRemote, Role
<1>3. IInv /\ Frozen /\ pc = "idle" /\ disk.pending # << >>
  BY <1>1, WorkerIsFrozen, AtIncident DEF RecInv, RecoveryInv, Frozen
<1>4. PICK r \in Roles : r = RoleAt(d.step) /\ r = Role(e)
  BY <1>1, <1>2
<1>5. PICK i \in Ids : i = d.ids[r]
  BY <1>1, <1>2, <1>4, WrittenTyped DEF Doing
<1>6. PICK t : t = Body(d.ids, r)
  OBVIOUS
<1>7. /\ rev[i] = d.revs[r]
      /\ body' = [body EXCEPT ![i] = t] /\ wrote' = [wrote EXCEPT ![i] = t]
      /\ rev' = [rev EXCEPT ![i] = @ + 1]
      /\ UNCHANGED <<role, placed, disk, publisher>>
  BY <1>1, <1>4, <1>5, <1>6 DEF WriteRemote, Required
<1>8. role[i] = r /\ r # NoRole
  BY <1>1, <1>5, OrderAssumption, NamesAssumption DEF Its
<1>9. body[i] = Empty
  <2>1. Unwritten(d.ids[RoleAt(d.step)], d.revs[RoleAt(d.step)])
    BY <1>1, <1>2 DEF Story, WillWrite, Doing
  <2> QED BY <1>4, <1>5, <1>7, <2>1 DEF Unwritten
<1>10. t \in Written
  <2>1. [q \in Records |-> d.ids[q]] \in Links
    BY DEF ExecType, Links, Roles
  <2>2. CASE r = Current
    BY <1>6, <2>1, <2>2, Kinds, RecoveryAssumption DEF Body
  <2>3. CASE r # Current
    BY <1>6, <2>3, Kinds, RecoveryAssumption DEF Body, Roles
  <2> QED BY <2>2, <2>3
<1>11. /\ role' \in [Ids -> Roles \cup {Folder, NoRole}]
       /\ body' \in [Ids -> Written \cup {NoDoc, Empty, Foreign}]
       /\ wrote' \in [Ids -> Written \cup {NoDoc, Empty}]
       /\ rev' \in [Ids -> Nat] /\ placed' \in [Ids -> BOOLEAN]
       /\ \A j \in Ids : j # i => rev'[j] = rev[j]
  BY <1>3, <1>7, <1>10 DEF IInv, TypeOK
<1>12. Facts'
  <2>1. Truth' /\ OnePerRole' /\ ClearMeansWhole'
    BY <1>3, <1>7 DEF IInv, Facts, Truth, OnePerRole, ClearMeansWhole
  <2>2. Bodies'
    BY <1>3, <1>7, <1>8, <1>10, Kinds DEF IInv, Facts, Bodies, TypeOK
  <2> QED BY <2>1, <2>2 DEF Facts
<1>13. IInv'
  BY <1>3, <1>7, <1>11, <1>12, IdleEffect
<1> QED BY <1>1, <1>2, <1>3, <1>4, <1>5, <1>6, <1>7, <1>8, <1>9, <1>10, <1>11, <1>13

LEMMA WriteRemoteStep == ASSUME RecInv, NEW e \in Execs, WriteRemote(e) PROVE RecInv'
<1>1. PICK d \in ExecType :
        /\ d = ex[e] /\ d.step # 0 /\ Place(d) /\ Story(d) /\ Its(d)
        /\ d.events \in Seq(EventType) /\ Len(d.events) \in Nat
        /\ d.step \in Titles /\ RoleAt(d.step) \in Roles
        /\ d.doing \in {"create", "write"} /\ (d.doing = "create" => d.step # 1)
  BY Worker DEF WriteRemote, Aside
<1>2. d.at = "effect" /\ d.doing = "write" /\ Role(e) = RoleAt(d.step)
  BY <1>1 DEF WriteRemote, Role
<1> DEFINE n == d.step
<1>3. PICK r \in Roles : r = RoleAt(n) /\ r = Role(e)
  BY <1>1, <1>2
<1>4. PICK i \in Ids :
        /\ i = d.ids[r] /\ role[i] = r /\ wrote' = [wrote EXCEPT ![i] = Body(d.ids, r)]
        /\ IInv' /\ UNCHANGED <<role, disk, publisher>>
  BY <1>1, <1>3, WriteFacts
<1>5. pc' = pc /\ RecoveryTypeOK /\ wrote \in [Ids -> Written \cup {NoDoc, Empty}]
  BY <1>4 DEF publisher, RecInv, RecoveryInv, IInv, TypeOK
<1>8. UNCHANGED <<sidecar, claimed, backup, plan, tries>>
  BY DEF WriteRemote
<1>6. CASE GivesUp(e)
  BY <1>1, <1>4, <1>5, <1>6, <1>8, GivesUpStep
<1>7. CASE Goes(e, "observe")
  <2>1. "observe" \in Places
    BY DEF Places
  <2>2. PICK c \in ExecType :
          /\ ex' = [ex EXCEPT ![e] = c] /\ c.at = "observe"
          /\ c.step = d.step /\ c.doing = d.doing /\ c.events = d.events
          /\ c.ids = d.ids /\ c.revs = d.revs
    BY <1>1, <1>5, <1>7, <2>1, GoesTo
  <2>3. Place(c)
    BY <1>1, <1>2, <2>2 DEF Place, Doing
  <2>4. Story(c)'
    BY <1>1, <1>2, <2>2 DEF Story, Doing, WillWrite
  <2>5. Its(c)'
    <3>1. ASSUME NEW k \in Titles, Finished(c, k)
          PROVE  wrote'[d.ids[RoleAt(k)]] = Body(d.ids, RoleAt(k))
      <4>1. CASE k = n
        BY <1>3, <1>4, <1>5, <4>1
      <4>2. CASE k # n
        <5>1. k < n
          BY <1>2, <2>2, <3>1, <4>2 DEF Finished, Doing
        <5>2. wrote[d.ids[RoleAt(k)]] = Body(d.ids, RoleAt(k)) /\ d.ids[RoleAt(k)] \in Ids
          BY <1>1, <5>1, WrittenTyped DEF Its, Finished
        <5>3. d.ids[RoleAt(k)] # i
          <6>1. RoleAt(k) \in Roles /\ RoleAt(k) # r
            BY <1>1, <1>3, <4>2, TitlesAreRoles
          <6>2. role[d.ids[RoleAt(k)]] = RoleAt(k)
            BY <1>1, <5>2, <6>1, NamesAssumption DEF Its
          <6> QED BY <1>4, <6>1, <6>2
        <5> QED BY <1>4, <1>5, <5>2, <5>3
      <4> QED BY <4>1, <4>2
    <3>2. \A k \in Titles : d.ids[RoleAt(k)] = NoId <=> k > n
      BY <1>1, <1>2 DEF Its, Doing
    <3> QED BY <1>1, <1>2, <1>4, <2>2, <3>1, <3>2 DEF Its, Doing
  <2> QED BY <1>1, <1>2, <1>4, <1>5, <1>8, <2>2, <2>3, <2>4, <2>5, EffectStep DEF Aside
<1> QED BY <1>6, <1>7 DEF WriteRemote

--------------------------------------------------------------------------------
(***************************************************************************)
(* Every step, and the invariant.                                          *)
(***************************************************************************)
LEMMA StopStep ==
  ASSUME RecInv, NEW e \in Execs, Stop(e) \/ Answer(e) \/ Die(e) PROVE RecInv'
BY LeavingStep DEF Stop, Answer, Die

LEMMA ExecutorStep == ASSUME RecInv, NEW e \in Execs, Step(e) PROVE RecInv'
BY ReplanStep, ClaimStep, ScanStep, PreflightedStep, IntendStep, CreateRemoteStep,
   LookForCreatedStep, CreatedStep, WriteRemoteStep, ObserveItemStep, VerifyStep,
   CompleteStep, AppendFailsStep, StopStep, LookBackStep, SayStoppedStep,
   CopyRegistryStep, ConfirmStep, ReplaceRegistryStep DEF Step

LEMMA RecoveryNextInv == ASSUME RecInv, [RecoveryNext]_allvars PROVE RecInv'
<1>1. CASE UNCHANGED allvars
  BY <1>1, PublisherStep DEF allvars, vars, rvars
<1>2. CASE Next /\ UNCHANGED rvars
  BY <1>2, PublisherStep
<1>3. CASE PlanFirstCreate
  BY <1>3, PlanFirstCreateStep
<1>4. ASSUME NEW e \in Execs, Start(e) \/ StartCommit(e) \/ Step(e) \/ Die(e) PROVE RecInv'
  BY <1>4, StartStep, StartCommitStep, ExecutorStep, StopStep
<1> QED BY <1>1, <1>2, <1>3, <1>4 DEF RecoveryNext, Recover

(***************************************************************************)
(* The inductive invariant of the first create and its recovery: every     *)
(* state that publisher, executors and owner can reach together has it.    *)
(***************************************************************************)
THEOREM RecoveryIsInductive == RecoverySpec => []RecInv
<1>1. RecoveryInit => RecInv
  BY RecoveryInitInv
<1>2. RecInv /\ [RecoveryNext]_allvars => RecInv'
  BY RecoveryNextInv
<1> QED BY <1>1, <1>2, PTL DEF RecoverySpec

(***************************************************************************)
(* The recovery keeps the publisher's own invariant: whatever it has       *)
(* written, the publisher may start from there again.                      *)
(***************************************************************************)
THEOREM RecoveryKeepsInvariant == RecoverySpec => []RecoveryInv
<1>1. RecInv => RecoveryInv
  BY DEF RecInv
<1> QED BY <1>1, RecoveryIsInductive, PTL

(***************************************************************************)
(* One executor at most is past the claim of the sidecar, and one past the *)
(* claim of the registry's copy.                                           *)
(***************************************************************************)
THEOREM ExecutorsAreAlone == RecoverySpec => []OneExecutor
<1>1. RecInv => OneExecutor
  BY DEF RecInv
<1> QED BY <1>1, RecoveryIsInductive, PTL

(***************************************************************************)
(* Who answers COMPLETE has left a history the reconciliation accepts; and *)
(* a sidecar is one exactly when COMPLETE is its last line and nobody has  *)
(* said STOPPED in it.  Its documents hold the baseline.                   *)
(***************************************************************************)
THEOREM CompleteStandsForHistory == RecoverySpec => []CompleteIsHistory
<1>1. ASSUME RecInv, Incident, Begun PROVE Frozen
  <2>1. ~Reconciled
    BY <1>1, TitlesAreRoles, Numbered DEF Reconciled, Incident, Known, Roles
  <2> QED BY <1>1, <2>1 DEF RecInv, Phases
<1>2. ASSUME RecInv, NEW e \in Execs, ex[e].at = "closed", Local(e) PROVE History
  <2>1. Closed /\ Len(sidecar) = Whole
    BY <1>2, Lines DEF RecInv, Asides, Local, Closed
  <2>2. Frozen
    BY <1>1, <1>2 DEF Local, Begun
  <2> QED BY <1>2, <2>1, <2>2 DEF RecInv, Meant, History, Whole
<1>3. ASSUME RecInv, Incident, sidecar # << >>
      PROVE  /\ History <=> /\ sidecar[Len(sidecar)] = Completed
                            /\ \A n \in 1..Len(sidecar) : sidecar[n] # Stopped
             /\ History => Holds(Baseline, Manifest)
  <2>1. Frozen /\ Len(sidecar) \in Nat /\ Len(sidecar) >= 1
    BY <1>1, <1>3 DEF Begun, RecInv, RecoveryInv, RecoveryTypeOK
  <2>2. ASSUME History
        PROVE  /\ sidecar[Len(sidecar)] = Completed /\ Holds(Baseline, Manifest)
               /\ \A n \in 1..Len(sidecar) : sidecar[n] # Stopped
    <3>1. Closed /\ Len(sidecar) = Whole
      BY <2>2, HistoryIsClosed DEF History, Whole
    <3>2. \A n \in 1..Len(sidecar) : n <= Whole
      BY <3>1, Lines
    <3> QED BY <1>3, <2>1, <3>1, <3>2 DEF RecInv, Ends, Meant, Closed
  <2>3. ASSUME sidecar[Len(sidecar)] = Completed,
               \A n \in 1..Len(sidecar) : sidecar[n] # Stopped
        PROVE  History
    <3>1. Closed
      BY <1>3, <2>3 DEF RecInv, Ends, Spoiled
    <3>2. Len(sidecar) = Whole
      <4>1. Len(sidecar) >= Whole
        BY <3>1 DEF Closed
      <4>2. Len(sidecar) <= Whole
        <5>1. Len(sidecar) \in 1..Len(sidecar)
          BY <2>1
        <5> QED BY <1>3, <2>3, <3>1, <5>1, Events DEF RecInv, Ends
      <4> QED BY <2>1, <4>1, <4>2, Lines
    <3> QED BY <1>3, <2>1, <3>1, <3>2 DEF RecInv, Meant, History, Whole
  <2> QED BY <2>2, <2>3
<1>4. RecInv => CompleteIsHistory
  BY <1>2, <1>3 DEF CompleteIsHistory
<1> QED BY <1>4, RecoveryIsInductive, PTL

--------------------------------------------------------------------------------
(***************************************************************************)
(* What a step does to Drive and to the registry.                          *)
(***************************************************************************)
LEMMA RecoveryMoves ==
  ASSUME [RecoveryNext]_allvars
  PROVE  \/ [Next]_vars /\ UNCHANGED rvars
         \/ UNCHANGED vars
         \/ \E e \in Execs : CreateRemote(e) \/ WriteRemote(e)
         \/ \E e \in Execs : ReplaceRegistry(e) /\ disk' = Projected
                             /\ UNCHANGED <<drive, publisher>>
<1>1. CASE UNCHANGED allvars
  BY <1>1 DEF allvars
<1>2. CASE Next /\ UNCHANGED rvars
  BY <1>2
<1>3. CASE PlanFirstCreate
  BY <1>3 DEF PlanFirstCreate
<1>4. ASSUME NEW e \in Execs, Start(e) \/ StartCommit(e) \/ Die(e) PROVE UNCHANGED vars
  BY <1>4 DEF Start, StartCommit, Die
<1>5. ASSUME NEW e \in Execs, Step(e), ~CreateRemote(e), ~WriteRemote(e), ~ReplaceRegistry(e)
      PROVE  UNCHANGED vars
  BY <1>5 DEF Step, Replan, Claim, ListItems, Recheck, Preflighted, Intend, Append1,
              Reinspect, LookForCreated, Created, ObserveItem, Verify, Complete, Answer,
              AppendFails, Stop, LookBack, SayStopped, CopyRegistry, Confirm
<1>6. ASSUME NEW e \in Execs, ReplaceRegistry(e)
      PROVE  UNCHANGED vars \/ (disk' = Projected /\ UNCHANGED <<drive, publisher>>)
  BY <1>6 DEF ReplaceRegistry, vars, publisher
<1> QED BY <1>1, <1>2, <1>3, <1>4, <1>5, <1>6 DEF RecoveryNext, Recover, Step

(***************************************************************************)
(* What the owner typed is not overwritten by a recovery either.           *)
(***************************************************************************)
THEOREM RecoveryKeepsOwnerText == RecoverySpec => OwnerTextKept
<1>1. ASSUME RecInv, [RecoveryNext]_allvars, edits' = edits, NEW i \in Ids, rev'[i] # rev[i]
      PROVE  body[i] # Foreign
  <2>1. IInv
    BY <1>1 DEF RecInv, RecoveryInv
  <2>2. CASE [Next]_vars
    BY <1>1, <2>1, <2>2, OwnerTextStep
  <2>3. CASE UNCHANGED drive
    BY <1>1, <2>3 DEF drive
  <2>4. ASSUME NEW e \in Execs, CreateRemote(e) PROVE body[i] # Foreign
    <3>1. role[i] = NoRole
      BY <1>1, <2>4, CreateFacts
    <3> QED BY <2>1, <3>1, Kinds DEF IInv, Facts, Bodies
  <2>5. ASSUME NEW e \in Execs, WriteRemote(e) PROVE body[i] # Foreign
    <3>1. body[i] = Empty
      BY <1>1, <2>5, WriteFacts
    <3> QED BY <3>1, Kinds
  <2> QED BY <1>1, <2>2, <2>3, <2>4, <2>5, RecoveryMoves DEF vars
<1>2. RecInv /\ [RecoveryNext]_allvars =>
        [edits' = edits => \A i \in Ids : rev'[i] # rev[i] => body[i] # Foreign]_vars
  BY <1>1
<1> QED BY <1>2, RecoveryIsInductive, PTL DEF RecoverySpec, OwnerTextKept

(***************************************************************************)
(* The registry changes, while no publisher runs, from the incident to a   *)
(* whole baseline only, and the original is in the copy.                   *)
(***************************************************************************)
THEOREM TheOriginalIsKept == RecoverySpec => OriginalKept
<1>1. ASSUME RecInv, [RecoveryNext]_allvars, pc = "idle", disk' # disk
      PROVE  /\ Incident /\ claimed /\ backup = disk
             /\ disk'.pending = << >> /\ disk'.folder = disk.folder
             /\ Holds(Baseline, disk'.documents)
  <2>1. IInv
    BY <1>1 DEF RecInv, RecoveryInv
  <2>2. CASE [Next]_vars
    BY <1>1, <2>1, <2>2, RegistrySteps
  <2>3. CASE \E e \in Execs : CreateRemote(e) \/ WriteRemote(e)
    BY <1>1, <2>3, CreateFacts, WriteFacts
  <2>4. CASE \E e \in Execs : ReplaceRegistry(e) /\ disk' = Projected
    BY <1>1, <2>4, ReplaceKeeps
  <2> QED BY <1>1, <2>2, <2>3, <2>4, RecoveryMoves DEF vars
<1>2. RecInv /\ [RecoveryNext]_allvars =>
        [pc = "idle" /\ disk' # disk =>
           /\ Incident /\ claimed /\ backup = disk
           /\ disk'.pending = << >> /\ disk'.folder = disk.folder
           /\ Holds(Baseline, disk'.documents)]_allvars
  BY <1>1
<1> QED BY <1>2, RecoveryIsInductive, PTL DEF RecoverySpec, OriginalKept

--------------------------------------------------------------------------------
(***************************************************************************)
(* The last event the worker knows is the intent of its effect, and what   *)
(* follows it in the sidecar is another executor's giving up.              *)
(***************************************************************************)
LEMMA LastIntent ==
  ASSUME RecInv, NEW e \in Execs, ex[e].at = "effect", ex[e].step # 0
  PROVE  \E n \in 1..Len(sidecar) :
           /\ sidecar[n] = IntentOf(e)
           /\ \A m \in n + 1..Len(sidecar) : sidecar[m] \in {Stopped, Torn}
<1>1. PICK d \in ExecType :
        /\ d = ex[e] /\ d.step # 0 /\ Place(d) /\ Story(d) /\ Its(d)
        /\ d.events \in Seq(EventType) /\ Len(d.events) \in Nat
        /\ d.step \in Titles /\ RoleAt(d.step) \in Roles
        /\ d.doing \in {"create", "write"} /\ (d.doing = "create" => d.step # 1)
  BY Worker DEF Aside
<1>2. PICK s \in Seq(EventType) : s = d.events /\ Len(s) \in Nat
  BY <1>1
<1>3. /\ Len(s) >= 1 /\ Len(sidecar) \in Nat /\ Len(s) <= Len(sidecar)
      /\ \A n \in 1..Len(sidecar) :
           IF n <= Len(s) THEN sidecar[n] = s[n] ELSE sidecar[n] \in {Stopped, Torn}
  BY <1>1, <1>2, WorkerIsFrozen, Confirmed
     DEF RecInv, RecoveryInv, RecoveryTypeOK, Follows, Unconfirmed, Scans
<1>4. Base(d.step) \in Int /\ d.step >= 1
  BY <1>1, Bases, Numbered
<1>5. s[Len(s)] = IntentOf(e)
  <2>1. Told(s, d.step, d.ids[RoleAt(d.step)], d.revs[RoleAt(d.step)])
    BY <1>1, <1>2 DEF Story, Stories
  <2>2. CASE d.doing = "create"
    <3>1. Len(s) = Base(d.step) /\ d.step > 1
      <4>1. Len(s) = Base(d.step) /\ d.step # 1
        BY <1>1, <1>2, <2>2 DEF Place, Doing
      <4>2. d.step > 1
        BY <1>1, <4>1, Numbered
      <4> QED BY <4>1, <4>2
    <3>2. Base(d.step) <= Len(s)
      BY <1>4, <3>1
    <3> QED BY <1>1, <2>1, <2>2, <3>1, <3>2 DEF Told, IntentOf, Role
  <2>3. CASE d.doing = "write"
    <3>1. /\ Len(s) = Base(d.step) + 3
          /\ d.revs[RoleAt(d.step)] = s[Base(d.step) + 2].rev
      BY <1>1, <1>2, <2>3 DEF Place, Story, Doing
    <3>2. Base(d.step) + 3 <= Len(s)
      BY <1>2, <3>1
    <3> QED BY <1>1, <2>1, <2>3, <3>1, <3>2 DEF Told, IntentOf, Role
  <2> QED BY <1>1, <2>2, <2>3
<1>6. Len(s) \in 1..Len(sidecar) /\ sidecar[Len(s)] = s[Len(s)]
  BY <1>2, <1>3
<1>7. \A m \in Len(s) + 1..Len(sidecar) : m \in 1..Len(sidecar) /\ ~(m <= Len(s))
  BY <1>2, <1>3
<1> QED BY <1>3, <1>5, <1>6, <1>7

(***************************************************************************)
(* At every effect of a recovery the sidecar names it beforehand: which    *)
(* title is created, or which document is written over which revision.     *)
(***************************************************************************)
THEOREM IntentsAreAhead == RecoverySpec => IntentAhead
<1>1. ASSUME RecInv, [RecoveryNext]_allvars, pc = "idle", edits' = edits,
             NEW i \in Ids, rev'[i] # rev[i]
      PROVE  \E n \in 1..Len(sidecar) :
               /\ Foretold(i, sidecar[n])
               /\ \A m \in n + 1..Len(sidecar) : sidecar[m] \in {Stopped, Torn}
  <2>1. IInv
    BY <1>1 DEF RecInv, RecoveryInv
  <2>2. CASE [Next]_vars
    BY <1>1, <2>1, <2>2, DriveChanges DEF Write
  <2>3. CASE UNCHANGED drive
    BY <1>1, <2>3 DEF drive
  <2>4. ASSUME NEW e \in Execs, CreateRemote(e) PROVE ex[e].at = "effect" /\ ex[e].step # 0 /\ Foretold(i, IntentOf(e))
    <3>1. /\ ex[e].at = "effect" /\ ex[e].step # 0 /\ role[i] = NoRole /\ role'[i] = Role(e)
      BY <1>1, <2>4, CreateFacts
    <3>2. IntentOf(e) = Event("INTENT_CREATE", Role(e), NoId, 0)
      BY <2>4 DEF CreateRemote, IntentOf
    <3> QED BY <3>1, <3>2 DEF Foretold
  <2>5. ASSUME NEW e \in Execs, WriteRemote(e) PROVE ex[e].at = "effect" /\ ex[e].step # 0 /\ Foretold(i, IntentOf(e))
    <3>1. /\ ex[e].at = "effect" /\ ex[e].step # 0
          /\ i = ex[e].ids[Role(e)] /\ role[i] = Role(e) /\ rev[i] = ex[e].revs[Role(e)]
          /\ Role(e) \in Roles
      BY <1>1, <2>5, WriteFacts
    <3>2. IntentOf(e) = Event("INTENT_WRITE", role[i], i, rev[i])
      BY <2>5, <3>1 DEF WriteRemote, IntentOf
    <3>3. role[i] # NoRole
      BY <3>1, OrderAssumption
    <3> QED BY <3>1, <3>2, <3>3 DEF Foretold
  <2>6. ASSUME NEW e \in Execs, CreateRemote(e) \/ WriteRemote(e)
        PROVE  \E n \in 1..Len(sidecar) :
                 /\ Foretold(i, sidecar[n])
                 /\ \A m \in n + 1..Len(sidecar) : sidecar[m] \in {Stopped, Torn}
    <3>1. ex[e].at = "effect" /\ ex[e].step # 0 /\ Foretold(i, IntentOf(e))
      BY <2>4, <2>5, <2>6
    <3>2. PICK n \in 1..Len(sidecar) :
            /\ sidecar[n] = IntentOf(e)
            /\ \A m \in n + 1..Len(sidecar) : sidecar[m] \in {Stopped, Torn}
      BY <1>1, <3>1, LastIntent
    <3> QED BY <3>1, <3>2
  <2> QED BY <1>1, <2>2, <2>3, <2>6, RecoveryMoves DEF vars
<1>2. RecInv /\ [RecoveryNext]_allvars =>
        [pc = "idle" /\ edits' = edits =>
           \A i \in Ids : rev'[i] # rev[i] =>
             \E n \in 1..Len(sidecar) :
               /\ Foretold(i, sidecar[n])
               /\ \A m \in n + 1..Len(sidecar) : sidecar[m] \in {Stopped, Torn}]_allvars
  BY <1>1
<1> QED BY <1>2, RecoveryIsInductive, PTL DEF RecoverySpec, IntentAhead

--------------------------------------------------------------------------------
(***************************************************************************)
(* The recovery's write, of a record or of the index over all of them.     *)
(***************************************************************************)
LEMMA RemoteWriteRefines ==
  ASSUME RecInv, RecInv', NEW e \in Execs, WriteRemote(e)
  PROVE  [Promise!Next]_(Promise!pvars)
<1>1. PICK d \in ExecType :
        /\ d = ex[e] /\ d.step # 0 /\ Place(d) /\ Story(d) /\ Its(d)
        /\ d.events \in Seq(EventType) /\ Len(d.events) \in Nat
        /\ d.step \in Titles /\ RoleAt(d.step) \in Roles
        /\ d.doing \in {"create", "write"} /\ (d.doing = "create" => d.step # 1)
  BY Worker DEF WriteRemote, Aside
<1>2. PICK r \in Roles : r = RoleAt(d.step) /\ r = Role(e)
  BY <1>1 DEF Role
<1>3. PICK i \in Ids :
        /\ i = d.ids[r] /\ role[i] = r /\ wrote' = [wrote EXCEPT ![i] = Body(d.ids, r)]
        /\ UNCHANGED <<role, disk>> /\ disk.pending # << >>
  BY <1>1, <1>2, WriteFacts
<1>4. IInv /\ IInv'
  BY DEF RecInv, RecoveryInv
<1>5. /\ Home' = Home /\ Home[r] = i /\ i # NoId
      /\ Shown' = [Shown EXCEPT ![r] = Body(d.ids, r)]
  BY <1>3, <1>4, ShownAfterWrite
<1>6. CASE r \in Records
  <2>1. Body(d.ids, r) = Markdown(Baseline, r)
    BY <1>6, NamesAssumption DEF Body
  <2>2. Promise!WriteRecord(r, Baseline)
    BY <1>3, <1>5, <2>1 DEF Promise!WriteRecord, Promise!Markdown, Markdown
  <2> QED BY <1>6, <2>2, RecoveryAssumption DEF Promise!Next
<1>7. CASE r = Current
  <2>1. ASSUME NEW q \in Records
        PROVE  Home[q] = d.ids[q] /\ Shown[q] = Markdown(Baseline, q)
    <3>1. q \in Roles /\ q # Current
      BY NamesAssumption DEF Roles
    <3>2. PICK k \in Titles : RoleAt(k) = q
      BY <3>1, TitlesAreRoles
    <3>3. k < d.step
      <4>1. d.step = Len(Order) + 1
        BY <1>1, <1>2, <1>7, Numbered, TitlesAreRoles
      <4>2. k # Len(Order) + 1 /\ k \in Nat /\ k <= Len(Order) + 1
        BY <3>1, <3>2, Numbered
      <4> QED BY <4>1, <4>2, Numbered
    <3>4. d.ids[q] \in Ids /\ wrote[d.ids[q]] = Body(d.ids, q)
      BY <1>1, <3>2, <3>3, WrittenTyped DEF Its, Finished
    <3>5. role[d.ids[q]] = q
      BY <1>1, <3>1, <3>4, NamesAssumption DEF Its
    <3>6. Home[q] = d.ids[q] /\ Shown[q] = wrote[d.ids[q]]
      BY <1>4, <3>1, <3>4, <3>5, HomesAre, NamesAssumption
    <3> QED BY <3>1, <3>4, <3>6 DEF Body
  <2>2. Promise!RecordHomes = [q \in Records |-> d.ids[q]]
    BY <2>1 DEF Promise!RecordHomes
  <2>3. Body(d.ids, r) = Index(Baseline, Promise!RecordHomes)
    BY <1>7, <2>2 DEF Body
  <2>4. Promise!WriteCurrent(Baseline)
    BY <1>3, <1>5, <1>7, <2>1, <2>3
       DEF Promise!WriteCurrent, Promise!RecordsShow, Promise!Markdown, Markdown,
           Promise!Index, Index
  <2> QED BY <2>4, RecoveryAssumption DEF Promise!Next
<1> QED BY <1>6, <1>7 DEF Roles

(***************************************************************************)
(* Publisher and recovery together implement Publication: one document per *)
(* title bound once, changes behind the barrier only, CURRENT last, and    *)
(* the barrier lowered over a complete publication only.                   *)
(***************************************************************************)
THEOREM RecoveryKeepsPromise == RecoverySpec => KeepsPromise
<1>1. RecoveryInit => Promise!Init
  BY StartsKept DEF RecoveryInit
<1>2. ASSUME RecInv, RecInv', [RecoveryNext]_allvars PROVE [Promise!Next]_(Promise!pvars)
  <2>1. IInv /\ IInv'
    BY <1>2 DEF RecInv, RecoveryInv
  <2>2. CASE [Next]_vars
    BY <2>1, <2>2, StepKept
  <2>3. CASE UNCHANGED drive
    BY <2>1, <2>3, BarrierStep DEF drive
  <2>4. ASSUME NEW e \in Execs, CreateRemote(e) PROVE [Promise!Next]_(Promise!pvars)
    BY <1>2, <2>1, <2>4, CreateFacts, LandStep
  <2>5. ASSUME NEW e \in Execs, WriteRemote(e) PROVE [Promise!Next]_(Promise!pvars)
    BY <1>2, <2>5, RemoteWriteRefines
  <2> QED BY <1>2, <2>2, <2>3, <2>4, <2>5, RecoveryMoves DEF vars
<1>3. RecInv /\ RecInv' /\ [RecoveryNext]_allvars => [Promise!Next]_(Promise!pvars)
  BY <1>2
<1> QED BY <1>1, <1>3, RecoveryIsInductive, PTL DEF RecoverySpec, KeepsPromise, Promise!Spec

================================================================================
