-------------------------- MODULE DrivePublisherProofs --------------------------
EXTENDS DrivePublisherInv, TLAPS
(***************************************************************************)
(* Proofs about the publisher, for any set of records, fixtures and file   *)
(* identities, any number of runs and edits, and any mix of faults: its    *)
(* inductive invariant and what follows from it, and that the publisher    *)
(* implements the promise of module Publication.                           *)
(***************************************************************************)

(***************************************************************************)
(* Bodies of different kinds differ.                                       *)
(***************************************************************************)
LEMMA Kinds ==
  /\ NoDoc # Empty /\ NoDoc # Foreign /\ Empty # Foreign
  /\ \A b \in Written : b # NoDoc /\ b # Empty /\ b # Foreign
  /\ \A v \in Fixtures, r \in Records : Markdown(v, r) \in Written
  /\ \A v \in Fixtures, links \in Links : Index(v, links) \in Written
<1>1. \A v \in Fixtures, r \in Records :
        Markdown(v, r) \in Written /\ Markdown(v, r).kind = "record"
  BY DEF Written, Markdown
<1>2. \A v \in Fixtures, links \in Links :
        Index(v, links) \in Written /\ Index(v, links).kind = "index"
  BY DEF Written, Index
<1>3. \A b \in Written : b.kind \in {"record", "index"}
  BY <1>1, <1>2 DEF Written
<1>4. NoDoc.kind = "none" /\ Empty.kind = "empty" /\ Foreign.kind = "foreign"
  BY DEF NoDoc, Empty, Foreign
<1>5. NoDoc # Empty /\ NoDoc # Foreign /\ Empty # Foreign
  BY <1>4
<1>6. \A b \in Written : b # NoDoc /\ b # Empty /\ b # Foreign
  BY <1>3, <1>4
<1> QED BY <1>1, <1>2, <1>5, <1>6

(***************************************************************************)
(* The bookkeeping of titles: the target of an upsert is a title, and the  *)
(* registry's links are links.                                             *)
(***************************************************************************)
LEMMA TargetIsRole == ASSUME TypeOK, at # 0 PROVE Target \in Roles
BY OrderAssumption DEF TypeOK, Target, Roles

LEMMA LinksAreLinks == ASSUME NEW reg \in Registry PROVE LinksOf(reg) \in Links
BY DEF Registry, LinksOf, Links, Roles

LEMMA WantedIsWritten ==
  ASSUME TypeOK, NEW r \in Roles PROVE Wanted(r) \in Written
BY LinksAreLinks, Kinds DEF TypeOK, Wanted, Roles

LEMMA JournalIsRegistry ==
  ASSUME NEW reg \in Registry, NEW id \in Ids \cup {NoId}, NEW phase \in Phase
  PROVE  /\ Journal(reg, id, phase) \in Registry
         /\ Journal(reg, id, phase).folder = reg.folder
         /\ Journal(reg, id, phase).documents = reg.documents
         /\ Journal(reg, id, phase).pending # << >>
         /\ LET p == Journal(reg, id, phase).pending IN
              p[Len(p)] = [id |-> id, phase |-> phase]
<1> DEFINE e == [id |-> id, phase |-> phase]
<1> DEFINE q == Append(reg.pending, e)
<1>1. e \in Entry /\ reg.pending \in Seq(Entry)
  BY DEF Entry, Registry
<1>2. q \in Seq(Entry) /\ Len(q) = Len(reg.pending) + 1 /\ q[Len(q)] = e
  BY <1>1
<1>3. q # << >>
  BY <1>1, <1>2
<1>4. Journal(reg, id, phase) = [reg EXCEPT !.pending = q]
  BY DEF Journal
<1> HIDE DEF q, e
<1>5. /\ Journal(reg, id, phase) \in Registry
      /\ Journal(reg, id, phase).folder = reg.folder
      /\ Journal(reg, id, phase).documents = reg.documents
      /\ Journal(reg, id, phase).pending = q
  BY <1>2, <1>4 DEF Registry
<1> QED BY <1>2, <1>3, <1>5 DEF e

LEMMA ClearedIsRegistry ==
  ASSUME NEW reg \in Registry
  PROVE  LET cleared == [reg EXCEPT !.pending = << >>] IN
           /\ cleared \in Registry
           /\ cleared.folder = reg.folder /\ cleared.documents = reg.documents
           /\ cleared.pending = << >>
<1> DEFINE q == << >>
<1>1. q \in Seq(Entry)
  OBVIOUS
<1> HIDE DEF q
<1>2. LET cleared == [reg EXCEPT !.pending = q] IN
        /\ cleared \in Registry
        /\ cleared.folder = reg.folder /\ cleared.documents = reg.documents
        /\ cleared.pending = q
  BY <1>1 DEF Registry
<1> QED BY <1>2 DEF q

LEMMA AdoptedIsRegistry ==
  ASSUME NEW reg \in Registry, NEW folder \in Ids
  PROVE  LET adopted == [reg EXCEPT !.folder = folder, !.pending = << >>] IN
           /\ adopted \in Registry
           /\ adopted.folder = folder /\ adopted.documents = reg.documents
           /\ adopted.pending = << >>
<1> DEFINE q == << >>
<1>1. q \in Seq(Entry)
  OBVIOUS
<1> HIDE DEF q
<1>2. LET adopted == [reg EXCEPT !.folder = folder, !.pending = q] IN
        /\ adopted \in Registry
        /\ adopted.folder = folder /\ adopted.documents = reg.documents
        /\ adopted.pending = q
  BY <1>1 DEF Registry
<1> QED BY <1>2 DEF q

--------------------------------------------------------------------------------
(***************************************************************************)
(* A process that has gone owes nothing.                                   *)
(***************************************************************************)
LEMMA ExitRun == ASSUME NEW o, Exit(o) PROVE RunFacts'
<1> USE DEF Exit, Forget
<1>1. Copy' /\ Views' /\ Armed' /\ Announcing'
  BY DEF Copy, Views, Armed, Announcing, Settling
<1>2. Stages'
  BY DEF Stages, InInit, InEffect, Settling, MadeNotListed
<1>3. Plans'
  BY DEF Plans, Planned
<1> QED BY <1>1, <1>2, <1>3 DEF RunFacts

LEMMA FailureTyped == Failure \in {"PARTIAL_UNPUBLISHED", "ERROR", "BLOCKED"}
BY DEF Failure

LEMMA ExitTyped ==
  ASSUME TypeOK, NEW o, Exit(o), mode' \in Modes, fixture' \in Fixtures,
         o \in {"ERROR", "BLOCKED", "PARTIAL_UNPUBLISHED", "COMPLETE", "INITIALIZED",
               "PREVIEW", "CRASHED"},
         role' \in [Ids -> Roles \cup {Folder, NoRole}],
         body' \in [Ids -> Written \cup {NoDoc, Empty, Foreign}],
         wrote' \in [Ids -> Written \cup {NoDoc, Empty}],
         rev' \in [Ids -> Nat], placed' \in [Ids -> BOOLEAN], disk' \in Registry,
         runs' \in Nat, edits' \in Nat
  PROVE  TypeOK'
<1>1. EmptyRegistry \in Registry
  BY DEF EmptyRegistry, Registry
<1>2. NothingSeen \in [Roles -> Written \cup {NoDoc, Empty, Foreign}]
  BY DEF NothingSeen
<1>3. NoReceipts \in [Roles -> Nat]
  BY DEF NoReceipts
<1>4. Len(Order) \in Nat
  BY OrderAssumption
<1>5. /\ at' \in 0..Len(Order) + 1 /\ required' \in Nat
      /\ made' \in Ids \cup {NoId}
  BY <1>4 DEF Exit, Forget
<1>6. todo' \subseteq Roles
  BY DEF Exit, Forget
<1>7. attempted' \in BOOLEAN
  BY DEF Exit, Forget
<1>8. /\ mem' \in Registry /\ receipt' \in [Roles -> Nat]
      /\ seen' \in [Roles -> Written \cup {NoDoc, Empty, Foreign}]
      /\ expected' \in [Roles -> Written \cup {NoDoc, Empty, Foreign}]
  BY <1>1, <1>2, <1>3 DEF Exit, Forget
<1>9. pc' = "idle" /\ purpose' = "none" /\ result' = o
  BY DEF Exit, Forget
<1> QED BY <1>5, <1>6, <1>7, <1>8, <1>9 DEF TypeOK

(***************************************************************************)
(* A run that ends without touching Drive or the registry.                 *)
(***************************************************************************)
LEMMA QuietExit ==
  ASSUME IInv, NEW o, Exit(o), UNCHANGED <<drive, disk, args, bounds>>,
         o \in {"ERROR", "BLOCKED", "PARTIAL_UNPUBLISHED", "COMPLETE", "INITIALIZED",
               "PREVIEW", "CRASHED"},
         o = "COMPLETE" => disk.pending = << >> /\ Holds(fixture, disk.documents)
  PROVE  IInv'
<1> USE DEF IInv, drive, args, bounds
<1>1. TypeOK'
  <2> USE DEF TypeOK
  <2> QED BY ExitTyped
<1>2. Facts'
  BY DEF Facts, Truth, OnePerRole, Bodies, ClearMeansWhole, Holds
<1>3. Orphanage'
  BY DEF Orphanage, Unlisted, MadeNotListed, Exit, Forget
<1>4. CompleteIsPublished'
  BY DEF CompleteIsPublished, Holds, Exit
<1> QED BY <1>1, <1>2, <1>3, <1>4, ExitRun

--------------------------------------------------------------------------------
(***************************************************************************)
(* The steps of a run that only read, or only move on: Drive, the registry *)
(* and what was reported are as they were.                                 *)
(***************************************************************************)
LEMMA LocalStep ==
  ASSUME IInv, pc # "idle", pc' # "idle",
         UNCHANGED <<drive, disk, args, mem, result, bounds>>
  PROVE  Copy' /\ Facts' /\ CompleteIsPublished'
<1> USE DEF drive, args, bounds
<1>1. Copy'
  BY DEF IInv, RunFacts, Copy
<1>2. Facts'
  BY DEF IInv, Facts, Truth, OnePerRole, Bodies, ClearMeansWhole, Holds
<1>3. CompleteIsPublished'
  BY DEF IInv, CompleteIsPublished, Holds
<1> QED BY <1>1, <1>2, <1>3

LEMMA ScanBegins ==
  ASSUME IInv, pc # "idle", NEW why, BeginScan(why, mem), UNCHANGED <<disk, wrote>>
  PROVE  Views'
BY DEF IInv, RunFacts, Copy, Views, BeginScan, Known, NothingSeen

LEMMA KnownAreRoles == ASSUME NEW reg PROVE Known(reg) \subseteq Roles
BY DEF Known

(***************************************************************************)
(* The target of the upsert under way, and its document if it has one.     *)
(***************************************************************************)
LEMMA UpsertTarget ==
  ASSUME IInv, purpose \in {"upsert", "effect", "settle"}
  PROVE  /\ at \in 1..Len(Order) + 1 /\ Target \in Roles
         /\ at <= Len(Order) => Target = Order[at] /\ Target \in Records /\ Target # Current
         /\ ~(at <= Len(Order)) => Target = Current /\ at = Len(Order) + 1
<1>1. at \in 1..Len(Order) + 1
  BY DEF IInv, RunFacts, Stages
<1> QED BY <1>1, OrderAssumption, NamesAssumption DEF Target, Roles

LEMMA DocTyped ==
  ASSUME IInv, NEW r \in Roles, disk.documents[r] # NoId
  PROVE  disk.documents[r] \in Ids /\ (pc # "idle" => Doc(r) = disk.documents[r])
BY DEF IInv, RunFacts, Copy, TypeOK, Registry, Doc

LEMMA ObserveStep == ASSUME IInv, NEW q \in Roles, Observe(q) PROVE IInv'
<1> USE DEF IInv, RunFacts, Observe
<1>0. disk.documents[q] # NoId /\ Doc(q) = disk.documents[q] /\ Doc(q) \in Ids
  BY DocTyped DEF Views, Known
<1>1. Copy' /\ Facts' /\ CompleteIsPublished'
  BY LocalStep DEF BeginScan
<1>2. TypeOK'
  BY <1>0 DEF TypeOK, drive, args, bounds
<1>3. Orphanage'
  BY DEF Orphanage, Unlisted, MadeNotListed, drive, work, BeginScan, Target
<1>4. Stages'
  BY OrderAssumption DEF Stages, InInit, InEffect, MadeNotListed, Settling, drive, args, work, BeginScan, Target, TypeOK, Doc, Copy
<1>5. Views'
  BY <1>0 DEF Views, drive, Known, Bodies, TypeOK, Facts
<1>6. Plans'
  BY DEF Plans, Planned, InFlux, Settling, Target, drive, args, work, BeginScan, LinksOf
<1>7. Armed' /\ Announcing'
  BY DEF Armed, Announcing, Settling, drive, work, BeginScan, Target, LastEntry
<1> QED BY <1>1, <1>2, <1>3, <1>4, <1>5, <1>6, <1>7

LEMMA RecheckDoneStep == ASSUME IInv, RecheckDone PROVE IInv'
<1> USE DEF IInv, RunFacts, RecheckDone, Scanned
<1>1. Copy' /\ Facts' /\ CompleteIsPublished'
  BY LocalStep DEF BeginScan
<1>2. TypeOK'
  BY KnownAreRoles DEF TypeOK, drive, args, work, bounds, BeginScan, NothingSeen, Asking, Inventories, Listings
<1>3. Orphanage'
  BY DEF Orphanage, Unlisted, MadeNotListed, drive, work, BeginScan, Target
<1>4. Stages'
  BY OrderAssumption DEF Stages, InInit, InEffect, MadeNotListed, Settling, drive, args, work, BeginScan, Target, TypeOK, Doc, Copy
<1>5. Views'
  BY ScanBegins DEF Views, drive, work, Known, Doc, Copy, Bodies, TypeOK, Facts, BeginScan
<1>6. Plans'
  BY DEF Plans, Planned, InFlux, Settling, Target, drive, args, work, BeginScan, LinksOf
<1>7. Armed' /\ Announcing'
  BY DEF Armed, Announcing, Settling, drive, work, BeginScan, Target, LastEntry
<1> QED BY <1>1, <1>2, <1>3, <1>4, <1>5, <1>6, <1>7

LEMMA SkipStep == ASSUME IInv, Skip PROVE IInv'
<1> USE DEF IInv, RunFacts, Skip, Scanned, Advance, UpToDate
<1>1. Copy' /\ Facts' /\ CompleteIsPublished'
  BY LocalStep DEF BeginScan
<1>2. TypeOK'
  BY KnownAreRoles DEF TypeOK, drive, args, work, bounds, BeginScan, NothingSeen, Asking, Inventories, Listings
<1>3. Orphanage'
  BY DEF Orphanage, Unlisted, MadeNotListed, drive, work, BeginScan, Target
<1>4. Stages'
  BY SMTT(30), OrderAssumption DEF Stages, InInit, InEffect, MadeNotListed, Settling, drive, args, work, BeginScan, Target, TypeOK, Doc, Copy
<1>5. Views'
  BY ScanBegins DEF Views, drive, work, Known, Doc, Copy, Bodies, TypeOK, Facts, BeginScan
<1>6. Plans'
  <2> USE UpsertTarget DEF Planned
  <2>1. \A r \in Roles : ~InFlux(r) /\ ~InFlux(r)'
    BY DEF InFlux, Settling, BeginScan
  <2>2. CASE at <= Len(Order)
    <3>1. expected[Order[at]] = Markdown(fixture, Order[at])
      BY <2>2 DEF Wanted
    <3> QED BY <2>1, <2>2, <3>1 DEF Plans, BeginScan, drive, args
  <2>3. CASE ~(at <= Len(Order))
    <3>1. expected[Current] = Index(fixture, LinksOf(disk))
      BY <2>3 DEF Wanted, Copy
    <3> QED BY <2>1, <2>3, <3>1 DEF Plans, BeginScan, drive, args, LinksOf
  <2> QED BY <2>2, <2>3
<1>7. Armed' /\ Announcing'
  BY DEF Armed, Announcing, Settling, drive, work, BeginScan, Target, LastEntry
<1> QED BY <1>1, <1>2, <1>3, <1>4, <1>5, <1>6, <1>7

LEMMA AttemptStep == ASSUME IInv, Attempt PROVE IInv'
<1> USE DEF IInv, RunFacts, Attempt, Scanned
<1>1. Copy' /\ Facts' /\ CompleteIsPublished'
  BY LocalStep DEF BeginScan
<1>2. TypeOK'
  BY KnownAreRoles DEF TypeOK, drive, args, work, bounds, BeginScan, NothingSeen, Asking, Inventories, Listings
<1>3. Orphanage'
  BY DEF Orphanage, Unlisted, MadeNotListed, drive, work, BeginScan, Target
<1>4. Stages'
  BY OrderAssumption DEF Stages, InInit, InEffect, MadeNotListed, Settling, drive, args, work, BeginScan, Target, TypeOK, Doc, Copy
<1>5. Views'
  BY ScanBegins DEF Views, drive, work, Known, Doc, Copy, Bodies, TypeOK, Facts, BeginScan
<1>6. Plans'
  BY DEF Plans, Planned, InFlux, Settling, Target, drive, args, work, BeginScan, LinksOf
<1>7. Armed' /\ Announcing'
  BY DEF Armed, Announcing, Settling, drive, work, BeginScan, Target, LastEntry
<1> QED BY <1>1, <1>2, <1>3, <1>4, <1>5, <1>6, <1>7

LEMMA UpdateReadyStep == ASSUME IInv, UpdateReady PROVE IInv'
<1> USE DEF IInv, RunFacts, UpdateReady, Scanned, ReceiptStands
<1>0. /\ Target \in Roles /\ disk.documents[Target] # NoId /\ Target' = Target
      /\ Doc(Target) = disk.documents[Target] /\ Doc(Target) \in Ids
  BY UpsertTarget, DocTyped DEF Plans, Planned, InFlux, Settling, Target
<1>1. Copy' /\ Facts' /\ CompleteIsPublished'
  BY LocalStep DEF BeginScan
<1>2. TypeOK'
  <2>1. required' \in Nat
    BY <1>0 DEF TypeOK
  <2> QED BY <2>1 DEF TypeOK, drive, args, bounds, Asking
<1>3. Orphanage'
  BY DEF Orphanage, Unlisted, MadeNotListed, drive, work, BeginScan, Target
<1>4. Stages'
  BY <1>0 DEF Stages, InInit, InEffect, MadeNotListed, Settling, drive, args
<1>5. Views'
  BY ScanBegins DEF Views, drive, work, Known, Doc, Copy, Bodies, TypeOK, Facts, BeginScan
<1>6. Plans'
  BY DEF Plans, Planned, InFlux, Settling, Target, drive, args, work, BeginScan, LinksOf
<1>7. Armed' /\ Announcing'
  BY <1>0 DEF Armed, Announcing, Settling, drive, TypeOK
<1> QED BY <1>1, <1>2, <1>3, <1>4, <1>5, <1>6, <1>7

LEMMA ReadEmptyStep == ASSUME IInv, ReadEmpty PROVE IInv'
<1> USE DEF IInv, RunFacts, ReadEmpty
<1>0. /\ Target \in Roles /\ disk.documents[Target] = made /\ Target' = Target
      /\ made \in Ids /\ purpose = "effect"
  BY UpsertTarget, DocTyped DEF Stages, InEffect, Target
<1>1. Copy' /\ Facts' /\ CompleteIsPublished'
  BY LocalStep DEF BeginScan
<1>2. TypeOK'
  <2>1. required' \in Nat
    BY <1>0 DEF TypeOK
  <2> QED BY <2>1, KnownAreRoles DEF TypeOK, drive, args, bounds, BeginScan, NothingSeen, Asking, Listings
<1>3. Orphanage'
  BY DEF Orphanage, Unlisted, MadeNotListed, drive, work, BeginScan, Target
<1>4. Stages'
  BY OrderAssumption DEF Stages, InInit, InEffect, MadeNotListed, Settling, drive, args, work, BeginScan, Target, TypeOK, Doc, Copy
<1>5. Views'
  BY ScanBegins DEF Views, drive, work, Known, Doc, Copy, Bodies, TypeOK, Facts, BeginScan
<1>6. Plans'
  <2>1. \A r \in Roles : ~InFlux(r)' => ~InFlux(r)
    BY <1>0 DEF InFlux, Settling, BeginScan
  <2> QED BY <1>0, <2>1 DEF Plans, Planned, BeginScan, drive, args, LinksOf
<1>7. Armed' /\ Announcing'
  BY <1>0 DEF Armed, Announcing, Settling, drive, TypeOK, BeginScan
<1> QED BY <1>1, <1>2, <1>3, <1>4, <1>5, <1>6, <1>7

LEMMA ReadbackStep == ASSUME IInv, Readback PROVE IInv'
<1> USE DEF IInv, RunFacts, Readback, Advance
<1>0. /\ Target \in Roles /\ disk.documents[Target] # NoId
      /\ Doc(Target) = disk.documents[Target] /\ Doc(Target) \in Ids
      /\ purpose \in {"effect", "settle"}
  BY UpsertTarget, DocTyped DEF Stages
<1>00. wrote[Doc(Target)] = Wanted(Target) /\ Wanted(Target) \in Written
  BY <1>0, WantedIsWritten, Kinds DEF Facts, Bodies
<1>1. Copy' /\ Facts' /\ CompleteIsPublished'
  BY LocalStep DEF BeginScan
<1>2. TypeOK'
  <2>1. /\ expected' \in [Roles -> Written \cup {NoDoc, Empty, Foreign}]
        /\ receipt' \in [Roles -> Nat]
    BY <1>0, <1>00 DEF TypeOK
  <2>2. at' \in 0..Len(Order) + 1 /\ purpose' \in Inventories
    BY <1>0, UpsertTarget, OrderAssumption DEF BeginScan, Inventories
  <2>3. todo' \subseteq Roles /\ seen' \in [Roles -> Written \cup {NoDoc, Empty, Foreign}]
    BY KnownAreRoles DEF BeginScan, NothingSeen
  <2> QED BY <2>1, <2>2, <2>3 DEF TypeOK, drive, args, bounds, BeginScan, Asking
<1>3. Orphanage'
  BY DEF Orphanage, Unlisted, MadeNotListed, drive, work, BeginScan, Target
<1>4. Stages'
  <2>1. pc' = "list" /\ purpose' \in {"upsert", "final"}
    BY DEF BeginScan
  <2>2. at' \in 1..Len(Order) + 1 /\ (purpose' = "final" => at' = Len(Order) + 1)
    BY SMTT(30), <1>0, UpsertTarget, OrderAssumption DEF BeginScan
  <2> QED BY <2>1, <2>2 DEF Stages, InInit, InEffect, MadeNotListed, Settling
<1>5. Views'
  BY ScanBegins DEF Views, drive, work, Known, Doc, Copy, Bodies, TypeOK, Facts, BeginScan
<1>6. Plans'
  <2> USE UpsertTarget, <1>0 DEF Planned
  <2>1. \A r \in Roles : (InFlux(r) => r = Target) /\ ~InFlux(r)'
    BY DEF InFlux, Settling, BeginScan
  <2>2. \A r \in Roles : expected'[r] = IF disk.documents[r] = NoId THEN NoDoc
                                          ELSE wrote[disk.documents[r]]
    BY <2>1, <1>00 DEF Plans, TypeOK
  <2>3. \A r \in Roles : expected'[r] \in Written \cup {NoDoc}
    BY <1>00 DEF Plans, TypeOK
  <2>4. ASSUME NEW n \in 1..Len(Order), n < at'
        PROVE  expected'[Order[n]] = Markdown(fixture, Order[n])
    <3>1. Order[n] \in Records /\ Order[n] # Current /\ Order[n] \in Roles
      BY SMTT(30), OrderAssumption, NamesAssumption DEF Roles
    <3>2. CASE Order[n] = Target
      BY <3>1, <3>2 DEF Wanted, TypeOK
    <3>3. CASE Order[n] # Target
      <4>1. n < at
        BY <3>3, <2>4, OrderAssumption
      <4> QED BY <3>1, <3>3, <4>1 DEF Plans, TypeOK
    <3> QED BY <3>2, <3>3
  <2>5. purpose' = "final" => expected'[Current] = Index(fixture, LinksOf(disk))
    BY DEF BeginScan, Wanted, Copy, TypeOK
  <2> QED BY <2>1, <2>2, <2>3, <2>4, <2>5 DEF Plans, drive, args, LinksOf
<1>7. Armed' /\ Announcing'
  BY DEF Armed, Announcing, Settling, drive, work, BeginScan, Target, LastEntry
<1> QED BY <1>1, <1>2, <1>3, <1>4, <1>5, <1>6, <1>7

LEMMA ListChildrenStep == ASSUME IInv, ListChildren PROVE IInv'
<1> USE DEF IInv, RunFacts, ListChildren
<1>1. Copy' /\ Facts' /\ CompleteIsPublished'
  BY LocalStep DEF BeginScan
<1>2. TypeOK'
  BY KnownAreRoles DEF TypeOK, drive, args, work, bounds, BeginScan, NothingSeen, Asking, Inventories, Listings
<1>3. Orphanage'
  BY DEF Orphanage, Unlisted, MadeNotListed, drive, work, BeginScan, Target
<1>4. Stages'
  BY OrderAssumption DEF Stages, InInit, InEffect, MadeNotListed, Settling, drive, args, work, BeginScan, Target, TypeOK, Doc, Copy
<1>5. Views'
  BY ScanBegins DEF Views, drive, work, Known, Doc, Copy, Bodies, TypeOK, Facts, BeginScan
<1>6. Plans'
  BY DEF Plans, Planned, InFlux, Settling, Target, drive, args, work, BeginScan, LinksOf
<1>7. Armed' /\ Announcing'
  BY DEF Armed, Announcing, Settling, drive, work, BeginScan, Target, LastEntry
<1> QED BY <1>1, <1>2, <1>3, <1>4, <1>5, <1>6, <1>7

LEMMA CreateReadyStep == ASSUME IInv, CreateReady PROVE IInv'
<1> USE DEF IInv, RunFacts, CreateReady, Scanned
<1>1. Copy' /\ Facts' /\ CompleteIsPublished'
  BY LocalStep DEF BeginScan
<1>2. TypeOK'
  BY KnownAreRoles DEF TypeOK, drive, args, work, bounds, BeginScan, NothingSeen, Asking, Inventories, Listings
<1>3. Orphanage'
  BY DEF Orphanage, Unlisted, MadeNotListed, drive, work, BeginScan, Target
<1>4. Stages'
  BY OrderAssumption DEF Stages, InInit, InEffect, MadeNotListed, Settling, drive, args, work, BeginScan, Target, TypeOK, Doc, Copy
<1>5. Views'
  BY ScanBegins DEF Views, drive, work, Known, Doc, Copy, Bodies, TypeOK, Facts, BeginScan
<1>6. Plans'
  BY DEF Plans, Planned, InFlux, Settling, Target, drive, args, work, BeginScan, LinksOf
<1>7. Armed' /\ Announcing'
  BY DEF Armed, Announcing, Settling, drive, work, BeginScan, Target, LastEntry
<1> QED BY <1>1, <1>2, <1>3, <1>4, <1>5, <1>6, <1>7

LEMMA SettledStep == ASSUME IInv, Settled PROVE IInv'
<1> USE DEF IInv, RunFacts, Settled, Scanned
<1>1. Copy' /\ Facts' /\ CompleteIsPublished'
  BY LocalStep DEF BeginScan
<1>2. TypeOK'
  BY KnownAreRoles DEF TypeOK, drive, args, work, bounds, BeginScan, NothingSeen, Asking, Inventories, Listings
<1>3. Orphanage'
  BY DEF Orphanage, Unlisted, MadeNotListed, drive, work, BeginScan, Target
<1>4. Stages'
  BY OrderAssumption DEF Stages, InInit, InEffect, MadeNotListed, Settling, drive, args, work, BeginScan, Target, TypeOK, Doc, Copy
<1>5. Views'
  BY ScanBegins DEF Views, drive, work, Known, Doc, Copy, Bodies, TypeOK, Facts, BeginScan
<1>6. Plans'
  BY DEF Plans, Planned, InFlux, Settling, Target, drive, args, work, BeginScan, LinksOf
<1>7. Armed' /\ Announcing'
  BY DEF Armed, Announcing, Settling, drive, work, BeginScan, Target, LastEntry
<1> QED BY <1>1, <1>2, <1>3, <1>4, <1>5, <1>6, <1>7

(***************************************************************************)
(* At the final check everything planned is as wanted, so the documents of *)
(* the registry hold the fixture.                                          *)
(***************************************************************************)
LEMMA FinalHolds == ASSUME IInv, purpose = "final" PROVE Holds(fixture, disk.documents)
<1> USE DEF IInv, RunFacts
<1>1. at = Len(Order) + 1 /\ \A r \in Roles : ~InFlux(r)
  BY DEF Stages, InFlux, Settling, InEffect
<1>2. \A r \in Records : expected[r] = Markdown(fixture, r)
  <2> SUFFICES ASSUME NEW r \in Records PROVE expected[r] = Markdown(fixture, r)
    OBVIOUS
  <2>1. PICK n \in 1..Len(Order) : Order[n] = r
    BY OrderAssumption
  <2>2. n < at
    BY <1>1, OrderAssumption
  <2> QED BY <2>1, <2>2 DEF Plans, Planned
<1>3. expected[Current] = Index(fixture, LinksOf(disk))
  BY DEF Plans, Planned
<1>4. \A r \in Roles : expected[r] \in Written
  <2>1. LinksOf(disk) \in Links
    BY LinksAreLinks DEF TypeOK
  <2> QED BY <1>2, <1>3, <2>1, Kinds DEF TypeOK, Roles
<1>5. \A r \in Roles : disk.documents[r] # NoId /\ expected[r] = wrote[disk.documents[r]]
  BY <1>1, <1>4, Kinds DEF Plans, Planned
<1>6. \A r \in Roles : role[disk.documents[r]] = r
  BY <1>5 DEF Facts, Truth
<1> QED BY <1>2, <1>3, <1>5, <1>6 DEF Holds, LinksOf, Roles

LEMMA PreviewDoneStep == ASSUME IInv, PreviewDone PROVE IInv'
<1> USE DEF PreviewDone, Scanned
<1>1. CASE mode = "dry-run"
  BY <1>1, QuietExit
<1>2. CASE mode # "dry-run"
  <2> USE <1>2 DEF IInv, RunFacts
  <2>1. Copy' /\ Facts' /\ CompleteIsPublished'
    BY LocalStep DEF BeginScan
  <2>2. TypeOK'
    BY KnownAreRoles DEF TypeOK, drive, args, bounds, BeginScan, NothingSeen, Asking, Inventories
  <2>3. Orphanage'
    BY DEF Orphanage, Unlisted, MadeNotListed, drive, BeginScan
  <2>4. Stages'
    BY DEF Stages, InInit, InEffect, MadeNotListed, Settling, BeginScan
  <2>5. Views'
    BY ScanBegins DEF drive
  <2>6. Plans'
    <3>1. \A r \in Roles : seen[r] \in Written \cup {NoDoc}
      <4>1. LinksOf(mem) \in Links
        BY LinksAreLinks DEF TypeOK
      <4> QED BY <4>1, Kinds DEF Coherent, Roles
    <3>2. \A r \in Roles : seen[r] = IF disk.documents[r] = NoId THEN NoDoc
                                      ELSE wrote[disk.documents[r]]
      BY <3>1, Kinds DEF Views
    <3>3. at' = 0 /\ purpose' = "recheck"
      BY DEF Stages, BeginScan
    <3>4. 0 \notin 1..Len(Order) /\ \A n \in 1..Len(Order) : ~(n < 0)
      BY OrderAssumption
    <3> QED BY <3>1, <3>2, <3>3, <3>4 DEF Plans, drive
  <2>7. Armed' /\ Announcing'
    BY DEF Armed, Announcing, Settling, BeginScan
  <2> QED BY <2>1, <2>2, <2>3, <2>4, <2>5, <2>6, <2>7
<1> QED BY <1>1, <1>2

LEMMA FinalDoneStep == ASSUME IInv, FinalDone PROVE IInv'
<1> USE DEF FinalDone, Scanned
<1>1. CASE mem.pending = << >>
  <2>1. disk.pending = << >>
    BY <1>1 DEF IInv, RunFacts, Copy
  <2> QED BY <1>1, <2>1, QuietExit, FinalHolds
<1>2. CASE mem.pending # << >>
  <2> USE <1>2 DEF IInv, RunFacts
  <2>1. Copy' /\ Facts' /\ CompleteIsPublished'
    BY LocalStep
  <2>2. TypeOK'
    BY DEF TypeOK, drive, args, work, bounds
  <2>3. Orphanage'
    BY DEF Orphanage, Unlisted, MadeNotListed, drive, work
  <2>4. Stages'
    BY DEF Stages, InInit, InEffect, MadeNotListed, Settling, work, Copy
  <2>5. Views' /\ Armed' /\ Announcing'
    BY DEF Views, Armed, Announcing, Settling, work
  <2>6. Plans'
    BY DEF Plans, Planned, InFlux, Settling, Target, drive, args, work, LinksOf
  <2> QED BY <2>1, <2>2, <2>3, <2>4, <2>5, <2>6
<1> QED BY <1>1, <1>2

LEMMA QuietExits == ASSUME IInv, CheckFolder \/ Refuse \/ Crash PROVE IInv'
BY QuietExit, FailureTyped DEF CheckFolder, Refuse, Crash

--------------------------------------------------------------------------------
(***************************************************************************)
(* Registry saves.  A run that stops at a save leaves either registry.     *)
(***************************************************************************)
Listed(reg) ==
  reg.pending = << >> =>
    \A i \in Ids : role[i] # NoRole =>
      i = reg.folder \/ \E r \in Roles : reg.documents[r] = i

LEMMA ListedNow == ASSUME IInv PROVE Listed(disk)
BY DEF IInv, Facts, ClearMeansWhole, Listed

LEMMA StoppedAtSave ==
  ASSUME IInv, NEW o, Exit(o), UNCHANGED <<drive, args, bounds>>,
         o \in {"PARTIAL_UNPUBLISHED", "ERROR", "BLOCKED", "INITIALIZED", "COMPLETE"},
         disk' \in Registry, Facts', Listed(disk'),
         o = "COMPLETE" => disk'.pending = << >> /\ Holds(fixture, disk'.documents)
  PROVE  IInv'
<1> USE DEF IInv, drive, args, bounds
<1>1. TypeOK'
  <2> USE DEF TypeOK
  <2> QED BY ExitTyped
<1>2. Orphanage'
  BY DEF Orphanage, Unlisted, MadeNotListed, Exit, Forget, Listed
<1>3. CompleteIsPublished'
  BY DEF CompleteIsPublished, Holds, Exit
<1> QED BY <1>1, <1>2, <1>3, ExitRun

LEMMA FactsKept ==
  ASSUME IInv, UNCHANGED <<drive, args, bounds, disk>> PROVE Facts' /\ Listed(disk')
BY ListedNow DEF IInv, Facts, Truth, OnePerRole, Bodies, ClearMeansWhole, Holds, drive

(***************************************************************************)
(* A journal entry, saved or not: the documents stay what they were.       *)
(***************************************************************************)
LEMMA StageSaves ==
  ASSUME IInv, pc # "idle", NEW id \in Ids \cup {NoId}, NEW phase \in Phase, NEW next,
         next # "idle", next \in Asking \cup {"register", "commit"},
         Stage(id, phase, next)
  PROVE  \/ IInv'
         \/ /\ TypeOK' /\ Copy' /\ Facts' /\ CompleteIsPublished'
            /\ UNCHANGED <<drive, args, work, bounds, result>>
            /\ pc' = next
            /\ disk'.folder = disk.folder /\ disk'.documents = disk.documents
            /\ disk'.pending # << >>
            /\ LastEntry' = [id |-> id, phase |-> phase]
<1> DEFINE reg == Journal(mem, id, phase)
<1> USE DEF IInv, RunFacts
<1>0. mem = disk /\ mem \in Registry /\ result = "none"
  BY DEF Copy, TypeOK
<1>1. /\ reg \in Registry /\ reg.folder = disk.folder /\ reg.documents = disk.documents
      /\ reg.pending # << >> /\ reg.pending[Len(reg.pending)] = [id |-> id, phase |-> phase]
  BY <1>0, JournalIsRegistry
<1>2. UNCHANGED <<drive, args, bounds>>
  BY DEF Stage
<1> HIDE DEF reg
<1>3. ASSUME disk' = reg PROVE Facts' /\ Listed(disk')
  BY <1>1, <1>2, <1>3
     DEF Facts, Truth, OnePerRole, Bodies, ClearMeansWhole, Listed, drive
<1>4. CASE SaveFails(reg)
  <2>1. Facts' /\ Listed(disk') /\ disk' \in Registry
    BY <1>1, <1>2, <1>3, <1>4, FactsKept DEF SaveFails, TypeOK
  <2> QED BY <1>2, <1>4, <2>1, StoppedAtSave, FailureTyped DEF SaveFails
<1>5. CASE mem' = reg /\ disk' = reg /\ pc' = next /\ UNCHANGED <<work, result>>
  <2>1. TypeOK'
    BY <1>1, <1>2, <1>5 DEF TypeOK, drive, args, work, bounds
  <2>2. Copy' /\ CompleteIsPublished'
    BY <1>0, <1>5 DEF Copy, CompleteIsPublished
  <2> QED BY <1>1, <1>2, <1>3, <1>5, <2>1, <2>2 DEF LastEntry
<1> QED BY <1>4, <1>5 DEF Stage, Saved, reg

LEMMA StageFolderStep == ASSUME IInv, StageFolder PROVE IInv'
<1> USE DEF IInv, RunFacts, StageFolder
<1>0. pc = "stageFolder"
  OBVIOUS

<1>1. SUFFICES ASSUME ~IInv' PROVE IInv'
  OBVIOUS
<1>2. /\ TypeOK' /\ Copy' /\ Facts' /\ CompleteIsPublished'
      /\ UNCHANGED <<drive, args, work, bounds, result>>
      /\ pc' = "createFolder"
      /\ disk'.folder = disk.folder /\ disk'.documents = disk.documents
      /\ disk'.pending # << >>
      /\ LastEntry' = [id |-> NoId, phase |-> "FOLDER_CREATE_ATTEMPT"]
  BY <1>0, <1>1, StageSaves DEF Asking, Phase
<1>3. Orphanage'
  BY <1>0, <1>2 DEF Orphanage, Unlisted, MadeNotListed, drive, work, Target
<1>4. Stages'
  BY <1>0, <1>2 DEF Stages, InInit, InEffect, MadeNotListed, Settling, work, Target
<1>5. Views'
  BY <1>2 DEF Views
<1>6. Plans'
  BY <1>0, <1>2 DEF Plans, Planned, InFlux, Settling, Target, drive, args, work, LinksOf
<1>7. Armed'
  BY <1>0, <1>2 DEF Armed, Settling, drive, work, Target
<1>8. Announcing'
  BY <1>0, <1>2 DEF Announcing, work, Target, Settling
<1> QED BY <1>2, <1>3, <1>4, <1>5, <1>6, <1>7, <1>8

LEMMA StageFolderMadeStep == ASSUME IInv, StageFolderMade PROVE IInv'
<1> USE DEF IInv, RunFacts, StageFolderMade
<1>0. made \in Ids
  BY DEF Orphanage, MadeNotListed

<1>1. SUFFICES ASSUME ~IInv' PROVE IInv'
  OBVIOUS
<1>2. /\ TypeOK' /\ Copy' /\ Facts' /\ CompleteIsPublished'
      /\ UNCHANGED <<drive, args, work, bounds, result>>
      /\ pc' = "adoptFolder"
      /\ disk'.folder = disk.folder /\ disk'.documents = disk.documents
      /\ disk'.pending # << >>
      /\ LastEntry' = [id |-> made, phase |-> "CREATED_EMPTY_UNVERIFIED"]
  BY <1>0, <1>1, StageSaves DEF Asking, Phase
<1>3. Orphanage'
  BY <1>0, <1>2 DEF Orphanage, Unlisted, MadeNotListed, drive, work, Target
<1>4. Stages'
  BY <1>0, <1>2 DEF Stages, InInit, InEffect, MadeNotListed, Settling, work, Target
<1>5. Views'
  BY <1>2 DEF Views
<1>6. Plans'
  BY <1>0, <1>2 DEF Plans, Planned, InFlux, Settling, Target, drive, args, work, LinksOf
<1>7. Armed'
  BY <1>0, <1>2 DEF Armed, Settling, drive, work, Target
<1>8. Announcing'
  BY <1>0, <1>2 DEF Announcing, work, Target, Settling
<1> QED BY <1>2, <1>3, <1>4, <1>5, <1>6, <1>7, <1>8

LEMMA StageUpdateStep == ASSUME IInv, StageUpdate PROVE IInv'
<1> USE DEF IInv, RunFacts, StageUpdate
<1>0. /\ Doc(Target) = disk.documents[Target] /\ Doc(Target) \in Ids
      /\ purpose = "effect"
  BY UpsertTarget, DocTyped DEF Stages, InEffect

<1>1. SUFFICES ASSUME ~IInv' PROVE IInv'
  OBVIOUS
<1>2. /\ TypeOK' /\ Copy' /\ Facts' /\ CompleteIsPublished'
      /\ UNCHANGED <<drive, args, work, bounds, result>>
      /\ pc' = "write"
      /\ disk'.folder = disk.folder /\ disk'.documents = disk.documents
      /\ disk'.pending # << >>
      /\ LastEntry' = [id |-> Doc(Target), phase |-> "UPDATE_ATTEMPT"]
  BY <1>0, <1>1, StageSaves DEF Asking, Phase
<1>3. Orphanage'
  BY <1>0, <1>2 DEF Orphanage, Unlisted, MadeNotListed, drive, work, Target
<1>4. Stages'
  BY <1>0, <1>2 DEF Stages, InInit, InEffect, MadeNotListed, Settling, work, Target
<1>5. Views'
  BY <1>2 DEF Views
<1>6. Plans'
  BY <1>0, <1>2 DEF Plans, Planned, InFlux, Settling, Target, drive, args, work, LinksOf
<1>7. Armed'
  BY <1>0, <1>2 DEF Armed, Settling, drive, work, Target
<1>8. Announcing'
  BY <1>0, <1>2 DEF Announcing, work, Target, Settling
<1> QED BY <1>2, <1>3, <1>4, <1>5, <1>6, <1>7, <1>8

LEMMA StageCreateStep == ASSUME IInv, StageCreate PROVE IInv'
<1> USE DEF IInv, RunFacts, StageCreate
<1>0. pc = "stageCreate"
  OBVIOUS

<1>1. SUFFICES ASSUME ~IInv' PROVE IInv'
  OBVIOUS
<1>2. /\ TypeOK' /\ Copy' /\ Facts' /\ CompleteIsPublished'
      /\ UNCHANGED <<drive, args, work, bounds, result>>
      /\ pc' = "createDoc"
      /\ disk'.folder = disk.folder /\ disk'.documents = disk.documents
      /\ disk'.pending # << >>
      /\ LastEntry' = [id |-> NoId, phase |-> "CREATE_ATTEMPT"]
  BY <1>0, <1>1, StageSaves DEF Asking, Phase
<1>3. Orphanage'
  BY <1>0, <1>2 DEF Orphanage, Unlisted, MadeNotListed, drive, work, Target
<1>4. Stages'
  BY <1>0, <1>2 DEF Stages, InInit, InEffect, MadeNotListed, Settling, work, Target
<1>5. Views'
  BY <1>2 DEF Views
<1>6. Plans'
  BY <1>0, <1>2 DEF Plans, Planned, InFlux, Settling, Target, drive, args, work, LinksOf
<1>7. Armed'
  BY <1>0, <1>2 DEF Armed, Settling, drive, work, Target
<1>8. Announcing'
  BY <1>0, <1>2 DEF Announcing, work, Target, Settling
<1> QED BY <1>2, <1>3, <1>4, <1>5, <1>6, <1>7, <1>8

LEMMA StageMadeStep == ASSUME IInv, StageMade PROVE IInv'
<1> USE DEF IInv, RunFacts, StageMade
<1>0. made \in Ids
  BY DEF Orphanage, MadeNotListed

<1>1. SUFFICES ASSUME ~IInv' PROVE IInv'
  OBVIOUS
<1>2. /\ TypeOK' /\ Copy' /\ Facts' /\ CompleteIsPublished'
      /\ UNCHANGED <<drive, args, work, bounds, result>>
      /\ pc' = "register"
      /\ disk'.folder = disk.folder /\ disk'.documents = disk.documents
      /\ disk'.pending # << >>
      /\ LastEntry' = [id |-> made, phase |-> "CREATED_EMPTY_UNVERIFIED"]
  BY <1>0, <1>1, StageSaves DEF Asking, Phase
<1>3. Orphanage'
  BY <1>0, <1>2 DEF Orphanage, Unlisted, MadeNotListed, drive, work, Target
<1>4. Stages'
  BY <1>0, <1>2 DEF Stages, InInit, InEffect, MadeNotListed, Settling, work, Target
<1>5. Views'
  BY <1>2 DEF Views
<1>6. Plans'
  BY <1>0, <1>2 DEF Plans, Planned, InFlux, Settling, Target, drive, args, work, LinksOf
<1>7. Armed'
  BY <1>0, <1>2 DEF Armed, Settling, drive, work, Target
<1>8. Announcing'
  BY <1>0, <1>2 DEF Announcing, work, Target, Settling
<1> QED BY <1>2, <1>3, <1>4, <1>5, <1>6, <1>7, <1>8

LEMMA StageContentStep == ASSUME IInv, StageContent PROVE IInv'
<1> USE DEF IInv, RunFacts, StageContent
<1>0. /\ made = disk.documents[Target] /\ made \in Ids
      /\ purpose = "settle"
  BY UpsertTarget, DocTyped DEF Stages

<1>1. SUFFICES ASSUME ~IInv' PROVE IInv'
  OBVIOUS
<1>2. /\ TypeOK' /\ Copy' /\ Facts' /\ CompleteIsPublished'
      /\ UNCHANGED <<drive, args, work, bounds, result>>
      /\ pc' = "write"
      /\ disk'.folder = disk.folder /\ disk'.documents = disk.documents
      /\ disk'.pending # << >>
      /\ LastEntry' = [id |-> made, phase |-> "CONTENT_ATTEMPTED"]
  BY <1>0, <1>1, StageSaves DEF Asking, Phase
<1>3. Orphanage'
  BY <1>0, <1>2 DEF Orphanage, Unlisted, MadeNotListed, drive, work, Target
<1>4. Stages'
  BY <1>0, <1>2 DEF Stages, InInit, InEffect, MadeNotListed, Settling, work, Target
<1>5. Views'
  BY <1>2 DEF Views
<1>6. Plans'
  BY <1>0, <1>2 DEF Plans, Planned, InFlux, Settling, Target, drive, args, work, LinksOf
<1>7. Armed'
  BY <1>0, <1>2 DEF Armed, Settling, drive, work, Target
<1>8. Announcing'
  BY <1>0, <1>2 DEF Announcing, work, Target, Settling
<1> QED BY <1>2, <1>3, <1>4, <1>5, <1>6, <1>7, <1>8

LEMMA RegisterStep == ASSUME IInv, Register PROVE IInv'
<1> DEFINE reg == [mem EXCEPT !.documents[Target] = made]
<1> USE DEF IInv, RunFacts
<1>0. /\ mem = disk /\ result = "none" /\ pc = "register" /\ purpose = "effect"
      /\ Target \in Roles /\ made \in Ids /\ role[made] = Target
      /\ disk.documents[Target] = NoId /\ disk.pending # << >> /\ disk.folder # NoId
      /\ UNCHANGED <<drive, args, bounds>>
  BY UpsertTarget DEF Copy, Orphanage, MadeNotListed, Stages, InInit, InEffect, Register
<1>1. /\ reg \in Registry /\ reg.folder = disk.folder /\ reg.pending = disk.pending
      /\ reg.documents = [disk.documents EXCEPT ![Target] = made]
  BY <1>0 DEF TypeOK, Registry
<1>2. disk.documents \in [Roles -> Ids \cup {NoId}]
  BY DEF TypeOK, Registry
<1> HIDE DEF reg
<1>3. ASSUME disk' = reg PROVE Facts' /\ Listed(disk')
  <2>1. Truth'
    BY <1>0, <1>1, <1>2, <1>3 DEF Facts, Truth, drive
  <2>2. OnePerRole' /\ Bodies' /\ ClearMeansWhole' /\ Listed(disk')
    BY <1>0, <1>1, <1>3 DEF Facts, OnePerRole, Bodies, ClearMeansWhole, Listed, drive
  <2> QED BY <2>1, <2>2 DEF Facts
<1>4. CASE SaveFails(reg)
  <2>1. Facts' /\ Listed(disk') /\ disk' \in Registry
    BY <1>0, <1>1, <1>3, <1>4, FactsKept DEF SaveFails, TypeOK
  <2> QED BY <1>0, <1>4, <2>1, StoppedAtSave, FailureTyped DEF SaveFails
<1>5. CASE mem' = reg /\ disk' = reg /\ pc' = "readEmpty" /\ UNCHANGED <<work, result>>
  <2> USE <1>0, <1>1, <1>5
  <2>1. TypeOK'
    BY DEF TypeOK, drive, args, work, bounds, Asking
  <2>2. Copy' /\ CompleteIsPublished'
    BY DEF Copy, CompleteIsPublished
  <2>3. Orphanage'
    <3>1. \A i \in Ids : ~Unlisted(i)'
      <4> SUFFICES ASSUME NEW i \in Ids, Unlisted(i)' PROVE FALSE
        OBVIOUS
      <4>1. role[i] # NoRole /\ i # disk.folder
            /\ \A r \in Roles : disk'.documents[r] # i
        BY DEF Unlisted, drive
      <4>2. i # made
        BY <4>1, <1>2
      <4>3. Unlisted(i)
        BY <4>1, <1>2, NamesAssumption DEF Unlisted
      <4> QED BY <4>2, <4>3 DEF Orphanage, MadeNotListed
    <3> QED BY <3>1 DEF Orphanage, MadeNotListed
  <2>4. Target' = Target
    BY DEF Target, work
  <2>5. Stages'
    BY <2>4, <1>2, NamesAssumption DEF Stages, InInit, InEffect, MadeNotListed, Settling, work
  <2>6. Views' /\ Armed' /\ Announcing'
    BY DEF Views, Armed, Announcing, Settling, work
  <2>7. Plans'
    BY <2>4, <1>2 DEF Plans, Planned, InFlux, Settling, drive, args, work
  <2> QED BY <1>3, <2>1, <2>2, <2>3, <2>5, <2>6, <2>7
<1> QED BY <1>4, <1>5 DEF Register, Saved, reg

LEMMA AdoptFolderStep == ASSUME IInv, AdoptFolder PROVE IInv'
<1> DEFINE reg == [mem EXCEPT !.folder = made, !.pending = << >>]
<1> USE DEF IInv, RunFacts
<1>0. /\ mem = disk /\ result = "none" /\ pc = "adoptFolder"
      /\ made \in Ids /\ role[made] = Folder /\ disk.folder = NoId
      /\ UNCHANGED <<drive, args, bounds>>
  BY DEF Copy, Orphanage, MadeNotListed, Stages, InInit, AdoptFolder
<1>1. /\ reg \in Registry /\ reg.folder = made /\ reg.pending = << >>
      /\ reg.documents = disk.documents
  BY <1>0, AdoptedIsRegistry DEF TypeOK
<1> HIDE DEF reg
<1>2. \A r \in Roles : disk.documents[r] = NoId
  BY <1>0 DEF Facts, Truth
<1>3. ASSUME disk' = reg PROVE Facts' /\ Listed(disk')
  <2>1. Truth' /\ OnePerRole' /\ Bodies'
    BY <1>0, <1>1, <1>2, <1>3, NamesAssumption
       DEF Facts, Truth, OnePerRole, Bodies, drive
  <2>2. \A i \in Ids : role[i] # NoRole => i = made
    BY <1>0, <1>2, NamesAssumption DEF Orphanage, Unlisted, MadeNotListed
  <2>3. ClearMeansWhole' /\ Listed(disk')
    BY <1>0, <1>1, <1>2, <1>3, <2>2 DEF ClearMeansWhole, Listed, drive
  <2> QED BY <2>1, <2>3 DEF Facts
<1>4. CASE SaveFails(reg)
  <2>1. Facts' /\ Listed(disk') /\ disk' \in Registry
    BY <1>0, <1>1, <1>3, <1>4, FactsKept DEF SaveFails, TypeOK
  <2> QED BY <1>0, <1>4, <2>1, StoppedAtSave, FailureTyped DEF SaveFails
<1>5. CASE disk' = reg /\ Exit("INITIALIZED")
  BY <1>0, <1>1, <1>3, <1>5, StoppedAtSave
<1> QED BY <1>4, <1>5 DEF AdoptFolder, reg

LEMMA CommitStep == ASSUME IInv, Commit PROVE IInv'
<1> DEFINE reg == [mem EXCEPT !.pending = << >>]
<1> USE DEF IInv, RunFacts
<1>0. /\ mem = disk /\ result = "none" /\ pc = "commit" /\ purpose = "final"
      /\ UNCHANGED <<drive, args, bounds>>
  BY DEF Copy, Stages, Commit
<1>1. /\ reg \in Registry /\ reg.folder = disk.folder /\ reg.pending = << >>
      /\ reg.documents = disk.documents
  BY <1>0, ClearedIsRegistry DEF TypeOK
<1> HIDE DEF reg
<1>2. Holds(fixture, disk.documents)
  BY <1>0, FinalHolds
<1>3. ASSUME disk' = reg
      PROVE  Facts' /\ Listed(disk') /\ Holds(fixture, disk'.documents)
  <2>1. Truth' /\ OnePerRole' /\ Bodies'
    BY <1>0, <1>1, <1>3 DEF Facts, Truth, OnePerRole, Bodies, drive
  <2>2. \A i \in Ids : role[i] # NoRole =>
          i = disk.folder \/ \E r \in Roles : disk.documents[r] = i
    BY <1>0 DEF Orphanage, Unlisted, MadeNotListed
  <2>3. Holds(fixture, disk'.documents)
    BY <1>1, <1>2, <1>3
  <2>4. fixture \in Fixtures
    BY DEF TypeOK
  <2>5. Listed(disk')
    BY <1>0, <1>1, <1>3, <2>2 DEF Listed
  <2>6. ClearMeansWhole'
    <3>1. \E v \in Fixtures : Holds(v, disk.documents)'
      BY <1>0, <1>1, <1>2, <1>3, <2>4 DEF Holds, drive
    <3> QED BY <1>0, <1>1, <1>3, <2>2, <3>1 DEF ClearMeansWhole, drive
  <2> QED BY <2>1, <2>3, <2>5, <2>6 DEF Facts
<1>4. CASE SaveFails(reg)
  <2>1. Facts' /\ Listed(disk') /\ disk' \in Registry
    BY <1>0, <1>1, <1>3, <1>4, FactsKept DEF SaveFails, TypeOK
  <2> QED BY <1>0, <1>4, <2>1, StoppedAtSave, FailureTyped DEF SaveFails
<1>5. CASE disk' = reg /\ Exit("COMPLETE")
  BY <1>0, <1>1, <1>3, <1>5, StoppedAtSave
<1> QED BY <1>4, <1>5 DEF Commit, reg

--------------------------------------------------------------------------------
(***************************************************************************)
(* Effects.  A file is created for a role that has none.                   *)
(***************************************************************************)
LEMMA Lands ==
  ASSUME IInv, disk.pending # << >>, NEW i \in Ids, NEW r \in Roles \cup {Folder},
         Land(i, r), \A j \in Ids : role[j] # r
  PROVE  /\ Facts' /\ Listed(disk')
         /\ role' \in [Ids -> Roles \cup {Folder, NoRole}]
         /\ body' \in [Ids -> Written \cup {NoDoc, Empty, Foreign}]
         /\ wrote' \in [Ids -> Written \cup {NoDoc, Empty}]
         /\ rev' \in [Ids -> Nat] /\ placed' \in [Ids -> BOOLEAN]
         /\ \A j \in Ids : role'[j] = IF j = i THEN r ELSE role[j]
         /\ \A j \in Ids : wrote'[j] = IF j = i THEN Empty ELSE wrote[j]
         /\ wrote[i] = NoDoc
<1> USE DEF IInv, Land
<1>1. /\ \A j \in Ids : role'[j] = IF j = i THEN r ELSE role[j]
      /\ \A j \in Ids : wrote'[j] = IF j = i THEN Empty ELSE wrote[j]
      /\ \A j \in Ids : body'[j] = IF j = i THEN Empty ELSE body[j]
  BY DEF TypeOK
<1>2. r # NoRole
  BY OrderAssumption
<1>3. wrote[i] = NoDoc
  BY DEF Facts, Bodies
<1>4. Truth'
  BY <1>1, <1>2, DocTyped, OrderAssumption DEF Facts, Truth, TypeOK, Registry
<1>5. OnePerRole'
  BY <1>1 DEF Facts, OnePerRole
<1>6. Bodies'
  BY <1>1, <1>2, Kinds DEF Facts, Bodies
<1>7. ClearMeansWhole' /\ Listed(disk')
  BY DEF ClearMeansWhole, Listed
<1>8. /\ role' \in [Ids -> Roles \cup {Folder, NoRole}]
      /\ body' \in [Ids -> Written \cup {NoDoc, Empty, Foreign}]
      /\ wrote' \in [Ids -> Written \cup {NoDoc, Empty}]
      /\ rev' \in [Ids -> Nat] /\ placed' \in [Ids -> BOOLEAN]
  BY DEF TypeOK
<1> QED BY <1>1, <1>3, <1>4, <1>5, <1>6, <1>7, <1>8 DEF Facts

LEMMA CreateFolderStep == ASSUME IInv, CreateFolder PROVE IInv'
<1> USE DEF IInv, RunFacts
<1>0. PICK i \in Ids :
        /\ Land(i, Folder)
        /\ \/ /\ made' = i /\ pc' = "stageFolderMade"
              /\ UNCHANGED <<mem, purpose, todo, seen, receipt, expected, at,
                             attempted, required, result>>
           \/ Exit(Failure)
  BY DEF CreateFolder, CreateAs
<1>1. /\ pc = "createFolder" /\ disk.pending # << >> /\ disk.folder = NoId
      /\ UNCHANGED <<disk, args, bounds>>
  BY <1>0 DEF CreateFolder, Stages, InInit, Land
<1>2. \A j \in Ids : role[j] # Folder
  BY <1>1, OrderAssumption, NamesAssumption
     DEF Orphanage, Unlisted, MadeNotListed, Facts, Truth
<1>3. CASE Exit(Failure)
  BY <1>0, <1>1, <1>2, <1>3, Lands, ExitTyped, ExitRun, FailureTyped
     DEF args, bounds, TypeOK, Orphanage, MadeNotListed, Exit, Forget, CompleteIsPublished
<1>4. CASE ~Exit(Failure)
  <2> USE <1>0, <1>1, <1>2, <1>4, Lands
  <2>1. TypeOK'
    BY DEF TypeOK, args, bounds
  <2>2. Copy' /\ CompleteIsPublished'
    BY DEF Copy, CompleteIsPublished
  <2>3. Orphanage'
    BY DEF Orphanage, Unlisted, MadeNotListed
  <2>4. Stages'
    BY DEF Stages, InInit, InEffect, MadeNotListed, Settling
  <2>5. Views' /\ Armed' /\ Announcing'
    BY DEF Views, Armed, Announcing, Settling
  <2>6. Plans'
    BY DEF Plans, Planned, Stages, InInit
  <2> QED BY <2>1, <2>2, <2>3, <2>4, <2>5, <2>6
<1> QED BY <1>3, <1>4

LEMMA CreateDocStep == ASSUME IInv, CreateDoc PROVE IInv'
<1> USE DEF IInv, RunFacts
<1>0. PICK i \in Ids :
        /\ Land(i, Target)
        /\ \/ /\ made' = i /\ pc' = "stageMade"
              /\ UNCHANGED <<mem, purpose, todo, seen, receipt, expected, at,
                             attempted, required, result>>
           \/ Exit(Failure)
  BY DEF CreateDoc, CreateAs
<1>1. /\ pc = "createDoc" /\ disk.pending # << >> /\ disk.folder # NoId
      /\ purpose = "effect" /\ disk.documents[Target] = NoId
      /\ UNCHANGED <<disk, args, bounds>>
  BY <1>0 DEF CreateDoc, Stages, InInit, InEffect, Land
<1>2. Target \in Roles
  BY <1>1, UpsertTarget
<1>3. \A j \in Ids : role[j] # Target
  BY <1>1, <1>2, OrderAssumption, NamesAssumption
     DEF Orphanage, Unlisted, MadeNotListed, Facts, Truth
<1>4. CASE Exit(Failure)
  BY <1>0, <1>1, <1>2, <1>3, <1>4, Lands, ExitTyped, ExitRun, FailureTyped
     DEF args, bounds, TypeOK, Orphanage, MadeNotListed, Exit, Forget, CompleteIsPublished
<1>5. CASE ~Exit(Failure)
  <2> USE <1>0, <1>1, <1>2, <1>3, <1>5, Lands
  <2>0. Target' = Target
    BY DEF Target
  <2>1. TypeOK'
    BY DEF TypeOK, args, bounds
  <2>2. Copy' /\ CompleteIsPublished'
    BY DEF Copy, CompleteIsPublished
  <2>3. Orphanage'
    BY <2>0 DEF Orphanage, Unlisted, MadeNotListed
  <2>4. Stages'
    BY <2>0 DEF Stages, InInit, InEffect, MadeNotListed, Settling
  <2>5. Views' /\ Armed' /\ Announcing'
    BY DEF Views, Armed, Announcing, Settling
  <2>6. Plans'
    <3>1. ASSUME NEW r \in Roles, disk.documents[r] # NoId
          PROVE  disk.documents[r] # i
      BY <3>1, DocTyped, OrderAssumption DEF Facts, Truth, Land
    <3> QED BY <3>1, <2>0, DocTyped DEF Plans, Planned, InFlux, Settling, args, LinksOf
  <2> QED BY <2>1, <2>2, <2>3, <2>4, <2>5, <2>6
<1> QED BY <1>4, <1>5

LEMMA WriteStep == ASSUME IInv, Write PROVE IInv'
<1> DEFINE i == disk.documents[Target]
<1> USE DEF IInv, RunFacts
<1>0. /\ pc = "write" /\ disk.pending # << >> /\ disk.folder # NoId
      /\ purpose \in {"effect", "settle"} /\ Target \in Roles
      /\ i \in Ids /\ Doc(Target) = i /\ role[i] = Target
      /\ UNCHANGED <<role, placed, disk, args, bounds>>
  BY UpsertTarget, DocTyped DEF Write, Stages, InInit, InEffect, Facts, Truth
<1>1. Wanted(Target) \in Written
  BY <1>0, WantedIsWritten
<1>2. /\ body' = [body EXCEPT ![i] = Wanted(Target)]
      /\ wrote' = [wrote EXCEPT ![i] = Wanted(Target)]
      /\ rev' = [rev EXCEPT ![i] = @ + 1]
  BY <1>0 DEF Write
<1> HIDE DEF i
<1>3. /\ body' \in [Ids -> Written \cup {NoDoc, Empty, Foreign}]
      /\ wrote' \in [Ids -> Written \cup {NoDoc, Empty}]
      /\ rev' \in [Ids -> Nat]
  BY <1>0, <1>1, <1>2 DEF TypeOK
<1>4. Facts'
  <2>1. Truth' /\ OnePerRole' /\ ClearMeansWhole'
    BY <1>0 DEF Facts, Truth, OnePerRole, ClearMeansWhole
  <2>2. Bodies'
    BY <1>0, <1>1, <1>2, Kinds, OrderAssumption DEF Facts, Bodies, TypeOK
  <2> QED BY <2>1, <2>2 DEF Facts
<1>5. CASE Exit(Failure)
  BY <1>0, <1>3, <1>4, <1>5, ExitTyped, ExitRun, FailureTyped
     DEF args, bounds, TypeOK, Orphanage, MadeNotListed, Exit, Forget, CompleteIsPublished
<1>6. CASE pc' = "readback" /\ UNCHANGED <<mem, work, result>>
  <2> USE <1>0, <1>6
  <2>0. Target' = Target
    BY DEF Target, work
  <2>1. TypeOK'
    BY <1>3 DEF TypeOK, args, work, bounds, Asking
  <2>2. Copy' /\ CompleteIsPublished'
    BY DEF Copy, CompleteIsPublished
  <2>3. Orphanage'
    BY DEF Orphanage, Unlisted, MadeNotListed
  <2>4. Stages'
    BY <2>0 DEF Stages, InInit, InEffect, MadeNotListed, Settling, work
  <2>5. Views' /\ Armed' /\ Announcing'
    BY DEF Views, Armed, Announcing, Settling, work
  <2>6. Plans'
    <3>1. ASSUME NEW r \in Roles, r # Target, disk.documents[r] # NoId
          PROVE  wrote'[disk.documents[r]] = wrote[disk.documents[r]]
      BY <3>1, <1>2, DocTyped DEF Facts, Truth, TypeOK
    <3> QED BY <3>1, <2>0 DEF Plans, Planned, InFlux, Settling, args, work, LinksOf
  <2> QED BY <1>4, <2>1, <2>2, <2>3, <2>4, <2>5, <2>6
<1> QED BY <1>5, <1>6 DEF Write

--------------------------------------------------------------------------------
(***************************************************************************)
(* Invocations and the owner.                                              *)
(***************************************************************************)
LEMMA InvokeBarredStep ==
  ASSUME IInv, NEW m \in Modes, NEW v \in Fixtures, InvokeBarred(m, v) PROVE IInv'
<1> USE DEF IInv, InvokeBarred, Invoked, drive
<1>1. TypeOK'
  <2>1. runs' \in Nat /\ edits' \in Nat /\ mode' \in Modes /\ fixture' \in Fixtures
    BY DEF TypeOK
  <2> QED BY <2>1, ExitTyped DEF TypeOK
<1>2. Facts'
  BY DEF Facts, Truth, OnePerRole, Bodies, ClearMeansWhole, Holds
<1>3. Orphanage'
  BY DEF Orphanage, Unlisted, MadeNotListed, Exit, Forget
<1>4. CompleteIsPublished'
  BY DEF CompleteIsPublished, Exit
<1> QED BY <1>1, <1>2, <1>3, <1>4, ExitRun

LEMMA InvokeInitStep == ASSUME IInv, InvokeInit PROVE IInv'
<1> USE DEF IInv, RunFacts, InvokeInit, Invoked, Clear, drive, work
<1>1. TypeOK'
  <2>1. runs' \in Nat /\ edits' \in Nat /\ mode' \in Modes /\ fixture' \in Fixtures
    BY DEF TypeOK, Modes
  <2>2. pc' \in {"stageFolder", "checkFolder"} /\ mem' \in Registry
    BY DEF TypeOK
  <2> QED BY <2>1, <2>2 DEF TypeOK, Asking
<1>2. Facts'
  BY DEF Facts, Truth, OnePerRole, Bodies, ClearMeansWhole, Holds
<1>3. Orphanage'
  BY DEF Orphanage, Unlisted, MadeNotListed
<1>4. Copy' /\ CompleteIsPublished'
  BY DEF Copy, CompleteIsPublished
<1>5. Stages'
  BY DEF Stages, InInit, InEffect, MadeNotListed, Settling
<1>6. Views' /\ Armed' /\ Announcing'
  BY DEF Views, Armed, Announcing, Settling
<1>7. Plans'
  BY DEF Plans, Planned, Stages
<1> QED BY <1>1, <1>2, <1>3, <1>4, <1>5, <1>6, <1>7

LEMMA InvokePublishStep ==
  ASSUME IInv, NEW m \in Modes, NEW v \in Fixtures, InvokePublish(m, v) PROVE IInv'
<1> USE DEF IInv, RunFacts, InvokePublish, Invoked, Clear, BeginScan, drive
<1>1. TypeOK'
  <2>1. runs' \in Nat /\ edits' \in Nat /\ mode' \in Modes /\ fixture' \in Fixtures
    BY DEF TypeOK
  <2>2. todo' \subseteq Roles /\ seen' \in [Roles -> Written \cup {NoDoc, Empty, Foreign}]
    BY KnownAreRoles DEF NothingSeen
  <2> QED BY <2>1, <2>2 DEF TypeOK, Asking, Inventories
<1>2. Facts'
  BY DEF Facts, Truth, OnePerRole, Bodies, ClearMeansWhole, Holds
<1>3. Orphanage'
  BY DEF Orphanage, Unlisted, MadeNotListed
<1>4. Copy' /\ CompleteIsPublished'
  BY DEF Copy, CompleteIsPublished
<1>5. Stages'
  BY DEF Stages, InInit, InEffect, MadeNotListed, Settling
<1>6. Views' /\ Armed' /\ Announcing'
  BY DEF Views, Armed, Announcing, Settling, Known, NothingSeen
<1>7. Plans'
  BY DEF Plans, Planned
<1> QED BY <1>1, <1>2, <1>3, <1>4, <1>5, <1>6, <1>7

LEMMA OwnerStep ==
  ASSUME IInv, NEW i \in Ids, OwnerEdits(i) \/ OwnerMoves(i) PROVE IInv'
<1> USE DEF IInv, RunFacts
<1>0. /\ UNCHANGED <<role, wrote, disk, pc, args, mem, work, result, runs>>
      /\ edits' = edits + 1
      /\ \/ /\ body' = [body EXCEPT ![i] = IF @ = Foreign THEN wrote[i] ELSE Foreign]
            /\ rev' = [rev EXCEPT ![i] = @ + 1]
            /\ UNCHANGED placed
         \/ /\ placed' = [placed EXCEPT ![i] = ~@]
            /\ UNCHANGED <<body, rev>>
  BY DEF OwnerEdits, OwnerMoves, OwnerActs
<1>a. role[i] # NoRole
  BY DEF OwnerEdits, OwnerMoves, OwnerActs
<1>1. /\ \A j \in Ids : body'[j] \in {wrote[j], Foreign}
      /\ \A j \in Ids : rev[j] \in Nat /\ rev'[j] \in Nat /\ rev[j] <= rev'[j]
      /\ \A j \in Ids : rev'[j] = rev[j] => body'[j] = body[j]
      /\ \A j \in Ids : role[j] = NoRole => body'[j] = body[j]
  <2>1. ASSUME NEW j \in Ids, j # i
        PROVE  body'[j] = body[j] /\ rev'[j] = rev[j] /\ rev[j] \in Nat
    BY <1>0, <2>1 DEF TypeOK
  <2>2. body'[i] \in {wrote[i], Foreign} /\ rev[i] \in Nat
    BY <1>0 DEF TypeOK, Facts, Bodies
  <2>3. \/ rev'[i] = rev[i] + 1
        \/ rev'[i] = rev[i] /\ body'[i] = body[i]
    BY <1>0 DEF TypeOK
  <2> QED BY <1>a, <2>1, <2>2, <2>3 DEF Facts, Bodies
<1>2. TypeOK'
  <2>1. body' \in [Ids -> Written \cup {NoDoc, Empty, Foreign}]
    BY <1>0 DEF TypeOK
  <2>2. rev' \in [Ids -> Nat] /\ edits' \in Nat
    BY <1>0 DEF TypeOK
  <2>3. placed' \in [Ids -> BOOLEAN]
    BY <1>0 DEF TypeOK
  <2> QED BY <1>0, <2>1, <2>2, <2>3 DEF TypeOK, args, work
<1>3. Facts' /\ CompleteIsPublished'
  BY <1>0, <1>1 DEF Facts, Truth, OnePerRole, Bodies, ClearMeansWhole, Holds,
                    CompleteIsPublished, args
<1>4. Orphanage'
  BY <1>0 DEF Orphanage, Unlisted, MadeNotListed, work, Target
<1>5. Copy' /\ Stages'
  BY <1>0 DEF Copy, Stages, InInit, InEffect, MadeNotListed, Settling, work, Target
<1>6. Views'
  BY <1>0 DEF Views, Known, work
<1>7. Plans'
  BY <1>0 DEF Plans, Planned, InFlux, Settling, Target, args, work, LinksOf
<1>8. Armed'
  <2>1. SUFFICES ASSUME pc \in {"stageUpdate", "stageContent", "write"} \/ Settling
                 PROVE  Armed'
    BY <1>0 DEF Armed, Settling, work
  <2>2. Target \in Roles /\ disk.documents[Target] \in Ids /\ Target' = Target
    BY <1>0, <2>1, UpsertTarget, DocTyped DEF Stages, InEffect, Settling, Target, work
  <2> QED BY <1>0, <1>1, <2>1, <2>2 DEF Armed, Settling, work, TypeOK
<1>9. Announcing'
  BY <1>0 DEF Announcing, LastEntry, Target, work
<1> QED BY <1>2, <1>3, <1>4, <1>5, <1>6, <1>7, <1>8, <1>9

LEMMA Stutter == ASSUME IInv, UNCHANGED vars PROVE IInv'
<1> USE DEF vars, drive, args, work, bounds, IInv, RunFacts
<1>1. TypeOK'
  BY DEF TypeOK
<1>2. Facts' /\ CompleteIsPublished'
  BY DEF Facts, Truth, OnePerRole, Bodies, ClearMeansWhole, Holds, CompleteIsPublished
<1>3. Orphanage'
  BY DEF Orphanage, Unlisted, MadeNotListed, Target
<1>4. Copy' /\ Stages'
  BY DEF Copy, Stages, InInit, InEffect, MadeNotListed, Settling, Target
<1>5. Views' /\ Armed' /\ Announcing'
  BY DEF Views, Known, Armed, Settling, Announcing, LastEntry, Target
<1>6. Plans'
  BY DEF Plans, Planned, InFlux, Settling, LinksOf, Target
<1> QED BY <1>1, <1>2, <1>3, <1>4, <1>5, <1>6

--------------------------------------------------------------------------------
(***************************************************************************)
(* The invariant holds at first and is kept by every step.                 *)
(***************************************************************************)
LEMMA InitInv == ASSUME Init PROVE IInv
<1> USE DEF Init
<1>0. /\ EmptyRegistry \in Registry /\ EmptyRegistry.folder = NoId
      /\ EmptyRegistry.pending = << >>
      /\ \A r \in Roles : EmptyRegistry.documents[r] = NoId
  BY DEF EmptyRegistry, Registry
<1>1. TypeOK
  <2>1. /\ seen \in [Roles -> Written \cup {NoDoc, Empty, Foreign}]
        /\ expected \in [Roles -> Written \cup {NoDoc, Empty, Foreign}]
        /\ receipt \in [Roles -> Nat]
    BY DEF NothingSeen, NoReceipts
  <2>2. at \in 0..Len(Order) + 1
    BY OrderAssumption
  <2>3. /\ role \in [Ids -> Roles \cup {Folder, NoRole}]
        /\ body \in [Ids -> Written \cup {NoDoc, Empty, Foreign}]
        /\ wrote \in [Ids -> Written \cup {NoDoc, Empty}]
        /\ rev \in [Ids -> Nat] /\ placed \in [Ids -> BOOLEAN]
    OBVIOUS
  <2>4. required \in Nat /\ runs \in Nat /\ edits \in Nat
    OBVIOUS
  <2> QED BY <1>0, <2>1, <2>2, <2>3, <2>4 DEF TypeOK, Modes
<1>2. Facts
  BY <1>0 DEF Facts, Truth, OnePerRole, Bodies, ClearMeansWhole
<1>3. Orphanage /\ CompleteIsPublished
  BY DEF Orphanage, Unlisted, MadeNotListed, CompleteIsPublished
<1>4. RunFacts
  BY <1>0 DEF RunFacts, Copy, Stages, InInit, InEffect, MadeNotListed, Settling, Views,
         Plans, Planned, Armed, Announcing
<1> QED BY <1>1, <1>2, <1>3, <1>4 DEF IInv

LEMMA NextInv == ASSUME IInv, [Next]_vars PROVE IInv'
<1>1. CASE Run
  BY <1>1, StageFolderStep, CreateFolderStep, StageFolderMadeStep, AdoptFolderStep,
     ListChildrenStep, ObserveStep, PreviewDoneStep, RecheckDoneStep, SkipStep, AttemptStep,
     UpdateReadyStep, StageUpdateStep, CreateReadyStep, StageCreateStep, CreateDocStep,
     StageMadeStep, RegisterStep, ReadEmptyStep, SettledStep, StageContentStep, WriteStep,
     ReadbackStep, FinalDoneStep, CommitStep, QuietExits DEF Run
<1>2. CASE Invoke
  BY <1>2, InvokeBarredStep, InvokeInitStep, InvokePublishStep DEF Invoke
<1>3. CASE Crash
  BY <1>3, QuietExits
<1>4. CASE Owner
  BY <1>4, OwnerStep DEF Owner
<1>5. CASE UNCHANGED vars
  BY <1>5, Stutter
<1> QED BY <1>1, <1>2, <1>3, <1>4, <1>5 DEF Next

(***************************************************************************)
(* The inductive invariant: what the registry file, the process and Drive  *)
(* know of each other at every moment of any run, crash or edit.           *)
(***************************************************************************)
THEOREM Invariant == Spec => []IInv
<1>1. Init => IInv
  BY InitInv
<1>2. IInv /\ [Next]_vars => IInv'
  BY NextInv
<1> QED BY <1>1, <1>2, PTL DEF Spec

(***************************************************************************)
(* Every variable keeps its type.                                          *)
(***************************************************************************)
THEOREM TypeCorrect == Spec => []TypeOK
BY Invariant, PTL DEF IInv

(***************************************************************************)
(* No sequence of runs, faults and edits makes a second document for a     *)
(* title (AppBackend.create, drive.apply).                                 *)
(***************************************************************************)
THEOREM OneDocumentPerTitle == Spec => []OnePerRole
<1>1. IInv => OnePerRole
  BY DEF IInv, Facts
<1> QED BY <1>1, Invariant, PTL

(***************************************************************************)
(* A registry with an empty journal stands for a whole publication, or for *)
(* none (AppBackend._journal, google_publish.publish).                     *)
(***************************************************************************)
THEOREM ClearJournalMeansWhole == Spec => []ClearMeansWhole
<1>1. IInv => ClearMeansWhole
  BY DEF IInv, Facts
<1> QED BY <1>1, Invariant, PTL

(***************************************************************************)
(* COMPLETE is said of complete publications only.                         *)
(***************************************************************************)
THEOREM CompleteMeansPublished == Spec => []CompleteIsPublished
BY Invariant, PTL DEF IInv

--------------------------------------------------------------------------------
(***************************************************************************)
(* The steps that may change a document: the owner's, files.create and     *)
(* replace_text; the last two know what they touch.                        *)
(***************************************************************************)
LEMMA DriveChanges ==
  ASSUME IInv, [Next]_vars
  PROVE  \/ UNCHANGED <<role, wrote, rev>>
         \/ edits' # edits /\ UNCHANGED <<role, wrote>>
         \/ \E i \in Ids : pc = "createFolder" /\ Land(i, Folder)
         \/ \E i \in Ids : pc = "createDoc" /\ Land(i, Target)
         \/ Write
<1> USE DEF drive
<1>1. CASE Run
  BY <1>1 DEF Run, StageFolder, CreateFolder, StageFolderMade, AdoptFolder, CheckFolder,
       ListChildren, Observe, PreviewDone, RecheckDone, Skip, Attempt, UpdateReady,
       StageUpdate, CreateReady, StageCreate, CreateDoc, StageMade, Register, ReadEmpty,
       Settled, StageContent, Readback, FinalDone, Commit, Refuse, Stage, CreateAs
<1>2. CASE Invoke
  BY <1>2 DEF Invoke, InvokeBarred, InvokeInit, InvokePublish, Invoked
<1>3. CASE Crash
  BY <1>3 DEF Crash
<1>4. CASE Owner
  <2>1. edits' = edits + 1 /\ UNCHANGED <<role, wrote>>
    BY <1>4 DEF Owner, OwnerEdits, OwnerMoves, OwnerActs
  <2> QED BY <2>1 DEF IInv, TypeOK
<1>5. CASE UNCHANGED vars
  BY <1>5 DEF vars
<1> QED BY <1>1, <1>2, <1>3, <1>4, <1>5 DEF Next

(***************************************************************************)
(* What replace_text does when the provider accepts it.                    *)
(***************************************************************************)
LEMMA Writes ==
  ASSUME IInv, Write
  PROVE  LET i == disk.documents[Target] IN
           /\ i \in Ids /\ role[i] = Target /\ Target \in Roles
           /\ body[i] = IF purpose = "settle" THEN Empty ELSE expected[Target]
           /\ purpose # "settle" => expected[Target] \in Written
           /\ disk.pending # << >>
           /\ LastEntry = [id |-> i, phase |-> IF purpose = "settle" THEN "CONTENT_ATTEMPTED"
                                               ELSE "UPDATE_ATTEMPT"]
           /\ wrote' = [wrote EXCEPT ![i] = Wanted(Target)]
           /\ rev' = [rev EXCEPT ![i] = @ + 1]
           /\ UNCHANGED <<role, disk, edits>>
<1> DEFINE i == disk.documents[Target]
<1> USE DEF IInv, RunFacts
<1>1. /\ pc = "write" /\ purpose \in {"effect", "settle"} /\ disk.pending # << >>
      /\ i # NoId
  BY DEF Write, Stages
<1>2. Target \in Roles /\ i \in Ids /\ Doc(Target) = i /\ role[i] = Target
  BY <1>1, UpsertTarget, DocTyped DEF Facts, Truth
<1>3. rev[i] = required
  BY <1>2 DEF Write, RevisionStands
<1>4. /\ body[i] = IF purpose = "settle" THEN Empty ELSE expected[Target]
      /\ purpose = "effect" => expected[Target] # NoDoc
  BY <1>1, <1>2, <1>3 DEF Armed
<1>5. expected[Target] \in Written \cup {NoDoc}
  BY <1>1, <1>2 DEF Plans, Planned
<1>6. LastEntry = [id |-> i, phase |-> IF purpose = "settle" THEN "CONTENT_ATTEMPTED"
                                       ELSE "UPDATE_ATTEMPT"]
  BY <1>1 DEF Announcing
<1>7. /\ wrote' = [wrote EXCEPT ![i] = Wanted(Target)]
      /\ rev' = [rev EXCEPT ![i] = @ + 1]
      /\ UNCHANGED <<role, disk, edits>>
  BY <1>2 DEF Write, bounds
<1> QED BY <1>1, <1>2, <1>4, <1>5, <1>6, <1>7

LEMMA OwnerTextStep ==
  ASSUME IInv, [Next]_vars, edits' = edits, NEW i \in Ids, rev'[i] # rev[i]
  PROVE  body[i] # Foreign
<1>1. ASSUME NEW j \in Ids, NEW r, Land(j, r) PROVE body[i] # Foreign
  <2>1. j = i /\ role[i] = NoRole
    BY <1>1 DEF Land, IInv, TypeOK
  <2> QED BY <2>1, Kinds DEF IInv, Facts, Bodies
<1>2. CASE Write
  <2>1. i = disk.documents[Target]
    BY <1>2, Writes DEF IInv, TypeOK
  <2> QED BY <1>2, <2>1, Writes, Kinds
<1> QED BY <1>1, <1>2, DriveChanges

(***************************************************************************)
(* The revision check of replace_text and the comparisons before it leave  *)
(* no moment at which a text of the owner is overwritten.                  *)
(***************************************************************************)
THEOREM OwnerTextIsKept == Spec => OwnerTextKept
<1>1. IInv /\ [Next]_vars =>
        [edits' = edits => \A i \in Ids : rev'[i] # rev[i] => body[i] # Foreign]_vars
  BY OwnerTextStep
<1> QED BY <1>1, Invariant, PTL DEF Spec, OwnerTextKept

(***************************************************************************)
(* At every effect the last journal entry on disk names it.                *)
(***************************************************************************)
THEOREM JournalWritesAhead == Spec => WriteAhead
<1>1. ASSUME IInv, [Next]_vars, edits' = edits, NEW i \in Ids, rev'[i] # rev[i]
      PROVE  disk.pending # << >> /\ Announced(i)
  <2>1. ASSUME NEW j \in Ids, pc = "createFolder", Land(j, Folder)
        PROVE  disk.pending # << >> /\ Announced(i)
    <3>1. j = i /\ role[i] = NoRole /\ role'[i] = Folder
      BY <1>1, <2>1 DEF Land, IInv, TypeOK
    <3> QED BY <1>1, <2>1, <3>1 DEF IInv, RunFacts, Stages, Announcing, Announced
  <2>2. ASSUME NEW j \in Ids, pc = "createDoc", Land(j, Target)
        PROVE  disk.pending # << >> /\ Announced(i)
    <3>1. j = i /\ role[i] = NoRole /\ role'[i] = Target
      BY <1>1, <2>2 DEF Land, IInv, TypeOK
    <3>2. Target # Folder
      BY <1>1, <2>2, UpsertTarget, OrderAssumption DEF IInv, RunFacts, Stages, InEffect
    <3> QED BY <1>1, <2>2, <3>1, <3>2 DEF IInv, RunFacts, Stages, Announcing, Announced
  <2>3. CASE Write
    <3>1. i = disk.documents[Target] /\ role[i] # NoRole
      BY <1>1, <2>3, Writes, OrderAssumption DEF IInv, TypeOK
    <3>2. body[i] = Empty <=> purpose = "settle"
      BY <1>1, <2>3, <3>1, Writes, Kinds
    <3> QED BY <1>1, <2>3, <3>1, <3>2, Writes DEF Announced
  <2> QED BY <1>1, <2>1, <2>2, <2>3, DriveChanges
<1>2. IInv /\ [Next]_vars =>
        [edits' = edits =>
           \A i \in Ids : rev'[i] # rev[i] => disk.pending # << >> /\ Announced(i)]_vars
  BY <1>1
<1> QED BY <1>2, Invariant, PTL DEF Spec, WriteAhead

(***************************************************************************)
(* When the target is CURRENT every record is in place.                    *)
(***************************************************************************)
LEMMA RecordsInPlace ==
  ASSUME IInv, Write, Target = Current
  PROVE  \A r \in Records : /\ disk.documents[r] # NoId
                            /\ role[disk.documents[r]] = r
                            /\ wrote[disk.documents[r]] = Markdown(fixture, r)
<1> USE DEF IInv, RunFacts
<1> SUFFICES ASSUME NEW r \in Records
             PROVE  /\ disk.documents[r] # NoId /\ role[disk.documents[r]] = r
                    /\ wrote[disk.documents[r]] = Markdown(fixture, r)
  OBVIOUS
<1>1. pc = "write" /\ purpose \in {"effect", "settle"}
  BY DEF Write, Stages
<1>2. at = Len(Order) + 1
  BY <1>1, UpsertTarget
<1>3. PICK n \in 1..Len(Order) : Order[n] = r
  BY OrderAssumption
<1>4. n < at
  BY <1>2, OrderAssumption
<1>5. expected[r] = Markdown(fixture, r)
  BY <1>1, <1>3, <1>4 DEF Plans, Planned
<1>6. r \in Roles /\ ~InFlux(r)
  BY NamesAssumption DEF Roles, InFlux
<1>7. disk.documents[r] # NoId /\ expected[r] = wrote[disk.documents[r]]
  BY <1>1, <1>5, <1>6, Kinds DEF Plans, Planned, TypeOK
<1> QED BY <1>5, <1>6, <1>7 DEF Facts, Truth

(***************************************************************************)
(* CURRENT is written last, over records that are all in place.            *)
(***************************************************************************)
THEOREM CurrentIsLast == Spec => CurrentLast
<1> DEFINE Indexed(b) ==
      \E v \in Fixtures, links \in Links :
        /\ b = Index(v, links)
        /\ \A r \in Records : /\ links[r] # NoId
                              /\ role[links[r]] = r
                              /\ wrote[links[r]] = Markdown(v, r)
<1>1. ASSUME IInv, [Next]_vars, NEW i \in Ids, wrote'[i] # wrote[i], role'[i] = Current,
             wrote'[i] # Empty
      PROVE  Indexed(wrote'[i])
  <2>1. ASSUME NEW j \in Ids, NEW r, Land(j, r) PROVE FALSE
    BY <1>1, <2>1 DEF Land, IInv, TypeOK
  <2>2. CASE Write
    <3>1. i = disk.documents[Target] /\ Target = Current /\ wrote'[i] = Wanted(Target)
      BY <1>1, <2>2, Writes DEF IInv, TypeOK
    <3>2. mem = disk /\ LinksOf(disk) \in Links
      BY <1>1, <2>2, LinksAreLinks DEF IInv, RunFacts, Copy, TypeOK, Write
    <3>3. wrote'[i] = Index(fixture, LinksOf(disk)) /\ fixture \in Fixtures
      BY <1>1, <3>1, <3>2 DEF Wanted, IInv, TypeOK
    <3>4. \A r \in Records : LinksOf(disk)[r] = disk.documents[r]
      BY DEF LinksOf
    <3> QED BY <1>1, <2>2, <3>1, <3>2, <3>3, <3>4, RecordsInPlace
  <2> QED BY <1>1, <2>1, <2>2, DriveChanges
<1>2. IInv /\ [Next]_vars =>
        [\A i \in Ids : wrote'[i] # wrote[i] /\ role'[i] = Current /\ wrote'[i] # Empty
                         => Indexed(wrote'[i])]_vars
  BY <1>1
<1> QED BY <1>2, Invariant, PTL DEF Spec, CurrentLast

--------------------------------------------------------------------------------
(***************************************************************************)
(* The publisher implements Publication: every step of it is a step of the *)
(* promise or leaves the promise's state alone.                            *)
(***************************************************************************)

(***************************************************************************)
(* Home, the abstract function from titles to documents, in terms of role. *)
(***************************************************************************)
LEMMA HomeIs ==
  ASSUME IInv, NEW r \in Roles
  PROVE  /\ Home[r] = NoId <=> \A i \in Ids : role[i] # r
         /\ Home[r] # NoId => Home[r] \in Ids /\ role[Home[r]] = r
         /\ \A i \in Ids : role[i] = r => Home[r] = i
         /\ Shown[r] = IF Home[r] = NoId THEN NoDoc ELSE wrote[Home[r]]
<1>1. r # NoRole
  BY OrderAssumption
<1>2. \A i, j \in Ids : role[i] = r /\ role[j] = r => i = j
  BY <1>1 DEF IInv, Facts, OnePerRole
<1>3. Shown[r] = IF Home[r] = NoId THEN NoDoc ELSE wrote[Home[r]]
  BY DEF Shown
<1>4. CASE \E i \in Ids : role[i] = r
  <2>1. Home[r] = CHOOSE i \in Ids : role[i] = r
    BY <1>4 DEF Home
  <2>2. Home[r] \in Ids /\ role[Home[r]] = r
    BY <1>4, <2>1
  <2> QED BY <1>2, <1>3, <2>2, NamesAssumption
<1>5. CASE ~\E i \in Ids : role[i] = r
  <2>1. Home[r] = NoId
    BY <1>5 DEF Home
  <2> QED BY <1>3, <1>5, <2>1
<1> QED BY <1>4, <1>5

LEMMA HomesAre ==
  IInv => \A r \in Roles : /\ Home[r] = NoId <=> \A i \in Ids : role[i] # r
                           /\ Home[r] # NoId => Home[r] \in Ids /\ role[Home[r]] = r
                           /\ \A i \in Ids : role[i] = r => Home[r] = i
                           /\ Shown[r] = IF Home[r] = NoId THEN NoDoc ELSE wrote[Home[r]]
BY HomeIs

LEMMA HomesAreNext ==
  (IInv => \A r \in Roles : /\ Home[r] = NoId <=> \A i \in Ids : role[i] # r
                            /\ Home[r] # NoId => Home[r] \in Ids /\ role[Home[r]] = r
                            /\ \A i \in Ids : role[i] = r => Home[r] = i
                            /\ Shown[r] = IF Home[r] = NoId THEN NoDoc ELSE wrote[Home[r]])'
BY HomesAre, PTL

(***************************************************************************)
(* Both the registry and the abstract function name the same documents.    *)
(***************************************************************************)
LEMMA HomeOfListed ==
  ASSUME IInv, NEW r \in Roles, disk.documents[r] # NoId
  PROVE  Home[r] = disk.documents[r]
<1>1. disk.documents[r] \in Ids /\ role[disk.documents[r]] = r
  BY DocTyped DEF IInv, Facts, Truth
<1> QED BY <1>1, HomeIs

LEMMA HomeOfNone ==
  ASSUME IInv, NEW r \in Roles, \A i \in Ids : ~Unlisted(i), disk.documents[r] = NoId
  PROVE  Home[r] = NoId /\ Shown[r] = NoDoc
<1>1. ASSUME NEW i \in Ids, role[i] = r PROVE FALSE
  <2>1. i # disk.folder
    BY <1>1, NamesAssumption, OrderAssumption DEF IInv, Facts, Truth
  <2>2. PICK q \in Roles : disk.documents[q] = i
    BY <1>1, <2>1, OrderAssumption DEF Unlisted
  <2>3. role[i] = q
    BY <2>2, NamesAssumption DEF IInv, Facts, Truth
  <2> QED BY <1>1, <2>2, <2>3, NamesAssumption
<1> QED BY <1>1, HomeIs

LEMMA Frame ==
  ASSUME UNCHANGED <<role, wrote>> PROVE UNCHANGED <<Home, Shown>>
<1>1. Home' = Home
  BY DEF Home
<1> QED BY <1>1 DEF Shown

--------------------------------------------------------------------------------
(***************************************************************************)
(* While the journal is empty the promise stands: nothing, or all of it.   *)
(***************************************************************************)
Kept == Promise!Nothing \/ \E v \in Fixtures : Promise!Complete(v)

LEMMA HoldsIsComplete ==
  ASSUME IInv, NEW v \in Fixtures, Holds(v, disk.documents) PROVE Promise!Complete(v)
<1>1. \A r \in Roles : disk.documents[r] # NoId /\ Home[r] = disk.documents[r]
  BY HomeOfListed DEF Holds
<1>2. \A r \in Roles : Shown[r] = wrote[disk.documents[r]]
  BY <1>1, HomeIs
<1>3. \A r \in Records : Shown[r] = Markdown(v, r)
  BY <1>2 DEF Holds, Roles
<1>4. Promise!RecordHomes = [r \in Records |-> disk.documents[r]]
  BY <1>1 DEF Promise!RecordHomes, Roles
<1>5. Shown[Current] = Index(v, Promise!RecordHomes)
  BY <1>2, <1>4 DEF Holds, Roles
<1> QED BY <1>3, <1>5 DEF Promise!Complete, Promise!RecordsShow, Promise!Markdown,
                             Markdown, Promise!Index, Index

LEMMA ClearIsKept == IInv /\ disk.pending = << >> => Kept
<1> SUFFICES ASSUME IInv, disk.pending = << >> PROVE Kept
  OBVIOUS
<1>1. CASE \A r \in Roles : disk.documents[r] = NoId
  <2>1. \A i \in Ids : ~Unlisted(i)
    BY DEF IInv, Orphanage
  <2> QED BY <1>1, <2>1, HomeOfNone DEF Kept, Promise!Nothing, Promise!Roles, Roles,
                                    Promise!NoDoc, NoDoc
<1>2. CASE \E v \in Fixtures : Holds(v, disk.documents)
  BY <1>2, HoldsIsComplete DEF Kept
<1> QED BY <1>1, <1>2 DEF IInv, Facts, ClearMeansWhole

LEMMA ClearIsKeptNext == (IInv /\ disk.pending = << >> => Kept)'
BY ClearIsKept, PTL

(***************************************************************************)
(* Drive as it was: the barrier may have gone up, and it came down only    *)
(* over nothing or over a complete publication.                            *)
(***************************************************************************)
LEMMA BarrierStep ==
  ASSUME IInv', UNCHANGED <<role, wrote>> PROVE [Promise!Next]_(Promise!pvars)
<1>1. UNCHANGED <<Home, Shown>>
  BY Frame
<1>2. CASE disk.pending = << >> /\ disk'.pending # << >>
  <2>1. Promise!Raise
    BY <1>1, <1>2 DEF Promise!Raise
  <2> QED BY <2>1 DEF Promise!Next
<1>3. CASE disk.pending # << >> /\ disk'.pending = << >>
  <2>1. Kept'
    BY <1>3, ClearIsKeptNext
  <2>2. Kept
    BY <1>1, <2>1 DEF Kept, Promise!Nothing, Promise!Complete, Promise!RecordsShow,
                      Promise!RecordHomes
  <2>3. Promise!Lower
    BY <1>1, <1>3, <2>2 DEF Kept, Promise!Lower
  <2> QED BY <2>3 DEF Promise!Next
<1>4. CASE (disk.pending = << >>) <=> (disk'.pending = << >>)
  BY <1>1, <1>4 DEF Promise!pvars
<1> QED BY <1>2, <1>3, <1>4

(***************************************************************************)
(* files.create: the folder is nobody's home, a document is its title's.   *)
(***************************************************************************)
LEMMA HomeAfterLand ==
  ASSUME IInv, IInv', NEW i \in Ids, NEW r \in Roles \cup {Folder}, Land(i, r)
  PROVE  /\ \A q \in Roles : Home[q] # i /\ (q = r => Home[q] = NoId)
         /\ \A q \in Roles : Home'[q] = IF q = r THEN i ELSE Home[q]
         /\ \A q \in Roles : Shown'[q] = IF q = r THEN Empty ELSE Shown[q]
<1>1. /\ role[i] = NoRole /\ wrote'[i] = Empty /\ role'[i] = r
      /\ \A j \in Ids : j # i => role'[j] = role[j] /\ wrote'[j] = wrote[j]
  BY DEF Land, IInv, TypeOK
<1>2. r # NoRole /\ i # NoId /\ NoRole \notin Roles
  BY NamesAssumption, OrderAssumption
<1>3. \A j \in Ids : role[j] # r
  BY <1>1, <1>2 DEF IInv, Facts, OnePerRole
<1>4. \A q \in Roles : Home[q] # i /\ (q = r => Home[q] = NoId)
  BY <1>1, <1>2, <1>3, HomesAre
<1>5. ASSUME NEW q \in Roles PROVE Home'[q] = IF q = r THEN i ELSE Home[q]
  <2>1. CASE q = r
    BY <1>1, <2>1, HomesAreNext
  <2>2. CASE q # r /\ Home[q] = NoId
    BY <1>1, <2>2, HomesAre, HomesAreNext
  <2>3. CASE q # r /\ Home[q] # NoId
    BY <1>1, <1>4, <2>3, HomesAre, HomesAreNext
  <2> QED BY <2>1, <2>2, <2>3
<1>6. ASSUME NEW q \in Roles PROVE Shown'[q] = IF q = r THEN Empty ELSE Shown[q]
  BY <1>1, <1>2, <1>4, <1>5, HomesAre, HomesAreNext
<1> QED BY <1>4, <1>5, <1>6

LEMMA TitleFunctions ==
  /\ Home = [r \in Roles |-> Home[r]] /\ Home' = [r \in Roles |-> Home'[r]]
  /\ Shown = [r \in Roles |-> Shown[r]] /\ Shown' = [r \in Roles |-> Shown'[r]]
<1>1. DOMAIN Home = Roles /\ DOMAIN Home' = Roles
  BY DEF Home
<1>2. DOMAIN Shown = Roles /\ DOMAIN Shown' = Roles
  BY DEF Shown
<1> QED BY <1>1, <1>2 DEF Home, Shown

LEMMA LandStep ==
  ASSUME IInv, IInv', disk.pending # << >>, NEW i \in Ids, NEW r \in Roles \cup {Folder},
         Land(i, r)
  PROVE  [Promise!Next]_(Promise!pvars)
<1>1. disk' = disk
  BY DEF Land
<1>2. CASE r = Folder
  <2>1. \A q \in Roles : Home'[q] = Home[q] /\ Shown'[q] = Shown[q]
    BY <1>2, HomeAfterLand, OrderAssumption
  <2>2. Home' = Home /\ Shown' = Shown
    BY <2>1, TitleFunctions
  <2> QED BY <1>1, <2>2 DEF Promise!pvars
<1>3. CASE r \in Roles
  <2>1. /\ Home' = [Home EXCEPT ![r] = i] /\ Shown' = [Shown EXCEPT ![r] = Empty]
        /\ Home[r] = NoId /\ \A q \in Roles : Home[q] # i
    BY <1>3, HomeAfterLand, TitleFunctions
  <2>2. Promise!Create(r, i)
    BY <1>1, <2>1 DEF Promise!Create, Promise!Roles, Roles, Promise!Empty, Empty
  <2> QED BY <1>3, <2>2 DEF Promise!Next, Promise!Roles, Roles
<1> QED BY <1>2, <1>3

(***************************************************************************)
(* replace_text: the document of the target, of a record or of the index.  *)
(***************************************************************************)
LEMMA ShownAfterWrite ==
  ASSUME IInv, IInv', NEW r \in Roles, NEW i \in Ids, role[i] = r, NEW text,
         wrote' = [wrote EXCEPT ![i] = text], UNCHANGED role
  PROVE  /\ Home' = Home /\ Home[r] = i /\ i # NoId
         /\ Shown' = [Shown EXCEPT ![r] = text]
<1>1. Home' = Home /\ Home[r] = i /\ i # NoId
  BY HomesAre, NamesAssumption DEF Home
<1>2. wrote \in [Ids -> Written \cup {NoDoc, Empty}]
  BY DEF IInv, TypeOK
<1>3. ASSUME NEW q \in Roles PROVE Shown'[q] = IF q = r THEN text ELSE Shown[q]
  <2>1. Home'[q] = Home[q]
    BY <1>1
  <2>2. CASE q = r
    BY <1>1, <1>2, <2>1, <2>2, HomesAreNext
  <2>3. CASE q # r /\ Home[q] = NoId
    BY <2>1, <2>3, HomesAre, HomesAreNext
  <2>4. CASE q # r /\ Home[q] # NoId
    BY <1>1, <1>2, <2>1, <2>4, HomesAre, HomesAreNext
  <2> QED BY <2>2, <2>3, <2>4
<1> QED BY <1>1, <1>3, TitleFunctions

LEMMA WriteRefines == ASSUME IInv, IInv', Write PROVE [Promise!Next]_(Promise!pvars)
<1> DEFINE i == disk.documents[Target]
<1>1. /\ i \in Ids /\ role[i] = Target /\ Target \in Roles /\ disk.pending # << >>
      /\ wrote' = [wrote EXCEPT ![i] = Wanted(Target)]
      /\ UNCHANGED <<role, disk>>
  BY Writes
<1> HIDE DEF i
<1>2. Home' = Home /\ Home[Target] = i /\ i # NoId
  BY <1>1, ShownAfterWrite
<1>3. Shown' = [Shown EXCEPT ![Target] = Wanted(Target)]
  BY <1>1, ShownAfterWrite
<1>4. fixture \in Fixtures /\ mem = disk
  BY DEF IInv, TypeOK, RunFacts, Copy, Write
<1>5. CASE Target \in Records
  <2>1. Wanted(Target) = Markdown(fixture, Target)
    BY <1>5, NamesAssumption DEF Wanted
  <2>2. Promise!WriteRecord(Target, fixture)
    BY <1>1, <1>2, <1>3, <2>1 DEF Promise!WriteRecord, Promise!Markdown, Markdown
  <2> QED BY <1>4, <1>5, <2>2 DEF Promise!Next
<1>6. CASE Target = Current
  <2>1. \A r \in Records : /\ disk.documents[r] # NoId
                           /\ role[disk.documents[r]] = r
                           /\ wrote[disk.documents[r]] = Markdown(fixture, r)
    BY <1>6, RecordsInPlace
  <2>2. \A r \in Records : Home[r] = disk.documents[r] /\ Shown[r] = Markdown(fixture, r)
    BY <2>1, HomeOfListed, HomesAre DEF Roles
  <2>3. Promise!RecordHomes = LinksOf(mem)
    BY <1>4, <2>2 DEF Promise!RecordHomes, LinksOf
  <2>4. Wanted(Target) = Index(fixture, Promise!RecordHomes)
    BY <1>6, <2>3 DEF Wanted
  <2>5. Promise!WriteCurrent(fixture)
    BY <1>1, <1>2, <1>3, <1>6, <2>2, <2>4
       DEF Promise!WriteCurrent, Promise!RecordsShow, Promise!Markdown, Markdown,
           Promise!Index, Index
  <2> QED BY <1>4, <2>5 DEF Promise!Next
<1> QED BY <1>1, <1>5, <1>6 DEF Roles

--------------------------------------------------------------------------------
LEMMA StartsKept == ASSUME Init PROVE Promise!Init
<1>1. Home = [r \in Roles |-> NoId]
  BY OrderAssumption DEF Init, Home
<1>2. Shown = [r \in Roles |-> NoDoc]
  BY <1>1 DEF Shown
<1>3. disk.pending = << >>
  BY DEF Init, EmptyRegistry
<1> QED BY <1>1, <1>2, <1>3 DEF Promise!Init, Promise!Roles, Roles, Promise!NoDoc, NoDoc

LEMMA StepKept == ASSUME IInv, IInv', [Next]_vars PROVE [Promise!Next]_(Promise!pvars)
<1>1. CASE UNCHANGED <<role, wrote>>
  BY <1>1, BarrierStep
<1>2. ASSUME NEW i \in Ids, pc = "createFolder", Land(i, Folder)
      PROVE  [Promise!Next]_(Promise!pvars)
  BY <1>2, LandStep DEF IInv, RunFacts, Stages
<1>3. ASSUME NEW i \in Ids, pc = "createDoc", Land(i, Target)
      PROVE  [Promise!Next]_(Promise!pvars)
  <2>1. Target \in Roles /\ disk.pending # << >>
    BY <1>3, UpsertTarget DEF IInv, RunFacts, Stages, InEffect
  <2> QED BY <1>3, <2>1, LandStep
<1>4. CASE Write
  BY <1>4, WriteRefines
<1> QED BY <1>1, <1>2, <1>3, <1>4, DriveChanges

(***************************************************************************)
(* The publisher keeps the promise of Publication: one document per title  *)
(* bound once, changes behind the barrier only, CURRENT last, and the      *)
(* barrier lowered over a complete publication or over none.               *)
(***************************************************************************)
THEOREM PublisherKeepsPromise == Spec => KeepsPromise
<1>1. Init => Promise!Init
  BY StartsKept
<1>2. IInv /\ IInv' /\ [Next]_vars => [Promise!Next]_(Promise!pvars)
  BY StepKept
<1> QED BY <1>1, <1>2, Invariant, PTL DEF Spec, KeepsPromise, Promise!Spec

================================================================================
