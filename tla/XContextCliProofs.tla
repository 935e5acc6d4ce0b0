--------------------------- MODULE XContextCliProofs ---------------------------
EXTENDS XContextCli, CredentialsProofs
(***************************************************************************)
(* Proofs about the bookmark store and the commands that save into it, for *)
(* any processes, subjects, posts and pages, and any number of commands.   *)
(***************************************************************************)

(***************************************************************************)
(* A store says of its subject only what was observed, in order of time.   *)
(***************************************************************************)
Truthful(f) ==
  IsStore(f) =>
    /\ f.created <= f.updated /\ f.updated <= clock
    /\ \A post \in DOMAIN f.items :
         LET item == f.items[post] IN
           /\ <<f.subject, post, item.text, item.last>> \in observed
           /\ \E text \in Texts : <<f.subject, post, text, item.first>> \in observed
           /\ f.created <= item.first /\ item.first <= item.last
           /\ item.last <= f.updated

(***************************************************************************)
(* What a save knows at each of its places.                                *)
(***************************************************************************)
Unwritten == {"acquire", "temp", "fresh", "replace"}

Saves(p) ==
  LET s == saver[p] IN
    /\ Truthful(s.snap)
    /\ s.at \in {"temp", "fresh", "replace", "readback"} =>
         /\ IsStore(s.image) /\ Truthful(s.image)
         /\ IsStore(s.snap) => Extends(s.image, s.snap)
    /\ s.at = "replace" => late[p] \/ file = s.snap
    /\ s.at \in Unwritten => ~wrote[p]
    /\ s.at = "readback" => wrote[p]
    /\ s.at = "idle" /\ s.outcome = "saved" => wrote[p]
    /\ s.at = "idle" /\ s.outcome \in {"storage_error", "subject_mismatch", "not_acquired"} =>
         ~wrote[p]

StoreInv == StoreTypeOK /\ Truthful(file) /\ \A p \in Procs : Saves(p)

--------------------------------------------------------------------------------
LEMMA TruthStays ==
  ASSUME observed \subseteq observed', clock <= clock', clock \in Nat, clock' \in Nat,
         NEW f \in Store \cup {NoFile}, Truthful(f)
  PROVE  Truthful(f)'
<1> SUFFICES ASSUME IsStore(f) PROVE Truthful(f)'
  BY DEF Truthful
<1>1. f.updated \in Nat /\ f.updated <= clock'
  <2>1. f \in Store
    BY DEF IsStore, NoFile
  <2>2. f.updated \in Nat
    BY <2>1, ProcessesAssumption DEF Store
  <2> QED BY <2>2 DEF Truthful
<1> QED BY <1>1 DEF Truthful

LEMMA NoFileIsTrue == Truthful(NoFile) /\ Truthful(Garbage) /\ ~IsStore(NoFile) /\ ~IsStore(Garbage)
BY DEF Truthful, IsStore, NoFile, Garbage

(***************************************************************************)
(* A step of one save, which tells the others when it changes the file.    *)
(***************************************************************************)
SaveOnly(p) ==
  /\ saver' \in [Procs -> Saver] /\ wrote' \in [Procs -> BOOLEAN] /\ late' \in [Procs -> BOOLEAN]
  /\ \A q \in Procs \ {p} : /\ saver'[q] = saver[q] /\ wrote'[q] = wrote[q]
                            /\ late'[q] \/ (~late[q] /\ file' = file)

Around ==
  /\ observed \subseteq observed' /\ observed' \subseteq Users \X Posts \X Texts \X (0..MaxTime)
  /\ clock <= clock' /\ clock' \in 0..MaxTime /\ calls' \in 0..MaxCalls
  /\ touches' \in 0..MaxTouches

LEMMA StoreSane ==
  ASSUME StoreInv, NEW p \in Procs
  PROVE  /\ saver[p] \in Saver /\ Saves(p) /\ clock \in 0..MaxTime /\ clock \in Nat
         /\ clock <= clock /\ file \in Store \cup {NoFile, Garbage}
         /\ saver[p].snap \in Store \cup {NoFile} /\ saver[p].image \in Store \cup {NoFile}
         /\ wrote[p] \in BOOLEAN /\ late[p] \in BOOLEAN
BY ProcessesAssumption DEF StoreInv, StoreTypeOK, Saver

LEMMA OtherSaves ==
  ASSUME StoreInv, Around, NEW q \in Procs, saver'[q] = saver[q], wrote'[q] = wrote[q],
         late'[q] \/ (~late[q] /\ file' = file)
  PROVE  Saves(q)'
<1>1. /\ Saves(q) /\ saver[q] \in Saver /\ clock \in Nat /\ clock' \in Nat
  BY StoreSane, ProcessesAssumption DEF Around
<1>2. PICK s \in Saver : s = saver[q]
  BY <1>1
<1>3. /\ s.snap \in Store \cup {NoFile} /\ s.image \in Store \cup {NoFile}
  BY DEF Saver
<1>4. /\ Truthful(s.snap) => Truthful(s.snap)'
      /\ Truthful(s.image) => Truthful(s.image)'
  BY <1>1, <1>3, TruthStays DEF Around
<1>5. /\ Truthful(s.snap)'
      /\ s.at \in {"temp", "fresh", "replace", "readback"} => Truthful(s.image)'
  BY <1>1, <1>2, <1>4 DEF Saves
<1>6. saver'[q] = s
  BY <1>2
<1>7. /\ s.at = "replace" => late'[q] \/ file' = s.snap
  BY <1>1, <1>2 DEF Saves
<1>8. Truthful(s.snap)' = Truthful(saver[q].snap)' /\ Truthful(s.image)' = Truthful(saver[q].image)'
  BY <1>6 DEF Truthful
<1> QED BY <1>1, <1>2, <1>5, <1>6, <1>7, <1>8 DEF Saves

LEMMA SaverStep ==
  ASSUME StoreInv, Around, NEW p \in Procs, SaveOnly(p), Saves(p)',
         file' \in Store \cup {NoFile, Garbage}, Truthful(file)'
  PROVE  StoreInv'
<1>1. \A q \in Procs : Saves(q)'
  BY OtherSaves DEF SaveOnly
<1>2. StoreTypeOK'
  BY DEF SaveOnly, Around, StoreTypeOK
<1> QED BY <1>1, <1>2 DEF StoreInv

LEMMA FileStays ==
  ASSUME StoreInv, Around, file' = file
  PROVE  file' \in Store \cup {NoFile, Garbage} /\ Truthful(file)'
<1>1. PICK f \in Store \cup {NoFile, Garbage} : f = file
  BY DEF StoreInv, StoreTypeOK
<1>2. clock \in Nat /\ clock' \in Nat
  BY ProcessesAssumption DEF Around, StoreInv, StoreTypeOK
<1>3. Truthful(f)'
  BY <1>1, <1>2, TruthStays, NoFileIsTrue DEF Around, StoreInv, Truthful, IsStore, Garbage
<1> QED BY <1>1, <1>3 DEF Truthful

LEMMA SaverMoves ==
  ASSUME NEW s \in Saver, NEW place \in {"idle", "acquire", "temp", "fresh", "replace", "readback"}
  PROVE  [s EXCEPT !.at = place] \in Saver
BY DEF Saver

LEMMA SaverImages ==
  ASSUME NEW s \in Saver, NEW image \in Store
  PROVE  [s EXCEPT !.at = "temp", !.image = image] \in Saver
BY DEF Saver

LEMMA SaverBegins ==
  ASSUME NEW snap \in Store \cup {NoFile}
  PROVE  [Idle EXCEPT !.at = "acquire", !.snap = snap] \in Saver
BY DEF Saver, Idle, SaveOutcomes

LEMMA SaverEnds ==
  ASSUME NEW outcome \in SaveOutcomes
  PROVE  [Idle EXCEPT !.outcome = outcome] \in Saver
BY DEF Saver, Idle, SaveOutcomes

(***************************************************************************)
(* A save that ends tells what it did; the file is as it was.              *)
(***************************************************************************)
LEMMA SaveOver ==
  ASSUME StoreInv, Around, NEW p \in Procs, NEW outcome \in SaveOutcomes, SaveEnds(p, outcome),
         UNCHANGED <<file, wrote>>, late' \in [Procs -> BOOLEAN],
         \A q \in Procs \ {p} : late'[q] = late[q],
         outcome = "saved" => wrote[p],
         outcome \in {"storage_error", "subject_mismatch", "not_acquired"} => ~wrote[p]
  PROVE  StoreInv'
<1> DEFINE s == [Idle EXCEPT !.outcome = outcome]
<1>1. s \in Saver /\ s.at = "idle" /\ s.outcome = outcome /\ s.snap = NoFile
  BY SaverEnds DEF Idle
<1>2. /\ saver' \in [Procs -> Saver] /\ saver'[p] = s
      /\ \A q \in Procs \ {p} : saver'[q] = saver[q]
  BY <1>1 DEF SaveEnds, StoreInv, StoreTypeOK
<1>3. SaveOnly(p)
  BY <1>2 DEF SaveOnly, StoreInv, StoreTypeOK
<1> HIDE DEF s
<1>4. Saves(p)'
  <2>1. Truthful(saver[p].snap)'
    BY <1>1, <1>2, NoFileIsTrue DEF Truthful, IsStore
  <2> QED BY <1>1, <1>2, <2>1 DEF Saves, Unwritten
<1> QED BY <1>3, <1>4, SaverStep, FileStays

(***************************************************************************)
(* A save moves on, with its snapshot and its image as they are.           *)
(***************************************************************************)
LEMMA SaveMoves ==
  ASSUME StoreInv, Around, NEW p \in Procs, NEW place \in {"fresh", "replace"},
         saver' = [saver EXCEPT ![p].at = place],
         saver[p].at \in {"temp", "fresh"}, UNCHANGED <<file, wrote>>, late' \in [Procs -> BOOLEAN],
         \A q \in Procs \ {p} : late'[q] = late[q], place = "replace" => file = saver[p].snap
  PROVE  StoreInv'
<1> DEFINE s == saver[p]
<1>1. saver' = [saver EXCEPT ![p] = [s EXCEPT !.at = place]] /\ [s EXCEPT !.at = place] \in Saver
  BY SaverMoves, StoreSane
<1>2. /\ saver' \in [Procs -> Saver] /\ \A q \in Procs \ {p} : saver'[q] = saver[q]
      /\ saver'[p].at = place /\ saver'[p].snap = s.snap /\ saver'[p].image = s.image
  BY <1>1, StoreSane DEF Saver, StoreInv, StoreTypeOK
<1>3. SaveOnly(p)
  BY <1>2 DEF SaveOnly, StoreInv, StoreTypeOK
<1>4. Truthful(saver[p].snap)' /\ Truthful(saver[p].image)'
  <2>1. PICK f \in Store \cup {NoFile}, g \in Store \cup {NoFile} : f = s.snap /\ g = s.image
    BY StoreSane
  <2>2. Truthful(f)' /\ Truthful(g)'
    BY <2>1, TruthStays, StoreSane, ProcessesAssumption DEF Around, Saves
  <2> QED BY <1>2, <2>1, <2>2 DEF Truthful
<1>5. Saves(p)'
  BY <1>2, <1>4, StoreSane DEF Saves, Unwritten
<1> QED BY <1>3, <1>5, SaverStep, FileStays

--------------------------------------------------------------------------------
LEMMA PreflightStep ==
  ASSUME StoreInv, NEW p \in Procs, Preflight(p), UNCHANGED clock, calls' \in 0..MaxCalls
  PROVE  StoreInv'
<1>1. Around /\ saver[p].at = "idle"
  BY StoreSane DEF Preflight, Around, StoreInv, StoreTypeOK, SaverAt
<1>2. /\ wrote' \in [Procs -> BOOLEAN] /\ late' \in [Procs -> BOOLEAN] /\ ~wrote'[p]
      /\ \A q \in Procs \ {p} : wrote'[q] = wrote[q] /\ late'[q] = late[q]
  BY DEF Preflight, StoreInv, StoreTypeOK
<1>3. PICK s \in Saver :
        /\ saver' = [saver EXCEPT ![p] = s] /\ (s.at = "idle" => s.outcome = "storage_error")
        /\ s.at \in {"idle", "acquire"}
        /\ s.snap \in {NoFile, file} /\ (s.snap = file => Readable)
  <2>1. CASE Readable
    <3>1. file \in Store \cup {NoFile}
      BY <2>1 DEF Readable, StoreInv, StoreTypeOK
    <3>2. /\ [Idle EXCEPT !.at = "acquire", !.snap = file].at = "acquire"
          /\ [Idle EXCEPT !.at = "acquire", !.snap = file].snap = file
      BY DEF Idle
    <3> QED BY <2>1, <3>1, <3>2, SaverBegins DEF Preflight
  <2>2. CASE ~Readable
    <3>1. /\ [Idle EXCEPT !.outcome = "storage_error"].at = "idle"
          /\ [Idle EXCEPT !.outcome = "storage_error"].outcome = "storage_error"
          /\ [Idle EXCEPT !.outcome = "storage_error"].snap = NoFile
      BY DEF Idle
    <3>2. NoFile # file \/ Readable
      BY DEF Readable, NoFile, Garbage
    <3> QED BY <2>2, <3>1, <3>2, SaverEnds DEF Preflight, SaveEnds, SaveOutcomes
  <2> QED BY <2>1, <2>2
<1>4. saver'[p] = s /\ saver' \in [Procs -> Saver] /\ \A q \in Procs \ {p} : saver'[q] = saver[q]
  BY <1>3 DEF StoreInv, StoreTypeOK
<1>5. SaveOnly(p)
  BY <1>2, <1>4 DEF SaveOnly, Preflight, StoreInv, StoreTypeOK
<1>6. Truthful(saver[p].snap)'
  <2>1. Truthful(file)' /\ file' = file
    BY <1>1, FileStays DEF Preflight
  <2> QED BY <1>3, <1>4, <2>1, NoFileIsTrue DEF Truthful, IsStore
<1>7. Saves(p)'
  BY <1>2, <1>3, <1>4, <1>6 DEF Saves, Unwritten
<1> QED BY <1>1, <1>5, <1>7, SaverStep, FileStays DEF Preflight

LEMMA ItemsAre ==
  ASSUME NEW f, NEW posts \in SUBSET Posts, f \in [posts -> Item] PROVE f \in Items
BY DEF Items

LEMMA ItemsOf ==
  ASSUME NEW f \in Items
  PROVE  DOMAIN f \in SUBSET Posts /\ \A post \in DOMAIN f : f[post] \in Item
BY DEF Items

(***************************************************************************)
(* The image that merges a page into the snapshot is a true store, and     *)
(* extends the snapshot.                                                   *)
(***************************************************************************)
LEMMA ImageIsStore ==
  ASSUME StoreInv, NEW p \in Procs, NEW user \in Users, NEW page \in Pages
  PROVE  Image(p, user, page) \in Store
<1>1. /\ DOMAIN page \subseteq Posts /\ \A post \in DOMAIN page : page[post] \in Texts
  BY PagesAssumption DEF Range
<1>2. DOMAIN Old(p) \subseteq Posts /\ \A post \in DOMAIN Old(p) : Old(p)[post] \in Item
  <2>1. CASE IsStore(saver[p].snap)
    <3>1. saver[p].snap \in Store
      BY <2>1, StoreSane, NoFileIsTrue
    <3>2. saver[p].snap.items \in Items
      BY <3>1 DEF Store
    <3> QED BY <2>1, <3>2, ItemsOf DEF Old
  <2>2. CASE ~IsStore(saver[p].snap)
    BY <2>2 DEF Old
  <2> QED BY <2>1, <2>2
<1>3. \A post \in DOMAIN Old(p) \cup DOMAIN page : FirstSeen(p, post) \in 0..MaxTime
  BY <1>2, StoreSane DEF FirstSeen, Item
<1>4. Merged(p, page) \in [DOMAIN Old(p) \cup DOMAIN page -> Item]
  <2>1. ASSUME NEW post \in DOMAIN page
        PROVE  [text |-> page[post], first |-> FirstSeen(p, post), last |-> clock] \in Item
    BY <1>1, <1>3, StoreSane DEF Item
  <2> QED BY <1>2, <2>1 DEF Merged
<1>5. Merged(p, page) \in Items
  BY <1>1, <1>2, <1>4, ItemsAre
<1>6. IsStore(saver[p].snap) => saver[p].snap.created \in 0..MaxTime
  BY StoreSane, NoFileIsTrue DEF Store
<1> QED BY <1>5, <1>6, StoreSane DEF Image, Store

LEMMA ImageIsTrue ==
  ASSUME StoreInv, NEW p \in Procs, NEW user \in Users, NEW page \in Pages,
         NEW image \in Store, image = Image(p, user, page), SameSubject(p, user), UNCHANGED clock,
         observed' = observed \cup {<<user, post, page[post], clock>> : post \in DOMAIN page}
  PROVE  /\ Truthful(image)' /\ IsStore(image)
         /\ IsStore(saver[p].snap) => Extends(image, saver[p].snap)
<1>1. PICK old : old = saver[p].snap
  OBVIOUS
<1>2. /\ image.subject = user /\ image.updated = clock /\ image.kind = "store"
      /\ image.created = IF IsStore(old) THEN old.created ELSE clock
      /\ image.items = Merged(p, page)
  BY <1>1 DEF Image
<1>3. /\ IsStore(old) => Truthful(old) /\ old \in Store /\ old.subject = user /\ Old(p) = old.items
      /\ ~IsStore(old) => DOMAIN Old(p) = {}
  BY <1>1, StoreSane, NoFileIsTrue DEF Saves, SameSubject, Old
<1>4. DOMAIN image.items = DOMAIN Old(p) \cup DOMAIN page
  BY <1>2 DEF Merged
<1>5. clock \in Nat /\ image.created \in Nat /\ image.created <= clock
  <2>1. CASE IsStore(old)
    <3>1. old.created \in Nat /\ old.updated \in Nat
      BY <1>3, <2>1, ProcessesAssumption DEF Store
    <3> QED BY <1>2, <1>3, <2>1, <3>1, StoreSane DEF Truthful
  <2> QED BY <1>2, <2>1, StoreSane
<1>6. ASSUME NEW post \in DOMAIN Old(p)
      PROVE  /\ IsStore(old) /\ Old(p)[post] = old.items[post] /\ post \in DOMAIN old.items
             /\ Old(p)[post].first \in Nat /\ Old(p)[post].last \in Nat
             /\ image.created <= Old(p)[post].first /\ Old(p)[post].first <= Old(p)[post].last
             /\ Old(p)[post].last <= clock
  <2>1. IsStore(old) /\ Old(p) = old.items
    BY <1>3, <1>6
  <2>2. old.items \in Items /\ old.updated \in Nat
    BY <1>3, <2>1, ProcessesAssumption DEF Store
  <2>3. old.items[post] \in Item
    BY <2>1, <2>2, ItemsOf
  <2>4. Old(p)[post].first \in Nat /\ Old(p)[post].last \in Nat
    BY <2>1, <2>3, ProcessesAssumption DEF Item
  <2>5. /\ old.created <= Old(p)[post].first /\ Old(p)[post].first <= Old(p)[post].last
        /\ Old(p)[post].last <= old.updated /\ old.updated <= clock
    BY <1>3, <1>6, <2>1 DEF Truthful
  <2>6. Old(p)[post].last <= clock
    BY <1>5, <2>2, <2>4, <2>5
  <2>7. image.created = old.created
    BY <1>2, <2>1
  <2> QED BY <1>6, <2>1, <2>4, <2>5, <2>6, <2>7
<1>7. ASSUME NEW post \in DOMAIN Old(p)
      PROVE  /\ <<user, post, Old(p)[post].text, Old(p)[post].last>> \in observed
             /\ \E text \in Texts : <<user, post, text, Old(p)[post].first>> \in observed
  BY <1>3, <1>6 DEF Truthful
<1>8. ASSUME NEW post \in DOMAIN page
      PROVE  /\ image.items[post].first = FirstSeen(p, post)
             /\ image.items[post].last = clock /\ image.items[post].text = page[post]
             /\ page[post] \in Texts /\ <<user, post, page[post], clock>> \in observed'
  BY <1>2, PagesAssumption DEF Merged, Range
<1>9. ASSUME NEW post \in DOMAIN page
       PROVE  /\ FirstSeen(p, post) \in Nat /\ FirstSeen(p, post) <= clock
              /\ image.created <= FirstSeen(p, post)
  <2>1. CASE post \in DOMAIN Old(p)
    <3>1. FirstSeen(p, post) = Old(p)[post].first
      BY <2>1 DEF FirstSeen
    <3> HIDE DEF Old
    <3> QED BY <1>5, <1>6, <2>1, <3>1
  <2>2. CASE post \notin DOMAIN Old(p)
    BY <1>5, <2>2 DEF FirstSeen
  <2> QED BY <2>1, <2>2
<1>10. ASSUME NEW post \in DOMAIN page
       PROVE  \E text \in Texts : <<user, post, text, FirstSeen(p, post)>> \in observed'
  <2>1. CASE post \in DOMAIN Old(p)
    BY <1>7, <2>1 DEF FirstSeen
  <2>2. CASE post \notin DOMAIN Old(p)
    BY <1>8, <2>2 DEF FirstSeen
  <2> QED BY <2>1, <2>2
<1>11. ASSUME NEW post \in DOMAIN image.items, post \notin DOMAIN page
       PROVE  post \in DOMAIN Old(p) /\ image.items[post] = Old(p)[post]
  BY <1>2, <1>4, <1>11 DEF Merged
<1>12. Truthful(image)'
  <2> SUFFICES ASSUME NEW post \in DOMAIN image.items
               PROVE  LET item == image.items[post] IN
                        /\ <<user, post, item.text, item.last>> \in observed'
                        /\ \E text \in Texts : <<user, post, text, item.first>> \in observed'
                        /\ image.created <= item.first /\ item.first <= item.last
                        /\ item.last <= clock
    BY <1>2, <1>5 DEF Truthful
  <2>1. CASE post \in DOMAIN page
    <3>1. /\ image.items[post].first = FirstSeen(p, post)
          /\ image.items[post].last = clock /\ image.items[post].text = page[post]
          /\ <<user, post, page[post], clock>> \in observed'
      BY <1>8, <2>1
    <3>2. \E text \in Texts : <<user, post, text, image.items[post].first>> \in observed'
      BY <1>10, <2>1, <3>1
    <3>3. /\ image.created <= image.items[post].first
          /\ image.items[post].first <= image.items[post].last
          /\ image.items[post].last <= clock
      BY <1>5, <1>9, <2>1, <3>1
    <3> QED BY <3>1, <3>2, <3>3
  <2>2. CASE post \notin DOMAIN page
    BY <1>6, <1>7, <1>11, <2>2
  <2> QED BY <2>1, <2>2
<1>13. IsStore(old) => Extends(image, old)
  <2> SUFFICES ASSUME IsStore(old) PROVE Extends(image, old)
    OBVIOUS
  <2>1. image.subject = old.subject /\ image.created = old.created
    BY <1>2, <1>3
  <2>2. DOMAIN old.items \subseteq DOMAIN image.items
    BY <1>3, <1>4
  <2>3. ASSUME NEW post \in DOMAIN old.items
        PROVE  /\ image.items[post].first = old.items[post].first
               /\ image.items[post].last >= old.items[post].last
    <3>1. /\ post \in DOMAIN Old(p) /\ Old(p)[post] = old.items[post]
          /\ old.items[post].last \in Nat /\ old.items[post].last <= clock
      BY <1>3, <1>6
    <3>2. CASE post \in DOMAIN page
      <4>1. FirstSeen(p, post) = old.items[post].first
        BY <3>1 DEF FirstSeen
      <4> QED BY <1>5, <1>8, <3>1, <3>2, <4>1
    <3>3. CASE post \notin DOMAIN page
      <4>1. image.items[post] = old.items[post]
        BY <1>11, <2>2, <3>1, <3>3
      <4> QED BY <3>1, <4>1
    <3> QED BY <3>2, <3>3
  <2> QED BY <2>1, <2>2, <2>3 DEF Extends
<1> QED BY <1>1, <1>2, <1>12, <1>13 DEF IsStore

LEMMA AcquiredStep ==
  ASSUME StoreInv, NEW p \in Procs, NEW user \in Users, NEW page \in Pages,
         Acquired(p, user, page), UNCHANGED <<clock, calls>>
  PROVE  StoreInv'
<1> DEFINE s == saver[p]
<1>1. /\ s \in Saver /\ Saves(p) /\ s.at = "acquire" /\ ~wrote[p] /\ clock \in 0..MaxTime
      /\ UNCHANGED <<file, touches, wrote, late>>
      /\ observed' = observed \cup {<<user, post, page[post], clock>> : post \in DOMAIN page}
  BY StoreSane DEF Acquired, SaverAt, Saves, Unwritten
<1>2. Around
  <2>1. \A post \in DOMAIN page : post \in Posts /\ page[post] \in Texts
    BY PagesAssumption DEF Range
  <2>2. observed' \subseteq Users \X Posts \X Texts \X (0..MaxTime)
    BY <1>1, <2>1 DEF StoreInv, StoreTypeOK
  <2> QED BY <1>1, <2>2, StoreSane DEF Around, StoreInv, StoreTypeOK
<1>3. CASE SaveEnds(p, "subject_mismatch")
  BY <1>1, <1>2, <1>3, SaveOver DEF SaveOutcomes, StoreInv, StoreTypeOK
<1>4. CASE SameSubject(p, user) /\ saver' = [saver EXCEPT ![p].at = "temp", ![p].image = Image(p, user, page)]
  <2>1. PICK image \in Store : image = Image(p, user, page)
    BY ImageIsStore
  <2>2. /\ Truthful(image)' /\ IsStore(image)
        /\ IsStore(s.snap) => Extends(image, s.snap)
    BY <1>1, <1>4, <2>1, ImageIsTrue
  <2>3. [s EXCEPT !.at = "temp", !.image = image] \in Saver
    BY <1>1, SaverImages
  <2>4. /\ saver' \in [Procs -> Saver] /\ \A q \in Procs \ {p} : saver'[q] = saver[q]
        /\ saver'[p].at = "temp" /\ saver'[p].snap = s.snap /\ saver'[p].image = image
    BY <1>1, <1>4, <2>1, <2>3 DEF Saver, StoreInv, StoreTypeOK
  <2>5. SaveOnly(p)
    BY <1>1, <2>4 DEF SaveOnly, StoreInv, StoreTypeOK
  <2>6. Truthful(saver[p].snap)'
    <3>1. PICK f \in Store \cup {NoFile} : f = s.snap
      BY StoreSane
    <3>2. Truthful(f)'
      BY <1>1, <1>2, <3>1, TruthStays, StoreSane, ProcessesAssumption DEF Around, Saves
    <3> QED BY <2>4, <3>1, <3>2 DEF Truthful
  <2>7. Saves(p)'
    BY <1>1, <2>2, <2>4, <2>6 DEF Saves, Truthful, Unwritten
  <2> QED BY <1>1, <1>2, <2>5, <2>7, SaverStep, FileStays
<1> QED BY <1>3, <1>4 DEF Acquired

LEMMA StoreStep ==
  ASSUME StoreInv, NEW p \in Procs, SaveStep(p), UNCHANGED <<clock, calls>>
  PROVE  StoreInv'
<1> DEFINE s == saver[p]
<1>1. /\ s \in Saver /\ Saves(p) /\ clock \in 0..MaxTime /\ UNCHANGED <<touches, observed>>
      /\ late' \in [Procs -> BOOLEAN] /\ wrote' \in [Procs -> BOOLEAN]
  BY StoreSane
     DEF SaveStep, WriteTemp, FreshRead, Replace, Readback, ReadFails, Changes, history,
         StoreInv, StoreTypeOK
<1>2. Around
  BY <1>1, StoreSane DEF Around, StoreInv, StoreTypeOK
<1>3. CASE WriteTemp(p)
  BY <1>1, <1>2, <1>3, SaveOver, SaveMoves DEF WriteTemp, SaverAt, history, SaveOutcomes, Saves, Unwritten
<1>4. CASE FreshRead(p)
  <2>1. \A q \in Procs \ {p} : late'[q] = late[q]
    BY <1>4 DEF FreshRead, StoreInv, StoreTypeOK
  <2> QED BY <1>1, <1>2, <1>4, <2>1, SaveOver, SaveMoves
          DEF FreshRead, Differs, SaverAt, SaveOutcomes, Saves, Unwritten
<1>5. CASE Readback(p) \/ ReadFails(p)
  <2>1. UNCHANGED <<file, wrote, late>>
    BY <1>5 DEF Readback, ReadFails, history
  <2>2. \/ SaveEnds(p, "saved") /\ s.at = "readback"
        \/ SaveEnds(p, "storage_error_may_have")
        \/ SaveEnds(p, "storage_error") /\ s.at = "fresh"
    BY <1>5 DEF Readback, ReadFails, MayHave, SaverAt
  <2> QED BY <1>1, <1>2, <2>1, <2>2, SaveOver DEF SaveOutcomes, Saves, Unwritten
<1>6. CASE Replace(p)
  <2>1. CASE SaveEnds(p, "storage_error") /\ UNCHANGED <<file, wrote, late>>
    BY <1>1, <1>2, <1>6, <2>1, SaveOver DEF Replace, SaverAt, SaveOutcomes, Saves, Unwritten
  <2>2. CASE /\ file' = s.image /\ saver' = [saver EXCEPT ![p].at = "readback"]
             /\ wrote' = [wrote EXCEPT ![p] = TRUE] /\ Changes(p)
    <3>1. s.at = "replace" /\ IsStore(s.image) /\ Truthful(s.image)
      BY <1>1, <1>6 DEF Replace, SaverAt, Saves
    <3>2. [s EXCEPT !.at = "readback"] \in Saver
      BY <1>1, SaverMoves
    <3>3. /\ saver' \in [Procs -> Saver] /\ \A q \in Procs \ {p} : saver'[q] = saver[q]
          /\ saver'[p].at = "readback" /\ saver'[p].snap = s.snap /\ saver'[p].image = s.image
      BY <1>1, <2>2, <3>2 DEF Saver, StoreInv, StoreTypeOK
    <3>4. wrote'[p] /\ \A q \in Procs \ {p} : wrote'[q] = wrote[q] /\ late'[q]
      BY <2>2 DEF Changes, StoreInv, StoreTypeOK
    <3>5. SaveOnly(p)
      BY <1>1, <3>3, <3>4 DEF SaveOnly
    <3>6. Truthful(saver[p].snap)' /\ Truthful(saver[p].image)' /\ Truthful(file)'
      <4>1. PICK f \in Store \cup {NoFile}, g \in Store \cup {NoFile} : f = s.snap /\ g = s.image
        BY StoreSane
      <4>2. Truthful(f)' /\ Truthful(g)'
        BY <1>1, <1>2, <3>1, <4>1, TruthStays, StoreSane, ProcessesAssumption DEF Around, Saves
      <4> QED BY <2>2, <3>3, <4>1, <4>2 DEF Truthful
    <3>7. Saves(p)'
      BY <1>1, <3>1, <3>3, <3>4, <3>6 DEF Saves, Unwritten
    <3>8. file' \in Store \cup {NoFile, Garbage}
      BY <2>2, StoreSane
    <3> QED BY <1>2, <3>5, <3>6, <3>7, <3>8, SaverStep
  <2> QED BY <1>6, <2>1, <2>2 DEF Replace
<1> QED BY <1>3, <1>4, <1>5, <1>6 DEF SaveStep

LEMMA TouchStep == ASSUME StoreInv, Touch, UNCHANGED <<clock, calls>> PROVE StoreInv'
<1>1. /\ Around /\ UNCHANGED <<saver, wrote, observed, clock>> /\ clock \in Nat /\ clock <= clock
      /\ late' \in [Procs -> BOOLEAN] /\ \A p \in Procs : late'[p]
  BY ProcessesAssumption, PagesAssumption DEF Touch, Around, StoreInv, StoreTypeOK
<1>2. \A p \in Procs : Saves(p)'
  BY <1>1, OtherSaves
<1>3. file' \in Store \cup {NoFile, Garbage} /\ Truthful(file)'
  <2>1. CASE file' \in {NoFile, Garbage}
    BY <2>1, NoFileIsTrue DEF Truthful, IsStore
  <2>2. ASSUME NEW p \in Procs, file' = saver[p].snap
        PROVE  file' \in Store \cup {NoFile, Garbage} /\ Truthful(file)'
    <3>1. saver[p].snap \in Store \cup {NoFile} /\ Truthful(saver[p].snap)
      BY StoreSane DEF Saves
    <3> QED BY <1>1, <2>2, <3>1 DEF Truthful
  <2> QED BY <2>1, <2>2 DEF Touch
<1>4. StoreTypeOK'
  BY <1>1, <1>3 DEF Around, StoreInv, StoreTypeOK
<1> QED BY <1>2, <1>3, <1>4 DEF StoreInv

--------------------------------------------------------------------------------
(***************************************************************************)
(* What a command knows: the requests it has made so far, whose account it *)
(* asks about, and that its save waits for the page.                       *)
(***************************************************************************)
CmdKnows(p) ==
  LET c == cmd[p] IN
    /\ c.at = "resolve" => call[p] = Rest /\ sent[p] = 0
    /\ c.at \in {"resolve", "resolving", "subject"} => asked[p] = 0
    /\ c.at = "resolving" =>
         /\ call[p].outcome \notin Silent
         /\ call[p].at \in {"idle", "refresh", "replace", "resolved"}
    /\ c.at = "subject" => c.account \in Accounts
    /\ c.at = "collection" => c.subject \in Accounts /\ asked[p] = 1
    /\ c.at \in {"save", "print"} => asked[p] = 2
    /\ c.at \in {"subject", "collection", "save", "print"} => sent[p] = CredentialRequests(p)
    /\ c.at \in {"resolve", "resolving", "subject", "collection"} /\ c.op = "save" =>
         saver[p].at = "acquire"
    /\ c.op = "login" => c.at = "idle"
    /\ c.at = "idle" /\ c.op \in {"show", "save"} => c.told = asked[p] + sent[p]

CliInv ==
  /\ CredentialInv /\ StoreInv
  /\ cmd \in [Procs -> Cmd] /\ asked \in [Procs -> 0..2]
  /\ \A p \in Procs : CmdKnows(p)

OnlyHis(p) ==
  \A q \in Procs \ {p} : /\ call'[q] = call[q] /\ sent'[q] = sent[q] /\ saver'[q] = saver[q]
                         /\ cmd'[q] = cmd[q] /\ asked'[q] = asked[q]

LEMMA CmdStep ==
  ASSUME CliInv, NEW p \in Procs, OnlyHis(p), CredentialInv', StoreInv',
         cmd' \in [Procs -> Cmd], asked' \in [Procs -> 0..2], CmdKnows(p)'
  PROVE  CliInv'
<1>1. ASSUME NEW q \in Procs \ {p} PROVE CmdKnows(q)'
  BY DEF OnlyHis, CliInv, CmdKnows, CredentialRequests
<1> QED BY <1>1 DEF CliInv

LEMMA CliSane ==
  ASSUME CliInv, NEW p \in Procs
  PROVE  /\ CredentialInv /\ StoreInv /\ CmdKnows(p) /\ cmd[p] \in Cmd /\ call[p] \in CallState
         /\ saver[p] \in Saver /\ Saves(p) /\ Counts(p) /\ Holds(p)
         /\ sent[p] \in Nat /\ asked[p] \in 0..2 /\ clock \in 0..MaxTime /\ calls \in 0..MaxCalls
         /\ CredentialRequests(p) \in {0, 1} /\ clock \in Nat /\ clock <= clock
BY ProcessesAssumption
   DEF CliInv, CredentialInv, CredentialTypeOK, StoreInv, StoreTypeOK, CredentialRequests

(***************************************************************************)
(* Who takes a step with a credential leaves the others' alone.            *)
(***************************************************************************)
LEMMA HisCall ==
  ASSUME CredentialInv, NEW p \in Procs,
         Load(p) \/ LoadFails(p) \/ ResolveStep(p) \/ Login(p) \/ Persist(p)
  PROVE  \A q \in Procs \ {p} : call'[q] = call[q] /\ sent'[q] = sent[q]
<1>1. call \in [Procs -> CallState] /\ sent \in [Procs -> Nat]
  BY DEF CredentialInv, CredentialTypeOK
<1>2. \A outcome, attempted : Ends(p, outcome, attempted) => \A q \in Procs \ {p} : call'[q] = call[q]
  BY <1>1 DEF Ends
<1>3. CASE Load(p) \/ LoadFails(p)
  BY <1>1, <1>2, <1>3 DEF Load, LoadFails
<1>4. CASE NoClient(p) \/ RefreshDenied(p)
  BY <1>1, <1>2, <1>4 DEF NoClient, RefreshDenied, Unusable, Sends, credentialHistory
<1>5. CASE SendRefresh(p)
  BY <1>1, <1>2, <1>5 DEF SendRefresh, Unusable, Sends
<1>6. CASE ReplaceRecord(p) \/ Persist(p)
  BY <1>1, <1>2, <1>6 DEF ReplaceRecord, Persist, Yields, NotCommitted
<1>7. CASE Login(p)
  BY <1>1, <1>2, <1>7 DEF Login, Granted
<1> QED BY <1>3, <1>4, <1>5, <1>6, <1>7 DEF ResolveStep

LEMMA HisSave ==
  ASSUME StoreInv, NEW p \in Procs,
         \/ Preflight(p) \/ SaveStep(p) \/ \E outcome : SaveEnds(p, outcome)
         \/ \E user \in Users, page \in Pages : Acquired(p, user, page)
  PROVE  \A q \in Procs \ {p} : saver'[q] = saver[q]
BY DEF StoreInv, StoreTypeOK, Preflight, SaveStep, WriteTemp, FreshRead, Replace, Readback,
       ReadFails, MayHave, SaveEnds, Acquired

--------------------------------------------------------------------------------
(***************************************************************************)
(* Failing before there is a page: the save ends as well, and the report   *)
(* counts what was asked.                                                  *)
(***************************************************************************)
LEMMA AbandonStep ==
  ASSUME CliInv, NEW p \in Procs, Abandon(p), UNCHANGED <<clock, calls>>,
         cmd[p].at \in {"resolve", "resolving", "subject", "collection"}
  PROVE  StoreInv' /\ \A q \in Procs \ {p} : saver'[q] = saver[q]
<1>1. Around
  <2>1. UNCHANGED <<touches, observed>>
    BY DEF Abandon, history, bookmarkVars
  <2> QED BY <2>1, CliSane DEF Around, StoreInv, StoreTypeOK
<1>2. CASE cmd[p].op = "save"
  <2>1. SaveEnds(p, "not_acquired") /\ UNCHANGED <<file, wrote, late>>
    BY <1>2 DEF Abandon, history
  <2>2. ~wrote[p]
    BY <1>2, CliSane DEF CmdKnows, Saves, Unwritten
  <2> QED BY <1>1, <2>1, <2>2, CliSane, SaveOver, HisSave DEF SaveOutcomes, StoreInv, StoreTypeOK
<1>3. CASE UNCHANGED bookmarkVars
  <2>1. \A q \in Procs : Saves(q)'
    BY <1>1, <1>3, OtherSaves, CliSane DEF bookmarkVars, history, StoreInv, StoreTypeOK
  <2> QED BY <1>1, <1>3, <2>1, FileStays, CliSane
          DEF bookmarkVars, history, StoreInv, StoreTypeOK, Around
<1> QED BY <1>2, <1>3 DEF Abandon

LEMMA StoreQuiet ==
  ASSUME StoreInv, UNCHANGED bookmarkVars, clock <= clock', clock' \in 0..MaxTime,
         calls' \in 0..MaxCalls
  PROVE  StoreInv'
<1>1. Around
  BY DEF Around, bookmarkVars, history, StoreInv, StoreTypeOK
<1>2. \A q \in Procs : Saves(q)'
  BY <1>1, OtherSaves DEF bookmarkVars, history, StoreInv, StoreTypeOK
<1> QED BY <1>1, <1>2, FileStays DEF bookmarkVars, history, StoreInv, StoreTypeOK, Around

LEMMA ReportStep ==
  ASSUME CliInv, NEW p \in Procs, NEW n \in 0..2, NEW printed \in BOOLEAN, Reports(p, n, printed)
  PROVE  /\ cmd' \in [Procs -> Cmd] /\ \A q \in Procs \ {p} : cmd'[q] = cmd[q]
         /\ cmd'[p].at = "idle" /\ cmd'[p].told = n + CredentialRequests(p)
         /\ cmd'[p].op = cmd[p].op
<1>1. n + CredentialRequests(p) \in 0..3
  BY CliSane
<1> DEFINE c == [cmd[p] EXCEPT !.at = "idle", !.told = n + CredentialRequests(p), !.printed = printed]
<1>2. c \in Cmd /\ c.at = "idle" /\ c.told = n + CredentialRequests(p) /\ c.op = cmd[p].op
  BY <1>1, CliSane DEF Cmd
<1>3. cmd' = [cmd EXCEPT ![p] = c]
  BY DEF Reports
<1> HIDE DEF c
<1> QED BY <1>2, <1>3 DEF CliInv

LEMMA CmdMoves ==
  ASSUME NEW c \in Cmd, NEW place,
         place \in {"idle", "resolve", "resolving", "subject", "collection", "save", "print"}
  PROVE  [c EXCEPT !.at = place] \in Cmd
BY DEF Cmd

LEMMA CmdOverrides ==
  ASSUME NEW c \in Cmd, NEW account \in Accounts
  PROVE  [c EXCEPT !.at = "subject", !.source = "environment", !.account = account] \in Cmd
BY DEF Cmd

LEMMA CmdResolves ==
  ASSUME NEW c \in Cmd
  PROVE  [c EXCEPT !.at = "resolving", !.source = "persisted"] \in Cmd
BY DEF Cmd

LEMMA CmdHasToken ==
  ASSUME NEW c \in Cmd, NEW account \in Accounts
  PROVE  [c EXCEPT !.at = "subject", !.account = account] \in Cmd
BY DEF Cmd

LEMMA CmdHasSubject ==
  ASSUME NEW c \in Cmd, NEW account \in Accounts
  PROVE  [c EXCEPT !.at = "collection", !.subject = account] \in Cmd
BY DEF Cmd

LEMMA CmdHasPage ==
  ASSUME NEW c \in Cmd, NEW page \in Pages, NEW place \in {"save", "print"}
  PROVE  [c EXCEPT !.page = page, !.at = place] \in Cmd
BY DEF Cmd

LEMMA QuietIsCmd == Quiet \in Cmd
BY DEF Quiet, Cmd

LEMMA CmdBegins ==
  ASSUME NEW op \in {"show", "save", "login", "killed"}, NEW place \in {"idle", "resolve"}
  PROVE  /\ [Quiet EXCEPT !.op = op, !.at = place] \in Cmd /\ [Quiet EXCEPT !.op = op] \in Cmd
         /\ [Quiet EXCEPT !.op = op].at = "idle" /\ [Quiet EXCEPT !.op = op].op = op
BY QuietIsCmd DEF Cmd, Quiet

\* Where only the command itself moves on.
LEMMA CmdBecomes ==
  ASSUME CliInv, NEW p \in Procs, NEW c \in Cmd, cmd' = [cmd EXCEPT ![p] = c]
  PROVE  cmd' \in [Procs -> Cmd] /\ cmd'[p] = c /\ \A q \in Procs \ {p} : cmd'[q] = cmd[q]
BY DEF CliInv

LEMMA CollectionStep ==
  ASSUME CliInv, NEW p \in Procs, NEW op \in {"show", "save"}, Collection(p, op)
  PROVE  CliInv'
<1>1. /\ calls' \in 0..MaxCalls /\ clock' = clock /\ At(p, "idle") /\ SaverAt(p, "idle")
      /\ asked' = [asked EXCEPT ![p] = 0] /\ sent' = [sent EXCEPT ![p] = 0]
      /\ call' = [call EXCEPT ![p] = Rest] /\ UNCHANGED <<tokens, saved, committed, spent>>
  BY CliSane, ProcessesAssumption DEF Collection, Starts, Free
<1>2. CredentialInv'
  BY <1>1, CliSane, RestIsIdle, QuietStep, 0 \in Nat DEF Rest, Unsent
<1>3. /\ call'[p] = Rest /\ sent'[p] = 0 /\ asked'[p] = 0 /\ asked' \in [Procs -> 0..2]
      /\ \A q \in Procs \ {p} : call'[q] = call[q] /\ sent'[q] = sent[q] /\ asked'[q] = asked[q]
  BY <1>1 DEF CliInv, CredentialInv, CredentialTypeOK
<1> DEFINE place == IF op = "save" /\ ~Readable THEN "idle" ELSE "resolve"
           c == [Quiet EXCEPT !.op = op, !.at = place]
<1>4. cmd' = [cmd EXCEPT ![p] = c]
  BY DEF Collection
<1>5. place \in {"idle", "resolve"}
  OBVIOUS
<1>6. c \in Cmd /\ c.at = place /\ c.op = op /\ c.told = 0
  <2>1. c \in Cmd
    BY <1>5, CmdBegins
  <2> HIDE DEF place
  <2> QED BY <2>1 DEF Quiet
<1>7. StoreInv' /\ (\A q \in Procs \ {p} : saver'[q] = saver[q])
                /\ (op = "save" /\ Readable => saver'[p].at = "acquire")
  <2>1. CASE op = "save"
    <3>1. Readable => saver'[p].at = "acquire"
      BY ZenonT(60), <2>1, CliSane DEF Collection, Preflight, Idle, StoreInv, StoreTypeOK
    <3> QED BY <1>1, <2>1, <3>1, PreflightStep, HisSave, CliSane DEF Collection
  <2>2. CASE op = "show"
    BY <1>1, <2>2, StoreQuiet, CliSane DEF Collection, bookmarkVars
  <2> QED BY <2>1, <2>2
<1> HIDE DEF c
<1>8. cmd' \in [Procs -> Cmd] /\ cmd'[p] = c /\ \A q \in Procs \ {p} : cmd'[q] = cmd[q]
  BY <1>4, <1>6, CmdBecomes
<1>9. CmdKnows(p)'
  BY <1>3, <1>5, <1>6, <1>7, <1>8 DEF CmdKnows
<1> QED BY <1>2, <1>3, <1>7, <1>8, <1>9, CmdStep DEF OnlyHis

LEMMA OverrideStep ==
  ASSUME CliInv, NEW p \in Procs, Override(p)
  PROVE  CliInv'
<1>1. /\ UNCHANGED <<clock, calls, credentialVars, asked>> /\ cmd[p].at = "resolve"
  BY DEF Override, InCmd
<1>2. CredentialInv'
  BY <1>1, CliSane, TimeKeeps
<1>3. call[p] = Rest /\ sent[p] = 0 /\ asked[p] = 0 /\ CredentialRequests(p) = 0
  <2>1. call[p] = Rest /\ sent[p] = 0 /\ asked[p] = 0
    BY <1>1, CliSane DEF CmdKnows
  <2>2. Rest.attempted = FALSE
    BY DEF Rest
  <2> QED BY <2>1, <2>2 DEF CredentialRequests
<1>4. /\ UNCHANGED <<call, sent>> /\ asked' \in [Procs -> 0..2]
  BY <1>1 DEF credentialVars, credentialHistory, CliInv
<1>5. CASE Reports(p, 0, FALSE) /\ Abandon(p)
  <2>1. /\ cmd' \in [Procs -> Cmd] /\ \A q \in Procs \ {p} : cmd'[q] = cmd[q]
        /\ cmd'[p].at = "idle" /\ cmd'[p].told = 0 /\ cmd'[p].op = cmd[p].op
    <3>1. 0 \in 0..2 /\ FALSE \in BOOLEAN /\ 0 + CredentialRequests(p) = 0
      BY <1>3
    <3> QED BY <1>5, <3>1, ReportStep
  <2>2. StoreInv' /\ \A q \in Procs \ {p} : saver'[q] = saver[q]
    BY <1>1, <1>5, AbandonStep
  <2>3. CmdKnows(p)'
    BY <1>1, <1>3, <1>4, <2>1 DEF CmdKnows
  <2> QED BY <1>1, <1>2, <1>4, <2>1, <2>2, <2>3, CmdStep DEF OnlyHis
<1>6. ASSUME NEW account \in Accounts, UNCHANGED bookmarkVars,
             cmd' = [cmd EXCEPT ![p].at = "subject", ![p].source = "environment",
                                ![p].account = account]
      PROVE  CliInv'
  <2> DEFINE c == [cmd[p] EXCEPT !.at = "subject", !.source = "environment", !.account = account]
  <2>1. c \in Cmd /\ c.at = "subject" /\ c.account = account /\ c.op = cmd[p].op
    <3>1. c \in Cmd
      BY CliSane, CmdOverrides
    <3> QED BY <3>1, CliSane DEF Cmd
  <2>2. cmd' = [cmd EXCEPT ![p] = c]
    BY <1>6
  <2> HIDE DEF c
  <2>3. cmd' \in [Procs -> Cmd] /\ cmd'[p] = c /\ \A q \in Procs \ {p} : cmd'[q] = cmd[q]
    BY <2>1, <2>2, CmdBecomes
  <2>4. StoreInv' /\ saver' = saver
    BY <1>1, <1>6, StoreQuiet, CliSane DEF bookmarkVars
  <2>5. CmdKnows(p)'
    BY <1>1, <1>3, <1>4, <2>1, <2>3, <2>4, CliSane DEF CmdKnows, CredentialRequests
  <2> QED BY <1>1, <1>2, <1>4, <2>3, <2>4, <2>5, CmdStep DEF OnlyHis
<1> QED BY <1>5, <1>6 DEF Override

LEMMA ResolveSavedStep ==
  ASSUME CliInv, NEW p \in Procs, ResolveSaved(p)
  PROVE  CliInv'
<1>1. /\ UNCHANGED <<clock, calls, bookmarkVars, asked>> /\ cmd[p].at = "resolve"
      /\ asked[p] = 0 /\ asked' \in [Procs -> 0..2] /\ clock' = clock /\ calls' \in 0..MaxCalls
  BY CliSane DEF ResolveSaved, InCmd, CmdKnows, CliInv
<1>2. CredentialInv' /\ \A q \in Procs \ {p} : call'[q] = call[q] /\ sent'[q] = sent[q]
  BY <1>1, LoadStep, FailureStep, HisCall, CliSane DEF ResolveSaved
<1>3. /\ call'[p].outcome \notin Silent
      /\ call'[p].at \in {"idle", "refresh", "replace", "resolved"}
  <2>1. CASE \/ Ends(p, "credential_storage_error", FALSE) \/ Ends(p, "credential_missing", FALSE)
             \/ Ends(p, "credential_expired", FALSE)
    BY <2>1, CliSane DEF Ends, Rest, Silent, CredentialInv, CredentialTypeOK
  <2>2. CASE call' = [call EXCEPT ![p] = [Rest EXCEPT !.at = "resolved", !.record = saved,
                                                      !.stamp = clock, !.token = saved.access]]
    BY <2>2, CliSane DEF Rest, Silent, CredentialInv, CredentialTypeOK
  <2>3. CASE call' = [call EXCEPT ![p] = [Rest EXCEPT !.at = "refresh", !.record = saved,
                                                      !.stamp = clock]]
    BY <2>3, CliSane DEF Rest, Silent, CredentialInv, CredentialTypeOK
  <2> QED BY <2>1, <2>2, <2>3 DEF ResolveSaved, LoadFails, Load
<1> DEFINE c == [cmd[p] EXCEPT !.at = "resolving", !.source = "persisted"]
<1>4. c \in Cmd /\ c.at = "resolving" /\ c.op = cmd[p].op
  <2>1. c \in Cmd
    BY CliSane, CmdResolves
  <2> QED BY <2>1, CliSane DEF Cmd
<1>5. cmd' = [cmd EXCEPT ![p] = c]
  BY DEF ResolveSaved
<1> HIDE DEF c
<1>6. cmd' \in [Procs -> Cmd] /\ cmd'[p] = c /\ \A q \in Procs \ {p} : cmd'[q] = cmd[q]
  BY <1>4, <1>5 DEF CliInv
<1>7. StoreInv' /\ saver' = saver
  BY <1>1, StoreQuiet, CliSane DEF bookmarkVars
<1>8. CmdKnows(p)'
  BY <1>1, <1>3, <1>4, <1>6, <1>7, CliSane DEF CmdKnows
<1> QED BY <1>1, <1>2, <1>6, <1>7, <1>8, CmdStep DEF OnlyHis

LEMMA ResolvingStep ==
  ASSUME CliInv, NEW p \in Procs, Resolving(p)
  PROVE  CliInv'
<1>1. /\ UNCHANGED <<clock, calls, bookmarkVars, cmd, asked>> /\ cmd[p].at = "resolving"
      /\ clock' = clock /\ calls' \in 0..MaxCalls
  BY CliSane DEF Resolving, InCmd
<1>2. CredentialInv' /\ \A q \in Procs \ {p} : call'[q] = call[q] /\ sent'[q] = sent[q]
  BY <1>1, FailureStep, RefreshStep, ReplaceStep, HisCall, CliSane DEF Resolving, ResolveStep
<1>3. /\ call'[p].outcome \notin Silent
      /\ call'[p].at \in {"idle", "refresh", "replace", "resolved"}
  <2>1. call \in [Procs -> CallState] /\ call[p].outcome \notin Silent
    BY <1>1, CliSane DEF CliInv, CredentialInv, CredentialTypeOK, CmdKnows
  <2>2. CASE \/ Ends(p, "configuration_error", FALSE) \/ Ends(p, "provider_error", TRUE)
             \/ Ends(p, "credential_storage_error", TRUE)
    BY <2>2, CliSane DEF Ends, Rest, Silent, CredentialInv, CredentialTypeOK
  <2>3. ASSUME NEW record, call' = [call EXCEPT ![p].at = "replace", ![p].record = record]
        PROVE  call'[p].outcome = call[p].outcome /\ call'[p].at = "replace"
    BY <2>1, <2>3 DEF CallState
  <2>4. ASSUME NEW token, call' = [call EXCEPT ![p].at = "resolved", ![p].token = token,
                                               ![p].attempted = TRUE]
        PROVE  call'[p].outcome = call[p].outcome /\ call'[p].at = "resolved"
    BY <2>1, <2>4 DEF CallState
  <2>5. CASE NoClient(p) \/ RefreshDenied(p)
    BY <2>2, <2>5 DEF NoClient, RefreshDenied, Unusable
  <2>6. CASE SendRefresh(p)
    <3>1. ASSUME NEW life \in Lives, NEW told \in BOOLEAN,
                 call' = [call EXCEPT ![p].at = "replace",
                            ![p].record = Refreshed(p, IF told THEN life ELSE 0)]
          PROVE  call'[p].outcome = call[p].outcome /\ call'[p].at = "replace"
      BY <2>3, <3>1
    <3>2. Unusable(p) \/ (call'[p].outcome = call[p].outcome /\ call'[p].at = "replace")
      BY <2>6, <3>1 DEF SendRefresh
    <3> QED BY <2>1, <2>2, <3>2 DEF Unusable
  <2>7. CASE ReplaceRecord(p)
    <3>1. NotCommitted(p) \/ (call'[p].outcome = call[p].outcome /\ call'[p].at = "resolved")
      BY <2>4, <2>7 DEF ReplaceRecord, Yields
    <3> QED BY <2>1, <2>2, <3>1 DEF NotCommitted
  <2> QED BY <2>5, <2>6, <2>7 DEF Resolving, ResolveStep
<1>4. StoreInv' /\ saver' = saver
  BY <1>1, StoreQuiet, CliSane DEF bookmarkVars
<1>5. CmdKnows(p)'
  BY <1>1, <1>3, <1>4, CliSane DEF CmdKnows
<1> QED BY <1>1, <1>2, <1>4, <1>5, CmdStep DEF OnlyHis, CliInv

(***************************************************************************)
(* A command that ends before it has a page: what it reports is what was   *)
(* sent, to the token endpoint and for content.                            *)
(***************************************************************************)
LEMMA UnresolvedStep ==
  ASSUME CliInv, NEW p \in Procs, Unresolved(p)
  PROVE  CliInv'
<1>1. /\ UNCHANGED <<clock, calls, credentialVars, asked>> /\ cmd[p].at = "resolving"
      /\ call[p].at = "idle" /\ asked[p] = 0
  BY CliSane DEF Unresolved, InCmd, At, CmdKnows
<1>2. CredentialInv' /\ UNCHANGED <<call, sent>> /\ asked' \in [Procs -> 0..2]
  BY <1>1, CliSane, TimeKeeps DEF credentialVars, credentialHistory, CliInv
<1>3. sent[p] = CredentialRequests(p)
  BY <1>1, CliSane DEF CmdKnows, Counts, CredentialRequests
<1>4. /\ cmd' \in [Procs -> Cmd] /\ \A q \in Procs \ {p} : cmd'[q] = cmd[q]
      /\ cmd'[p].at = "idle" /\ cmd'[p].told = sent[p] /\ cmd'[p].op = cmd[p].op
  <2>1. 0 \in 0..2 /\ FALSE \in BOOLEAN /\ 0 + CredentialRequests(p) = sent[p]
    BY <1>3, CliSane
  <2>2. Reports(p, 0, FALSE)
    BY DEF Unresolved
  <2> QED BY <2>1, <2>2, ReportStep
<1>5. StoreInv' /\ \A q \in Procs \ {p} : saver'[q] = saver[q]
  BY <1>1, AbandonStep DEF Unresolved
<1>6. CmdKnows(p)'
  BY <1>1, <1>2, <1>4, CliSane DEF CmdKnows
<1> QED BY <1>2, <1>4, <1>5, <1>6, CmdStep, <1>1 DEF OnlyHis

LEMMA ResolvedStep ==
  ASSUME CliInv, NEW p \in Procs, ResolvedToken(p)
  PROVE  CliInv'
<1>1. /\ UNCHANGED <<clock, calls, credentialVars, bookmarkVars, asked>> /\ cmd[p].at = "resolving"
      /\ call[p].at = "resolved" /\ asked[p] = 0
  BY CliSane DEF ResolvedToken, InCmd, At, CmdKnows
<1>2. CredentialInv' /\ UNCHANGED <<call, sent>> /\ asked' \in [Procs -> 0..2]
  BY <1>1, CliSane, TimeKeeps DEF credentialVars, credentialHistory, CliInv
<1>3. sent[p] = CredentialRequests(p)
  BY <1>1, CliSane DEF Counts, CredentialRequests
<1>4. PICK account \in Accounts : account = owner[call[p].token]
  <2>1. PICK record \in committed : record.access = call[p].token
    BY <1>1, CliSane DEF Holds, Handed
  <2>2. call[p].token \in 1..Len(owner)
    BY <2>1, CliSane DEF CredentialInv, FileIsGenuine, Genuine, Issued
  <2>3. owner \in Seq(Accounts)
    BY CliSane DEF CredentialInv, CredentialTypeOK
  <2> QED BY <2>2, <2>3
<1> DEFINE c == [cmd[p] EXCEPT !.at = "subject", !.account = account]
<1>5. c \in Cmd /\ c.at = "subject" /\ c.account = account /\ c.op = cmd[p].op
  <2>1. c \in Cmd
    BY CliSane, CmdHasToken
  <2> QED BY <2>1, CliSane DEF Cmd
<1>6. cmd' = [cmd EXCEPT ![p] = c]
  BY <1>4 DEF ResolvedToken
<1> HIDE DEF c
<1>7. cmd' \in [Procs -> Cmd] /\ cmd'[p] = c /\ \A q \in Procs \ {p} : cmd'[q] = cmd[q]
  BY <1>5, <1>6, CmdBecomes
<1>8. StoreInv' /\ saver' = saver
  BY <1>1, StoreQuiet, CliSane DEF bookmarkVars
<1>9. CmdKnows(p)'
  BY <1>1, <1>2, <1>3, <1>5, <1>7, <1>8, CliSane DEF CmdKnows, CredentialRequests
<1> QED BY <1>1, <1>2, <1>7, <1>8, <1>9, CmdStep DEF OnlyHis

(***************************************************************************)
(* A request for content is counted; the credential is done with when the  *)
(* answer is a page, or none.                                              *)
(***************************************************************************)
LEMMA AsksStep ==
  ASSUME CliInv, NEW p \in Procs, AsksX(p), asked[p] \in 0..1
  PROVE  asked' \in [Procs -> 0..2] /\ asked'[p] = asked[p] + 1 /\ \A q \in Procs \ {p} : asked'[q] = asked[q]
<1>1. asked[p] + 1 \in 0..2
  OBVIOUS
<1> QED BY <1>1 DEF AsksX, CliInv

LEMMA DoneStep ==
  ASSUME CliInv, NEW p \in Procs, call' = [call EXCEPT ![p].at = "idle"],
         UNCHANGED <<clock, calls, tokens, saved, credentialHistory>>,
         sent[p] = CredentialRequests(p)
  PROVE  /\ CredentialInv' /\ UNCHANGED sent /\ CredentialRequests(p)' = CredentialRequests(p)
         /\ \A q \in Procs \ {p} : call'[q] = call[q]
<1> DEFINE c == [call[p] EXCEPT !.at = "idle"]
<1>1. c \in CallState /\ c.at = "idle" /\ c.attempted = call[p].attempted
  <2>1. c \in CallState
    BY CliSane, StateMoves
  <2> QED BY <2>1, CliSane DEF CallState
<1>2. call' = [call EXCEPT ![p] = c]
  OBVIOUS
<1> HIDE DEF c
<1>3. /\ sent' = [sent EXCEPT ![p] = sent[p]] /\ UNCHANGED <<sent, tokens, saved, committed, spent>>
      /\ clock' \in 0..MaxTime /\ calls' \in 0..MaxCalls
      /\ sent[p] = IF c.attempted THEN 1 ELSE 0
  BY <1>1, CliSane DEF credentialHistory, CredentialInv, CredentialTypeOK, CredentialRequests
<1>4. CredentialInv'
  <2>1. CredentialInv /\ sent[p] \in Nat /\ (c.at \in Unsent => sent[p] = 0) /\ c.at # "delete"
    BY <1>1, CliSane DEF Unsent
  <2> QED BY <1>1, <1>2, <1>3, <2>1, QuietStep
<1>5. call'[p] = c /\ \A q \in Procs \ {p} : call'[q] = call[q]
  BY <1>1, <1>2, CliSane DEF CredentialInv, CredentialTypeOK
<1> QED BY <1>1, <1>3, <1>4, <1>5 DEF CredentialRequests

\* A request that is refused ends the command, which has asked so often.
LEMMA RejectStep ==
  ASSUME CliInv, NEW p \in Procs, NEW n \in 0..2, Reports(p, n, FALSE), Abandon(p), AsksX(p),
         cmd[p].at \in {"subject", "collection"}, n = asked[p] + 1, asked[p] \in 0..1,
         call' = [call EXCEPT ![p].at = "idle"],
         UNCHANGED <<clock, calls, tokens, saved, credentialHistory>>
  PROVE  CliInv'
<1>1. sent[p] = CredentialRequests(p) /\ UNCHANGED <<clock, calls>>
  BY CliSane DEF CmdKnows
<1>2. /\ CredentialInv' /\ UNCHANGED sent /\ CredentialRequests(p)' = CredentialRequests(p)
      /\ \A q \in Procs \ {p} : call'[q] = call[q]
  BY <1>1, DoneStep
<1>3. asked' \in [Procs -> 0..2] /\ asked'[p] = n /\ \A q \in Procs \ {p} : asked'[q] = asked[q]
  BY AsksStep
<1>4. /\ cmd' \in [Procs -> Cmd] /\ \A q \in Procs \ {p} : cmd'[q] = cmd[q]
      /\ cmd'[p].at = "idle" /\ cmd'[p].told = n + CredentialRequests(p)
  BY ReportStep, FALSE \in BOOLEAN
<1>5. StoreInv' /\ \A q \in Procs \ {p} : saver'[q] = saver[q]
  BY AbandonStep
<1>6. CmdKnows(p)'
  BY <1>1, <1>2, <1>3, <1>4 DEF CmdKnows
<1> QED BY <1>2, <1>3, <1>4, <1>5, <1>6, CmdStep DEF OnlyHis

LEMMA SubjectStep ==
  ASSUME CliInv, NEW p \in Procs, Subject(p)
  PROVE  CliInv'
<1>1. /\ UNCHANGED <<clock, calls>> /\ cmd[p].at = "subject" /\ asked[p] = 0 /\ AsksX(p)
      /\ cmd[p].account \in Accounts /\ sent[p] = CredentialRequests(p)
  BY CliSane DEF Subject, InCmd, CmdKnows
<1>2. CASE Rejects(p) /\ Reports(p, 1, FALSE) /\ Abandon(p)
           /\ call' = [call EXCEPT ![p].at = "idle"]
           /\ UNCHANGED <<tokens, saved, credentialHistory>>
  <2>1. 1 \in 0..2 /\ 1 = asked[p] + 1 /\ asked[p] \in 0..1
    BY <1>1
  <2> QED BY <1>1, <1>2, <2>1, RejectStep
<1>3. CASE /\ cmd' = [cmd EXCEPT ![p].at = "collection", ![p].subject = cmd[p].account]
           /\ UNCHANGED <<credentialVars, bookmarkVars>>
  <2> DEFINE c == [cmd[p] EXCEPT !.at = "collection", !.subject = cmd[p].account]
  <2>1. c \in Cmd /\ c.at = "collection" /\ c.subject = cmd[p].account /\ c.op = cmd[p].op
    <3>1. c \in Cmd
      BY <1>1, CliSane, CmdHasSubject
    <3> QED BY <3>1, CliSane DEF Cmd
  <2>2. cmd' = [cmd EXCEPT ![p] = c]
    BY <1>3
  <2> HIDE DEF c
  <2>3. cmd' \in [Procs -> Cmd] /\ cmd'[p] = c /\ \A q \in Procs \ {p} : cmd'[q] = cmd[q]
    BY <2>1, <2>2, CmdBecomes
  <2>4. CredentialInv' /\ UNCHANGED <<call, sent>>
    BY <1>1, <1>3, CliSane, TimeKeeps DEF credentialVars, credentialHistory
  <2>5. StoreInv' /\ saver' = saver
    BY <1>1, <1>3, StoreQuiet, CliSane DEF bookmarkVars
  <2>6. asked' \in [Procs -> 0..2] /\ asked'[p] = 1 /\ \A q \in Procs \ {p} : asked'[q] = asked[q]
    BY <1>1, AsksStep
  <2>7. CmdKnows(p)'
    BY <1>1, <2>1, <2>3, <2>4, <2>5, <2>6, CliSane DEF CmdKnows, CredentialRequests
  <2> QED BY <2>3, <2>4, <2>5, <2>6, <2>7, CmdStep DEF OnlyHis
<1> QED BY <1>2, <1>3 DEF Subject

LEMMA PageStep ==
  ASSUME CliInv, NEW p \in Procs, Page(p)
  PROVE  CliInv'
<1>1. /\ UNCHANGED <<clock, calls, tokens, saved, credentialHistory>> /\ cmd[p].at = "collection"
      /\ asked[p] = 1 /\ AsksX(p) /\ call' = [call EXCEPT ![p].at = "idle"]
      /\ cmd[p].subject \in Users /\ sent[p] = CredentialRequests(p)
  BY CliSane, AccountsAreSubjects DEF Page, InCmd, CmdKnows
<1>2. CASE Rejects(p) /\ Reports(p, BothRequests(p), FALSE) /\ Abandon(p)
  <2>1. 2 \in 0..2 /\ 2 = asked[p] + 1 /\ asked[p] \in 0..1
    BY <1>1
  <2>2. Reports(p, 2, FALSE)
    BY <1>2 DEF BothRequests
  <2> QED BY <1>1, <1>2, <2>1, <2>2, RejectStep
<1>3. ASSUME NEW page \in Pages,
             cmd' = [cmd EXCEPT ![p].page = page,
                       ![p].at = IF cmd[p].op = "save" THEN "save" ELSE "print"],
             IF cmd[p].op = "save" THEN Acquired(p, cmd[p].subject, page)
             ELSE UNCHANGED bookmarkVars
      PROVE  CliInv'
  <2> DEFINE place == IF cmd[p].op = "save" THEN "save" ELSE "print"
             c == [cmd[p] EXCEPT !.page = page, !.at = place]
  <2>1. place \in {"save", "print"}
    OBVIOUS
  <2>2. c \in Cmd /\ c.at = place /\ c.op = cmd[p].op
    <3>1. c \in Cmd
      BY <2>1, CliSane, CmdHasPage
    <3> HIDE DEF place
    <3> QED BY <3>1, CliSane DEF Cmd
  <2>3. cmd' = [cmd EXCEPT ![p] = c]
    BY <1>3
  <2> HIDE DEF c
  <2>4. cmd' \in [Procs -> Cmd] /\ cmd'[p] = c /\ \A q \in Procs \ {p} : cmd'[q] = cmd[q]
    BY <2>2, <2>3, CmdBecomes
  <2>5. /\ CredentialInv' /\ UNCHANGED sent /\ CredentialRequests(p)' = CredentialRequests(p)
        /\ \A q \in Procs \ {p} : call'[q] = call[q]
    BY <1>1, DoneStep
  <2>6. StoreInv' /\ \A q \in Procs \ {p} : saver'[q] = saver[q]
    BY <1>1, <1>3, AcquiredStep, HisSave, StoreQuiet, CliSane DEF bookmarkVars
  <2>7. asked' \in [Procs -> 0..2] /\ asked'[p] = 2 /\ \A q \in Procs \ {p} : asked'[q] = asked[q]
    <3>1. asked[p] \in 0..1 /\ asked[p] + 1 = 2
      BY <1>1
    <3> QED BY <1>1, <3>1, AsksStep
  <2>8. CmdKnows(p)'
    BY <1>1, <2>1, <2>2, <2>4, <2>5, <2>7, CliSane DEF CmdKnows
  <2> QED BY <2>4, <2>5, <2>6, <2>7, <2>8, CmdStep DEF OnlyHis
<1> QED BY <1>2, <1>3 DEF Page

LEMMA SavingStep ==
  ASSUME CliInv, NEW p \in Procs, Saving(p)
  PROVE  CliInv'
<1>1. /\ UNCHANGED <<clock, calls, credentialVars, cmd, asked>> /\ cmd[p].at = "save" /\ SaveStep(p)
  BY DEF Saving, InCmd
<1>2. CredentialInv' /\ UNCHANGED <<call, sent>>
  BY <1>1, CliSane, TimeKeeps DEF credentialVars, credentialHistory
<1>3. StoreInv' /\ \A q \in Procs \ {p} : saver'[q] = saver[q]
  BY <1>1, CliSane, StoreStep, HisSave
<1>4. CmdKnows(p)'
  BY <1>1, <1>2, CliSane DEF CmdKnows, CredentialRequests
<1> QED BY <1>1, <1>2, <1>3, <1>4, CmdStep DEF OnlyHis, CliInv

LEMMA EmitStep ==
  ASSUME CliInv, NEW p \in Procs, Emit(p)
  PROVE  CliInv'
<1>1. /\ UNCHANGED <<clock, calls, credentialVars, bookmarkVars, asked>>
      /\ cmd[p].at \in {"save", "print"} /\ asked[p] = 2 /\ sent[p] = CredentialRequests(p)
  BY CliSane DEF Emit, InCmd, CmdKnows
<1>2. CredentialInv' /\ UNCHANGED <<call, sent>> /\ asked' \in [Procs -> 0..2]
  BY <1>1, CliSane, TimeKeeps DEF credentialVars, credentialHistory, CliInv
<1>3. PICK printed \in BOOLEAN : Reports(p, 2, printed)
  BY DEF Emit
<1>4. /\ cmd' \in [Procs -> Cmd] /\ \A q \in Procs \ {p} : cmd'[q] = cmd[q]
      /\ cmd'[p].at = "idle" /\ cmd'[p].told = 2 + CredentialRequests(p) /\ cmd'[p].op = cmd[p].op
  BY <1>3, ReportStep, 2 \in 0..2
<1>5. StoreInv' /\ saver' = saver
  BY <1>1, StoreQuiet, CliSane DEF bookmarkVars
<1>6. CmdKnows(p)'
  BY <1>1, <1>2, <1>4, CliSane DEF CmdKnows
<1> QED BY <1>1, <1>2, <1>4, <1>5, <1>6, CmdStep DEF OnlyHis

(***************************************************************************)
(* auth login, a command that is killed, the operator, and time.           *)
(***************************************************************************)
LEMMA AuthStep ==
  ASSUME CliInv, NEW p \in Procs, AuthLogin(p) \/ AuthPersist(p)
  PROVE  CliInv'
<1>1. UNCHANGED <<clock, bookmarkVars>> /\ calls' \in 0..MaxCalls
  BY CliSane, ProcessesAssumption DEF AuthLogin, AuthPersist, Starts
<1>2. /\ CredentialInv' /\ \A q \in Procs \ {p} : call'[q] = call[q] /\ sent'[q] = sent[q]
  BY <1>1, CliSane, LoginStep, PersistStep, HisCall DEF AuthLogin, AuthPersist
<1>3. StoreInv' /\ saver' = saver
  BY <1>1, StoreQuiet, CliSane DEF bookmarkVars
<1>4. CASE AuthLogin(p)
  <2> DEFINE c == [Quiet EXCEPT !.op = "login"]
  <2>1. c \in Cmd /\ c.at = "idle" /\ c.op = "login" /\ cmd' = [cmd EXCEPT ![p] = c]
    BY <1>4, CmdBegins DEF AuthLogin
  <2> HIDE DEF c
  <2>2. cmd' \in [Procs -> Cmd] /\ cmd'[p] = c /\ \A q \in Procs \ {p} : cmd'[q] = cmd[q]
    BY <2>1, CmdBecomes
  <2>3. asked' \in [Procs -> 0..2] /\ \A q \in Procs \ {p} : asked'[q] = asked[q]
    BY <1>4 DEF AuthLogin, CliInv
  <2>4. CmdKnows(p)'
    BY <2>1, <2>2 DEF CmdKnows
  <2> QED BY <1>2, <1>3, <2>2, <2>3, <2>4, CmdStep DEF OnlyHis
<1>5. CASE AuthPersist(p)
  <2>1. UNCHANGED <<cmd, asked>> /\ cmd[p].op = "login" /\ cmd[p].at = "idle"
    BY <1>5, CliSane DEF AuthPersist, CmdKnows
  <2>2. CmdKnows(p)'
    BY <2>1 DEF CmdKnows
  <2> QED BY <1>2, <1>3, <2>1, <2>2, CmdStep DEF OnlyHis, CliInv
<1> QED BY <1>4, <1>5

LEMMA KilledStep ==
  ASSUME CliInv, NEW p \in Procs, Killed(p)
  PROVE  CliInv'
<1>1. /\ UNCHANGED <<clock, calls, tokens, saved, credentialHistory, file, touches, history, asked>>
      /\ SaveEnds(p, "crashed")
  BY DEF Killed
<1> DEFINE crash == [Rest EXCEPT !.outcome = "crashed"]
<1>2. crash \in CallState /\ crash.at = "idle" /\ crash.outcome = "crashed"
  BY DEF Rest, CallState, Outcomes
<1>3. call' = [call EXCEPT ![p] = crash]
  BY DEF Killed
<1> HIDE DEF crash
<1>4. /\ sent' = [sent EXCEPT ![p] = sent[p]] /\ UNCHANGED <<sent, tokens, saved, committed, spent>>
      /\ clock' \in 0..MaxTime /\ calls' \in 0..MaxCalls
  BY <1>1, CliSane DEF credentialHistory, CredentialInv, CredentialTypeOK
<1>5. CredentialInv'
  <2>1. CredentialInv /\ sent[p] \in Nat /\ crash.at \notin Unsent /\ crash.outcome \in Silent
    BY <1>2, CliSane DEF Unsent, Silent
  <2> QED BY <1>2, <1>3, <1>4, <2>1, QuietStep
<1>6. \A q \in Procs \ {p} : call'[q] = call[q]
  BY <1>2, <1>3, CliSane DEF CredentialInv, CredentialTypeOK
<1> DEFINE c == [Quiet EXCEPT !.op = "killed"]
<1>7. c \in Cmd /\ c.at = "idle" /\ c.op = "killed" /\ cmd' = [cmd EXCEPT ![p] = c]
  BY CmdBegins DEF Killed
<1> HIDE DEF c
<1>8. cmd' \in [Procs -> Cmd] /\ cmd'[p] = c /\ \A q \in Procs \ {p} : cmd'[q] = cmd[q]
  BY <1>7, CmdBecomes
<1>9. StoreInv' /\ \A q \in Procs \ {p} : saver'[q] = saver[q]
  <2>1. Around
    BY <1>1, CliSane DEF Around, history, StoreInv, StoreTypeOK
  <2> QED BY <1>1, <2>1, CliSane, SaveOver, HisSave DEF SaveOutcomes, history, StoreInv, StoreTypeOK
<1>10. CmdKnows(p)'
  BY <1>7, <1>8 DEF CmdKnows
<1> QED BY <1>1, <1>4, <1>5, <1>6, <1>8, <1>9, <1>10, CmdStep DEF OnlyHis, CliInv

LEMMA TimePasses ==
  ASSUME CliInv, UNCHANGED <<credentialVars, cmd, asked, saver>>, clock' \in 0..MaxTime,
         calls' \in 0..MaxCalls, StoreInv'
  PROVE  CliInv'
<1>1. CredentialInv'
  BY TimeKeeps DEF CliInv
<1>2. UNCHANGED <<call, sent>>
  BY DEF credentialVars, credentialHistory
<1>3. \A p \in Procs : CmdKnows(p)'
  BY <1>2 DEF CliInv, CmdKnows, CredentialRequests
<1> QED BY <1>1, <1>3 DEF CliInv

LEMMA CliStep == CliInv /\ [CliNext]_cliVars => CliInv'
<1> SUFFICES ASSUME CliInv, [CliNext]_cliVars PROVE CliInv'
  OBVIOUS
<1>1. /\ CredentialInv /\ StoreInv /\ clock \in 0..MaxTime /\ clock \in Nat /\ calls \in 0..MaxCalls
  BY ProcessesAssumption DEF CliInv, StoreInv, StoreTypeOK
<1>2. ASSUME NEW p \in Procs, Command(p) PROVE CliInv'
  BY <1>2, CollectionStep, OverrideStep, ResolveSavedStep, ResolvingStep, UnresolvedStep,
     ResolvedStep, SubjectStep, PageStep, SavingStep, EmitStep, AuthStep, KilledStep
     DEF Command
<1>3. CASE Touch /\ UNCHANGED <<clock, calls, credentialVars, cmd, asked>>
  BY <1>1, <1>3, TouchStep, TimePasses DEF Touch
<1>4. CASE Tick /\ UNCHANGED <<credentialVars, bookmarkVars, cmd, asked>>
  <2>1. clock' \in 0..MaxTime /\ clock <= clock' /\ calls' = calls
    BY <1>1, <1>4, ProcessesAssumption DEF Tick
  <2> QED BY <1>1, <1>4, <2>1, StoreQuiet, TimePasses DEF bookmarkVars
<1>5. CASE UNCHANGED cliVars
  <2>1. clock' = clock /\ calls' = calls /\ UNCHANGED <<credentialVars, cmd, asked, bookmarkVars>>
    BY <1>5 DEF cliVars
  <2> QED BY <1>1, <2>1, StoreQuiet, TimePasses DEF bookmarkVars
<1> QED BY <1>2, <1>3, <1>4, <1>5 DEF CliNext

LEMMA CliStarts == CliInit => CliInv
<1> SUFFICES ASSUME CliInit PROVE CliInv
  OBVIOUS
<1>1. CredentialInv
  BY InitHolds DEF CliInit
<1>2. Idle \in Saver /\ Idle.at = "idle" /\ Idle.outcome = "none" /\ Idle.snap = NoFile
  BY DEF Idle, Saver, SaveOutcomes
<1>3. StoreTypeOK
  BY <1>2, ProcessesAssumption, PagesAssumption DEF CliInit, Starting, StoreInit, StoreTypeOK
<1>4. \A p \in Procs : Saves(p)
  BY <1>2, NoFileIsTrue DEF CliInit, StoreInit, Saves, Unwritten
<1>5. StoreInv
  BY <1>3, <1>4, NoFileIsTrue DEF CliInit, StoreInit, StoreInv
<1>6. \A p \in Procs : CmdKnows(p)
  BY DEF CliInit, CmdKnows, Quiet
<1> QED BY <1>1, <1>5, <1>6, QuietIsCmd DEF CliInit, CliInv

(***************************************************************************)
(* The invariant of the commands holds in every reachable state.           *)
(***************************************************************************)
THEOREM CliIsInductive == CliSpec => []CliInv
BY CliStarts, CliStep, PTL DEF CliSpec

(***************************************************************************)
(* cli.py's diagnostics count every request that was sent, to the token    *)
(* endpoint and for content, whatever ended the command: for any number of *)
(* commands side by side.                                                  *)
(***************************************************************************)
THEOREM RequestsAreTold == CliSpec => []RequestsTold
<1>1. CliInv => RequestsTold
  BY DEF CliInv, CredentialInv, StoreInv, CmdKnows, RequestsTold, CliTypeOK, Free, InCmd
<1> QED BY <1>1, CliIsInductive, PTL

(***************************************************************************)
(* The store of bookmark_store.py is about one subject: what it says of a  *)
(* post was observed of that subject at the times it gives.                *)
(***************************************************************************)
THEOREM StoreIsOfOneSubject == CliSpec => []SubjectIsolated
<1>1. CliInv => SubjectIsolated
  BY DEF CliInv, StoreInv, Truthful, SubjectIsolated
<1> QED BY <1>1, CliIsInductive, PTL

(***************************************************************************)
(* A save's report says truly whether it may have replaced the file.       *)
(***************************************************************************)
THEOREM EffectsAreTold == CliSpec => []EffectTold
<1>1. CliInv => EffectTold
  BY DEF CliInv, StoreInv, Saves, EffectTold, SaverAt
<1> QED BY <1>1, CliIsInductive, PTL

(***************************************************************************)
(* A save only adds to the file it replaces, unless the file changed after *)
(* its last look at it.                                                    *)
(***************************************************************************)
ReplacesSafely ==
  \A p \in Procs :
    SaverAt(p, "replace") /\ saver'[p].at = "readback" /\ ~late[p] =>
      file = NoFile \/ (IsStore(file) /\ Extends(file', file))

LEMMA ReplaceOnlyAdds ==
  ASSUME StoreInv, NEW p \in Procs, Replace(p)
  PROVE  ReplacesSafely
<1> SUFFICES ASSUME NEW q \in Procs, SaverAt(q, "replace"), saver'[q].at = "readback", ~late[q]
             PROVE  file = NoFile \/ (IsStore(file) /\ Extends(file', file))
  BY DEF ReplacesSafely
<1>1. q = p
  BY DEF Replace, SaveEnds, SaverAt, StoreInv, StoreTypeOK
<1>2. file' = saver[p].image /\ file = saver[p].snap
  BY <1>1, StoreSane DEF Replace, SaveEnds, Idle, SaverAt, Saves, StoreInv, StoreTypeOK
<1>3. file = NoFile \/ IsStore(file)
  BY <1>2, StoreSane DEF IsStore, Store
<1>4. IsStore(file) => Extends(file', file)
  BY <1>1, <1>2, StoreSane DEF Saves, SaverAt
<1> QED BY <1>3, <1>4

LEMMA OnlyReplaceReads ==
  ASSUME StoreInv, NEW p \in Procs,
         \/ UNCHANGED saver \/ Preflight(p) \/ \E outcome : SaveEnds(p, outcome)
         \/ \E user, page : Acquired(p, user, page)
         \/ WriteTemp(p) \/ FreshRead(p) \/ Readback(p) \/ ReadFails(p)
  PROVE  ReplacesSafely
<1>1. \A q \in Procs : saver'[q].at = "readback" => saver[q].at = "readback"
  <2>1. \A outcome : [Idle EXCEPT !.outcome = outcome].at = "idle"
    BY DEF Idle
  <2>2. ASSUME NEW s, saver' = [saver EXCEPT ![p] = s], s.at # "readback"
        PROVE  \A q \in Procs : saver'[q].at = "readback" => saver[q].at = "readback"
    BY <2>2 DEF StoreInv, StoreTypeOK
  <2>3. CASE \E outcome : SaveEnds(p, outcome)
    BY <2>1, <2>2, <2>3 DEF SaveEnds
  <2>4. ASSUME NEW place \in {"temp", "fresh", "replace"}
        PROVE  saver' = [saver EXCEPT ![p].at = place] =>
                 \A q \in Procs : saver'[q].at = "readback" => saver[q].at = "readback"
    BY <2>4 DEF StoreInv, StoreTypeOK, Saver
  <2>5. ASSUME NEW image, saver' = [saver EXCEPT ![p].at = "temp", ![p].image = image]
        PROVE  \A q \in Procs : saver'[q].at = "readback" => saver[q].at = "readback"
    BY <2>5 DEF StoreInv, StoreTypeOK, Saver
  <2>6. ASSUME NEW snap, saver' = [saver EXCEPT ![p] = [Idle EXCEPT !.at = "acquire", !.snap = snap]]
        PROVE  \A q \in Procs : saver'[q].at = "readback" => saver[q].at = "readback"
    BY <2>6 DEF StoreInv, StoreTypeOK, Idle
  <2>7. CASE Preflight(p)
    BY <2>3, <2>6, <2>7 DEF Preflight
  <2>8. CASE WriteTemp(p) \/ FreshRead(p)
    BY <2>3, <2>4, <2>8 DEF WriteTemp, FreshRead
  <2>9. CASE Readback(p) \/ ReadFails(p)
    BY <2>3, <2>9 DEF Readback, ReadFails, MayHave
  <2>10. CASE \E user, page : Acquired(p, user, page)
    BY <2>3, <2>5, <2>10 DEF Acquired
  <2> QED BY <2>3, <2>7, <2>8, <2>9, <2>10
<1> QED BY <1>1 DEF ReplacesSafely, SaverAt

LEMMA CommandSavesSafely ==
  ASSUME StoreInv, NEW p \in Procs, Command(p)
  PROVE  ReplacesSafely
<1>1. CASE Saving(p)
  BY <1>1, OnlyReplaceReads, ReplaceOnlyAdds DEF Saving, SaveStep
<1>2. CASE Collection(p, "show") \/ Collection(p, "save")
  BY <1>2, OnlyReplaceReads DEF Collection, bookmarkVars
<1>3. CASE Override(p) \/ Unresolved(p) \/ Subject(p)
  BY <1>3, OnlyReplaceReads DEF Override, Unresolved, Subject, Abandon, bookmarkVars
<1>4. CASE Page(p)
  BY <1>4, OnlyReplaceReads DEF Page, Abandon, bookmarkVars
<1>5. CASE Killed(p)
  BY <1>5, OnlyReplaceReads DEF Killed
<1>6. CASE UNCHANGED saver
  BY <1>6, OnlyReplaceReads
<1>7. CASE ResolveSaved(p) \/ Resolving(p) \/ ResolvedToken(p) \/ Emit(p) \/ AuthLogin(p)
           \/ AuthPersist(p)
  <2>1. UNCHANGED saver
    BY <1>7 DEF ResolveSaved, Resolving, ResolvedToken, Emit, AuthLogin, AuthPersist, bookmarkVars
  <2> QED BY <2>1, <1>6
<1> QED BY <1>1, <1>2, <1>3, <1>4, <1>5, <1>7 DEF Command

(***************************************************************************)
(* save loses no item and no first observation of the file it replaces,    *)
(* unless the file changed after its last look: for any number of commands *)
(* side by side.                                                           *)
(***************************************************************************)
THEOREM SavesOnlyAdd == CliSpec => OnlyAdds
<1>1. CliInv /\ [CliNext]_cliVars => [ReplacesSafely]_bookmarkVars
  <2> SUFFICES ASSUME CliInv, [CliNext]_cliVars PROVE [ReplacesSafely]_bookmarkVars
    OBVIOUS
  <2>1. CASE Touch
    BY <2>1 DEF Touch, ReplacesSafely, SaverAt
  <2> QED BY <2>1, CommandSavesSafely DEF CliNext, cliVars, CliInv
<1>2. OnlyAdds <=> [][ReplacesSafely]_bookmarkVars
  BY DEF OnlyAdds, ReplacesSafely
<1> QED BY <1>1, <1>2, CliIsInductive, PTL DEF CliSpec
================================================================================
