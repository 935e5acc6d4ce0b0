----------------------------- MODULE BookmarkStore -----------------------------
EXTENDS Processes, Functions
(***************************************************************************)
(* The plaintext bookmark store of bookmark_store.py.  A save is preflight *)
(* before any request, the page acquired meanwhile, then save(): merge in  *)
(* memory, write a temporary file, read the store once more, replace it,   *)
(* read it back.  Each file operation is a step, because other processes   *)
(* and the operator may touch the file between any two.  The temporary     *)
(* file has a name of its own and nobody reads it; the order of the items  *)
(* and the account's user name are left out.                               *)
(***************************************************************************)
CONSTANTS
  Users,      \* authenticated subjects
  Posts,      \* post identities
  Texts,      \* what a post may say
  Pages,      \* the pages the provider may return
  MaxTouches  \* bound on what the operator does to the file

ASSUME PagesAssumption ==
  /\ \A page \in Pages : DOMAIN page \subseteq Posts /\ Range(page) \subseteq Texts
  /\ MaxTouches \in Nat

VARIABLES
  file,       \* bookmarks-v1.json
  saver,      \* saver[p]: the save process p is in
  touches,
  \* history variables
  observed,   \* what each subject was seen to have bookmarked, and when
  wrote,      \* wrote[p]: p replaced the file in its present save
  late        \* late[p]: the file changed after p's last look before replacing

history == <<observed, wrote, late>>
bookmarkVars == <<file, saver, touches, history>>

NoFile == [kind |-> "absent"]
Garbage == [kind |-> "garbage"]             \* anything _decode does not accept

Item == [text : Texts, first : 0..MaxTime, last : 0..MaxTime]
Items == UNION {[posts -> Item] : posts \in SUBSET Posts}
Store == [kind : {"store"}, subject : Users, created : 0..MaxTime,
          updated : 0..MaxTime, items : Items]
IsStore(f) == f.kind = "store"

Idle == [at |-> "idle", snap |-> NoFile, image |-> NoFile, outcome |-> "none"]

StoreInit ==
  /\ file = NoFile
  /\ saver = [p \in Procs |-> Idle]
  /\ touches = 0 /\ observed = {}
  /\ wrote = [p \in Procs |-> FALSE] /\ late = [p \in Procs |-> FALSE]

SaverAt(p, place) == saver[p].at = place

(***************************************************************************)
(* The end of a save and what it reports: saved, or a category and whether *)
(* the file may have been replaced.                                        *)
(***************************************************************************)
SaveEnds(p, outcome) == saver' = [saver EXCEPT ![p] = [Idle EXCEPT !.outcome = outcome]]

(***************************************************************************)
(* preflight: an absent or a valid store, else no request is made at all.  *)
(***************************************************************************)
Readable == file # Garbage

Preflight(p) ==
  /\ SaverAt(p, "idle")
  /\ IF ~Readable THEN SaveEnds(p, "storage_error")
     ELSE saver' = [saver EXCEPT ![p] = [Idle EXCEPT !.at = "acquire", !.snap = file]]
  /\ wrote' = [wrote EXCEPT ![p] = FALSE] /\ late' = [late EXCEPT ![p] = FALSE]
  /\ UNCHANGED <<file, touches, observed>>

(***************************************************************************)
(* The next image: a new store, or the old one with every post of the page *)
(* put in or brought up to date.  Nothing is ever taken out.               *)
(***************************************************************************)
Old(p) ==
  IF IsStore(saver[p].snap) THEN saver[p].snap.items ELSE [post \in {} |-> {}]
FirstSeen(p, post) == IF post \in DOMAIN Old(p) THEN Old(p)[post].first ELSE clock

Merged(p, page) ==
  [post \in DOMAIN Old(p) \cup DOMAIN page |->
     IF post \in DOMAIN page
     THEN [text |-> page[post], first |-> FirstSeen(p, post), last |-> clock]
     ELSE Old(p)[post]]

Image(p, user, page) ==
  [kind |-> "store", subject |-> user,
   created |-> IF IsStore(saver[p].snap) THEN saver[p].snap.created ELSE clock,
   updated |-> clock, items |-> Merged(p, page)]

(***************************************************************************)
(* A page of user's bookmarks has been fetched, and save() starts: a store *)
(* of another subject is refused before any file is written.               *)
(***************************************************************************)
AnySubject(p, user) == TRUE                           \* a fault for the checks
SameSubject(p, user) == IsStore(saver[p].snap) => saver[p].snap.subject = user

Acquired(p, user, page) ==
  /\ SaverAt(p, "acquire")
  /\ observed' = observed \cup {<<user, post, page[post], clock>> : post \in DOMAIN page}
  /\ IF SameSubject(p, user)
     THEN saver' = [saver EXCEPT ![p].at = "temp", ![p].image = Image(p, user, page)]
     ELSE SaveEnds(p, "subject_mismatch")
  /\ UNCHANGED <<file, touches, wrote, late>>

WriteTemp(p) ==
  /\ SaverAt(p, "temp")
  /\ \/ saver' = [saver EXCEPT ![p].at = "fresh"]
     \/ "disk" \in Faults /\ SaveEnds(p, "storage_error")
  /\ UNCHANGED <<file, touches, history>>

Stale(p) == FALSE                                     \* a fault for the checks
Differs(p) == file # saver[p].snap

(***************************************************************************)
(* The last read before the effect: any difference is a refusal.           *)
(***************************************************************************)
FreshRead(p) ==
  /\ SaverAt(p, "fresh")
  /\ IF Differs(p) THEN SaveEnds(p, "storage_error")
     ELSE saver' = [saver EXCEPT ![p].at = "replace"]
  /\ late' = [late EXCEPT ![p] = FALSE]
  /\ UNCHANGED <<file, touches, observed, wrote>>

Changes(p) == late' = [q \in Procs |-> IF q = p THEN late[q] ELSE TRUE]

(***************************************************************************)
(* os.replace: the whole file or, when it raises, nothing of it.           *)
(***************************************************************************)
Replace(p) ==
  /\ SaverAt(p, "replace")
  /\ \/ /\ file' = saver[p].image
        /\ saver' = [saver EXCEPT ![p].at = "readback"]
        /\ wrote' = [wrote EXCEPT ![p] = TRUE]
        /\ Changes(p)
     \/ /\ "disk" \in Faults /\ SaveEnds(p, "storage_error")
        /\ UNCHANGED <<file, wrote, late>>
  /\ UNCHANGED <<touches, observed>>

NotReplaced(p) == SaveEnds(p, "storage_error")        \* a fault for the checks
MayHave(p) == SaveEnds(p, "storage_error_may_have")

Readback(p) ==
  /\ SaverAt(p, "readback")
  /\ IF file = saver[p].image THEN SaveEnds(p, "saved") ELSE MayHave(p)
  /\ UNCHANGED <<file, touches, history>>

ReadFails(p) ==
  /\ "disk" \in Faults /\ saver[p].at \in {"fresh", "readback"}
  /\ IF SaverAt(p, "readback") THEN MayHave(p) ELSE SaveEnds(p, "storage_error")
  /\ UNCHANGED <<file, touches, history>>

(***************************************************************************)
(* The operator removes the file, damages it, or puts back a copy.         *)
(***************************************************************************)
Touch ==
  /\ touches < MaxTouches /\ touches' = touches + 1
  /\ file' \in {NoFile, Garbage} \cup {saver[p].snap : p \in Procs}
  /\ late' = [p \in Procs |-> TRUE]
  /\ UNCHANGED <<saver, observed, wrote>>

SaveStep(p) ==
  WriteTemp(p) \/ FreshRead(p) \/ Replace(p) \/ Readback(p) \/ ReadFails(p)

--------------------------------------------------------------------------------
SaveOutcomes ==
  {"none", "saved", "storage_error", "storage_error_may_have", "subject_mismatch",
   "not_acquired", "crashed"}

Saver ==
  [at : {"idle", "acquire", "temp", "fresh", "replace", "readback"},
   snap : Store \cup {NoFile}, image : Store \cup {NoFile},
   outcome : SaveOutcomes]

StoreTypeOK ==
  /\ clock \in 0..MaxTime /\ calls \in 0..MaxCalls /\ touches \in 0..MaxTouches
  /\ file \in Store \cup {NoFile, Garbage}
  /\ saver \in [Procs -> Saver]
  /\ observed \subseteq Users \X Posts \X Texts \X (0..MaxTime)
  /\ wrote \in [Procs -> BOOLEAN] /\ late \in [Procs -> BOOLEAN]

(***************************************************************************)
(* One subject per store, even with processes side by side and accounts    *)
(* changing: whatever the store says of a post was observed of its own     *)
(* subject at the times it gives, and the times are in order.              *)
(***************************************************************************)
SubjectIsolated ==
  IsStore(file) =>
    /\ file.created <= file.updated
    /\ \A post \in DOMAIN file.items :
         LET item == file.items[post] IN
           /\ <<file.subject, post, item.text, item.last>> \in observed
           /\ \E text \in Texts : <<file.subject, post, text, item.first>> \in observed
           /\ file.created <= item.first /\ item.first <= item.last
           /\ item.last <= file.updated

(***************************************************************************)
(* A report of a save that failed says truly whether the file may have     *)
(* been replaced by it, and a success replaced it.                         *)
(***************************************************************************)
EffectTold ==
  \A p \in Procs : SaverAt(p, "idle") =>
    /\ saver[p].outcome = "saved" => wrote[p]
    /\ saver[p].outcome \in {"storage_error", "subject_mismatch", "not_acquired"} => ~wrote[p]

(***************************************************************************)
(* A save only adds to what is in the file: unless the file changed after  *)
(* the save's last look at it, which docs/specs/0007 excludes, the subject *)
(* stays, no item disappears and no first observation moves.               *)
(***************************************************************************)
Extends(new, old) ==
  /\ new.subject = old.subject /\ new.created = old.created
  /\ DOMAIN old.items \subseteq DOMAIN new.items
  /\ \A post \in DOMAIN old.items : /\ new.items[post].first = old.items[post].first
                                    /\ new.items[post].last >= old.items[post].last
OnlyAdds ==
  [][\A p \in Procs :
       SaverAt(p, "replace") /\ saver'[p].at = "readback" /\ ~late[p] =>
         file = NoFile \/ (IsStore(file) /\ Extends(file', file))]_bookmarkVars
================================================================================
