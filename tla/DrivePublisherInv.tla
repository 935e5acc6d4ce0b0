--------------------------- MODULE DrivePublisherInv ---------------------------
EXTENDS DrivePublisher
(***************************************************************************)
(* Why the publisher keeps its promises: the inductive invariant, and the  *)
(* promise itself as an abstract specification.                            *)
(*                                                                         *)
(* The argument.  While a run is alive its memory is the file (Copy), and  *)
(* both name real documents of the right role (Truth).  The only file the  *)
(* registry may not know is the one just created, and while the journal is *)
(* empty there is none (Orphanage): so a title about to be created has no  *)
(* document.  What was planned is what the publisher itself wrote (Plans), *)
(* a document about to be written shows what was observed or a newer       *)
(* revision (Armed), and so the journal is cleared over a whole set only.  *)
(***************************************************************************)

Copy == pc # "idle" => mem = disk /\ result = "none"

Truth ==
  /\ disk.folder # NoId => role[disk.folder] = Folder
  /\ \A r \in Roles : disk.documents[r] # NoId => role[disk.documents[r]] = r
  /\ disk.folder = NoId => \A r \in Roles : disk.documents[r] = NoId

(***************************************************************************)
(* Files of the app that the registry on disk does not list.               *)
(***************************************************************************)
Unlisted(i) ==
  /\ role[i] # NoRole /\ i # disk.folder
  /\ \A r \in Roles : disk.documents[r] # i

MadeNotListed == {"stageFolderMade", "adoptFolder", "stageMade", "register"}

Orphanage ==
  /\ disk.pending = << >> => \A i \in Ids : ~Unlisted(i)
  /\ pc \notin MadeNotListed \cup {"idle"} => \A i \in Ids : ~Unlisted(i)
  /\ pc \in MadeNotListed => /\ made \in Ids
                             /\ \A i \in Ids : Unlisted(i) => i = made
  /\ pc \in {"stageFolderMade", "adoptFolder"} => role[made] = Folder
  /\ pc \in {"stageMade", "register"} => role[made] = Target

(***************************************************************************)
(* What each place in the program may take for granted.                    *)
(***************************************************************************)
InInit == {"stageFolder", "createFolder", "stageFolderMade", "adoptFolder"}
InEffect == {"stageUpdate", "stageCreate", "createDoc", "stageMade", "register",
             "readEmpty"}
Settling == purpose = "settle" /\ pc \in {"list", "scan"}

Stages ==
  /\ pc \in InInit => disk.folder = NoId
  /\ pc \in InInit \cup {"checkFolder", "idle"} => purpose = "none" /\ ~attempted
  /\ pc \notin InInit \cup {"idle"} => disk.folder # NoId
  /\ pc \in {"createFolder", "createDoc", "write"} \cup MadeNotListed
       => disk.pending # << >>
  /\ pc \in {"readEmpty", "stageContent", "readback", "commit"} \/ Settling
       => disk.pending # << >>
  /\ pc \in {"list", "scan"} => purpose # "none"
  /\ pc \in InEffect => purpose = "effect"
  /\ pc = "stageContent" => purpose = "settle"
  /\ pc \in {"write", "readback"} => purpose \in {"effect", "settle"}
  /\ pc = "commit" => purpose = "final"
  /\ purpose \in {"upsert", "effect", "settle"} => at \in 1..Len(Order) + 1
  /\ purpose = "final" => at = Len(Order) + 1
  /\ purpose \in {"none", "preview", "recheck"} => at = 0
  /\ pc \in {"stageCreate", "createDoc", "stageMade", "register"}
       => disk.documents[Target] = NoId
  /\ pc \in {"readEmpty", "stageContent"} \/ Settling
       => made # NoId /\ disk.documents[Target] = made
  /\ pc \in {"stageUpdate", "write", "readback"} => disk.documents[Target] # NoId

Bodies ==
  \A i \in Ids :
    /\ body[i] \in {wrote[i], Foreign}
    /\ role[i] = NoRole <=> wrote[i] = NoDoc
    /\ role[i] = NoRole => body[i] = NoDoc

(***************************************************************************)
(* What a scan has read: nothing of a title still to read or without       *)
(* document, and otherwise the publisher's own text or the owner's.        *)
(***************************************************************************)
Views ==
  pc \in {"list", "scan"} =>
    /\ todo \subseteq Known(disk)
    /\ \A r \in Roles :
         IF r \in todo \/ disk.documents[r] = NoId THEN seen[r] = NoDoc
         ELSE seen[r] \in {Foreign, wrote[disk.documents[r]]}

(***************************************************************************)
(* drive.apply's expected is what the publisher wrote, but for the target  *)
(* of the effect under way; and what lies behind `at' is as wanted.        *)
(***************************************************************************)
Planned == purpose \notin {"none", "preview"}
InFlux(r) ==
  /\ pc \in {"readEmpty", "stageContent", "write", "readback"} \/ Settling
  /\ r = Target

Plans ==
  Planned =>
    /\ \A r \in Roles : expected[r] \in Written \cup {NoDoc}
    /\ \A r \in Roles : ~InFlux(r) =>
         expected[r] = IF disk.documents[r] = NoId THEN NoDoc
                       ELSE wrote[disk.documents[r]]
    /\ \A n \in 1..Len(Order) :
         n < at => expected[Order[n]] = Markdown(fixture, Order[n])
    /\ purpose = "final" => expected[Current] = Index(fixture, LinksOf(disk))

(***************************************************************************)
(* The revision the next write requires: if the document still has it, the *)
(* text is the one that was observed, the plan's or none at all.           *)
(***************************************************************************)
Armed ==
  pc \in {"stageUpdate", "stageContent", "write"} \/ Settling =>
    LET i == disk.documents[Target] IN
      /\ required <= rev[i]
      /\ rev[i] = required =>
           body[i] = IF purpose = "settle" THEN Empty ELSE expected[Target]
      /\ purpose = "effect" => expected[Target] # NoDoc

Announcing ==
  /\ pc = "createFolder" => LastEntry = [id |-> NoId, phase |-> "FOLDER_CREATE_ATTEMPT"]
  /\ pc = "createDoc" => LastEntry = [id |-> NoId, phase |-> "CREATE_ATTEMPT"]
  /\ pc = "write" =>
       LastEntry = [id |-> disk.documents[Target],
                    phase |-> IF purpose = "settle" THEN "CONTENT_ATTEMPTED"
                              ELSE "UPDATE_ATTEMPT"]

(***************************************************************************)
(* What holds of Drive and the registry alone, and what holds of a run.    *)
(***************************************************************************)
Facts == Truth /\ OnePerRole /\ Bodies /\ ClearMeansWhole
RunFacts == Copy /\ Stages /\ Views /\ Plans /\ Armed /\ Announcing

IInv == TypeOK /\ Facts /\ RunFacts /\ Orphanage /\ CompleteIsPublished

(***************************************************************************)
(* The refinement: a title lives in the document that has its role, shows  *)
(* what the publisher last wrote there, and the journal is the barrier.    *)
(***************************************************************************)
Home ==
  [r \in Roles |-> IF \E i \in Ids : role[i] = r
                   THEN CHOOSE i \in Ids : role[i] = r ELSE NoId]
Shown == [r \in Roles |-> IF Home[r] = NoId THEN NoDoc ELSE wrote[Home[r]]]

Promise == INSTANCE Publication WITH
             home <- Home, shown <- Shown, barrier <- (disk.pending # << >>)

(***************************************************************************)
(* The publisher implements the publication: one document per title bound  *)
(* once, every change behind the barrier, CURRENT last, and the barrier    *)
(* lowered over a complete publication only, through every fault.          *)
(***************************************************************************)
KeepsPromise == Promise!Spec
================================================================================
