------------------------------ MODULE Publication ------------------------------
(***************************************************************************)
(* What the app-scoped Drive publisher promises, with no process, journal  *)
(* file, scan or network in sight.                                         *)
(*                                                                         *)
(* A publication is a set of titled documents, one per record and the      *)
(* index called CURRENT.  Every title lives in at most one document, bound *)
(* once.  Documents change only behind a barrier that everybody else       *)
(* respects; the index is written last, over a complete set of records,    *)
(* and the barrier comes down only on a complete publication.              *)
(***************************************************************************)
EXTENDS Documents

VARIABLES
  home,       \* home[r]: the document that carries title r
  shown,      \* shown[r]: what the publisher last put in it
  barrier     \* effects are under way, or of unknown outcome

pvars == <<home, shown, barrier>>

RecordHomes == [r \in Records |-> home[r]]

(***************************************************************************)
(* The records of fixture v are all in place, and so is their index.       *)
(***************************************************************************)
RecordsShow(v) == \A r \in Records : shown[r] = Markdown(v, r)
Complete(v) == RecordsShow(v) /\ shown[Current] = Index(v, RecordHomes)
Nothing == \A r \in Roles : home[r] = NoId /\ shown[r] = NoDoc

Init ==
  /\ home = [r \in Roles |-> NoId]
  /\ shown = [r \in Roles |-> NoDoc]
  /\ barrier = FALSE

Raise == ~barrier /\ barrier' = TRUE /\ UNCHANGED <<home, shown>>

Create(r, i) ==
  /\ barrier /\ home[r] = NoId /\ \A q \in Roles : home[q] # i
  /\ home' = [home EXCEPT ![r] = i]
  /\ shown' = [shown EXCEPT ![r] = Empty]
  /\ UNCHANGED barrier

WriteRecord(r, v) ==
  /\ barrier /\ home[r] # NoId
  /\ shown' = [shown EXCEPT ![r] = Markdown(v, r)]
  /\ UNCHANGED <<home, barrier>>

WriteCurrent(v) ==
  /\ barrier /\ home[Current] # NoId
  /\ RecordsShow(v)
  /\ shown' = [shown EXCEPT ![Current] = Index(v, RecordHomes)]
  /\ UNCHANGED <<home, barrier>>

Lower ==
  /\ barrier /\ (Nothing \/ \E v \in Fixtures : Complete(v))
  /\ barrier' = FALSE
  /\ UNCHANGED <<home, shown>>

Next ==
  \/ Raise
  \/ Lower
  \/ \E r \in Roles, i \in Ids : Create(r, i)
  \/ \E r \in Records, v \in Fixtures : WriteRecord(r, v)
  \/ \E v \in Fixtures : WriteCurrent(v)

Spec == Init /\ [][Next]_pvars
================================================================================
