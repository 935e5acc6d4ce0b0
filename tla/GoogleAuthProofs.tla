---------------------------- MODULE GoogleAuthProofs ----------------------------
EXTENDS GoogleAuth, FiniteSetTheorems, TLAPS
(***************************************************************************)
(* Proofs about the Google authorization, for any number of processes,     *)
(* commands and faults, any lifetimes and any window that is at least the  *)
(* timeout of a request.                                                   *)
(***************************************************************************)

(***************************************************************************)
(* The commands under way that may still ask Google for a grant: each has  *)
(* one number to spend, so that the numbers never run out.                 *)
(***************************************************************************)
Expectant == {p \in Procs : session[p].at \in
               {"load", "refresh", "browser", "listen", "held", "exchange"}}

Numbered == Len(expiry) + Cardinality(Expectant) <= calls

(***************************************************************************)
(* A record's tokens were issued, and it promises its access token at most *)
(* the duration of an exchange more than Google gave it.                   *)
(***************************************************************************)
Sound(record) ==
  /\ record \in Grant
  /\ record.access \in Issued /\ record.refresh \in Issued
  /\ record.ends <= expiry[record.access] + Delay

FileIsSound ==
  /\ saved = NoGrant \/ saved \in committed
  /\ \A record \in committed : Sound(record)

(***************************************************************************)
(* What a process may take for granted at each place of its program: what  *)
(* it loaded is still there unless the file changed, a grant it has is     *)
(* sound and not older than the file's, and the token it renewed outlasts  *)
(* the clock it read.                                                      *)
(***************************************************************************)
Knows(p) ==
  LET s == session[p] IN
    /\ s.stamp <= clock
    /\ s.at = "refresh" => s.record \in committed /\ (late[p] \/ saved = s.record)
    /\ s.at = "answer" =>
         /\ s.record \in Grant
         /\ s.record.access \in Issued /\ s.record.refresh \in Issued
         /\ clock <= s.until /\ s.until + s.record.ends = expiry[s.record.access] + Delay
    /\ s.at \in {"answer", "save"} => late[p] \/ saved.refresh <= s.record.refresh
    /\ s.at \in {"answer", "save", "readback"} => expiry[s.record.access] > s.stamp
    /\ s.at \in {"save", "readback"} => Sound(s.record)
    /\ s.at = "readback" => s.record \in committed
    /\ s.at = "handed" =>
         /\ \E record \in committed : record.access = s.token
         /\ expiry[s.token] > s.stamp

GoogleInv ==
  GoogleTypeOK /\ Numbered /\ FileIsSound /\ \A p \in Procs : Knows(p)

--------------------------------------------------------------------------------
(***************************************************************************)
(* Counting.  A command that starts adds one to the expectant and one to   *)
(* the calls; a grant that is issued takes one from the expectant.         *)
(***************************************************************************)
LEMMA ExpectantFinite ==
  /\ IsFiniteSet(Expectant) /\ Cardinality(Expectant) \in Nat
  /\ IsFiniteSet(Expectant') /\ Cardinality(Expectant') \in Nat
BY ProcessesAssumption, FS_Subset, FS_CardinalityType DEF Expectant

LEMMA FewerExpect ==
  ASSUME GoogleInv, Expectant' \subseteq Expectant, Len(expiry') = Len(expiry),
         calls' \in Nat, calls <= calls'
  PROVE  Numbered'
<1>1. Cardinality(Expectant') <= Cardinality(Expectant) /\ Cardinality(Expectant') \in Nat
  BY ExpectantFinite, FS_Subset, FS_CardinalityType
<1> QED BY <1>1, ExpectantFinite DEF GoogleInv, GoogleTypeOK, Numbered

LEMMA OneBegins ==
  ASSUME GoogleInv, NEW p \in Procs, Expectant' \subseteq Expectant \cup {p},
         expiry' = expiry, calls' = calls + 1
  PROVE  Numbered'
<1>1. /\ Cardinality(Expectant \cup {p}) <= Cardinality(Expectant) + 1
      /\ IsFiniteSet(Expectant \cup {p})
  BY ExpectantFinite, FS_AddElement
<1>2. Cardinality(Expectant') <= Cardinality(Expectant \cup {p}) /\ Cardinality(Expectant') \in Nat
  BY <1>1, FS_Subset, FS_CardinalityType
<1>3. Cardinality(Expectant \cup {p}) \in Nat
  BY <1>1, FS_CardinalityType
<1> QED BY <1>1, <1>2, <1>3, ExpectantFinite DEF GoogleInv, GoogleTypeOK, Numbered

LEMMA OneIsIssued ==
  ASSUME GoogleInv, NEW p \in Expectant, Expectant' = Expectant \ {p},
         Len(expiry') = Len(expiry) + 1, calls' = calls
  PROVE  Numbered'
<1>1. Cardinality(Expectant') = Cardinality(Expectant) - 1
  BY ExpectantFinite, FS_RemoveElement
<1> QED BY <1>1, ExpectantFinite DEF GoogleInv, GoogleTypeOK, Numbered

LEMMA NumbersLeft ==
  ASSUME GoogleInv, NEW p \in Expectant
  PROVE  Len(expiry) + 1 <= calls /\ Newest \in 1..MaxCalls
<1>1. Cardinality(Expectant) # 0
  BY ExpectantFinite, FS_EmptySet
<1> QED BY <1>1, ExpectantFinite, ProcessesAssumption
        DEF GoogleInv, GoogleTypeOK, Numbered, Newest

(***************************************************************************)
(* What a process knows outlives the steps of the others: numbers are only *)
(* added, the file keeps its history, and who changes the file tells it.   *)
(***************************************************************************)
Grows ==
  /\ expiry' \in Seq(Nat) /\ Len(expiry) <= Len(expiry')
  /\ \A n \in Issued : n \in Issued' /\ expiry'[n] = expiry[n]
  /\ committed \subseteq committed'
  /\ clock' \in Nat /\ clock <= clock'

LEMMA SoundGrows ==
  ASSUME GoogleInv, Grows, NEW record, Sound(record) PROVE Sound(record)'
BY DEF Grows, Sound

LEMMA StillKnows ==
  ASSUME GoogleInv, Grows, NEW q \in Procs, session'[q] = session[q],
         In(q, "answer") => clock' <= session[q].until,
         late'[q] \/ (~late[q] /\ saved' = saved)
  PROVE  Knows(q)'
<1> DEFINE s == session[q]
<1>1. Knows(q) /\ s \in Session
  BY DEF GoogleInv, GoogleTypeOK
<1>2. s.stamp <= clock'
  BY <1>1 DEF Knows, Grows, Session, GoogleInv, GoogleTypeOK
<1>3. /\ s.at \in {"save", "readback"} => Sound(s.record)'
      /\ s.at \in {"answer", "save", "readback"} => expiry'[s.record.access] > s.stamp
  BY <1>1, SoundGrows DEF Knows, Grows, Sound
<1>4. s.at = "handed" =>
        /\ \E record \in committed' : record.access = s.token
        /\ expiry'[s.token] > s.stamp
  <2> SUFFICES ASSUME s.at = "handed"
               PROVE  /\ \E record \in committed' : record.access = s.token
                      /\ expiry'[s.token] > s.stamp
    OBVIOUS
  <2>1. PICK record \in committed : record.access = s.token
    BY <1>1 DEF Knows
  <2>2. Sound(record)
    BY DEF GoogleInv, FileIsSound
  <2> QED BY <1>1, <2>1, <2>2 DEF Knows, Grows, Sound
<1>5. s.at = "answer" =>
         /\ s.record \in Grant
         /\ s.record.access \in Issued' /\ s.record.refresh \in Issued'
         /\ clock' <= s.until /\ s.until + s.record.ends = expiry'[s.record.access] + Delay
  BY <1>1 DEF Knows, Grows, In
<1>6. s.at = "refresh" => s.record \in committed' /\ (late'[q] \/ saved' = s.record)
  BY <1>1 DEF Knows, Grows
<1>7. s.at \in {"answer", "save"} => late'[q] \/ saved'.refresh <= s.record.refresh
  BY <1>1 DEF Knows
<1>8. s.at = "readback" => s.record \in committed'
  BY <1>1 DEF Knows, Grows
<1> QED BY <1>2, <1>3, <1>4, <1>5, <1>6, <1>7, <1>8 DEF Knows

(***************************************************************************)
(* A step that changes neither the tokens nor the file is the business of  *)
(* the process that takes it, and most of these end its command.           *)
(***************************************************************************)
Quietly(p) ==
  /\ session' \in [Procs -> Session] /\ late' \in [Procs -> BOOLEAN]
  /\ \A q \in Procs \ {p} : session'[q] = session[q] /\ late'[q] = late[q]
  /\ UNCHANGED <<clock, expiry, saved, committed>>
  /\ renewable' \subseteq Issued /\ faults' \in 0..MaxFaults /\ calls' \in 0..MaxCalls

LEMMA QuietStep ==
  ASSUME GoogleInv, NEW p \in Procs, Quietly(p), Numbered', Knows(p)'
  PROVE  GoogleInv'
<1>1. Grows
  BY ProcessesAssumption DEF Quietly, Grows, GoogleInv, GoogleTypeOK, Issued
<1>2. ASSUME NEW q \in Procs, q # p PROVE Knows(q)'
  BY <1>1, <1>2, StillKnows DEF Quietly, Knows, GoogleInv, GoogleTypeOK, In
<1>3. FileIsSound'
  BY DEF Quietly, FileIsSound, Sound, GoogleInv, Issued
<1>4. Len(expiry') <= calls'
  BY ExpectantFinite DEF Quietly, Numbered, GoogleInv, GoogleTypeOK
<1>5. GoogleTypeOK'
  BY <1>4 DEF Quietly, GoogleTypeOK, GoogleInv, Issued
<1> QED BY <1>2, <1>3, <1>5 DEF GoogleInv

Places == {"idle", "load", "refresh", "handed", "save", "readback", "browser", "listen",
           "held", "exchange", "answer"}

LEMMA SessionMoves ==
  ASSUME NEW s \in Session, NEW place \in Places
  PROVE  [s EXCEPT !.at = place] \in Session
BY DEF Session, Places

LEMMA SessionSaves ==
  ASSUME NEW s \in Session, NEW record \in Grant
  PROVE  [s EXCEPT !.at = "save", !.record = record] \in Session
BY DEF Session

LEMMA SessionWaits ==
  ASSUME NEW s \in Session, NEW place \in Places, NEW until \in Nat
  PROVE  [s EXCEPT !.at = place, !.until = until] \in Session
BY DEF Session, Places

LEMMA SessionExchanges ==
  ASSUME NEW s \in Session, NEW record \in Grant, NEW place \in Places, NEW until \in Nat
  PROVE  [s EXCEPT !.at = place, !.until = until, !.record = record] \in Session
BY DEF Session, Places

LEMMA SessionHands ==
  ASSUME NEW s \in Session, NEW stamp \in Nat, NEW token \in 0..MaxCalls
  PROVE  [s EXCEPT !.at = "handed", !.stamp = stamp, !.token = token] \in Session
BY DEF Session

LEMMA SessionRenews ==
  ASSUME NEW s \in Session, NEW record \in Grant, NEW stamp \in Nat
  PROVE  [s EXCEPT !.at = "refresh", !.record = record, !.stamp = stamp, !.renewed = TRUE]
           \in Session
BY DEF Session

LEMMA AwayIsSession == Away \in Session
BY ProcessesAssumption DEF Away, Session

LEMMA KnowsNothing ==
  ASSUME GoogleInv, NEW p \in Procs, clock' = clock, session'[p].stamp <= clock,
         session'[p].at \in {"idle", "load", "browser", "listen", "held", "exchange"}
  PROVE  Knows(p)'
BY DEF Knows, GoogleInv, GoogleTypeOK

LEMMA LeavesQuietly ==
  ASSUME GoogleInv, NEW p \in Procs, Leaves(p), renewable' \subseteq Issued,
         UNCHANGED <<clock, calls, expiry, saved, committed, late>>, faults' \in 0..MaxFaults
  PROVE  GoogleInv'
<1>1. /\ session' \in [Procs -> Session] /\ session'[p] = Away
      /\ \A q \in Procs \ {p} : session'[q] = session[q]
  BY AwayIsSession DEF Leaves, GoogleInv, GoogleTypeOK
<1>2. Knows(p)'
  BY <1>1, KnowsNothing, ProcessesAssumption DEF Away, GoogleInv, GoogleTypeOK
<1>3. Numbered'
  <2>1. Expectant' \subseteq Expectant
    BY <1>1 DEF Expectant, Away
  <2> QED BY <2>1, FewerExpect DEF GoogleInv, GoogleTypeOK
<1> QED BY <1>1, <1>2, <1>3, QuietStep DEF Quietly, GoogleInv, GoogleTypeOK

(***************************************************************************)
(* A process moves on to a place where it knows nothing new.               *)
(***************************************************************************)
LEMMA MovesQuietly ==
  ASSUME GoogleInv, NEW p \in Procs, NEW s \in Session, session' = [session EXCEPT ![p] = s],
         s.stamp <= clock, s.at \in {"idle", "load", "browser", "listen", "held", "exchange"},
         p \in Expectant \/ s.at = "idle",
         UNCHANGED <<clock, calls, google, saved, committed, late>>, faults' \in 0..MaxFaults
  PROVE  GoogleInv'
<1>1. /\ session' \in [Procs -> Session] /\ session'[p] = s
      /\ \A q \in Procs \ {p} : session'[q] = session[q]
  BY DEF GoogleInv, GoogleTypeOK
<1>2. Knows(p)'
  BY <1>1, KnowsNothing
<1>3. Numbered'
  <2>1. Expectant' \subseteq Expectant
    BY <1>1 DEF Expectant
  <2> QED BY <2>1, FewerExpect DEF GoogleInv, GoogleTypeOK, google
<1> QED BY <1>1, <1>2, <1>3, QuietStep DEF Quietly, GoogleInv, GoogleTypeOK, google

LEMMA FaultCounts ==
  ASSUME GoogleInv, NEW kind, Fault(kind) PROVE faults' \in 0..MaxFaults
BY GoogleAssumption DEF Fault, GoogleInv, GoogleTypeOK

--------------------------------------------------------------------------------
(***************************************************************************)
(* access_token.                                                           *)
(***************************************************************************)
LEMMA AskStep == ASSUME GoogleInv, NEW p \in Procs, Ask(p) PROVE GoogleInv'
<1>1. /\ session' \in [Procs -> Session]
      /\ session'[p] = [Away EXCEPT !.at = "load"]
      /\ \A q \in Procs \ {p} : session'[q] = session[q]
  BY AwayIsSession, SessionMoves DEF Places, Ask, GoogleInv, GoogleTypeOK
<1>2. Knows(p)'
  BY <1>1, KnowsNothing, ProcessesAssumption DEF Away, Ask, Starts, GoogleInv, GoogleTypeOK
<1>3. Numbered'
  <2>1. Expectant' \subseteq Expectant \cup {p}
    BY <1>1 DEF Expectant
  <2> QED BY <2>1, OneBegins DEF Ask, Starts, google
<1> QED BY <1>1, <1>2, <1>3, QuietStep, ProcessesAssumption
        DEF Ask, Starts, Quietly, GoogleInv, GoogleTypeOK, google, googleHistory

LEMMA BootstrapBegins ==
  ASSUME GoogleInv, NEW p \in Procs, NEW again \in BOOLEAN, Bootstrap(p, again)
  PROVE  GoogleInv'
<1>1. /\ session' \in [Procs -> Session]
      /\ session'[p] \in {Away, [Away EXCEPT !.at = "browser"]}
      /\ \A q \in Procs \ {p} : session'[q] = session[q]
  BY AwayIsSession, SessionMoves DEF Places, Bootstrap, Leaves, GoogleInv, GoogleTypeOK
<1>2. Knows(p)'
  BY <1>1, KnowsNothing, ProcessesAssumption DEF Away, Bootstrap, Starts, GoogleInv, GoogleTypeOK
<1>3. Numbered'
  <2>1. Expectant' \subseteq Expectant \cup {p}
    BY <1>1 DEF Expectant
  <2> QED BY <2>1, OneBegins DEF Bootstrap, Starts, google
<1>4. late' \in [Procs -> BOOLEAN] /\ \A q \in Procs \ {p} : late'[q] = late[q]
  BY DEF Bootstrap, GoogleInv, GoogleTypeOK
<1>5. /\ UNCHANGED <<clock, expiry, saved, committed>>
      /\ renewable' \subseteq Issued /\ faults' \in 0..MaxFaults
  BY DEF Bootstrap, Starts, GoogleInv, GoogleTypeOK, google
<1>6. calls' \in 0..MaxCalls
  BY ProcessesAssumption DEF Bootstrap, Starts, GoogleInv, GoogleTypeOK
<1>7. Quietly(p)
  BY <1>1, <1>4, <1>5, <1>6 DEF Quietly
<1> QED BY <1>2, <1>3, <1>7, QuietStep

LEMMA LoadStep == ASSUME GoogleInv, NEW p \in Procs, LoadGrant(p), UNCHANGED <<clock, calls>>
                  PROVE  GoogleInv'
<1> DEFINE handed == [Away EXCEPT !.at = "handed", !.stamp = clock, !.token = saved.access]
           refresh == [Away EXCEPT !.at = "refresh", !.record = saved, !.stamp = clock,
                                   !.renewed = TRUE]
<1>1. \/ session' = [session EXCEPT ![p] = Away]
      \/ session' = [session EXCEPT ![p] = handed] /\ saved # NoGrant /\ Fresh(saved)
      \/ session' = [session EXCEPT ![p] = refresh] /\ saved # NoGrant
  BY DEF LoadGrant, OnFile, Leaves
<1>2. Away \in Session /\ (saved # NoGrant => handed \in Session /\ refresh \in Session)
  <2>1. saved \in Grant \cup {NoGrant} /\ clock \in Nat
    BY ProcessesAssumption DEF GoogleInv, GoogleTypeOK
  <2>2. saved # NoGrant => saved.access \in 0..MaxCalls
    BY <2>1, ProcessesAssumption DEF Grant
  <2> QED BY <2>1, <2>2, AwayIsSession, SessionHands, SessionRenews
<1>3. /\ session' \in [Procs -> Session]
      /\ \A q \in Procs \ {p} : session'[q] = session[q]
      /\ \/ session'[p] = Away
         \/ session'[p] = handed /\ saved # NoGrant /\ Fresh(saved)
         \/ session'[p] = refresh /\ saved # NoGrant
  BY <1>1, <1>2 DEF GoogleInv, GoogleTypeOK
<1>4. Knows(p)'
  <2>1. CASE session'[p] = Away
    BY <2>1, KnowsNothing, ProcessesAssumption DEF Away, GoogleInv, GoogleTypeOK
  <2>2. CASE session'[p] = handed /\ saved # NoGrant /\ Fresh(saved)
    <3>1. saved \in committed /\ Sound(saved)
      BY <2>2 DEF GoogleInv, FileIsSound
    <3>2. expiry[saved.access] \in Nat /\ saved.ends \in Nat /\ clock \in Nat
      BY <3>1, ProcessesAssumption DEF Sound, Grant, Issued, GoogleInv, GoogleTypeOK
    <3>3. expiry[saved.access] > clock
      BY <2>2, <3>1, <3>2, GoogleAssumption DEF Fresh, Sound
    <3> QED BY <2>2, <3>1, <3>3
            DEF Knows, Away, LoadGrant, google, GoogleInv, GoogleTypeOK
  <2>3. CASE session'[p] = refresh /\ saved # NoGrant
    BY <2>3 DEF Knows, Away, LoadGrant, GoogleInv, GoogleTypeOK, FileIsSound
  <2> QED BY <1>3, <2>1, <2>2, <2>3
<1>5. Numbered'
  <2>1. In(p, "load")
    BY DEF LoadGrant
  <2>2. Expectant' \subseteq Expectant
    BY <1>3, <2>1 DEF Expectant, In
  <2> QED BY <2>2, FewerExpect DEF LoadGrant, google, GoogleInv, GoogleTypeOK
<1> QED BY <1>3, <1>4, <1>5, QuietStep
        DEF LoadGrant, Quietly, GoogleInv, GoogleTypeOK, google

LEMMA EndingStep ==
  ASSUME GoogleInv, NEW p \in Procs, UNCHANGED <<clock, calls>>,
         \/ LoadGrantFails(p) \/ RenewalDenied(p) \/ ReplaceGrantFails(p)
         \/ ReadGrantBackFails(p) \/ Spend(p) \/ Expire(p) \/ BrowserFails(p)
         \/ ExchangeFails(p) \/ SessionDies(p)
  PROVE  GoogleInv'
<1>1. Leaves(p) /\ UNCHANGED <<expiry, renewable, saved, committed, late>>
  BY DEF LoadGrantFails, RenewalDenied, ReplaceGrantFails, ReadGrantBackFails, Spend, Expire,
         BrowserFails, ExchangeFails, SessionDies, Unsaved, google, googleHistory
<1>2. faults' \in 0..MaxFaults
  BY FaultCounts
     DEF LoadGrantFails, RenewalDenied, ReplaceGrantFails, ReadGrantBackFails, Spend, Expire,
         BrowserFails, ExchangeFails, SessionDies, GoogleInv, GoogleTypeOK
<1> QED BY <1>1, <1>2, LeavesQuietly DEF GoogleInv, GoogleTypeOK

(***************************************************************************)
(* A grant is issued.  Its number is the next one, which no record has.    *)
(***************************************************************************)
LEMMA IssueGrows ==
  ASSUME GoogleInv, NEW life \in Lives, Issue(life), UNCHANGED <<clock, committed>>
  PROVE  /\ Grows /\ Len(expiry') = Len(expiry) + 1
         /\ Issued' = Issued \cup {Newest} /\ expiry'[Newest] = clock + life
         /\ life \in Nat /\ clock + life \in Nat
<1>1. life \in Nat /\ clock \in Nat /\ expiry \in Seq(Nat)
  BY GoogleAssumption, ProcessesAssumption DEF GoogleInv, GoogleTypeOK
<1> QED BY <1>1 DEF Issue, Grows, Issued, Newest

LEMMA IssuingStep ==
  ASSUME GoogleInv, NEW p \in Expectant, NEW life \in Lives, Issue(life),
         UNCHANGED <<clock, calls, saved, googleHistory>>,
         session' \in [Procs -> Session], session'[p].at \in {"idle", "answer", "save"},
         \A q \in Procs \ {p} : session'[q] = session[q],
         renewable' \subseteq renewable \cup {Newest}, faults' \in 0..MaxFaults,
         Knows(p)'
  PROVE  GoogleInv'
<1>1. /\ Grows /\ Len(expiry') = Len(expiry) + 1
      /\ Issued' = Issued \cup {Newest}
  BY IssueGrows DEF googleHistory
<1>2. ASSUME NEW q \in Procs, q # p PROVE Knows(q)'
  BY <1>1, <1>2, StillKnows DEF Knows, GoogleInv, GoogleTypeOK, In, googleHistory
<1>3. FileIsSound'
  BY <1>1, SoundGrows DEF FileIsSound, GoogleInv, googleHistory
<1>4. Expectant' = Expectant \ {p}
  BY DEF Expectant
<1>5. Numbered'
  BY <1>1, <1>4, OneIsIssued
<1>6. Len(expiry') <= calls'
  BY <1>1, NumbersLeft
<1>7. GoogleTypeOK'
  BY <1>1, <1>6 DEF Grows, GoogleTypeOK, GoogleInv, googleHistory
<1> QED BY <1>2, <1>3, <1>5, <1>7, p \in Procs DEF GoogleInv, Expectant

LEMMA RenewStep ==
  ASSUME GoogleInv, NEW p \in Procs, SendRenewal(p), UNCHANGED <<clock, calls>>
  PROVE  GoogleInv'
<1> DEFINE s == session[p]
<1>1. PICK rotates \in BOOLEAN : Renewal(p, rotates)
  BY DEF SendRenewal
<1>2. PICK life \in Lives :
        /\ Issue(life)
        /\ \/ /\ Result(p, KeepOld(s.record.refresh, IF rotates THEN Newest ELSE 0), s.stamp + life)
              /\ UNCHANGED faults
           \/ Fault("lost") /\ Leaves(p)
  BY <1>1 DEF Renewal
<1>3. /\ s \in Session /\ Knows(p) /\ In(p, "refresh") /\ p \in Expectant
      /\ s.record \in committed /\ Sound(s.record) /\ s.stamp \in Nat
  BY DEF GoogleInv, GoogleTypeOK, Knows, SendRenewal, FileIsSound, In, Expectant, Session
<1> DEFINE r == KeepOld(s.record.refresh, IF rotates THEN Newest ELSE 0)
<1>4. /\ r \in {s.record.refresh, Newest} /\ r \in 1..MaxCalls
      /\ s.record.refresh <= r /\ Newest \in 1..MaxCalls
  BY <1>3, NumbersLeft DEF KeepOld, Sound, Grant, Issued, Newest, GoogleInv, GoogleTypeOK
<1>5. /\ Grows /\ Issued' = Issued \cup {Newest} /\ expiry'[Newest] = clock + life
      /\ life \in Nat \ {0} /\ s.stamp <= clock /\ clock \in Nat
  BY <1>2, <1>3, IssueGrows, GoogleAssumption, ProcessesAssumption
     DEF SendRenewal, googleHistory, Knows, GoogleInv, GoogleTypeOK
<1>6. PICK grant \in Grant :
        grant = [access |-> Newest, refresh |-> r, ends |-> s.stamp + life]
  <2>1. s.stamp + life \in Nat
    BY <1>3, <1>5
  <2> QED BY <1>4, <2>1 DEF Grant
<1>7. Sound(grant)' /\ expiry'[grant.access] > s.stamp
  <2>1. r \in Issued'
    BY <1>3, <1>4, <1>5 DEF Sound
  <2>2. s.stamp + life <= clock + life + Delay /\ clock + life > s.stamp
    BY <1>3, <1>5, GoogleAssumption
  <2> QED BY <1>5, <1>6, <2>1, <2>2 DEF Sound
<1>8. /\ session' \in [Procs -> Session]
      /\ \A q \in Procs \ {p} : session'[q] = session[q]
      /\ session'[p] \in {Away, [s EXCEPT !.at = "save", !.record = grant]}
  <2>1. Away \in Session /\ [s EXCEPT !.at = "save", !.record = grant] \in Session
    BY <1>3, <1>6, AwayIsSession, SessionSaves
  <2>2. session' \in {[session EXCEPT ![p] = Away],
                      [session EXCEPT ![p] = [s EXCEPT !.at = "save", !.record = grant]]}
    BY <1>2, <1>4, <1>6 DEF Result, Leaves
  <2> QED BY <2>1, <2>2 DEF GoogleInv, GoogleTypeOK
<1>9. Knows(p)'
  <2>1. CASE session'[p] = Away
    BY <2>1, <1>5, KnowsNothing DEF Away
  <2>2. CASE session'[p] = [s EXCEPT !.at = "save", !.record = grant]
    <3>1. /\ session'[p].at = "save" /\ session'[p].record = grant
          /\ session'[p].stamp = s.stamp
      BY <1>3, <2>2 DEF Session
    <3>2. late'[p] \/ saved'.refresh <= grant.refresh
      BY <1>3, <1>4, <1>6 DEF Knows, In, SendRenewal, googleHistory
    <3> QED BY <1>5, <1>6, <1>7, <3>1, <3>2 DEF Knows
  <2> QED BY <1>8, <2>1, <2>2
<1>10. renewable' \subseteq renewable \cup {Newest} /\ faults' \in 0..MaxFaults
  BY <1>1, <1>2, FaultCounts DEF Renewal, GoogleInv, GoogleTypeOK
<1>11. session'[p].at \in {"idle", "answer", "save"}
  <2>1. Away.at = "idle" /\ [s EXCEPT !.at = "save", !.record = grant].at = "save"
    BY <1>3 DEF Away, Session
  <2> QED BY <1>8, <2>1
<1> QED BY <1>2, <1>3, <1>8, <1>9, <1>10, <1>11, IssuingStep DEF SendRenewal, googleHistory

LEMMA ExchangeStep ==
  ASSUME GoogleInv, NEW p \in Procs, Exchange(p), UNCHANGED <<clock, calls>>
  PROVE  GoogleInv'
<1> DEFINE s == session[p]
<1>1. PICK life \in Lives :
        /\ Issue(life)
        /\ session' = [session EXCEPT ![p].at = "answer", ![p].until = clock + Delay,
                         ![p].record = [access |-> Newest, refresh |-> Newest, ends |-> life]]
  BY DEF Exchange
<1>2. s \in Session /\ In(p, "exchange") /\ p \in Expectant
  BY DEF GoogleInv, GoogleTypeOK, Exchange, In, Expectant
<1>3. /\ Grows /\ Issued' = Issued \cup {Newest} /\ expiry'[Newest] = clock + life
      /\ life \in Nat \ {0} /\ clock \in Nat /\ Newest \in 1..MaxCalls /\ Delay \in Nat
  BY <1>1, <1>2, IssueGrows, NumbersLeft, GoogleAssumption, ProcessesAssumption
     DEF Exchange, googleHistory, GoogleInv, GoogleTypeOK
<1>4. PICK grant \in Grant :
        grant = [access |-> Newest, refresh |-> Newest, ends |-> life]
  BY <1>3 DEF Grant
<1> DEFINE t == [s EXCEPT !.at = "answer", !.until = clock + Delay, !.record = grant]
<1>5. t \in Session /\ session' = [session EXCEPT ![p] = t]
  <2>1. clock + Delay \in Nat
    BY <1>3
  <2> QED BY <1>1, <1>2, <1>4, <2>1, SessionExchanges DEF Places
<1>6. /\ session' \in [Procs -> Session]
      /\ \A q \in Procs \ {p} : session'[q] = session[q]
      /\ session'[p].at = "answer" /\ session'[p].until = clock + Delay
      /\ session'[p].record = grant /\ session'[p].stamp = s.stamp
      /\ session'[p].renewed = s.renewed
  BY <1>2, <1>5 DEF GoogleInv, GoogleTypeOK, Session
<1>7. Knows(p)'
  <2>1. s.stamp <= clock /\ clock' = clock
    BY DEF Knows, GoogleInv
  <2>2. saved.refresh <= Newest
    BY DEF GoogleInv, FileIsSound, Sound, Issued, Newest, NoGrant, GoogleTypeOK
  <2>3. clock + life > s.stamp /\ clock + Delay + life = clock + life + Delay
    BY <1>3, <2>1, GoogleAssumption, <1>2 DEF Session
  <2> QED BY <1>3, <1>4, <1>6, <2>1, <2>2, <2>3 DEF Knows, Exchange
<1>8. renewable' \subseteq renewable \cup {Newest} /\ faults' \in 0..MaxFaults
  BY DEF Exchange, GoogleInv, GoogleTypeOK
<1> QED BY <1>1, <1>2, <1>6, <1>7, <1>8, IssuingStep DEF Exchange, googleHistory

--------------------------------------------------------------------------------
(***************************************************************************)
(* The file is replaced: who loaded it before learns that it changed.      *)
(***************************************************************************)
LEMMA ReplaceStep ==
  ASSUME GoogleInv, NEW p \in Procs, ReplaceGrant(p), UNCHANGED <<clock, calls>>
  PROVE  GoogleInv'
<1> DEFINE s == session[p]
<1>1. /\ s \in Session /\ Knows(p) /\ Sound(s.record) /\ s.record \in Grant
      /\ saved' = s.record /\ committed' = committed \cup {s.record}
      /\ UNCHANGED <<expiry, renewable, faults>>
  BY DEF ReplaceGrant, GoogleInv, GoogleTypeOK, Knows, In, Sound, google
<1>2. /\ session' \in [Procs -> Session]
      /\ session'[p] = [s EXCEPT !.at = "readback"]
      /\ \A q \in Procs \ {p} : session'[q] = session[q]
  BY <1>1, SessionMoves DEF ReplaceGrant, Moves, Places, GoogleInv, GoogleTypeOK
<1>3. /\ session'[p].at = "readback" /\ session'[p].record = s.record
      /\ session'[p].stamp = s.stamp
  BY <1>1, <1>2 DEF Session
<1>4. Grows
  BY <1>1, ProcessesAssumption DEF Grows, GoogleInv, GoogleTypeOK, Issued
<1>5. ASSUME NEW q \in Procs, q # p PROVE Knows(q)'
  <2>1. late'[q]
    BY <1>5 DEF ReplaceGrant
  <2> QED BY <1>2, <1>4, <1>5, <2>1, StillKnows DEF Knows, In, GoogleInv, GoogleTypeOK
<1>6. Knows(p)'
  BY <1>1, <1>3 DEF Knows, Sound, Issued, ReplaceGrant, In
<1>7. FileIsSound'
  BY <1>1, <1>4, SoundGrows DEF FileIsSound, GoogleInv
<1>8. Numbered'
  <2>1. Expectant' \subseteq Expectant
    BY <1>2, <1>3 DEF Expectant
  <2> QED BY <1>1, <2>1, FewerExpect DEF GoogleInv, GoogleTypeOK
<1>9. GoogleTypeOK'
  <2>1. late' \in [Procs -> BOOLEAN]
    BY DEF ReplaceGrant, GoogleInv, GoogleTypeOK
  <2> QED BY <1>1, <1>2, <2>1 DEF GoogleInv, GoogleTypeOK, Issued
<1> QED BY <1>5, <1>6, <1>7, <1>8, <1>9 DEF GoogleInv

LEMMA ReadBackStep ==
  ASSUME GoogleInv, NEW p \in Procs, ReadGrantBack(p), UNCHANGED <<clock, calls>>
  PROVE  GoogleInv'
<1> DEFINE s == session[p]
           handed == [Away EXCEPT !.at = "handed", !.stamp = s.stamp, !.token = s.record.access]
<1>1. /\ s \in Session /\ Knows(p) /\ Sound(s.record) /\ s.record \in committed
      /\ s.stamp <= clock /\ s.stamp \in Nat /\ clock \in Nat
      /\ expiry[s.record.access] > s.stamp
  BY ProcessesAssumption DEF ReadGrantBack, GoogleInv, GoogleTypeOK, Knows, In, Session
<1>2. CASE Leaves(p)
  BY <1>2, LeavesQuietly DEF ReadGrantBack, google, googleHistory, GoogleInv, GoogleTypeOK
<1>3. CASE session' = [session EXCEPT ![p] = handed]
  <2>1. s.record.access \in 0..MaxCalls
    BY <1>1, ProcessesAssumption DEF Sound, Grant
  <2>2. handed \in Session
    BY <1>1, <2>1, AwayIsSession, SessionHands
  <2>3. /\ session' \in [Procs -> Session] /\ session'[p] = handed
        /\ \A q \in Procs \ {p} : session'[q] = session[q]
    BY <1>3, <2>2 DEF GoogleInv, GoogleTypeOK
  <2>4. Knows(p)'
    BY <1>1, <2>3 DEF Knows, Away, ReadGrantBack, google, googleHistory
  <2>5. Numbered'
    <3>1. Expectant' \subseteq Expectant
      BY <2>3 DEF Expectant, Away
    <3> QED BY <3>1, FewerExpect DEF ReadGrantBack, google, GoogleInv, GoogleTypeOK
  <2>6. Quietly(p)
    BY <2>3 DEF Quietly, ReadGrantBack, google, googleHistory, GoogleInv, GoogleTypeOK
  <2> QED BY <2>4, <2>5, <2>6, QuietStep
<1> QED BY <1>2, <1>3 DEF ReadGrantBack, Saves, Unsaved

(***************************************************************************)
(* The ceremony up to its exchange, and the answer of the exchange.        *)
(***************************************************************************)
LEMMA CeremonyStep ==
  ASSUME GoogleInv, NEW p \in Procs, UNCHANGED <<clock, calls>>,
         OpenBrowser(p) \/ Callback(p) \/ Holds(p) \/ LetsGo(p)
  PROVE  GoogleInv'
<1> DEFINE s == session[p]
<1>1. s \in Session /\ s.stamp <= clock /\ clock \in Nat /\ p \in Expectant
  BY ProcessesAssumption DEF GoogleInv, GoogleTypeOK, Knows, Expectant, OpenBrowser, Callback,
         Holds, LetsGo, In, Waits
<1>2. faults' \in 0..MaxFaults /\ UNCHANGED <<google, saved, committed, late>>
  BY FaultCounts DEF OpenBrowser, Callback, Holds, LetsGo, GoogleInv, GoogleTypeOK, googleHistory
<1> DEFINE opened == [s EXCEPT !.at = "listen", !.until = clock + Patience]
           held == [s EXCEPT !.at = "held"]
           listening == [s EXCEPT !.at = "listen"]
           accepted == [Away EXCEPT !.at = "exchange"]
<1>3. PICK t \in {opened, held, listening, accepted} : session' = [session EXCEPT ![p] = t]
  BY DEF OpenBrowser, Callback, Holds, LetsGo, Moves, Accepts
<1>4. /\ opened \in Session /\ held \in Session /\ listening \in Session /\ accepted \in Session
  <2>1. clock + Patience \in Nat
    BY <1>1, GoogleAssumption
  <2> QED BY <1>1, <2>1, AwayIsSession, SessionMoves, SessionWaits DEF Places
<1>5. t.stamp <= clock /\ t.at \in {"listen", "held", "exchange"}
  <2>1. /\ opened.at = "listen" /\ opened.stamp = s.stamp
        /\ listening.at = "listen" /\ listening.stamp = s.stamp
    BY <1>1 DEF Session
  <2>2. held.at = "held" /\ held.stamp = s.stamp
    BY <1>1 DEF Session
  <2>3. accepted.at = "exchange" /\ accepted.stamp = 0
    BY DEF Away
  <2> HIDE DEF opened, listening, held, accepted
  <2>4. CASE t = opened
    BY <2>1, <2>4, <1>1
  <2>5. CASE t = listening
    BY <2>1, <2>5, <1>1
  <2>6. CASE t = held
    BY <2>2, <2>6, <1>1
  <2>7. CASE t = accepted
    BY <2>3, <2>7, <1>1
  <2> QED BY <1>3, <2>4, <2>5, <2>6, <2>7
<1> QED BY <1>1, <1>2, <1>3, <1>4, <1>5, MovesQuietly

LEMMA ReceiveStep ==
  ASSUME GoogleInv, NEW p \in Procs, Receive(p), UNCHANGED <<clock, calls>>
  PROVE  GoogleInv'
<1> DEFINE s == session[p]
<1>1. /\ s \in Session /\ Knows(p) /\ s.at = "answer" /\ s.record \in Grant
      /\ clock \in Nat /\ s.record.ends \in Nat
  BY ProcessesAssumption DEF Receive, GoogleInv, GoogleTypeOK, Knows, In, Grant
<1>2. PICK grant \in Grant : grant = [s.record EXCEPT !.ends = clock + @]
  <2>1. clock + s.record.ends \in Nat
    BY <1>1
  <2> QED BY <1>1, <2>1 DEF Grant
<1>3. /\ grant.access = s.record.access /\ grant.refresh = s.record.refresh
      /\ grant.ends = clock + s.record.ends
  BY <1>1, <1>2 DEF Grant
<1> DEFINE t == [s EXCEPT !.at = "save", !.until = 0, !.record = grant]
<1>4. t \in Session /\ session' = [session EXCEPT ![p] = t]
  <2>1. t \in Session
    BY <1>1, SessionExchanges DEF Places
  <2> QED BY <1>2, <2>1 DEF Receive
<1>5. /\ session' \in [Procs -> Session]
      /\ \A q \in Procs \ {p} : session'[q] = session[q]
      /\ session'[p].at = "save" /\ session'[p].record = grant /\ session'[p].stamp = s.stamp
  BY <1>1, <1>4 DEF GoogleInv, GoogleTypeOK, Session
<1>6. Sound(grant)
  <2>1. /\ clock <= s.until /\ s.until + s.record.ends = expiry[s.record.access] + Delay
        /\ s.until \in Nat
    BY <1>1 DEF Knows, Session
  <2>2. clock + s.record.ends <= expiry[s.record.access] + Delay
    BY <1>1, <2>1
  <2> QED BY <1>1, <1>3, <2>2 DEF Knows, Sound
<1>7. Knows(p)'
  BY <1>1, <1>3, <1>5, <1>6 DEF Knows, Sound, Issued, Receive, google, googleHistory
<1>8. Numbered'
  <2>1. Expectant' \subseteq Expectant
    BY <1>5 DEF Expectant
  <2> QED BY <2>1, FewerExpect DEF Receive, google, GoogleInv, GoogleTypeOK
<1>9. Quietly(p)
  BY <1>5 DEF Quietly, Receive, google, googleHistory, GoogleInv, GoogleTypeOK
<1> QED BY <1>7, <1>8, <1>9, QuietStep

(***************************************************************************)
(* Nobody's step: the owner withdraws, and time passes.                    *)
(***************************************************************************)
LEMMA WithdrawStep == ASSUME GoogleInv, Withdraw PROVE GoogleInv'
<1>1. /\ UNCHANGED <<clock, calls, expiry, saved, session, committed, late>>
      /\ renewable' \subseteq Issued /\ faults' \in 0..MaxFaults
  BY FaultCounts DEF Withdraw, googleHistory, GoogleInv, GoogleTypeOK
<1>2. GoogleTypeOK'
  BY <1>1 DEF GoogleInv, GoogleTypeOK, Issued
<1>3. Numbered' /\ FileIsSound'
  BY <1>1 DEF GoogleInv, Numbered, Expectant, FileIsSound, Sound, Issued
<1>4. \A p \in Procs : Knows(p)'
  BY <1>1 DEF GoogleInv, Knows, Sound, Issued
<1> QED BY <1>2, <1>3, <1>4 DEF GoogleInv

LEMMA TimeStep == ASSUME GoogleInv, TimePasses PROVE GoogleInv'
<1>1. /\ clock' \in 0..MaxTime /\ clock' = clock + 1 /\ clock \in Nat
      /\ UNCHANGED <<calls, expiry, renewable, saved, faults, session, committed, late>>
  BY ProcessesAssumption
     DEF TimePasses, Tick, google, googleHistory, GoogleInv, GoogleTypeOK
<1>2. Grows
  BY <1>1 DEF Grows, GoogleInv, GoogleTypeOK, Issued
<1>3. \A p \in Procs : Knows(p)'
  <2> SUFFICES ASSUME NEW p \in Procs PROVE Knows(p)'
    OBVIOUS
  <2>1. In(p, "answer") => clock' <= session[p].until
    BY <1>1 DEF TimePasses, In, GoogleInv, GoogleTypeOK, Session
  <2>2. late'[p] \/ (~late[p] /\ saved' = saved)
    BY <1>1 DEF GoogleInv, GoogleTypeOK
  <2> QED BY <1>1, <1>2, <2>1, <2>2, StillKnows
<1>4. Numbered' /\ FileIsSound'
  BY <1>1 DEF GoogleInv, Numbered, Expectant, FileIsSound, Sound, Issued
<1>5. GoogleTypeOK'
  BY <1>1 DEF GoogleInv, GoogleTypeOK, Issued
<1> QED BY <1>3, <1>4, <1>5 DEF GoogleInv

LEMMA InitHolds == ASSUME GoogleInit PROVE GoogleInv
<1>1. Expectant = {}
  BY DEF GoogleInit, Expectant, Away
<1>2. Numbered
  BY <1>1, FS_EmptySet DEF GoogleInit, Numbered, Starting
<1>3. GoogleTypeOK
  BY AwayIsSession, ProcessesAssumption, GoogleAssumption
     DEF GoogleInit, Starting, GoogleTypeOK, Issued
<1>4. FileIsSound /\ \A p \in Procs : Knows(p)
  BY DEF GoogleInit, Starting, FileIsSound, Knows, Away
<1> QED BY <1>2, <1>3, <1>4 DEF GoogleInv

LEMMA StandStill == ASSUME GoogleInv, UNCHANGED googleVars PROVE GoogleInv'
<1> USE DEF googleVars, google, googleHistory
<1>1. GoogleTypeOK'
  BY DEF GoogleInv, GoogleTypeOK, Issued
<1>2. Numbered' /\ FileIsSound'
  BY DEF GoogleInv, Numbered, Expectant, FileIsSound, Sound, Issued
<1>3. \A p \in Procs : Knows(p)'
  BY DEF GoogleInv, Knows, Sound, Issued
<1> QED BY <1>1, <1>2, <1>3 DEF GoogleInv

LEMMA NextStep == ASSUME GoogleInv, [GoogleNext]_googleVars PROVE GoogleInv'
<1>1. ASSUME NEW p \in Procs, SessionStep(p) PROVE GoogleInv'
  <2>1. CASE AccessStep(p)
    BY <1>1, <2>1, LoadStep, RenewStep, EndingStep DEF AccessStep, SessionStep
  <2>2. CASE SaveStep(p)
    BY <1>1, <2>2, ReplaceStep, ReadBackStep, EndingStep DEF SaveStep, SessionStep
  <2>3. CASE BootstrapStep(p)
    BY <1>1, <2>3, CeremonyStep, ExchangeStep, ReceiveStep, EndingStep
       DEF BootstrapStep, SessionStep
  <2> QED BY <1>1, <2>1, <2>2, <2>3 DEF SessionStep
<1>2. ASSUME NEW p \in Procs,
             (Callback(p) \/ Holds(p) \/ SessionDies(p)) /\ UNCHANGED <<clock, calls>>
      PROVE  GoogleInv'
  BY <1>2, CeremonyStep, EndingStep
<1>3. ASSUME NEW p \in Procs, ClientStep(p) PROVE GoogleInv'
  BY <1>3, CeremonyStep DEF ClientStep
<1> QED BY <1>1, <1>2, <1>3, AskStep, BootstrapBegins, WithdrawStep, TimeStep, StandStill
        DEF GoogleNext

(***************************************************************************)
(* The grants are sound, in the file and on their way into it.             *)
(***************************************************************************)
THEOREM GoogleIsInductive == GoogleSpec => []GoogleInv
<1>1. GoogleInit => GoogleInv
  BY InitHolds
<1>2. GoogleInv /\ [GoogleNext]_googleVars => GoogleInv'
  BY NextStep
<1> QED BY <1>1, <1>2, PTL DEF GoogleSpec

(***************************************************************************)
(* Provider.access_token hands out a token only after it was saved, and    *)
(* one that Google still accepts when the provider reads its clock.        *)
(***************************************************************************)
THEOREM TokensAreLive == GoogleSpec => []LiveWhenRead
<1>1. GoogleInv => LiveWhenRead
  BY DEF GoogleInv, Knows, LiveWhenRead, In
<1> QED BY <1>1, GoogleIsInductive, PTL

(***************************************************************************)
(* Only the replacement in Store.save changes what is in the file.         *)
(***************************************************************************)
LEMMA OneReplaces ==
  ASSUME GoogleInv, GoogleNext, saved' # saved
  PROVE  \E p \in Procs : ReplaceGrant(p)
BY DEF GoogleNext, Ask, Bootstrap, SessionStep, AccessStep, SaveStep, BootstrapStep, ClientStep,
       LoadGrant, LoadGrantFails, SendRenewal, RenewalDenied, Spend, ReplaceGrantFails,
       ReadGrantBack, ReadGrantBackFails, OpenBrowser, BrowserFails, Expire, Exchange, Receive,
       ExchangeFails, LetsGo, Callback, Holds, SessionDies, Withdraw, TimePasses

(***************************************************************************)
(* Store.save never takes the file back to an earlier grant of the owner,  *)
(* unless the file changed while the process waited for Google.            *)
(***************************************************************************)
THEOREM ReauthorizationsStick == GoogleSpec => ReauthorizationSticks
<1> DEFINE Sticks == saved' # saved /\ saved # NoGrant
              /\ (\A p \in Procs : In(p, "save") /\ session'[p].at = "readback" => ~late[p])
            => saved'.refresh >= saved.refresh
<1>1. ASSUME GoogleInv, [GoogleNext]_googleVars PROVE [Sticks]_googleVars
  <2> SUFFICES ASSUME GoogleNext, saved' # saved,
          \A p \in Procs : In(p, "save") /\ session'[p].at = "readback" => ~late[p]
      PROVE saved'.refresh >= saved.refresh
    BY <1>1
  <2>1. PICK p \in Procs : ReplaceGrant(p)
    BY <1>1, OneReplaces
  <2>2. In(p, "save") /\ saved' = session[p].record /\ session'[p].at = "readback"
    BY <1>1, <2>1 DEF ReplaceGrant, Moves, GoogleInv, GoogleTypeOK, Session
  <2>3. saved.refresh <= session[p].record.refresh
    BY <1>1, <2>2 DEF GoogleInv, Knows, In
  <2>4. saved.refresh \in Nat /\ session[p].record.refresh \in Nat
    BY <1>1 DEF GoogleInv, GoogleTypeOK, Session, Grant, NoGrant
  <2> QED BY <2>2, <2>3, <2>4
<1> QED BY <1>1, GoogleIsInductive, PTL DEF GoogleSpec, ReauthorizationSticks
================================================================================
