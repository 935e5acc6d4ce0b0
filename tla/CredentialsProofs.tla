--------------------------- MODULE CredentialsProofs ---------------------------
EXTENDS Credentials, TLAPS
(***************************************************************************)
(* What the operations of credential_lifecycle.py preserve, whichever      *)
(* command runs them: for any processes, accounts, lifetimes, window and   *)
(* bounds.  LoginCeremonyProofs and XContextCliProofs build on it.         *)
(***************************************************************************)

(***************************************************************************)
(* The tokens of a record were issued by X.                                *)
(***************************************************************************)
Genuine(record) ==
  record \in Record /\ record.access \in Issued /\ record.refresh \in Issued \cup {0}

FileIsGenuine ==
  /\ saved = NoRecord \/ saved \in committed
  /\ \A record \in committed : Genuine(record)

(***************************************************************************)
(* The record a command works on, and the token it may use: the one of a   *)
(* record that is or was in the file and had not expired.                  *)
(***************************************************************************)
Handed(p) ==
  \E record \in committed :
    /\ record.access = call[p].token
    /\ record.ends # 0 => record.ends > call[p].stamp
    /\ call[p].attempted \/ record.refresh = 0 \/ ~Due(record, call[p].stamp)

Holds(p) ==
  LET c == call[p] IN
    /\ c.at \in {"persist", "refresh", "replace", "revoke"} => Genuine(c.record)
    /\ c.at = "replace" => (c.record.ends # 0 => c.record.ends > c.stamp)
    /\ c.at = "resolved" => Handed(p)

(***************************************************************************)
(* The requests a command has sent, at every place of it, by the report it *)
(* makes or would make.                                                    *)
(***************************************************************************)
Unsent == {"bind", "browser", "listen", "held", "exchange", "refresh", "revoke"}
Silent == {"crashed", "logged_in", "not_persisted"}

Counts(p) ==
  LET c == call[p] IN
    /\ c.at \in Unsent => sent[p] = 0
    /\ c.at \in {"replace", "delete"} => sent[p] = 1
    /\ c.at = "resolved" \/ (c.at = "idle" /\ c.outcome \notin Silent) =>
         sent[p] = IF c.attempted THEN 1 ELSE 0

CredentialInv ==
  CredentialTypeOK /\ FileIsGenuine /\ \A p \in Procs : Holds(p) /\ Counts(p)

--------------------------------------------------------------------------------
LEMMA RestIsIdle == Rest \in CallState /\ Rest.at = "idle" /\ Rest.outcome = "none"
BY DEF Rest, CallState, Outcomes

LEMMA EndsAt ==
  ASSUME NEW outcome \in Outcomes, NEW attempted \in BOOLEAN
  PROVE  [Rest EXCEPT !.outcome = outcome, !.attempted = attempted] \in CallState
BY DEF Rest, CallState

LEMMA StateMoves ==
  ASSUME NEW c \in CallState, NEW place,
         place \in {"idle", "bind", "browser", "listen", "held", "exchange", "persist",
                    "refresh", "replace", "resolved", "revoke", "delete"}
  PROVE  [c EXCEPT !.at = place] \in CallState
BY DEF CallState

LEMMA StateTakes ==
  ASSUME NEW c \in CallState, NEW place, NEW record \in Record,
         place \in {"persist", "refresh", "replace", "resolved", "revoke"}
  PROVE  [c EXCEPT !.at = place, !.record = record] \in CallState
BY DEF CallState

LEMMA StateHands ==
  ASSUME NEW c \in CallState, NEW record \in Record, NEW stamp \in Nat
  PROVE  [c EXCEPT !.at = "resolved", !.record = record, !.stamp = stamp,
                   !.token = record.access] \in CallState
<1>1. record.access \in Nat
  BY CredentialsAssumption DEF Record, Tokens
<1> QED BY <1>1 DEF CallState

LEMMA StateYields ==
  ASSUME NEW c \in CallState, NEW place, NEW token \in Nat, NEW attempted \in BOOLEAN,
         place \in {"exchange", "resolved"}
  PROVE  [c EXCEPT !.at = place, !.token = token, !.attempted = attempted] \in CallState
BY DEF CallState

(***************************************************************************)
(* What is known of the tokens and of the file outlives every step.        *)
(***************************************************************************)
Grows ==
  /\ owner' \in Seq(Accounts) /\ Len(owner') <= MaxTokens /\ Issued \subseteq Issued'
  /\ expiry' \in Seq(Nat) /\ Len(expiry') = Len(owner')
  /\ renewable' \subseteq Issued' /\ barred' \subseteq Issued' /\ spent' \subseteq Issued'
  /\ committed \subseteq committed' /\ FileIsGenuine'
  /\ clock' \in 0..MaxTime /\ calls' \in 0..MaxCalls

LEMMA GenuineStays ==
  ASSUME Grows, NEW record, Genuine(record) PROVE Genuine(record)'
BY DEF Grows, Genuine

LEMMA OthersHold ==
  ASSUME CredentialInv, Grows, NEW q \in Procs, call'[q] = call[q], sent'[q] = sent[q]
  PROVE  Holds(q)' /\ Counts(q)'
<1> DEFINE c == call[q]
<1>1. Holds(q) /\ Counts(q)
  BY DEF CredentialInv
<1>2. c.at \in {"persist", "refresh", "replace", "revoke"} => Genuine(c.record)'
  BY <1>1, GenuineStays DEF Holds
<1>3. c.at = "resolved" => Handed(q)'
  BY <1>1 DEF Holds, Handed, Grows, Due
<1>4. Genuine(call[q].record)' = Genuine(c.record)'
  BY DEF Genuine
<1> QED BY <1>1, <1>2, <1>3 DEF Holds, Counts, Genuine

(***************************************************************************)
(* A step is that of one command: what it does to the tokens and the file  *)
(* is sound, and so is what it knows afterwards.                           *)
(***************************************************************************)
Own(p) ==
  /\ call' \in [Procs -> CallState] /\ sent' \in [Procs -> Nat]
  /\ \A q \in Procs \ {p} : call'[q] = call[q] /\ sent'[q] = sent[q]

LEMMA OwnStep ==
  ASSUME CredentialInv, NEW p \in Procs, Own(p), Grows, Holds(p)', Counts(p)'
  PROVE  CredentialInv'
<1>1. \A q \in Procs : Holds(q)' /\ Counts(q)'
  BY OthersHold DEF Own
<1>2. saved' \in Record \cup {NoRecord} /\ committed' \subseteq Record
  BY DEF Grows, FileIsGenuine, Genuine
<1>3. CredentialTypeOK'
  BY <1>2 DEF Grows, Own, CredentialTypeOK, Issued
<1> QED BY <1>1, <1>3 DEF CredentialInv, Grows

LEMMA NothingChanges ==
  ASSUME CredentialInv, UNCHANGED <<tokens, saved, committed, spent>>,
         clock' \in 0..MaxTime, calls' \in 0..MaxCalls
  PROVE  Grows
BY DEF Grows, CredentialInv, CredentialTypeOK, FileIsGenuine, Genuine, tokens, Issued

(***************************************************************************)
(* Most steps only change the command: where it is and what it reports.    *)
(***************************************************************************)
LEMMA QuietStep ==
  ASSUME CredentialInv, NEW p \in Procs, NEW c \in CallState, NEW n \in Nat,
         call' = [call EXCEPT ![p] = c], sent' = [sent EXCEPT ![p] = n],
         UNCHANGED <<tokens, saved, committed, spent>>,
         clock' \in 0..MaxTime, calls' \in 0..MaxCalls,
         c.at \in {"idle", "bind", "browser", "listen", "held", "exchange", "delete"},
         c.at \in Unsent => n = 0, c.at = "delete" => n = 1,
         c.at = "idle" /\ c.outcome \notin Silent => n = IF c.attempted THEN 1 ELSE 0
  PROVE  CredentialInv'
<1>1. Grows
  BY NothingChanges
<1>2. Own(p) /\ call'[p] = c /\ sent'[p] = n
  BY DEF Own, CredentialInv, CredentialTypeOK
<1>3. Holds(p)' /\ Counts(p)'
  BY <1>2 DEF Holds, Counts
<1> QED BY <1>1, <1>2, <1>3, OwnStep

LEMMA EndsQuietly ==
  ASSUME CredentialInv, NEW p \in Procs, NEW outcome \in Outcomes, NEW attempted \in BOOLEAN, NEW n \in Nat,
         Ends(p, outcome, attempted), sent' = [sent EXCEPT ![p] = n],
         UNCHANGED <<tokens, saved, committed, spent>>,
         clock' \in 0..MaxTime, calls' \in 0..MaxCalls,
         outcome \notin Silent => n = IF attempted THEN 1 ELSE 0
  PROVE  CredentialInv'
<1> DEFINE c == [Rest EXCEPT !.outcome = outcome, !.attempted = attempted]
<1>1. c \in CallState /\ c.at = "idle" /\ c.outcome = outcome /\ c.attempted = attempted
  BY EndsAt DEF Rest
<1>2. call' = [call EXCEPT ![p] = c]
  BY DEF Ends
<1> HIDE DEF c
<1> QED BY <1>1, <1>2, QuietStep DEF Unsent

--------------------------------------------------------------------------------
(***************************************************************************)
(* The operations one by one.  Those that read the file and end, or fail.  *)
(***************************************************************************)
LEMMA FailureStep ==
  ASSUME CredentialInv, NEW p \in Procs, clock' = clock, calls' \in 0..MaxCalls,
         LoadFails(p) \/ NoClient(p) \/ RefreshDenied(p) \/ Used(p) \/ CallDies(p)
  PROVE  CredentialInv'
<1> DEFINE c == call[p]
<1>1. /\ c \in CallState /\ c.attempted \in BOOLEAN /\ sent[p] \in Nat /\ Counts(p)
      /\ sent = [sent EXCEPT ![p] = sent[p]] /\ clock' \in 0..MaxTime
  BY DEF CredentialInv, CredentialTypeOK, CallState
<1>2. CASE LoadFails(p)
  BY <1>1, <1>2, EndsQuietly, 0 \in Nat DEF LoadFails, Outcomes
<1>3. CASE NoClient(p)
  <2>1. sent[p] = 0
    BY <1>1, <1>3 DEF NoClient, At, Counts, Unsent
  <2> QED BY <1>1, <1>3, <2>1, EndsQuietly DEF NoClient, Outcomes, credentialHistory
<1>4. CASE RefreshDenied(p)
  <2>1. sent[p] = 0
    BY <1>1, <1>4 DEF RefreshDenied, At, Counts, Unsent
  <2>2. sent' = [sent EXCEPT ![p] = 1]
    BY <1>4, <2>1 DEF RefreshDenied, Sends
  <2> QED BY <1>1, <1>4, <2>2, EndsQuietly, 1 \in Nat DEF RefreshDenied, Unusable, Outcomes
<1>5. CASE Used(p)
  <2>1. sent[p] = IF c.attempted THEN 1 ELSE 0
    BY <1>1, <1>5 DEF Used, At, Counts
  <2> QED BY <1>1, <1>5, <2>1, EndsQuietly DEF Used, Outcomes, credentialHistory
<1>6. CASE CallDies(p)
  BY <1>1, <1>6, EndsQuietly DEF CallDies, Outcomes, credentialHistory, Silent
<1> QED BY <1>2, <1>3, <1>4, <1>5, <1>6

LEMMA LoadStep ==
  ASSUME CredentialInv, NEW p \in Procs, Load(p), clock' = clock, calls' \in 0..MaxCalls
  PROVE  CredentialInv'
<1>1. /\ UNCHANGED <<tokens, saved, committed, spent>> /\ clock' \in 0..MaxTime
      /\ sent' = [sent EXCEPT ![p] = 0] /\ clock \in Nat
  BY ProcessesAssumption DEF Load, CredentialInv, CredentialTypeOK
<1>2. CASE Ends(p, "credential_missing", FALSE) \/ Ends(p, "credential_expired", FALSE)
  BY <1>1, <1>2, EndsQuietly, 0 \in Nat DEF Outcomes
<1> DEFINE resolved == [Rest EXCEPT !.at = "resolved", !.record = saved, !.stamp = clock,
                                    !.token = saved.access]
           refresh == [Rest EXCEPT !.at = "refresh", !.record = saved, !.stamp = clock]
<1>3. ASSUME saved # NoRecord PROVE Genuine(saved) /\ saved \in committed
  BY <1>3 DEF CredentialInv, FileIsGenuine
<1>4. ASSUME NEW c \in CallState, call' = [call EXCEPT ![p] = c], Holds(p)', Counts(p)'
      PROVE  CredentialInv'
  <2>1. Own(p)
    BY <1>1, <1>4 DEF Own, CredentialInv, CredentialTypeOK
  <2> QED BY <1>1, <1>4, <2>1, NothingChanges, OwnStep
<1>5. CASE call' = [call EXCEPT ![p] = resolved] /\ saved # NoRecord
           /\ (~Due(saved, clock) \/ (saved.refresh = 0 /\ saved.ends > clock))
  <2>1. resolved \in CallState
    BY <1>1, <1>3, <1>5, StateHands, RestIsIdle DEF Genuine
  <2>2. call'[p] = resolved /\ sent'[p] = 0
    BY <1>1, <1>5 DEF CredentialInv, CredentialTypeOK
  <2>3. saved.ends # 0 => saved.ends > clock
    BY <1>1, <1>3, <1>5, CredentialsAssumption DEF Due, Genuine, Record
  <2>4. /\ call'[p].at = "resolved" /\ call'[p].token = saved.access
        /\ call'[p].stamp = clock
    BY <2>2 DEF Rest
  <2>5. Handed(p)'
    <3>1. saved \in committed'
      BY <1>1, <1>3, <1>5
    <3> QED BY <1>5, <2>3, <2>4, <3>1 DEF Handed, Due
  <2>6. Holds(p)' /\ Counts(p)'
    BY <2>2, <2>4, <2>5 DEF Holds, Counts, Rest, Unsent
  <2> QED BY <1>4, <1>5, <2>1, <2>6
<1>6. CASE call' = [call EXCEPT ![p] = refresh] /\ saved # NoRecord
  <2>1. refresh \in CallState
    BY <1>1, <1>3, <1>6 DEF Rest, CallState, Genuine, Outcomes
  <2>2. call'[p] = refresh /\ sent'[p] = 0
    BY <1>1, <1>6 DEF CredentialInv, CredentialTypeOK
  <2>3. Holds(p)' /\ Counts(p)'
    <3>1. call'[p].at = "refresh" /\ call'[p].record = saved
      BY <2>2 DEF Rest
    <3>2. Genuine(saved)'
      BY <1>1, <1>3, <1>6, NothingChanges, GenuineStays DEF Genuine
    <3> QED BY <1>1, <2>2, <3>1, <3>2 DEF Holds, Counts, Unsent, Genuine
  <2> QED BY <1>4, <1>6, <2>1, <2>3
<1>7. \/ Ends(p, "credential_missing", FALSE) \/ Ends(p, "credential_expired", FALSE)
      \/ /\ call' = [call EXCEPT ![p] = resolved] /\ saved # NoRecord
         /\ ~Due(saved, clock) \/ (saved.refresh = 0 /\ saved.ends > clock)
      \/ call' = [call EXCEPT ![p] = refresh] /\ saved # NoRecord
  BY DEF Load
<1> QED BY <1>2, <1>5, <1>6, <1>7

(***************************************************************************)
(* A grant: what auth login is given, and what it puts into the file.      *)
(***************************************************************************)
LEMMA IssueGrows ==
  ASSUME CredentialInv, NEW account \in Accounts, NEW life \in Lives, Issue(account, life),
         renewable' \subseteq renewable \cup {Newest}, clock' = clock, calls' \in 0..MaxCalls,
         UNCHANGED <<barred, saved, committed, spent>>
  PROVE  Grows /\ Issued' = Issued \cup {Newest} /\ Newest \in Tokens
<1>1. owner \in Seq(Accounts) /\ Len(owner) < MaxTokens /\ Issued = 1..Len(owner)
  BY DEF CredentialInv, CredentialTypeOK, Issue, Issued
<1>2. /\ owner' \in Seq(Accounts) /\ Len(owner') = Len(owner) + 1
      /\ Issued' = 1..(Len(owner) + 1) /\ Issued' = Issued \cup {Newest} /\ Newest \in Tokens
  BY <1>1, CredentialsAssumption DEF Issue, Issued, Newest, Tokens
<1>3. expiry' \in Seq(Nat) /\ Len(expiry') = Len(owner')
  <2>1. clock + life \in Nat
    BY ProcessesAssumption, CredentialsAssumption DEF CredentialInv, CredentialTypeOK
  <2> QED BY <1>1, <1>2, <2>1 DEF Issue, CredentialInv, CredentialTypeOK
<1>4. FileIsGenuine'
  <2>1. saved' = saved /\ committed' = committed
    OBVIOUS
  <2>2. \A record : Genuine(record) => Genuine(record)'
    BY <1>2 DEF Genuine
  <2> QED BY <2>1, <2>2 DEF FileIsGenuine, CredentialInv
<1>5. /\ renewable' \subseteq Issued' /\ barred' \subseteq Issued' /\ spent' \subseteq Issued'
      /\ clock' \in 0..MaxTime /\ committed \subseteq committed' /\ Issued \subseteq Issued'
  BY <1>2 DEF CredentialInv, CredentialTypeOK
<1>6. Len(owner') <= MaxTokens
  BY <1>1, <1>2, CredentialsAssumption
<1> QED BY <1>2, <1>3, <1>4, <1>5, <1>6 DEF Grows

\* A grant is in hand: what the command then works on is genuine.
LEMMA GrantedStep ==
  ASSUME CredentialInv, NEW p \in Procs, NEW account \in Accounts, NEW life \in Lives,
         NEW refresh \in {0, Newest}, NEW ends \in {0, life}, NEW n \in Nat,
         Issue(account, life), Granted(p, refresh, ends), sent' = [sent EXCEPT ![p] = n],
         clock' = clock, calls' \in 0..MaxCalls, UNCHANGED <<barred, saved, committed, spent>>
  PROVE  CredentialInv'
<1>1. Grows /\ Issued' = Issued \cup {Newest} /\ Newest \in Tokens
  BY IssueGrows DEF Granted
<1>2. PICK record \in Record :
        record = [access |-> Newest, refresh |-> refresh, ends |-> ends]
  <2>1. refresh \in 0..MaxTokens /\ ends \in Nat
    BY <1>1, CredentialsAssumption DEF Tokens
  <2> QED BY <1>1, <2>1 DEF Record
<1> DEFINE c == [Rest EXCEPT !.at = "persist", !.record = record]
<1>3. c \in CallState /\ c.at = "persist" /\ c.record = record
  BY RestIsIdle, StateTakes DEF Rest
<1>4. call' = [call EXCEPT ![p] = c]
  BY <1>2 DEF Granted
<1> HIDE DEF c
<1>5. Own(p) /\ call'[p] = c
  BY <1>3, <1>4 DEF Own, CredentialInv, CredentialTypeOK
<1>6. Genuine(call[p].record)'
  BY <1>1, <1>2, <1>3, <1>5 DEF Genuine
<1>7. Holds(p)' /\ Counts(p)'
  BY <1>3, <1>5, <1>6 DEF Holds, Counts, Unsent
<1> QED BY <1>1, <1>5, <1>7, OwnStep

LEMMA LoginStep ==
  ASSUME CredentialInv, NEW p \in Procs, Login(p), clock' = clock, calls' \in 0..MaxCalls
  PROVE  CredentialInv'
<1>1. CASE \E account \in Accounts, life \in Lives : Issue(account, life) /\ Granted(p, Newest, life)
  BY <1>1, GrantedStep, 1 \in Nat DEF Login
<1>2. CASE Ends(p, "provider_error", TRUE) /\ UNCHANGED <<owner, expiry, renewable>>
  BY <1>2, EndsQuietly, 1 \in Nat DEF Login, Outcomes, tokens, CredentialInv, CredentialTypeOK
<1> QED BY <1>1, <1>2 DEF Login

(***************************************************************************)
(* A record is put into the file, by who was granted it or has renewed it. *)
(***************************************************************************)
LEMMA CommitGrows ==
  ASSUME CredentialInv, NEW record, Genuine(record), Commit(record), UNCHANGED tokens,
         spent' \subseteq Issued, clock' = clock, calls' \in 0..MaxCalls
  PROVE  Grows
<1>1. Issued' = Issued
  BY DEF tokens, Issued
<1>2. FileIsGenuine'
  <2>1. \A r : Genuine(r)' <=> Genuine(r)
    BY <1>1 DEF Genuine
  <2> QED BY <2>1 DEF FileIsGenuine, Commit, CredentialInv
<1> QED BY <1>1, <1>2 DEF Grows, Commit, tokens, CredentialInv, CredentialTypeOK

LEMMA EndsOwn ==
  ASSUME CredentialInv, NEW p \in Procs, NEW outcome \in Outcomes, NEW attempted \in BOOLEAN, NEW n \in Nat,
         Ends(p, outcome, attempted), sent' = [sent EXCEPT ![p] = n],
         outcome \notin Silent => n = IF attempted THEN 1 ELSE 0
  PROVE  Own(p) /\ Holds(p)' /\ Counts(p)'
<1> DEFINE c == [Rest EXCEPT !.outcome = outcome, !.attempted = attempted]
<1>1. c \in CallState /\ c.at = "idle" /\ c.outcome = outcome /\ c.attempted = attempted
  BY EndsAt DEF Rest
<1>2. call' = [call EXCEPT ![p] = c]
  BY DEF Ends
<1> HIDE DEF c
<1>3. Own(p) /\ call'[p] = c /\ sent'[p] = n
  BY <1>1, <1>2 DEF Own, CredentialInv, CredentialTypeOK
<1> QED BY <1>1, <1>3 DEF Holds, Counts, Unsent

LEMMA PersistStep ==
  ASSUME CredentialInv, NEW p \in Procs, Persist(p), clock' = clock, calls' \in 0..MaxCalls
  PROVE  CredentialInv'
<1> DEFINE r == call[p].record
<1>1. /\ Genuine(r) /\ clock \in Nat /\ sent[p] \in Nat
      /\ sent' = [sent EXCEPT ![p] = sent[p]]
  BY ProcessesAssumption
     DEF Persist, At, CredentialInv, Holds, credentialHistory, CredentialTypeOK
<1>2. PICK record \in Record :
        record = [r EXCEPT !.ends = IF @ = 0 THEN 0 ELSE clock + @] /\ Genuine(record)
  <2>1. r \in Record /\ r.ends \in Nat
    BY <1>1 DEF Genuine, Record
  <2>2. PICK ends \in Nat : ends = IF r.ends = 0 THEN 0 ELSE clock + r.ends
    BY <1>1, <2>1
  <2>3. PICK record : record = [r EXCEPT !.ends = ends]
    OBVIOUS
  <2>4. record \in Record /\ record.access = r.access /\ record.refresh = r.refresh
    BY <2>1, <2>3 DEF Record
  <2> QED BY <1>1, <2>2, <2>3, <2>4 DEF Genuine
<1>3. CASE Commit(record) /\ Ends(p, "logged_in", FALSE)
  <2>1. Grows
    BY <1>2, <1>3, CommitGrows DEF Persist, CredentialInv, CredentialTypeOK
  <2>2. Own(p) /\ Holds(p)' /\ Counts(p)'
    BY <1>1, <1>3, EndsOwn DEF Silent, Outcomes
  <2> QED BY <2>1, <2>2, OwnStep
<1>4. CASE Ends(p, "not_persisted", FALSE) /\ UNCHANGED <<saved, committed>>
  BY <1>1, <1>4, EndsQuietly DEF Persist, Silent, Outcomes, CredentialInv, CredentialTypeOK
<1> QED BY <1>2, <1>3, <1>4 DEF Persist

LEMMA ReplaceStep ==
  ASSUME CredentialInv, NEW p \in Procs, ReplaceRecord(p), clock' = clock, calls' \in 0..MaxCalls
  PROVE  CredentialInv'
<1> DEFINE c == call[p]
<1>1. /\ c \in CallState /\ Genuine(c.record)
      /\ c.record.ends # 0 => c.record.ends > c.stamp
      /\ sent[p] = 1 /\ sent' = sent /\ c.record.access \in Nat
  BY CredentialsAssumption
     DEF ReplaceRecord, At, CredentialInv, Holds, Counts, CredentialTypeOK, Genuine, Record, Tokens
<1>2. UNCHANGED tokens
  BY DEF ReplaceRecord
<1>3. CASE /\ Commit(c.record) /\ spent' = spent \cup ({saved.refresh} \ {0})
           /\ Yields(p, c.record.access, TRUE)
  <2>1. spent' \subseteq Issued
    BY <1>3 DEF CredentialInv, CredentialTypeOK, FileIsGenuine, Genuine, NoRecord
  <2>2. Grows
    BY <1>1, <1>2, <1>3, <2>1, CommitGrows
  <2> DEFINE d == [c EXCEPT !.at = "resolved", !.token = c.record.access, !.attempted = TRUE]
  <2>3. d \in CallState
    BY <1>1, StateYields, TRUE \in BOOLEAN
  <2>4. call' = [call EXCEPT ![p] = d]
    BY <1>3 DEF Yields
  <2>5. /\ Own(p) /\ call'[p].at = "resolved" /\ call'[p].token = c.record.access
        /\ call'[p].attempted /\ call'[p].stamp = c.stamp
    BY <1>1, <2>3, <2>4 DEF Own, CredentialInv, CredentialTypeOK, CallState
  <2>6. Handed(p)'
    <3>1. c.record \in committed'
      BY <1>3 DEF Commit
    <3>2. /\ c.record.access = call'[p].token
          /\ c.record.ends # 0 => c.record.ends > call'[p].stamp
      BY <1>1, <2>5
    <3> QED BY <2>5, <3>1, <3>2 DEF Handed
  <2>7. Holds(p)' /\ Counts(p)'
    BY <1>1, <2>5, <2>6 DEF Holds, Counts, Unsent
  <2> QED BY <2>2, <2>5, <2>7, OwnStep
<1>4. CASE NotCommitted(p) /\ UNCHANGED <<saved, committed, spent>>
  <2>1. sent' = [sent EXCEPT ![p] = 1]
    BY <1>1 DEF CredentialInv, CredentialTypeOK
  <2> QED BY <1>4, <2>1, EndsQuietly, 1 \in Nat
          DEF NotCommitted, Outcomes, ReplaceRecord, CredentialInv, CredentialTypeOK
<1> QED BY <1>3, <1>4 DEF ReplaceRecord

(***************************************************************************)
(* A refresh, whose answer may be unusable, and a revocation.              *)
(***************************************************************************)
LEMMA RefreshStep ==
  ASSUME CredentialInv, NEW p \in Procs, SendRefresh(p), clock' = clock, calls' \in 0..MaxCalls
  PROVE  CredentialInv'
<1> DEFINE c == call[p]
<1>1. /\ c \in CallState /\ c.stamp \in Nat /\ sent' = [sent EXCEPT ![p] = 1]
      /\ c.record.refresh \in Issued
  <2>1. c.at = "refresh" /\ sent[p] = 0
    BY DEF SendRefresh, At, CredentialInv, Counts, Unsent
  <2>2. sent' = [sent EXCEPT ![p] = 1]
    BY <2>1 DEF SendRefresh, Sends
  <2> QED BY <2>2 DEF SendRefresh, CredentialInv, CredentialTypeOK, CallState
<1>2. CASE Unusable(p) /\ UNCHANGED <<owner, expiry, renewable>>
  BY <1>1, <1>2, EndsQuietly, 1 \in Nat
     DEF Unusable, Outcomes, SendRefresh, tokens, CredentialInv, CredentialTypeOK
<1>3. ASSUME NEW life \in Lives, NEW told \in BOOLEAN,
             Issue(owner[c.record.refresh], life),
             renewable' \in {renewable \cup {Newest}, (renewable \ {c.record.refresh}) \cup {Newest}},
             \/ call' = [call EXCEPT ![p].at = "replace",
                            ![p].record = Refreshed(p, IF told THEN life ELSE 0)]
             \/ Unusable(p)
      PROVE  CredentialInv'
  <2>1. PICK account \in Accounts : account = owner[c.record.refresh]
    BY <1>1 DEF CredentialInv, CredentialTypeOK, Issued
  <2>2. Grows /\ Issued' = Issued \cup {Newest} /\ Newest \in Tokens
    BY <1>3, <2>1, IssueGrows DEF SendRefresh
  <2>3. CASE Unusable(p)
    <3>1. Own(p) /\ Holds(p)' /\ Counts(p)'
      BY <1>1, <2>3, EndsOwn, 1 \in Nat DEF Unusable, Outcomes
    <3> QED BY <2>2, <3>1, OwnStep
  <2>4. CASE call' = [call EXCEPT ![p].at = "replace",
                        ![p].record = Refreshed(p, IF told THEN life ELSE 0)]
    <3>1. PICK record \in Record : /\ record = Refreshed(p, IF told THEN life ELSE 0)
                                   /\ record.ends # 0 => record.ends > c.stamp
                                   /\ record.access = Newest /\ record.refresh = Newest
      <4>1. PICK ends \in Nat : /\ ends = IF ~told THEN 0 ELSE c.stamp + life
                                /\ ends # 0 => ends > c.stamp
        BY <1>1, CredentialsAssumption
      <4>2. (IF told THEN life ELSE 0) = 0 <=> ~told
        BY CredentialsAssumption
      <4>3. Refreshed(p, IF told THEN life ELSE 0) =
              [access |-> Newest, refresh |-> Newest, ends |-> ends]
        BY <4>1, <4>2 DEF Refreshed
      <4>4. [access |-> Newest, refresh |-> Newest, ends |-> ends] \in Record
        BY <2>2, CredentialsAssumption DEF Record, Tokens
      <4> QED BY <4>1, <4>3, <4>4
    <3> DEFINE d == [c EXCEPT !.at = "replace", !.record = record]
    <3>2. d \in CallState
      BY <1>1, StateTakes
    <3>3. call' = [call EXCEPT ![p] = d]
      BY <2>4, <3>1
    <3>4. /\ Own(p) /\ call'[p].at = "replace" /\ call'[p].record = record
          /\ call'[p].stamp = c.stamp /\ sent'[p] = 1
      BY <1>1, <3>2, <3>3 DEF Own, CredentialInv, CredentialTypeOK, CallState
    <3>5. Genuine(call[p].record)'
      BY <2>2, <3>1, <3>4 DEF Genuine
    <3>6. Holds(p)' /\ Counts(p)'
      BY <3>1, <3>4, <3>5 DEF Holds, Counts, Unsent
    <3> QED BY <2>2, <3>4, <3>6, OwnStep
  <2> QED BY <1>3, <2>3, <2>4
<1> QED BY <1>2, <1>3 DEF SendRefresh

LEMMA RevokeLoadStep ==
  ASSUME CredentialInv, NEW p \in Procs, LoadToRevoke(p), clock' = clock, calls' \in 0..MaxCalls
  PROVE  CredentialInv'
<1>1. /\ sent' = [sent EXCEPT ![p] = 0] /\ clock' \in 0..MaxTime
      /\ UNCHANGED <<tokens, saved, committed, spent>>
  BY DEF LoadToRevoke, CredentialInv, CredentialTypeOK
<1>2. CASE Ends(p, "credential_missing", FALSE) \/ Ends(p, "configuration_error", FALSE)
  BY <1>1, <1>2, EndsQuietly, 0 \in Nat DEF Outcomes
<1> DEFINE c == [Rest EXCEPT !.at = "revoke", !.record = saved]
<1>3. CASE saved # NoRecord /\ call' = [call EXCEPT ![p] = c]
  <2>1. Genuine(saved)
    BY <1>3 DEF CredentialInv, FileIsGenuine
  <2>2. c \in CallState /\ c.at = "revoke" /\ c.record = saved
    BY <2>1, RestIsIdle, StateTakes DEF Genuine, Rest
  <2>3. Own(p) /\ call'[p] = c /\ sent'[p] = 0
    BY <1>1, <1>3, <2>2 DEF Own, CredentialInv, CredentialTypeOK
  <2> HIDE DEF c
  <2>4. Grows /\ Genuine(saved)'
    BY <1>1, <2>1, NothingChanges, GenuineStays DEF Genuine
  <2>5. Holds(p)' /\ Counts(p)'
    BY <1>1, <2>2, <2>3, <2>4 DEF Holds, Counts, Unsent, Genuine
  <2> QED BY <2>3, <2>4, <2>5, OwnStep
<1> QED BY <1>2, <1>3 DEF LoadToRevoke

LEMMA RevokeStep ==
  ASSUME CredentialInv, NEW p \in Procs, SendRevoke(p), clock' = clock, calls' \in 0..MaxCalls
  PROVE  CredentialInv'
<1> DEFINE c == call[p]
<1>1. /\ c \in CallState /\ Genuine(c.record) /\ sent' = [sent EXCEPT ![p] = 1]
  <2>1. c.at = "revoke" /\ sent[p] = 0 /\ Genuine(c.record)
    BY DEF SendRevoke, At, CredentialInv, Holds, Counts, Unsent
  <2>2. sent' = [sent EXCEPT ![p] = 1]
    BY <2>1 DEF SendRevoke, Sends
  <2> QED BY <2>1, <2>2 DEF CredentialInv, CredentialTypeOK
<1>2. Grows
  <2>1. Issued' = Issued /\ UNCHANGED <<owner, expiry, saved, committed, spent>>
    BY DEF SendRevoke, Issued
  <2>2. renewable' \subseteq Issued /\ barred' \subseteq Issued
    BY <1>1 DEF SendRevoke, CredentialInv, CredentialTypeOK, Genuine
  <2>3. FileIsGenuine'
    BY <2>1 DEF CredentialInv, FileIsGenuine, Genuine
  <2> QED BY <2>1, <2>2, <2>3 DEF Grows, CredentialInv, CredentialTypeOK
<1>3. CASE NotRevoked(p)
  <2>1. Own(p) /\ Holds(p)' /\ Counts(p)'
    BY <1>1, <1>3, EndsOwn, 1 \in Nat DEF NotRevoked, Outcomes
  <2> QED BY <1>2, <2>1, OwnStep
<1>4. CASE Becomes(p, "delete")
  <2>1. call' = [call EXCEPT ![p] = [c EXCEPT !.at = "delete"]]
    BY <1>4 DEF Becomes
  <2>2. [c EXCEPT !.at = "delete"] \in CallState
    BY <1>1, StateMoves
  <2>3. Own(p) /\ call'[p].at = "delete" /\ sent'[p] = 1
    BY <1>1, <2>1, <2>2 DEF Own, CredentialInv, CredentialTypeOK, CallState
  <2>4. Holds(p)' /\ Counts(p)'
    BY <2>3 DEF Holds, Counts, Unsent
  <2> QED BY <1>2, <2>3, <2>4, OwnStep
<1> QED BY <1>3, <1>4 DEF SendRevoke

LEMMA DeleteStep ==
  ASSUME CredentialInv, NEW p \in Procs, Delete(p) \/ DeleteLocal(p),
         clock' = clock, calls' \in 0..MaxCalls
  PROVE  CredentialInv'
<1>1. Grows
  <2>1. UNCHANGED <<tokens, committed, spent>> /\ (saved' = NoRecord \/ saved' = saved)
    BY DEF Delete, DeleteLocal, credentialHistory
  <2>2. FileIsGenuine'
    BY <2>1 DEF CredentialInv, FileIsGenuine, Genuine, tokens, Issued
  <2> QED BY <2>1, <2>2 DEF Grows, tokens, Issued, CredentialInv, CredentialTypeOK
<1>2. CASE Delete(p)
  <2>1. sent' = [sent EXCEPT ![p] = 1]
    BY <1>2 DEF Delete, At, CredentialInv, CredentialTypeOK, Counts, credentialHistory
  <2>2. Own(p) /\ Holds(p)' /\ Counts(p)'
    BY <1>2, <2>1, EndsOwn, 1 \in Nat DEF Delete, Outcomes
  <2> QED BY <1>1, <2>2, OwnStep
<1>3. CASE DeleteLocal(p)
  <2>1. Own(p) /\ Holds(p)' /\ Counts(p)'
    BY <1>3, EndsOwn, 0 \in Nat DEF DeleteLocal, Outcomes
  <2> QED BY <1>1, <2>1, OwnStep
<1> QED BY <1>2, <1>3

LEMMA CallKeeps ==
  ASSUME CredentialInv, NEW p \in Procs, CallStep(p) \/ CallDies(p), UNCHANGED <<clock, calls>>
  PROVE  CredentialInv'
<1>1. calls' \in 0..MaxCalls
  BY DEF CredentialInv, CredentialTypeOK
<1> QED BY <1>1, FailureStep, PersistStep, RefreshStep, ReplaceStep, RevokeStep, DeleteStep
        DEF CallStep, ResolveStep

LEMMA OthersKeep ==
  ASSUME CredentialInv, NEW p \in Procs, OtherBegins(p)
  PROVE  CredentialInv'
<1>1. calls' \in 0..MaxCalls /\ clock' = clock
  BY ProcessesAssumption DEF OtherBegins, Resolve, Starts, CredentialInv, CredentialTypeOK
<1> QED BY <1>1, LoadStep, FailureStep, RevokeLoadStep, DeleteStep DEF OtherBegins, Resolve

LEMMA TimeKeeps ==
  ASSUME CredentialInv, UNCHANGED credentialVars, clock' \in 0..MaxTime, calls' \in 0..MaxCalls
  PROVE  CredentialInv'
<1>1. Grows /\ call' = call /\ sent' = sent
  BY NothingChanges DEF credentialVars, credentialHistory
<1>2. \A p \in Procs : Holds(p)' /\ Counts(p)'
  BY <1>1, OthersHold
<1>3. CredentialTypeOK'
  BY <1>1 DEF Grows, CredentialInv, CredentialTypeOK, credentialVars, credentialHistory
<1> QED BY <1>1, <1>2, <1>3 DEF CredentialInv, Grows

LEMMA InitHolds == ASSUME Starting, CredentialInit PROVE CredentialInv
<1>1. CredentialTypeOK
  BY RestIsIdle, ProcessesAssumption, CredentialsAssumption
     DEF Starting, CredentialInit, CredentialTypeOK, Issued
<1>2. \A p \in Procs : Holds(p) /\ Counts(p)
  BY DEF CredentialInit, Holds, Counts, Rest, Unsent
<1> QED BY <1>1, <1>2 DEF CredentialInv, FileIsGenuine, CredentialInit

(***************************************************************************)
(* What the invariant is for.                                              *)
(***************************************************************************)
LEMMA TokensAndAttempts == CredentialInv => TokenIsSound /\ AttemptsTold
BY DEF CredentialInv, Holds, Handed, Counts, TokenIsSound, AttemptsTold, At, Silent
================================================================================
