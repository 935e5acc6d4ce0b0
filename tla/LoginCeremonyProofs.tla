-------------------------- MODULE LoginCeremonyProofs --------------------------
EXTENDS LoginCeremony, CredentialsProofs
(***************************************************************************)
(* Proofs about auth login and the X credential's lifecycle, for every     *)
(* number of processes, commands and tokens and every time limit.          *)
(***************************************************************************)

(***************************************************************************)
(* An attempt belongs to one process, which presents its code only when    *)
(* the owner has consented on the attempt's own page, and then leaves the  *)
(* ceremony for good.  An attempt that nobody has made yet is untouched.   *)
(***************************************************************************)
Ceremony == {"bind", "browser", "listen", "held", "exchange"}

CeremonyTypeOK ==
  /\ attempt \in [Procs -> 0..MaxCalls] /\ left \in [Procs -> 0..Patience]
  /\ page \in [Attempts -> {"closed", "open", "denied"} \cup Accounts]
  /\ presented \in [Attempts -> Seq(Attempts)]

Alone(p) == \A q \in Procs \ {p} : attempt[q] = attempt[p] => attempt[p] = 0

Attempting(p) ==
  /\ attempt[p] <= calls /\ Alone(p)
  /\ call[p].at \in Ceremony => attempt[p] # 0 /\ presented[attempt[p]] = << >>
  /\ call[p].at = "exchange" => call[p].token = attempt[p] /\ attempt[p] \in Consents

Ledger ==
  \A n \in Attempts : /\ presented[n] \in {<< >>, <<n>>}
                      /\ n > calls => presented[n] = << >>

LoginInv ==
  CredentialInv /\ CeremonyTypeOK /\ Ledger /\ \A p \in Procs : Attempting(p)

--------------------------------------------------------------------------------
(***************************************************************************)
(* A step that leaves the attempts alone and enters no ceremony.           *)
(***************************************************************************)
Keeps(p) ==
  /\ UNCHANGED <<attempt, page, presented>> /\ calls <= calls'
  /\ \A q \in Procs \ {p} : call'[q] = call[q]
  /\ call'[p].at \in Ceremony => call[p].at \in Ceremony
  /\ call'[p].at = "exchange" => call'[p].token = attempt[p] /\ attempt[p] \in Consents

LEMMA KeepsLedger ==
  ASSUME LoginInv, NEW p \in Procs, Keeps(p), CredentialInv', left' \in [Procs -> 0..Patience]
  PROVE  LoginInv'
<1>1. CeremonyTypeOK'
  BY DEF Keeps, LoginInv, CeremonyTypeOK
<1>2. calls \in Nat /\ calls' \in Nat /\ \A n \in Attempts : n \in Nat
  BY ProcessesAssumption DEF LoginInv, CredentialInv, CredentialTypeOK, Attempts
<1>3. Ledger'
  BY <1>2 DEF Keeps, LoginInv, Ledger
<1>4. Consents' = Consents
  BY DEF Keeps, Consents, Answered
<1>5. ASSUME NEW q \in Procs PROVE Attempting(q)'
  <2>1. Attempting(q) /\ attempt[q] \in Nat
    BY DEF LoginInv, CeremonyTypeOK
  <2>2. attempt'[q] <= calls' /\ Alone(q)'
    BY <1>2, <2>1 DEF Attempting, Alone, Keeps
  <2>3. CASE q = p
    BY <1>4, <2>1, <2>2, <2>3 DEF Attempting, Keeps
  <2>4. CASE q # p
    BY <1>4, <2>1, <2>2, <2>4 DEF Attempting, Keeps
  <2> QED BY <2>3, <2>4
<1> QED BY <1>1, <1>3, <1>5 DEF LoginInv

LEMMA EndsKeeps ==
  ASSUME LoginInv, NEW p \in Procs, NEW outcome, NEW attempted, Ends(p, outcome, attempted),
         UNCHANGED <<attempt, page, presented>>, calls <= calls'
  PROVE  Keeps(p)
<1>1. call'[p].at = "idle" /\ \A q \in Procs \ {p} : call'[q] = call[q]
  BY DEF Ends, Rest, LoginInv, CredentialInv, CredentialTypeOK
<1> QED BY <1>1 DEF Keeps, Ceremony

LEMMA Sane ==
  ASSUME LoginInv, NEW p \in Procs
  PROVE  /\ call[p] \in CallState /\ sent[p] \in Nat /\ sent = [sent EXCEPT ![p] = sent[p]]
         /\ clock \in 0..MaxTime /\ calls \in 0..MaxCalls /\ calls <= calls
         /\ Counts(p) /\ Attempting(p) /\ attempt[p] \in 0..MaxCalls
         /\ left \in [Procs -> 0..Patience] /\ left[p] \in 0..Patience /\ 0 \in 0..Patience
         /\ [left EXCEPT ![p] = 0] \in [Procs -> 0..Patience]
         /\ [left EXCEPT ![p] = Patience] \in [Procs -> 0..Patience]
<1>1. 0 \in 0..Patience /\ Patience \in 0..Patience
  BY CeremonyAssumption
<1>2. calls <= calls
  BY ProcessesAssumption DEF LoginInv, CredentialInv, CredentialTypeOK
<1> QED BY <1>1, <1>2 DEF LoginInv, CredentialInv, CredentialTypeOK, CeremonyTypeOK

(***************************************************************************)
(* The command moves on in its ceremony, and has sent nothing yet.         *)
(***************************************************************************)
LEMMA MovesOn ==
  ASSUME LoginInv, NEW p \in Procs, NEW c \in CallState, call' = [call EXCEPT ![p] = c],
         call[p].at \in Ceremony, c.at \in Ceremony, Asking, UNCHANGED <<clock, calls, sent>>
  PROVE  CredentialInv'
<1>1. sent[p] = 0
  BY Sane DEF Counts, Unsent, Ceremony
<1>2. sent' = [sent EXCEPT ![p] = 0]
  BY <1>1, Sane
<1> QED BY <1>2, Sane, QuietStep, 0 \in Nat DEF Asking, Ceremony, Unsent, LoginInv

LEMMA FailsNow ==
  ASSUME LoginInv, NEW p \in Procs, NEW outcome \in Outcomes, LoginFails(p, outcome, FALSE),
         call[p].at \in Ceremony, Asking, UNCHANGED <<clock, calls, sent, attempt, page, presented>>
  PROVE  LoginInv'
<1>1. sent[p] = 0 /\ calls' = calls
  BY Sane DEF Counts, Unsent, Ceremony
<1>2. sent' = [sent EXCEPT ![p] = 0] /\ left' \in [Procs -> 0..Patience]
  BY <1>1, Sane DEF LoginFails
<1>3. CredentialInv'
  BY <1>1, <1>2, Sane, EndsQuietly, 0 \in Nat DEF LoginFails, Asking, LoginInv
<1>4. Keeps(p)
  BY <1>1, EndsKeeps, Sane DEF LoginFails
<1> QED BY <1>2, <1>3, <1>4, KeepsLedger

--------------------------------------------------------------------------------
LEMMA StartStep == ASSUME LoginInv, NEW p \in Procs, StartLogin(p) PROVE LoginInv'
<1>1. /\ calls' = calls + 1 /\ calls' \in 1..MaxCalls /\ calls \in Nat /\ clock' = clock
      /\ calls' \in 0..MaxCalls /\ calls <= calls'
      /\ sent' = [sent EXCEPT ![p] = 0] /\ UNCHANGED <<left, page, presented>> /\ Asking
  BY ProcessesAssumption, Sane DEF StartLogin, Starts
<1>2. CASE Ends(p, "configuration_error", FALSE) /\ UNCHANGED attempt
  <2>1. CredentialInv'
    BY <1>1, <1>2, Sane, EndsQuietly, 0 \in Nat DEF Asking, LoginInv, Outcomes
  <2>2. Keeps(p)
    BY <1>1, <1>2, EndsKeeps
  <2> QED BY <1>1, <2>1, <2>2, KeepsLedger, Sane
<1> DEFINE c == [Rest EXCEPT !.at = "bind"]
<1>3. CASE call' = [call EXCEPT ![p] = c] /\ attempt' = [attempt EXCEPT ![p] = calls']
  <2>1. c \in CallState /\ c.at = "bind"
    BY RestIsIdle, StateMoves DEF Rest
  <2>2. CredentialInv'
    BY <1>1, <1>3, <2>1, Sane, QuietStep, 0 \in Nat DEF Asking, Unsent, LoginInv
  <2>3. /\ call'[p].at = "bind" /\ attempt'[p] = calls'
        /\ \A q \in Procs \ {p} : call'[q] = call[q] /\ attempt'[q] = attempt[q]
        /\ attempt' \in [Procs -> 0..MaxCalls]
    BY <1>1, <1>3, <2>1 DEF LoginInv, CredentialInv, CredentialTypeOK, CeremonyTypeOK
  <2>4. CeremonyTypeOK'
    BY <1>1, <2>3 DEF LoginInv, CeremonyTypeOK
  <2>5. \A n \in Attempts : n \in Nat
    BY DEF Attempts
  <2>6. Ledger'
    BY <1>1, <2>5 DEF LoginInv, Ledger
  <2>7. Consents' = Consents
    BY <1>1 DEF Consents, Answered
  <2>8. Attempting(p)'
    <3>1. presented[calls'] = << >>
      BY <1>1, ProcessesAssumption DEF LoginInv, Ledger, Attempts
    <3>2. \A q \in Procs \ {p} : attempt'[q] # calls'
      BY <1>1, <2>3, Sane DEF Attempting
    <3> QED BY <1>1, <2>3, <3>1, <3>2 DEF Attempting, Alone
  <2>9. ASSUME NEW q \in Procs, q # p PROVE Attempting(q)'
    <3>1. Attempting(q) /\ attempt[q] <= calls /\ attempt[q] \in Nat
      BY Sane DEF LoginInv, Attempting
    <3> QED BY <1>1, <2>3, <2>7, <2>9, <3>1 DEF Attempting, Alone
  <2> QED BY <2>2, <2>4, <2>6, <2>8, <2>9 DEF LoginInv
<1> QED BY <1>2, <1>3 DEF StartLogin

LEMMA WaitStep ==
  ASSUME LoginInv, NEW p \in Procs, Bind(p) \/ Connect(p) \/ NotForUs(p) \/ TimeOut(p),
         UNCHANGED <<clock, calls>>
  PROVE  LoginInv'
<1>1. /\ UNCHANGED <<sent, attempt, page, presented>> /\ Asking
      /\ call[p].at \in {"bind", "listen", "held"}
  BY DEF Bind, Connect, NotForUs, TimeOut, ceremony, At
<1>2. CASE \E outcome \in {"callback_listener_failed", "oauth_callback_timeout"} :
             LoginFails(p, outcome, FALSE)
  BY <1>1, <1>2, FailsNow DEF Outcomes, Ceremony
<1>3. CASE /\ \E place \in {"browser", "listen", "held"} : Becomes(p, place)
           /\ UNCHANGED left
  <2>1. PICK c \in CallState : call' = [call EXCEPT ![p] = c] /\ c.at \in {"browser", "listen", "held"}
    <3>1. PICK place \in {"browser", "listen", "held"} : Becomes(p, place)
      BY <1>3
    <3>2. [call[p] EXCEPT !.at = place] \in CallState
      BY StateMoves, Sane
    <3>3. [call[p] EXCEPT !.at = place].at = place
      BY Sane DEF CallState
    <3> QED BY <3>1, <3>2, <3>3 DEF Becomes
  <2>2. CredentialInv'
    BY <1>1, <2>1, MovesOn DEF Ceremony
  <2>3. Keeps(p)
    BY <1>1, <2>1, Sane DEF Keeps, Ceremony, LoginInv, CredentialInv, CredentialTypeOK
  <2> QED BY <1>3, <2>2, <2>3, KeepsLedger, Sane
<1> QED BY <1>2, <1>3 DEF Bind, Connect, NotForUs, TimeOut, WaitOn, ceremony

LEMMA OpenStep ==
  ASSUME LoginInv, NEW p \in Procs, OpenPage(p), UNCHANGED <<clock, calls>>
  PROVE  LoginInv'
<1>1. /\ UNCHANGED <<sent, attempt, presented>> /\ Asking /\ call[p].at = "browser"
      /\ call[p].at \in Ceremony
  BY DEF OpenPage, At, Ceremony
<1>2. CASE LoginFails(p, "browser_launch_failed", FALSE) /\ UNCHANGED page
  BY <1>1, <1>2, FailsNow DEF Outcomes
<1> DEFINE n == attempt[p]
<1>3. CASE /\ Becomes(p, "listen") /\ left' = [left EXCEPT ![p] = Patience]
           /\ page' = [page EXCEPT ![n] = "open"]
  <2>1. PICK c \in CallState : call' = [call EXCEPT ![p] = c] /\ c.at = "listen"
    <3>1. [call[p] EXCEPT !.at = "listen"] \in CallState
      BY StateMoves, Sane
    <3>2. [call[p] EXCEPT !.at = "listen"].at = "listen"
      BY Sane DEF CallState
    <3> QED BY <1>3, <3>1, <3>2 DEF Becomes
  <2>2. CredentialInv'
    BY <1>1, <2>1, MovesOn DEF Ceremony
  <2>3. CeremonyTypeOK' /\ Ledger'
    BY <1>1, <1>3, Sane DEF LoginInv, CeremonyTypeOK, Ledger
  <2>4. Consents \ {n} \subseteq Consents'
    BY <1>3 DEF LoginInv, CeremonyTypeOK, Consents, Answered
  <2>5. call'[p].at = "listen" /\ \A q \in Procs \ {p} : call'[q] = call[q]
    BY <2>1 DEF LoginInv, CredentialInv, CredentialTypeOK
  <2>6. Attempting(p)'
    BY <1>1, <2>5, Sane DEF Attempting, Alone, Ceremony
  <2>7. ASSUME NEW q \in Procs, q # p PROVE Attempting(q)'
    <3>1. Attempting(q)
      BY DEF LoginInv
    <3>2. call[q].at = "exchange" => attempt[q] # n
      BY <2>7, <3>1, Sane DEF Attempting, Alone, Ceremony
    <3> QED BY <1>1, <2>4, <2>5, <2>7, <3>1, <3>2 DEF Attempting, Alone, Consents, Answered
  <2> QED BY <2>2, <2>3, <2>6, <2>7 DEF LoginInv
<1> QED BY <1>2, <1>3 DEF OpenPage

LEMMA CallbackStep ==
  ASSUME LoginInv, NEW p \in Procs, Callback(p), UNCHANGED <<clock, calls>>
  PROVE  LoginInv'
<1>1. /\ UNCHANGED <<sent, attempt, page, presented>> /\ Asking /\ call[p].at = "held"
      /\ call[p].at \in Ceremony
  BY DEF Callback, At, Ceremony
<1>2. CASE \E outcome \in {"authorization_failed", "oauth_state_mismatch"} :
             LoginFails(p, outcome, FALSE)
  BY <1>1, <1>2, FailsNow DEF Outcomes
<1>3. ASSUME NEW n \in Answered, OwnState(p, n), n \in Consents,
             call' = [call EXCEPT ![p].at = "exchange", ![p].token = n],
             left' = [left EXCEPT ![p] = 0]
      PROVE  LoginInv'
  <2> DEFINE c == [call[p] EXCEPT !.at = "exchange", !.token = n]
  <2>1. c \in CallState /\ c.at = "exchange" /\ c.token = n
    <3>1. n \in Nat
      BY <1>3, ProcessesAssumption DEF Answered, Attempts
    <3> QED BY <3>1, Sane DEF CallState
  <2>2. call' = [call EXCEPT ![p] = c]
    BY <1>3
  <2>3. CredentialInv'
    BY <1>1, <2>1, <2>2, MovesOn DEF Ceremony
  <2>4. Keeps(p)
    BY <1>1, <1>3, <2>1, <2>2, Sane
       DEF Keeps, Ceremony, OwnState, LoginInv, CredentialInv, CredentialTypeOK
  <2> QED BY <1>3, <2>3, <2>4, KeepsLedger, Sane
<1> QED BY <1>2, <1>3 DEF Callback

(***************************************************************************)
(* The code is presented; whatever the answer, the ceremony is over.       *)
(***************************************************************************)
LEMMA Presented ==
  ASSUME LoginInv, NEW p \in Procs, Exchange(p), UNCHANGED <<clock, calls>>, CredentialInv',
         Own(p), call'[p].at \notin Ceremony, left' \in [Procs -> 0..Patience]
  PROVE  LoginInv'
<1> DEFINE n == attempt[p]
<1>1. /\ n \in Attempts /\ n \in Consents /\ n <= calls /\ presented[n] = << >>
      /\ presented' = [presented EXCEPT ![n] = Append(@, n)]
      /\ UNCHANGED <<attempt, page, calls>>
  BY Sane DEF Exchange, At, Attempting, Ceremony, Consents, Answered, Code
<1>2. presented'[n] = <<n>> /\ \A m \in Attempts \ {n} : presented'[m] = presented[m]
  BY <1>1 DEF LoginInv, CeremonyTypeOK
<1>3. CeremonyTypeOK'
  BY <1>1, <1>2 DEF LoginInv, CeremonyTypeOK
<1>4. Ledger'
  <2>1. n \in Nat /\ calls \in Nat
    BY <1>1, Sane, ProcessesAssumption DEF Attempts
  <2> QED BY <1>1, <1>2, <2>1 DEF LoginInv, Ledger
<1>5. Consents' = Consents
  BY <1>1 DEF Consents, Answered
<1>6. Attempting(p)'
  BY <1>1, Sane DEF Attempting, Alone, Ceremony
<1>7. ASSUME NEW q \in Procs, q # p PROVE Attempting(q)'
  <2>1. Attempting(q) /\ call'[q] = call[q]
    BY <1>7 DEF LoginInv, Own
  <2>2. call[q].at \in Ceremony => attempt[q] \in Attempts \ {n}
    BY <1>7, <2>1, Sane, ProcessesAssumption
       DEF Attempting, Alone, Attempts, LoginInv, CeremonyTypeOK
  <2> QED BY <1>1, <1>2, <1>5, <2>1, <2>2 DEF Attempting, Alone
<1> QED BY <1>3, <1>4, <1>6, <1>7 DEF LoginInv

LEMMA ExchangeStep ==
  ASSUME LoginInv, NEW p \in Procs, Exchange(p), UNCHANGED <<clock, calls>>
  PROVE  LoginInv'
<1>1. /\ sent' = [sent EXCEPT ![p] = 1] /\ UNCHANGED <<barred, saved, committed, spent>>
      /\ call[p].token = attempt[p] /\ attempt[p] \in Consents
  <2>1. call[p].at = "exchange" /\ sent[p] = 0
    BY Sane DEF Exchange, At, Counts, Unsent
  <2> QED BY <2>1, Sane DEF Exchange, Sends, Attempting
<1>2. PICK account \in Accounts : account = page[Code(p)]
  BY <1>1 DEF Consents, Answered, Code, LoginInv, CeremonyTypeOK
<1>3. CredentialInv /\ clock' = clock /\ calls' \in 0..MaxCalls /\ clock' \in 0..MaxTime
  BY Sane DEF LoginInv
<1>4. ASSUME GiveUp(p) PROVE /\ Own(p) /\ Holds(p)' /\ Counts(p)'
                            /\ call'[p].at = "idle" /\ left' \in [Procs -> 0..Patience]
  <2>1. Own(p) /\ Holds(p)' /\ Counts(p)'
    BY <1>1, <1>3, <1>4, EndsOwn, 1 \in Nat DEF GiveUp, LoginFails, Outcomes
  <2>2. call'[p].at = "idle" /\ left' \in [Procs -> 0..Patience]
    BY <1>4, Sane DEF GiveUp, LoginFails, Ends, Rest, LoginInv, CredentialInv, CredentialTypeOK
  <2> QED BY <2>1, <2>2
<1>5. CASE GiveUp(p) /\ UNCHANGED <<owner, expiry, renewable>>
  <2>1. Grows
    BY <1>1, <1>3, <1>5, NothingChanges DEF tokens
  <2>2. CredentialInv'
    BY <1>3, <1>4, <1>5, <2>1, OwnStep
  <2> QED BY <1>4, <1>5, <2>2, Presented DEF Ceremony
<1>6. ASSUME NEW life \in Lives, NEW refresh \in {0, Newest}, Issue(account, life), GiveUp(p),
             renewable' = renewable \cup ({refresh} \ {0})
      PROVE  LoginInv'
  <2>1. Grows
    BY <1>1, <1>3, <1>6, IssueGrows
  <2>2. CredentialInv'
    BY <1>3, <1>4, <1>6, <2>1, OwnStep
  <2> QED BY <1>4, <1>6, <2>2, Presented DEF Ceremony
<1>7. ASSUME NEW life \in Lives, NEW refresh \in {0, Newest}, NEW ends \in {0, life},
             Issue(account, life), Granted(p, refresh, ends), UNCHANGED left
      PROVE  LoginInv'
  <2>1. CredentialInv'
    BY <1>1, <1>3, <1>7, GrantedStep, 1 \in Nat
  <2>2. call'[p].at = "persist" /\ \A q \in Procs \ {p} : call'[q] = call[q]
    BY <1>7 DEF Granted, Rest, LoginInv, CredentialInv, CredentialTypeOK
  <2>3. Own(p)
    BY <1>1, <2>1, <2>2 DEF Own, LoginInv, CredentialInv, CredentialTypeOK
  <2> QED BY <1>7, <2>1, <2>2, <2>3, Presented, Sane DEF Ceremony
<1> QED BY <1>2, <1>5, <1>6, <1>7 DEF Exchange

--------------------------------------------------------------------------------
(***************************************************************************)
(* The other commands, the owner, and the clocks.                          *)
(***************************************************************************)
LEMMA AnswerStep == ASSUME LoginInv, OwnerAnswers PROVE LoginInv'
<1>1. PICK n \in Attempts, answer \in Accounts \cup {"denied"} :
        page[n] = "open" /\ page' = [page EXCEPT ![n] = answer]
  BY DEF OwnerAnswers
<1>2. UNCHANGED <<clock, calls, credentialVars, attempt, left, presented>>
  BY DEF OwnerAnswers, lifecycleVars
<1>3. CredentialInv'
  BY <1>2, TimeKeeps DEF LoginInv, CredentialInv, CredentialTypeOK
<1>4. CeremonyTypeOK' /\ Ledger'
  BY <1>1, <1>2 DEF LoginInv, CeremonyTypeOK, Ledger
<1>5. Consents \subseteq Consents'
  BY <1>1 DEF LoginInv, CeremonyTypeOK, Consents, Answered
<1>6. \A p \in Procs : Attempting(p)'
  BY <1>2, <1>5 DEF LoginInv, Attempting, Alone, credentialVars
<1> QED BY <1>3, <1>4, <1>6 DEF LoginInv

LEMMA OtherStep ==
  ASSUME LoginInv, NEW p \in Procs,
         \/ OtherBegins(p) /\ UNCHANGED ceremony
         \/ CallStep(p) /\ UNCHANGED <<clock, calls, ceremony>>
         \/ LoginDies(p) /\ UNCHANGED <<clock, calls>>
  PROVE  LoginInv'
<1>1. CredentialInv'
  BY OthersKeep, CallKeeps DEF LoginInv, LoginDies
<1>2. left' \in [Procs -> 0..Patience]
  BY Sane DEF LoginDies, ceremony
<1>3. UNCHANGED <<attempt, page, presented>> /\ calls <= calls'
  BY Sane, ProcessesAssumption DEF LoginDies, ceremony, OtherBegins, Resolve, Starts
<1>4. call'[p].at \notin Ceremony /\ \A q \in Procs \ {p} : call'[q] = call[q]
  <2>1. call \in [Procs -> CallState]
    BY DEF LoginInv, CredentialInv, CredentialTypeOK
  <2>2. \A outcome, attempted : Ends(p, outcome, attempted) =>
          call'[p].at \notin Ceremony /\ \A q \in Procs \ {p} : call'[q] = call[q]
    BY <2>1 DEF Ends, Rest, Ceremony
  <2>3. CASE OtherBegins(p)
    BY ZenonT(60), <2>1, <2>2, <2>3
       DEF OtherBegins, Resolve, Load, LoadFails, LoadToRevoke, DeleteLocal, Rest, Ceremony
  <2>4. CASE Persist(p) \/ NoClient(p) \/ RefreshDenied(p) \/ Used(p) \/ Delete(p) \/ CallDies(p)
    BY <2>2, <2>4 DEF Persist, NoClient, RefreshDenied, Unusable, Used, Delete, CallDies
  <2>5. CASE SendRefresh(p)
    BY ZenonT(60), <2>1, <2>2, <2>5 DEF SendRefresh, Unusable, Ceremony, CallState
  <2>6. CASE ReplaceRecord(p)
    <3>1. \A token : [call[p] EXCEPT !.at = "resolved", !.token = token,
                                     !.attempted = TRUE].at = "resolved"
      BY <2>1 DEF CallState
    <3>2. CASE Yields(p, call[p].record.access, TRUE)
      BY <2>1, <3>1, <3>2 DEF Yields, Ceremony
    <3> QED BY <2>2, <2>6, <3>2 DEF ReplaceRecord, NotCommitted
  <2>7. CASE SendRevoke(p)
    BY <2>1, <2>2, <2>7 DEF SendRevoke, Becomes, NotRevoked, Ceremony, CallState
  <2> QED BY <2>3, <2>4, <2>5, <2>6, <2>7 DEF CallStep, ResolveStep, LoginDies
<1>5. Keeps(p)
  BY <1>3, <1>4 DEF Keeps, Ceremony
<1> QED BY <1>1, <1>2, <1>5, KeepsLedger

LEMMA ClockStep ==
  ASSUME LoginInv,
         \/ \E p \in Procs : Elapse(p)
         \/ Tick /\ UNCHANGED <<credentialVars, ceremony>>
         \/ UNCHANGED loginVars
  PROVE  LoginInv'
<1>1. /\ UNCHANGED <<credentialVars, calls, attempt, page, presented>>
      /\ clock' \in 0..MaxTime /\ calls \in 0..MaxCalls
  BY ProcessesAssumption
     DEF Elapse, Tick, loginVars, lifecycleVars, ceremony, LoginInv, CredentialInv, CredentialTypeOK
<1>2. CredentialInv'
  BY <1>1, TimeKeeps DEF LoginInv
<1>3. left' \in [Procs -> 0..Patience]
  <2>1. CASE \E p \in Procs : Elapse(p)
    <3>1. PICK p \in Procs : left[p] > 0 /\ left' = [left EXCEPT ![p] = @ - 1]
      BY <2>1 DEF Elapse
    <3>2. left[p] - 1 \in 0..Patience
      BY <3>1, CeremonyAssumption, Sane
    <3> QED BY <3>1, <3>2, Sane
  <2> QED BY <2>1 DEF loginVars, ceremony, LoginInv, CeremonyTypeOK
<1>4. CeremonyTypeOK' /\ Ledger'
  BY <1>1, <1>3 DEF LoginInv, CeremonyTypeOK, Ledger
<1>5. \A p \in Procs : Attempting(p)'
  BY <1>1 DEF LoginInv, Attempting, Alone, credentialVars, Consents, Answered
<1> QED BY <1>2, <1>4, <1>5 DEF LoginInv

LEMMA LoginBegins == ASSUME LoginInit PROVE LoginInv
<1>1. CredentialInv
  BY InitHolds DEF LoginInit
<1>2. CeremonyTypeOK /\ Ledger
  BY ProcessesAssumption, CeremonyAssumption DEF LoginInit, CeremonyTypeOK, Ledger
<1>3. \A p \in Procs : Attempting(p)
  BY DEF LoginInit, Starting, CredentialInit, Rest, Attempting, Alone, Ceremony
<1> QED BY <1>1, <1>2, <1>3 DEF LoginInv

LEMMA LoginStays == ASSUME LoginInv, [LoginNext]_loginVars PROVE LoginInv'
BY StartStep, WaitStep, OpenStep, CallbackStep, ExchangeStep, AnswerStep, OtherStep, ClockStep
   DEF LoginNext, CeremonyStep

(***************************************************************************)
(* The invariant behind all that follows.                                  *)
(***************************************************************************)
THEOREM LoginIsInductive == LoginSpec => []LoginInv
<1>1. LoginInit => LoginInv
  BY LoginBegins
<1>2. LoginInv /\ [LoginNext]_loginVars => LoginInv'
  BY LoginStays
<1> QED BY <1>1, <1>2, PTL DEF LoginSpec

(***************************************************************************)
(* acquire_user_token presents every code to X at most once, and only in   *)
(* the attempt it was given to, however the callbacks come.                *)
(***************************************************************************)
THEOREM CodesArePresentedOnce == LoginSpec => []CodesOnce
<1>1. LoginInv => CodesOnce
  BY DEF LoginInv, CredentialInv, CeremonyTypeOK, Ledger, CodesOnce, LoginTypeOK
<1> QED BY <1>1, LoginIsInductive, PTL

(***************************************************************************)
(* resolve_user_access_token yields only tokens of committed records that  *)
(* have not expired as far as those know, and none after a failed refresh. *)
(***************************************************************************)
THEOREM TokensAreSound == LoginSpec => []TokenIsSound
<1>1. LoginInv => TokenIsSound
  BY TokensAndAttempts DEF LoginInv
<1> QED BY <1>1, LoginIsInductive, PTL

(***************************************************************************)
(* attempted is the truth about the requests to the token endpoint.        *)
(***************************************************************************)
THEOREM AttemptsAreTold == LoginSpec => []AttemptsTold
<1>1. LoginInv => AttemptsTold
  BY TokensAndAttempts DEF LoginInv
<1> QED BY <1>1, LoginIsInductive, PTL

--------------------------------------------------------------------------------
(***************************************************************************)
(* One process at a time, as docs/specs/0003 requires of the operator: the *)
(* command then works on the record that is in the file.                   *)
(***************************************************************************)
OneProcess == \A p, q \in Procs : p = q

Revoked(record) ==
  IF record.refresh # 0 THEN record.refresh \notin renewable ELSE record.access \in barred

Solo(p) ==
  LET c == call[p] IN
    /\ saved.refresh \notin spent
    /\ c.at \in {"refresh", "revoke", "delete"} => saved = c.record
    /\ c.at \in {"persist", "replace"} =>
         c.record.refresh \notin spent /\ c.record.refresh \notin {saved.refresh} \ {0}
    /\ c.at = "delete" => Revoked(saved)

SoloInv == LoginInv /\ (OneProcess => \A p \in Procs : Solo(p))

LEMMA SoloKeeps ==
  ASSUME NEW p \in Procs, Solo(p), UNCHANGED <<saved, spent>>,
         call'[p].at \notin {"refresh", "revoke", "delete", "persist", "replace"}
  PROVE  Solo(p)'
BY DEF Solo

LEMMA Idles ==
  ASSUME LoginInv, NEW p \in Procs, NEW outcome, NEW attempted, Ends(p, outcome, attempted)
  PROVE  call'[p].at = "idle"
BY DEF Ends, Rest, LoginInv, CredentialInv, CredentialTypeOK

LEMMA FileFacts ==
  ASSUME LoginInv
  PROVE  /\ saved.refresh \in Issued \cup {0} /\ spent \subseteq Issued
         /\ 0 \notin spent /\ Newest \notin Issued /\ Newest \notin spent /\ Newest # 0
<1>1. /\ saved.refresh \in Issued \cup {0} /\ spent \subseteq Issued /\ owner \in Seq(Accounts)
  BY DEF LoginInv, CredentialInv, CredentialTypeOK, FileIsGenuine, Genuine, NoRecord
<1> QED BY <1>1 DEF Issued, Newest

LEMMA CeremonyIsSolo ==
  ASSUME LoginInv, NEW p \in Procs, Solo(p),
         \/ StartLogin(p) \/ Bind(p) \/ OpenPage(p) \/ TimeOut(p) \/ Connect(p) \/ NotForUs(p)
         \/ Callback(p) \/ LoginDies(p)
  PROVE  Solo(p)'
<1>1. UNCHANGED <<saved, spent>>
  BY DEF StartLogin, Bind, OpenPage, TimeOut, Connect, NotForUs, Callback, LoginDies, CallDies,
         Asking, credentialHistory
<1>2. call \in [Procs -> CallState]
  BY DEF LoginInv, CredentialInv, CredentialTypeOK
<1>3. ASSUME NEW place \in {"browser", "listen", "held"}, Becomes(p, place)
      PROVE  call'[p].at = place
  BY <1>2, <1>3 DEF Becomes, CallState
<1>4. ASSUME NEW n, call' = [call EXCEPT ![p].at = "exchange", ![p].token = n]
      PROVE  call'[p].at = "exchange"
  BY <1>2, <1>4 DEF CallState
<1>5. call' = [call EXCEPT ![p] = [Rest EXCEPT !.at = "bind"]] => call'[p].at = "bind"
  BY <1>2 DEF Rest
<1>6. call'[p].at \in {"idle", "bind", "browser", "listen", "held", "exchange"}
  BY <1>3, <1>4, <1>5, Idles
     DEF StartLogin, Bind, OpenPage, TimeOut, Connect, NotForUs, Callback, LoginDies, CallDies,
         LoginFails
<1> QED BY <1>1, <1>6, SoloKeeps

LEMMA GrantIsSolo ==
  ASSUME LoginInv, NEW p \in Procs, Solo(p), Exchange(p)
  PROVE  Solo(p)'
<1>1. UNCHANGED <<saved, spent>>
  BY DEF Exchange
<1>2. CASE GiveUp(p)
  BY <1>1, <1>2, Idles, SoloKeeps DEF GiveUp, LoginFails
<1>3. ASSUME NEW refresh \in {0, Newest}, NEW ends, Granted(p, refresh, ends)
      PROVE  Solo(p)'
  <2>1. call'[p].at = "persist" /\ call'[p].record.refresh = refresh
    BY <1>3 DEF Granted, Rest, LoginInv, CredentialInv, CredentialTypeOK
  <2> QED BY <1>1, <2>1, FileFacts DEF Solo
<1> QED BY <1>2, <1>3 DEF Exchange

LEMMA OthersAreSolo ==
  ASSUME LoginInv, NEW p \in Procs, Solo(p), OtherBegins(p)
  PROVE  Solo(p)'
<1>1. call \in [Procs -> CallState]
  BY DEF LoginInv, CredentialInv, CredentialTypeOK
<1>2. CASE Load(p)
  <2>1. UNCHANGED <<saved, spent>>
    BY <1>2 DEF Load
  <2>2. \/ call'[p].at = "idle" \/ call'[p].at = "resolved"
        \/ call'[p].at = "refresh" /\ call'[p].record = saved
    BY <1>1, <1>2, Idles DEF Load, Rest
  <2> QED BY <2>1, <2>2 DEF Solo
<1>3. CASE LoadFails(p)
  BY <1>3, Idles, SoloKeeps DEF LoadFails
<1>4. CASE LoadToRevoke(p)
  <2>1. UNCHANGED <<saved, spent>>
    BY <1>4 DEF LoadToRevoke
  <2>2. call'[p].at = "idle" \/ (call'[p].at = "revoke" /\ call'[p].record = saved)
    BY <1>1, <1>4, Idles DEF LoadToRevoke, Rest
  <2> QED BY <2>1, <2>2 DEF Solo
<1>5. CASE DeleteLocal(p)
  <2>1. call'[p].at = "idle" /\ spent' = spent /\ (saved' = NoRecord \/ saved' = saved)
    BY <1>5, Idles DEF DeleteLocal
  <2> QED BY <2>1, FileFacts DEF Solo, NoRecord
<1> QED BY <1>2, <1>3, <1>4, <1>5 DEF OtherBegins, Resolve

LEMMA CallIsSolo ==
  ASSUME LoginInv, NEW p \in Procs, Solo(p), CallStep(p)
  PROVE  Solo(p)'
<1> DEFINE c == call[p]
<1>1. call \in [Procs -> CallState] /\ c \in CallState
  BY DEF LoginInv, CredentialInv, CredentialTypeOK
<1>2. CASE NoClient(p) \/ RefreshDenied(p) \/ Used(p)
  BY <1>2, Idles, SoloKeeps DEF NoClient, RefreshDenied, Unusable, Used, credentialHistory
<1>3. CASE Persist(p)
  <2>1. call'[p].at = "idle" /\ spent' = spent
    BY <1>3, Idles DEF Persist
  <2>2. saved'.refresh \in {saved.refresh, c.record.refresh}
    <3>1. c.record \in Record \cup {NoRecord}
      BY <1>1 DEF CallState
    <3>2. \A ends : [c.record EXCEPT !.ends = ends].refresh = c.record.refresh
      BY <3>1 DEF Record, NoRecord
    <3> QED BY <1>3, <3>2 DEF Persist, Commit
  <2> QED BY <1>3, <2>1, <2>2 DEF Solo, Persist, At
<1>4. CASE SendRefresh(p)
  <2>1. UNCHANGED <<saved, spent>>
    BY <1>4 DEF SendRefresh
  <2>2. CASE Unusable(p)
    BY <2>1, <2>2, Idles, SoloKeeps DEF Unusable
  <2>3. ASSUME NEW life, call' = [call EXCEPT ![p].at = "replace", ![p].record = Refreshed(p, life)]
        PROVE  Solo(p)'
    <3>1. call'[p].at = "replace" /\ call'[p].record.refresh = Newest
      BY <1>1, <2>3 DEF CallState, Refreshed
    <3> QED BY <2>1, <3>1, FileFacts DEF Solo
  <2> QED BY <1>4, <2>2, <2>3 DEF SendRefresh
<1>5. CASE ReplaceRecord(p)
  <2>1. CASE NotCommitted(p) /\ UNCHANGED <<saved, committed, spent>>
    BY <2>1, Idles, SoloKeeps DEF NotCommitted
  <2>2. CASE /\ Commit(c.record) /\ spent' = spent \cup ({saved.refresh} \ {0})
             /\ Yields(p, c.record.access, TRUE)
    <3>1. call'[p].at = "resolved"
      BY <1>1, <2>2 DEF Yields, CallState
    <3>2. saved'.refresh \notin spent'
      BY <1>5, <2>2 DEF Solo, Commit, ReplaceRecord, At
    <3> QED BY <3>1, <3>2 DEF Solo
  <2> QED BY <1>5, <2>1, <2>2 DEF ReplaceRecord
<1>6. CASE SendRevoke(p)
  <2>1. UNCHANGED <<saved, spent>> /\ saved = c.record
    BY <1>6 DEF SendRevoke, Solo, At
  <2>2. CASE NotRevoked(p)
    BY <2>1, <2>2, Idles, SoloKeeps DEF NotRevoked
  <2>3. CASE /\ Becomes(p, "delete")
             /\ IF c.record.refresh # 0
                THEN renewable' = renewable \ {c.record.refresh} /\ UNCHANGED barred
                ELSE barred' = barred \cup {c.record.access} /\ UNCHANGED renewable
    <3>1. call'[p].at = "delete" /\ call'[p].record = c.record
      BY <1>1, <2>3 DEF Becomes, CallState
    <3>2. Revoked(saved)'
      BY <2>1, <2>3 DEF Revoked
    <3> QED BY <2>1, <3>1, <3>2 DEF Solo
  <2> QED BY <1>6, <2>2, <2>3 DEF SendRevoke
<1>7. CASE Delete(p)
  <2>1. call'[p].at = "idle" /\ spent' = spent /\ (saved' = NoRecord \/ saved' = saved)
    BY <1>7, Idles DEF Delete, credentialHistory
  <2> QED BY <2>1, FileFacts DEF Solo, NoRecord
<1> QED BY <1>2, <1>3, <1>4, <1>5, <1>6, <1>7 DEF CallStep, ResolveStep

LEMMA SoloStays ==
  ASSUME SoloInv, [LoginNext]_loginVars PROVE SoloInv'
<1>1. LoginInv /\ LoginInv'
  BY LoginStays DEF SoloInv
<1>2. ASSUME OneProcess, NEW p \in Procs PROVE Solo(p)'
  <2>1. Solo(p) /\ \A q \in Procs : q = p
    BY <1>2 DEF SoloInv, OneProcess
  <2>2. CASE UNCHANGED credentialVars
    BY <2>1, <2>2 DEF Solo, Revoked, credentialVars, tokens, credentialHistory
  <2>3. CASE \E q \in Procs :
               \/ StartLogin(q)
               \/ CeremonyStep(q) \/ Connect(q) \/ NotForUs(q) \/ Callback(q) \/ LoginDies(q)
    BY <1>1, <2>1, <2>3, CeremonyIsSolo, GrantIsSolo DEF CeremonyStep
  <2>4. CASE \E q \in Procs : OtherBegins(q) \/ CallStep(q)
    BY <1>1, <2>1, <2>4, OthersAreSolo, CallIsSolo
  <2> QED BY <2>2, <2>3, <2>4
          DEF LoginNext, Elapse, OwnerAnswers, lifecycleVars, loginVars
<1> QED BY <1>1, <1>2 DEF SoloInv, OneProcess

(***************************************************************************)
(* With one process at a time, a command of the lifecycle goes on with the *)
(* record that is in the file, from its look to its last effect.           *)
(***************************************************************************)
THEOREM SoloIsInductive == LoginSpec => []SoloInv
<1>1. LoginInit => SoloInv
  <2> SUFFICES ASSUME LoginInit PROVE SoloInv
    OBVIOUS
  <2>1. \A p \in Procs : Solo(p)
    BY DEF LoginInit, CredentialInit, Rest, NoRecord, Solo
  <2> QED BY <2>1, LoginBegins DEF SoloInv
<1>2. SoloInv /\ [LoginNext]_loginVars => SoloInv'
  BY SoloStays
<1> QED BY <1>1, <1>2, PTL DEF LoginSpec

(***************************************************************************)
(* _refresh never presents a refresh token again once its successor is in  *)
(* the file, whatever crashed or failed between, for one process at a time.*)
(***************************************************************************)
THEOREM SpentTokensStaySpent == OneProcess => (LoginSpec => SpentStaysSpent)
<1> SUFFICES ASSUME OneProcess PROVE LoginSpec => SpentStaysSpent
  OBVIOUS
<1>1. SoloInv => \A p \in Procs : At(p, "refresh") => call[p].record.refresh \notin spent
  BY DEF SoloInv, Solo, At
<1>2. SoloInv => [\A p \in Procs : sent'[p] = sent[p] + 1 /\ At(p, "refresh") =>
                    call[p].record.refresh \notin spent]_lifecycleVars
  BY <1>1
<1> QED BY <1>2, SoloIsInductive, PTL DEF SpentStaysSpent

(***************************************************************************)
(* revoke_persisted_credential deletes the file only when X has confirmed  *)
(* the revocation of the token that is in it, for one process at a time.   *)
(***************************************************************************)
THEOREM RemovedTokensAreRevoked == OneProcess => (LoginSpec => RemovedIsRevoked)
<1> SUFFICES ASSUME OneProcess PROVE LoginSpec => RemovedIsRevoked
  OBVIOUS
<1>1. SoloInv => \A p \in Procs : At(p, "delete") => Revoked(saved)
  BY DEF SoloInv, Solo, At
<1>2. SoloInv => [\A p \in Procs : At(p, "delete") /\ saved # NoRecord /\ saved' = NoRecord =>
                    IF saved.refresh # 0 THEN saved.refresh \notin renewable
                    ELSE saved.access \in barred]_lifecycleVars
  BY <1>1 DEF Revoked
<1> QED BY <1>2, SoloIsInductive, PTL DEF RemovedIsRevoked
================================================================================
