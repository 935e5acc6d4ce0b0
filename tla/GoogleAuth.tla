------------------------------- MODULE GoogleAuth -------------------------------
EXTENDS Processes, Sequences
(***************************************************************************)
(* The authorization of the Drive publisher: google_auth.py, its protected *)
(* file, and Google's token endpoint as far as the program uses it.        *)
(* Provider.access_token serves the unattended runs; bootstrap is the one  *)
(* explicit ceremony, with a browser and a loopback listener.              *)
(*                                                                         *)
(* Tokens are numbered in the order Google issues them.  Number n is an    *)
(* access token, and also the refresh token that came with it if one did;  *)
(* 0 is no token.  A later grant has a larger number than an earlier one.  *)
(* A request that is not the callback of this attempt is answered with 400 *)
(* and changes nothing, so it does not appear; a client that connects and  *)
(* sends nothing does, because handle_request waits for it.                *)
(***************************************************************************)
CONSTANTS
  Window,     \* the 300 seconds a saved access token must still have
  Lives,      \* values of expires_in
  Delay,      \* how long an exchange takes at most: the request's timeout
  Patience,   \* the 180 seconds of bootstrap's deadline
  MaxFaults   \* bound on what goes wrong

ASSUME GoogleAssumption ==
  /\ Window \in Nat /\ Lives \subseteq Nat \ {0} /\ MaxFaults \in Nat
  /\ Delay \in 0..Window /\ Patience \in Nat \ {0}

VARIABLES
  \* Google
  expiry,     \* expiry[n]: when Google stops accepting access token n
  renewable,  \* the refresh tokens Google accepts
  \* the credential file
  saved,
  \* the processes
  session,
  faults,
  \* history variables
  committed,  \* every record that was ever in the file
  late        \* late[p]: the file changed since p loaded it

google == <<expiry, renewable>>
googleHistory == <<committed, late>>
googleVars == <<clock, calls, google, saved, session, faults, googleHistory>>

Issued == DOMAIN expiry
Newest == Len(expiry) + 1
NoGrant == [access |-> 0, refresh |-> 0, ends |-> 0]
Grant == [access : 1..MaxCalls, refresh : 1..MaxCalls, ends : Nat]

Away == [at |-> "idle", record |-> NoGrant, stamp |-> 0, token |-> 0, renewed |-> FALSE,
         until |-> 0]

GoogleInit ==
  /\ Starting
  /\ expiry = << >> /\ renewable = {} /\ saved = NoGrant /\ faults = 0
  /\ session = [p \in Procs |-> Away]
  /\ committed = {} /\ late = [p \in Procs |-> FALSE]

In(p, place) == session[p].at = place
Moves(p, place) == session' = [session EXCEPT ![p].at = place]
Leaves(p) == session' = [session EXCEPT ![p] = Away]

Fault(kind) == kind \in Faults /\ faults < MaxFaults /\ faults' = faults + 1

--------------------------------------------------------------------------------
(***************************************************************************)
(* access_token: the saved token if it has more than the window left, else *)
(* a new one.  The clock is read once, before the request.                 *)
(***************************************************************************)
Fresh(record) == record.ends > clock + Window

Ask(p) ==
  /\ In(p, "idle") /\ Starts
  /\ session' = [session EXCEPT ![p] = [Away EXCEPT !.at = "load"]]
  /\ UNCHANGED <<google, saved, faults, googleHistory>>

Remembered == committed \cup {saved}                  \* a fault for the checks
OnFile == {saved}

LoadGrant(p) ==
  /\ In(p, "load")
  /\ \E record \in OnFile :
       \/ record = NoGrant /\ Leaves(p)
       \/ /\ record # NoGrant /\ Fresh(record)
          /\ session' = [session EXCEPT ![p] = [Away EXCEPT !.at = "handed",
                          !.stamp = clock, !.token = record.access]]
       \/ /\ record # NoGrant /\ ~Fresh(record)
          /\ session' = [session EXCEPT ![p] = [Away EXCEPT !.at = "refresh",
                          !.record = record, !.stamp = clock, !.renewed = TRUE]]
  /\ late' = [late EXCEPT ![p] = FALSE]
  /\ UNCHANGED <<google, saved, faults, committed>>

LoadGrantFails(p) ==
  /\ In(p, "load") /\ Fault("disk")
  /\ Leaves(p)
  /\ UNCHANGED <<google, saved, googleHistory>>

(***************************************************************************)
(* _result for a refresh: Google normally sends no new refresh token, and  *)
(* the old one is kept.                                                    *)
(***************************************************************************)
MustRotate(old, sent) == sent                         \* a fault for the checks
KeepOld(old, sent) == IF sent = 0 THEN old ELSE sent

Issue(life) == expiry' = Append(expiry, clock + life)

\* A record needs a refresh token, or it is no credential.
Result(p, refresh, ends) ==
  IF refresh = 0 THEN Leaves(p)
  ELSE session' = [session EXCEPT ![p].at = "save",
         ![p].record = [access |-> Newest, refresh |-> refresh, ends |-> ends]]

Renewal(p, rotates) ==
  LET old == session[p].record.refresh IN
    /\ renewable' = IF rotates THEN (renewable \ {old}) \cup {Newest} ELSE renewable
    /\ \E life \in Lives :
         /\ Issue(life)
         /\ \/ /\ Result(p, KeepOld(old, IF rotates THEN Newest ELSE 0), session[p].stamp + life)
               /\ UNCHANGED faults
            \/ Fault("lost") /\ Leaves(p)

SendRenewal(p) ==
  /\ In(p, "refresh") /\ session[p].record.refresh \in renewable
  /\ \/ Renewal(p, FALSE)
     \/ "rotate" \in Faults /\ Renewal(p, TRUE)
  /\ UNCHANGED <<saved, googleHistory>>

RenewalDenied(p) ==
  /\ In(p, "refresh")
  /\ \/ session[p].record.refresh \notin renewable /\ UNCHANGED faults
     \/ Fault("refuse")
  /\ Leaves(p)
  /\ UNCHANGED <<google, saved, googleHistory>>

(***************************************************************************)
(* Store.save and atomic_write: one replacement, read back.  A failure may *)
(* come before it or after it, and the caller is told neither which.       *)
(***************************************************************************)
Saves(p) ==
  IF session[p].renewed
  THEN session' = [session EXCEPT ![p] = [Away EXCEPT !.at = "handed",
                     !.stamp = session[p].stamp, !.token = session[p].record.access]]
  ELSE Leaves(p)

ReplaceGrant(p) ==
  /\ In(p, "save")
  /\ saved' = session[p].record
  /\ committed' = committed \cup {session[p].record}
  /\ late' = [q \in Procs |-> late[q] \/ q # p]
  /\ Moves(p, "readback")
  /\ UNCHANGED <<google, faults>>

UsesAnyway(p) == Saves(p)                             \* a fault for the checks
Unsaved(p) == Leaves(p)

ReplaceGrantFails(p) ==
  /\ In(p, "save") /\ Fault("disk")
  /\ Unsaved(p)
  /\ UNCHANGED <<google, saved, googleHistory>>

ReadGrantBack(p) ==
  /\ In(p, "readback")
  /\ IF saved = session[p].record THEN Saves(p) ELSE Unsaved(p)
  /\ UNCHANGED <<google, saved, faults, googleHistory>>

ReadGrantBackFails(p) ==
  /\ In(p, "readback") /\ Fault("disk")
  /\ Leaves(p)
  /\ UNCHANGED <<google, saved, googleHistory>>

Spend(p) ==
  /\ In(p, "handed")
  /\ Leaves(p)
  /\ UNCHANGED <<google, saved, faults, googleHistory>>

--------------------------------------------------------------------------------
(***************************************************************************)
(* bootstrap, after the approval and the client configuration: refused     *)
(* where there is a credential, unless the owner reauthorizes.  The bound  *)
(* on the clock leaves room for the deadline.                              *)
(***************************************************************************)
Bootstrap(p, reauthorize) ==
  /\ In(p, "idle") /\ Starts /\ clock + Patience <= MaxTime
  /\ IF saved # NoGrant /\ ~reauthorize THEN Leaves(p)
     ELSE session' = [session EXCEPT ![p] = [Away EXCEPT !.at = "browser"]]
  /\ late' = [late EXCEPT ![p] = FALSE]
  /\ UNCHANGED <<google, saved, faults, committed>>

OpenBrowser(p) ==
  /\ In(p, "browser")
  /\ session' = [session EXCEPT ![p].at = "listen", ![p].until = clock + Patience]
  /\ UNCHANGED <<google, saved, faults, googleHistory>>

(***************************************************************************)
(* The loop on handle_request: the callback of this attempt with its code, *)
(* or the deadline.  A client that connects and is silent holds the loop   *)
(* until it lets go, or is the browser and sends the callback after all.   *)
(***************************************************************************)
Accepts(p) == session' = [session EXCEPT ![p] = [Away EXCEPT !.at = "exchange"]]
Waits(p) == In(p, "listen") /\ clock < session[p].until

Callback(p) ==
  /\ Waits(p) /\ Accepts(p)
  /\ UNCHANGED <<google, saved, faults, googleHistory>>

Holds(p) ==
  /\ Waits(p) /\ Fault("silent") /\ Moves(p, "held")
  /\ UNCHANGED <<google, saved, googleHistory>>

LetsGo(p) ==
  /\ In(p, "held")
  /\ Moves(p, "listen") \/ Accepts(p)
  /\ UNCHANGED <<google, saved, faults, googleHistory>>

Expired(p) == clock >= session[p].until

Expire(p) ==
  /\ In(p, "listen") /\ Expired(p)
  /\ Leaves(p)
  /\ UNCHANGED <<google, saved, faults, googleHistory>>

BrowserFails(p) ==
  /\ In(p, "browser") /\ Fault("refuse")
  /\ Leaves(p)
  /\ UNCHANGED <<google, saved, googleHistory>>

(***************************************************************************)
(* The exchange of the code: Google issues a grant, and the answer is here *)
(* within Delay.  Only then is the clock read, so that the record's end is *)
(* later than Google's.                                                    *)
(***************************************************************************)
Exchange(p) ==
  /\ In(p, "exchange")
  /\ \E life \in Lives :
       /\ Issue(life)
       /\ session' = [session EXCEPT ![p].at = "answer", ![p].until = clock + Delay,
                         ![p].record = [access |-> Newest, refresh |-> Newest, ends |-> life]]
  /\ renewable' = renewable \cup {Newest}
  /\ UNCHANGED <<saved, faults, googleHistory>>

Receive(p) ==
  /\ In(p, "answer")
  /\ session' = [session EXCEPT ![p].at = "save", ![p].until = 0, ![p].record.ends = clock + @]
  /\ UNCHANGED <<google, saved, faults, googleHistory>>

ExchangeFails(p) ==
  /\ \/ In(p, "exchange") /\ Fault("refuse")
     \/ In(p, "answer") /\ Fault("lost")
  /\ Leaves(p)
  /\ UNCHANGED <<google, saved, googleHistory>>

SessionDies(p) ==
  /\ ~In(p, "idle") /\ Fault("crash")
  /\ Leaves(p)
  /\ UNCHANGED <<google, saved, googleHistory>>

(***************************************************************************)
(* The owner takes the authorization back, or it reaches its age.          *)
(***************************************************************************)
Withdraw ==
  /\ Fault("withdraw") /\ renewable # {}
  /\ \E n \in renewable : renewable' = {m \in renewable : m > n}
  /\ UNCHANGED <<clock, calls, expiry, saved, session, googleHistory>>

--------------------------------------------------------------------------------
AccessStep(p) ==
  \/ LoadGrant(p) \/ LoadGrantFails(p) \/ SendRenewal(p) \/ RenewalDenied(p) \/ Spend(p)
SaveStep(p) ==
  ReplaceGrant(p) \/ ReplaceGrantFails(p) \/ ReadGrantBack(p) \/ ReadGrantBackFails(p)
BootstrapStep(p) ==
  \/ OpenBrowser(p) \/ BrowserFails(p) \/ Expire(p)
  \/ Exchange(p) \/ Receive(p) \/ ExchangeFails(p)

SessionStep(p) ==
  (AccessStep(p) \/ SaveStep(p) \/ BootstrapStep(p)) /\ UNCHANGED <<clock, calls>>
ClientStep(p) == LetsGo(p) /\ UNCHANGED <<clock, calls>>

TimePasses ==
  /\ \A p \in Procs : In(p, "answer") => clock < session[p].until
  /\ \A p \in Procs : In(p, "browser") => clock + Patience < MaxTime
  /\ Tick /\ UNCHANGED <<google, saved, session, faults, googleHistory>>

GoogleNext ==
  \/ \E p \in Procs :
       \/ Ask(p) \/ Bootstrap(p, FALSE) \/ Bootstrap(p, TRUE)
       \/ SessionStep(p) \/ ClientStep(p)
       \/ (Callback(p) \/ Holds(p) \/ SessionDies(p)) /\ UNCHANGED <<clock, calls>>
  \/ Withdraw \/ TimePasses

(***************************************************************************)
(* A process goes on, the clock too, and a client that is silent does not  *)
(* keep its connection for ever; nobody has to consent.                    *)
(***************************************************************************)
GoogleSpec ==
  /\ GoogleInit /\ [][GoogleNext]_googleVars
  /\ WF_googleVars(TimePasses)
  /\ \A p \in Procs : WF_googleVars(SessionStep(p)) /\ WF_googleVars(ClientStep(p))

--------------------------------------------------------------------------------
Session ==
  [at : {"idle", "load", "refresh", "handed", "save", "readback", "browser", "listen",
         "held", "exchange", "answer"},
   record : Grant \cup {NoGrant}, stamp : Nat, token : 0..MaxCalls,
   renewed : BOOLEAN, until : Nat]

GoogleTypeOK ==
  /\ clock \in 0..MaxTime /\ calls \in 0..MaxCalls /\ faults \in 0..MaxFaults
  /\ expiry \in Seq(Nat) /\ Len(expiry) <= calls /\ renewable \subseteq Issued
  /\ saved \in Grant \cup {NoGrant} /\ committed \subseteq Grant
  /\ session \in [Procs -> Session] /\ late \in [Procs -> BOOLEAN]

(***************************************************************************)
(* A token is handed out only after it was saved, and Google still accepts *)
(* it at the time the provider read the clock, although the end that       *)
(* bootstrap saves is later than Google's by the time of the exchange.     *)
(***************************************************************************)
LiveWhenRead ==
  GoogleTypeOK /\
  \A p \in Procs : In(p, "handed") =>
    /\ \E record \in committed : record.access = session[p].token
    /\ expiry[session[p].token] > session[p].stamp

(***************************************************************************)
(* A save never goes back to an earlier grant of the owner, so that a      *)
(* reauthorization sticks, unless the file changed while the process that  *)
(* saves was waiting for Google.                                           *)
(***************************************************************************)
ReauthorizationSticks ==
  [][saved' # saved /\ saved # NoGrant
       /\ (\A p \in Procs : In(p, "save") /\ session'[p].at = "readback" => ~late[p])
     => saved'.refresh >= saved.refresh]_googleVars

(***************************************************************************)
(* bootstrap comes to an end although nobody consents; and whatever failed *)
(* or died before, a run renews its access without a browser as long as    *)
(* Google accepts the refresh token that is in the file.  LastOne is a run *)
(* in which nothing more goes wrong and nobody else is there.              *)
(***************************************************************************)
LastOne(p) ==
  /\ In(p, "load") /\ calls = MaxCalls /\ faults = MaxFaults
  /\ \A q \in Procs \ {p} : In(q, "idle")
RenewsAlone ==
  /\ \A p \in Procs : In(p, "listen") ~> In(p, "idle")
  /\ \A p \in Procs : (LastOne(p) /\ saved.refresh \in renewable) ~> In(p, "handed")
================================================================================
