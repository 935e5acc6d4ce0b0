----------------------------- MODULE LoginCeremony -----------------------------
EXTENDS Credentials
(***************************************************************************)
(* auth login as oauth.py runs it, in the place of Credentials' Login:     *)
(* bind the one registered port of the loopback interface, open the        *)
(* system's browser, wait for one callback until a deadline, validate it,  *)
(* and present its code to X once.                                         *)
(*                                                                         *)
(* An attempt is known by the number of its command; its state and its     *)
(* verifier are its own.  The page of an attempt stays in the owner's      *)
(* browser when the attempt is over and can send its callback at any time, *)
(* and again when it is reloaded.  The deadline is on a monotonic clock,   *)
(* of which only the time left matters.                                    *)
(***************************************************************************)
CONSTANT
  Patience    \* the 120 seconds of acquire_user_token

ASSUME CeremonyAssumption == Patience \in Nat \ {0}

VARIABLES
  attempt,    \* attempt[p]: the attempt p makes
  left,       \* left[p]: the time p's listener has left
  page,       \* page[n]: what X answered to attempt n, if its page was opened
  presented   \* history: presented[n], the attempts that presented n's code to X

ceremony == <<attempt, left, page, presented>>
loginVars == <<lifecycleVars, ceremony>>

Attempts == 1..MaxCalls

LoginInit ==
  /\ Starting /\ CredentialInit
  /\ attempt = [p \in Procs |-> 0] /\ left = [p \in Procs |-> 0]
  /\ page = [n \in Attempts |-> "closed"] /\ presented = [n \in Attempts |-> << >>]

\* Nothing of X's tokens and of the credential file changes.
Asking == UNCHANGED <<tokens, saved, committed, spent>>

LoginFails(p, category, attempted) ==
  /\ Ends(p, category, attempted)
  /\ left' = [left EXCEPT ![p] = 0]

(***************************************************************************)
(* _run_auth_login: the configuration, then a fresh attempt.               *)
(***************************************************************************)
StartLogin(p) ==
  /\ At(p, "idle") /\ Starts
  /\ \/ /\ call' = [call EXCEPT ![p] = [Rest EXCEPT !.at = "bind"]]
        /\ attempt' = [attempt EXCEPT ![p] = calls']
     \/ "refuse" \in Faults /\ Ends(p, "configuration_error", FALSE) /\ UNCHANGED attempt
  /\ sent' = [sent EXCEPT ![p] = 0]
  /\ Asking /\ UNCHANGED <<left, page, presented>>

Bind(p) ==
  /\ At(p, "bind")
  /\ \/ Becomes(p, "browser") /\ UNCHANGED left
     \/ "refuse" \in Faults /\ LoginFails(p, "callback_listener_failed", FALSE)
  /\ Asking /\ UNCHANGED <<sent, attempt, page, presented>>

OpenPage(p) ==
  /\ At(p, "browser")
  /\ \/ /\ Becomes(p, "listen") /\ left' = [left EXCEPT ![p] = Patience]
        /\ page' = [page EXCEPT ![attempt[p]] = "open"]
     \/ "refuse" \in Faults /\ LoginFails(p, "browser_launch_failed", FALSE) /\ UNCHANGED page
  /\ Asking /\ UNCHANGED <<sent, attempt, presented>>

(***************************************************************************)
(* wait_for_callback.  A connection holds the listener until its request   *)
(* is there, past the deadline too.  A request that is not for the         *)
(* callback's path, or no request, leaves the listener waiting; any that   *)
(* is ends the wait, whichever attempt its page belongs to.                *)
(***************************************************************************)
Connect(p) ==
  /\ At(p, "listen") /\ left[p] > 0
  /\ Becomes(p, "held")
  /\ Asking /\ UNCHANGED <<sent, ceremony>>

StartAgain(p) == left' = [left EXCEPT ![p] = Patience]  \* a fault for the checks
WaitOn(p) == UNCHANGED left

NotForUs(p) ==
  /\ At(p, "held")
  /\ Becomes(p, "listen") /\ WaitOn(p)
  /\ Asking /\ UNCHANGED <<sent, attempt, page, presented>>

(***************************************************************************)
(* _validate_callback: the state is the attempt's own, X consented, and    *)
(* there is a code.                                                        *)
(***************************************************************************)
Answered == {n \in Attempts : page[n] \notin {"closed", "open"}}
Consents == {n \in Answered : page[n] # "denied"}

AnyState(p, n) == TRUE                                \* a fault for the checks
OwnState(p, n) == n = attempt[p]

Callback(p) ==
  /\ At(p, "held")
  /\ \E n \in Answered :
       \/ /\ OwnState(p, n) /\ n \in Consents
          /\ call' = [call EXCEPT ![p].at = "exchange", ![p].token = n]
          /\ left' = [left EXCEPT ![p] = 0]
       \/ OwnState(p, n) /\ n \notin Consents /\ LoginFails(p, "authorization_failed", FALSE)
       \/ ~OwnState(p, n) /\ LoginFails(p, "oauth_state_mismatch", FALSE)
  /\ Asking /\ UNCHANGED <<sent, attempt, page, presented>>

TimeOut(p) ==
  /\ At(p, "listen") /\ left[p] = 0
  /\ LoginFails(p, "oauth_callback_timeout", FALSE)
  /\ Asking /\ UNCHANGED <<sent, attempt, page, presented>>

(***************************************************************************)
(* exchange_callback: the attempt is complete before the request is sent,  *)
(* whatever becomes of it.  X takes a code once, and only with the         *)
(* verifier of its own attempt.  auth login gives up a grant without a     *)
(* refresh token or a lifetime; who calls acquire_user_token and           *)
(* persist_oauth_result, without the command, may save one.                *)
(***************************************************************************)
GiveUp(p) == LoginFails(p, "provider_error", TRUE)

\* Until the exchange the call's token is the code, known by its attempt.
Code(p) == call[p].token

Exchange(p) ==
  /\ At(p, "exchange")
  /\ Sends(p)
  /\ presented' = [presented EXCEPT ![Code(p)] = Append(@, attempt[p])]
  /\ \/ /\ presented[Code(p)] = << >> /\ Code(p) = attempt[p]
        /\ \E life \in Lives, refresh \in {0, Newest} :
             /\ Issue(page[Code(p)], life)
             /\ \/ \E ends \in {0, life} : Granted(p, refresh, ends) /\ UNCHANGED left
                \/ /\ {"refuse", "lost"} \cap Faults # {} /\ GiveUp(p)
                   /\ renewable' = renewable \cup ({refresh} \ {0})
     \/ /\ "refuse" \in Faults \/ presented[Code(p)] # << >> \/ Code(p) # attempt[p]
        /\ GiveUp(p)
        /\ UNCHANGED <<owner, expiry, renewable>>
  /\ UNCHANGED <<barred, saved, committed, spent, attempt, page>>

CeremonyStep(p) ==
  Bind(p) \/ OpenPage(p) \/ TimeOut(p) \/ Exchange(p)

--------------------------------------------------------------------------------
(***************************************************************************)
(* The owner answers X on the page, and time passes for the listener.      *)
(***************************************************************************)
OwnerAnswers ==
  /\ \E n \in Attempts :
       /\ page[n] = "open"
       /\ page' \in {[page EXCEPT ![n] = answer] : answer \in Accounts \cup {"denied"}}
  /\ UNCHANGED <<lifecycleVars, attempt, left, presented>>

Elapse(p) ==
  /\ left[p] > 0 /\ left' = [left EXCEPT ![p] = @ - 1]
  /\ UNCHANGED <<lifecycleVars, attempt, page, presented>>

LoginDies(p) ==
  /\ "crash" \in Faults /\ CallDies(p)
  /\ left' = [left EXCEPT ![p] = 0]
  /\ UNCHANGED <<attempt, page, presented>>

LoginNext ==
  \/ \E p \in Procs :
       \/ StartLogin(p)
       \/ (CeremonyStep(p) \/ Connect(p) \/ NotForUs(p) \/ Callback(p) \/ LoginDies(p))
          /\ UNCHANGED <<clock, calls>>
       \/ OtherBegins(p) /\ UNCHANGED ceremony
       \/ CallStep(p) /\ UNCHANGED <<clock, calls, ceremony>>
       \/ Elapse(p)
  \/ OwnerAnswers
  \/ Tick /\ UNCHANGED <<credentialVars, ceremony>>

(***************************************************************************)
(* The process goes on, its clock too, and whoever has connected does not  *)
(* hold the connection for ever.  Nobody has to answer.                    *)
(***************************************************************************)
LetsGo(p) == (NotForUs(p) \/ Callback(p)) /\ UNCHANGED <<clock, calls>>

LoginSpec ==
  /\ LoginInit /\ [][LoginNext]_loginVars
  /\ \A p \in Procs :
       /\ WF_loginVars(CeremonyStep(p) /\ UNCHANGED <<clock, calls>>)
       /\ WF_loginVars(Persist(p) /\ UNCHANGED <<clock, calls, ceremony>>)
       /\ WF_loginVars(LetsGo(p)) /\ WF_loginVars(Elapse(p))

--------------------------------------------------------------------------------
LoginTypeOK ==
  /\ CredentialTypeOK
  /\ attempt \in [Procs -> 0..MaxCalls] /\ left \in [Procs -> 0..Patience]
  /\ page \in [Attempts -> {"closed", "open", "denied"} \cup Accounts]

(***************************************************************************)
(* Every code is presented to X at most once, by the attempt it was given  *)
(* to, over all attempts, crashes, lost responses and callbacks that come  *)
(* late or again from an earlier attempt's page.                           *)
(***************************************************************************)
CodesOnce ==
  LoginTypeOK /\ \A n \in Attempts : presented[n] \in {<< >>, <<n>>}

(***************************************************************************)
(* A login comes to an end: with no answer, with pages that keep asking    *)
(* for something else, and with a connection that outlasts the deadline.   *)
(***************************************************************************)
CeremonyEnds == \A p \in Procs : At(p, "bind") ~> At(p, "idle")
================================================================================
