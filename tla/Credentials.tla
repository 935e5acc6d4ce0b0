------------------------------ MODULE Credentials ------------------------------
EXTENDS Processes, Sequences
(***************************************************************************)
(* The lifecycle of the X user credential: credential_lifecycle.py, its    *)
(* one protected file, and X's token endpoints as far as the program uses  *)
(* them.  A step is one file operation or one request, so that a crash, a  *)
(* lost response or another process may fall between any two.              *)
(*                                                                         *)
(* Tokens are numbered in the order X issues them: number n is an access   *)
(* token and the refresh token that comes with it, 0 is no token.  Whether *)
(* X still accepts a refresh token that was used is left open, as in       *)
(* docs/specs/0003-credential-lifecycle.md.                                *)
(***************************************************************************)
CONSTANTS
  Accounts,   \* users who may grant the authorization
  Window,     \* REFRESH_WINDOW_SECONDS
  Lives,      \* values of expires_in
  MaxTokens   \* bound on the tokens X issues

ASSUME CredentialsAssumption ==
  Window \in Nat /\ Lives \subseteq Nat \ {0} /\ MaxTokens \in Nat

VARIABLES
  \* X
  owner,      \* owner[n]: the account of token n, for the tokens issued
  renewable,  \* the refresh tokens X accepts
  barred,     \* the access tokens X has revoked
  expiry,     \* expiry[n]: when X stops accepting access token n
  \* the credential file
  saved,
  \* the processes
  call,
  \* history variables
  committed,  \* every record that was ever in the file
  spent,      \* refresh tokens whose successor was committed
  sent        \* sent[p]: requests for tokens p has sent in its present command

tokens == <<owner, renewable, barred, expiry>>
credentialHistory == <<committed, spent, sent>>
credentialVars == <<tokens, saved, call, credentialHistory>>
lifecycleVars == <<clock, calls, credentialVars>>

Tokens == 1..MaxTokens
Issued == DOMAIN owner
NoRecord == [access |-> 0, refresh |-> 0, ends |-> 0]
Record == [access : Tokens, refresh : 0..MaxTokens, ends : Nat]

Rest == [at |-> "idle", record |-> NoRecord, stamp |-> 0, token |-> 0,
         attempted |-> FALSE, outcome |-> "none"]

CredentialInit ==
  /\ owner = << >> /\ renewable = {} /\ barred = {} /\ expiry = << >>
  /\ saved = NoRecord
  /\ call = [p \in Procs |-> Rest]
  /\ committed = {} /\ spent = {} /\ sent = [p \in Procs |-> 0]

At(p, place) == call[p].at = place
Becomes(p, place) == call' = [call EXCEPT ![p].at = place]

(***************************************************************************)
(* A command's credential work is over: with a token to use, or without.   *)
(***************************************************************************)
Yields(p, token, attempted) ==
  call' = [call EXCEPT ![p].at = "resolved", ![p].token = token,
                       ![p].attempted = attempted]
Ends(p, outcome, attempted) ==
  call' = [call EXCEPT ![p] = [Rest EXCEPT !.outcome = outcome,
                                           !.attempted = attempted]]

(***************************************************************************)
(* X issues the next token to an account.                                  *)
(***************************************************************************)
Issue(account, life) ==
  /\ Len(owner) < MaxTokens
  /\ owner' = Append(owner, account)
  /\ expiry' = Append(expiry, clock + life)
Newest == Len(owner) + 1

(***************************************************************************)
(* DPAPIFileCredentialStore.replace: the whole record or nothing of it.    *)
(***************************************************************************)
Commit(record) ==
  /\ saved' = record
  /\ committed' = committed \cup {record}

--------------------------------------------------------------------------------
(***************************************************************************)
(* A grant is issued, with a refresh token and a lifetime or without, and  *)
(* persist_oauth_result reads the clock and puts it into the file; what it *)
(* reports says nothing of requests.  auth login wants both.  Login is its *)
(* ceremony in one step, for the modules that are not about it;            *)
(* LoginCeremony has all of it.                                            *)
(***************************************************************************)
Granted(p, refresh, ends) ==
  /\ call' = [call EXCEPT ![p] = [Rest EXCEPT !.at = "persist",
                !.record = [access |-> Newest, refresh |-> refresh, ends |-> ends]]]
  /\ renewable' = renewable \cup ({refresh} \ {0})

Login(p) ==
  /\ At(p, "idle")
  /\ \/ \E account \in Accounts, life \in Lives :
          Issue(account, life) /\ Granted(p, Newest, life)
     \/ "refuse" \in Faults /\ Ends(p, "provider_error", TRUE)
        /\ UNCHANGED <<owner, expiry, renewable>>
  /\ sent' = [sent EXCEPT ![p] = 1]
  /\ UNCHANGED <<barred, saved, committed, spent>>

Persist(p) ==
  /\ At(p, "persist")
  /\ \/ Commit([call[p].record EXCEPT !.ends = IF @ = 0 THEN 0 ELSE clock + @]) /\ Ends(p, "logged_in", FALSE)
     \/ "disk" \in Faults /\ Ends(p, "not_persisted", FALSE)
        /\ UNCHANGED <<saved, committed>>
  /\ UNCHANGED <<tokens, spent, sent>>

--------------------------------------------------------------------------------
(***************************************************************************)
(* resolve_user_access_token without the environment's override: load the  *)
(* record, read the clock, and use the token, or refresh it first.         *)
(***************************************************************************)
Due(record, stamp) == record.ends # 0 /\ record.ends <= stamp + Window

Load(p) ==
  /\ At(p, "idle")
  /\ sent' = [sent EXCEPT ![p] = 0]
  /\ LET due == Due(saved, clock) IN
       \/ saved = NoRecord /\ Ends(p, "credential_missing", FALSE)
       \/ /\ saved # NoRecord /\ (~due \/ (saved.refresh = 0 /\ saved.ends > clock))
          /\ call' = [call EXCEPT ![p] = [Rest EXCEPT !.at = "resolved",
                        !.record = saved, !.stamp = clock, !.token = saved.access]]
       \/ /\ saved # NoRecord /\ due /\ saved.refresh = 0 /\ saved.ends <= clock
          /\ Ends(p, "credential_expired", FALSE)
       \/ /\ saved # NoRecord /\ due /\ saved.refresh # 0
          /\ call' = [call EXCEPT ![p] = [Rest EXCEPT !.at = "refresh",
                        !.record = saved, !.stamp = clock]]
  /\ UNCHANGED <<tokens, saved, committed, spent>>

LoadFails(p) ==
  /\ "disk" \in Faults /\ At(p, "idle")
  /\ Ends(p, "credential_storage_error", FALSE)
  /\ sent' = [sent EXCEPT ![p] = 0]
  /\ UNCHANGED <<tokens, saved, committed, spent>>

Sends(p) == sent' = [sent EXCEPT ![p] = @ + 1]

(***************************************************************************)
(* _refresh: without a client id no request is made.  An accepted exchange *)
(* issues the next token; X may drop the old refresh token or keep it.     *)
(* The response may be lost, or lack what makes it usable, and then the    *)
(* file keeps what it has; it may lack a lifetime, which is accepted.      *)
(***************************************************************************)
NoClient(p) ==
  /\ "refuse" \in Faults /\ At(p, "refresh")
  /\ Ends(p, "configuration_error", FALSE)
  /\ UNCHANGED <<tokens, saved, credentialHistory>>

RefreshedKeepingOld(p, life) ==                       \* a fault for the checks
  [access |-> Newest, refresh |-> call[p].record.refresh,
   ends |-> IF life = 0 THEN 0 ELSE call[p].stamp + life]
Refreshed(p, life) ==
  [access |-> Newest, refresh |-> Newest,
   ends |-> IF life = 0 THEN 0 ELSE call[p].stamp + life]

UnusableUntold(p) == Ends(p, "provider_error", FALSE) \* a fault for the checks
Unusable(p) == Ends(p, "provider_error", TRUE)

SendRefresh(p) ==
  /\ At(p, "refresh") /\ call[p].record.refresh \in renewable
  /\ Sends(p)
  /\ LET old == call[p].record.refresh IN
       \/ \E life \in Lives, told \in BOOLEAN :
            /\ "refuse" \notin Faults => told
            /\ Issue(owner[old], life)
            /\ renewable' \in {renewable \cup {Newest}, (renewable \ {old}) \cup {Newest}}
            /\ \/ call' = [call EXCEPT ![p].at = "replace",
                             ![p].record = Refreshed(p, IF told THEN life ELSE 0)]
               \/ {"refuse", "lost"} \cap Faults # {} /\ Unusable(p)
       \/ "refuse" \in Faults /\ Unusable(p) /\ UNCHANGED <<owner, expiry, renewable>>
  /\ UNCHANGED <<barred, saved, committed, spent>>

RefreshDenied(p) ==
  /\ At(p, "refresh") /\ call[p].record.refresh \notin renewable
  /\ Sends(p)
  /\ Unusable(p)
  /\ UNCHANGED <<tokens, saved, committed, spent>>

(***************************************************************************)
(* The new token is only handed out once it is in the file.                *)
(***************************************************************************)
UsesItAnyway(p) == Yields(p, call[p].record.access, TRUE) \* a fault for the checks
NotCommitted(p) == Ends(p, "credential_storage_error", TRUE)

ReplaceRecord(p) ==
  /\ At(p, "replace")
  /\ \/ /\ Commit(call[p].record)
        /\ spent' = spent \cup ({saved.refresh} \ {0})
        /\ Yields(p, call[p].record.access, TRUE)
     \/ "disk" \in Faults /\ NotCommitted(p) /\ UNCHANGED <<saved, committed, spent>>
  /\ UNCHANGED <<tokens, sent>>

(***************************************************************************)
(* Whoever resolved a token has finished with it.                          *)
(***************************************************************************)
Used(p) ==
  /\ At(p, "resolved")
  /\ Ends(p, "used", call[p].attempted)
  /\ UNCHANGED <<tokens, saved, credentialHistory>>

--------------------------------------------------------------------------------
(***************************************************************************)
(* revoke_persisted_credential: the refresh token if there is one, and the *)
(* file goes only after X has confirmed.                                   *)
(***************************************************************************)
LoadToRevoke(p) ==
  /\ At(p, "idle")
  /\ \/ saved = NoRecord /\ Ends(p, "credential_missing", FALSE)
     \/ saved # NoRecord
        /\ call' = [call EXCEPT ![p] = [Rest EXCEPT !.at = "revoke", !.record = saved]]
     \/ "refuse" \in Faults /\ saved # NoRecord /\ Ends(p, "configuration_error", FALSE)
  /\ sent' = [sent EXCEPT ![p] = 0]
  /\ UNCHANGED <<tokens, saved, committed, spent>>

RevokeRefused(p) == Becomes(p, "delete")              \* a fault for the checks
NotRevoked(p) == Ends(p, "provider_error", TRUE)

SendRevoke(p) ==
  /\ At(p, "revoke")
  /\ Sends(p)
  /\ \/ /\ IF call[p].record.refresh # 0
           THEN renewable' = renewable \ {call[p].record.refresh} /\ UNCHANGED barred
           ELSE barred' = barred \cup {call[p].record.access} /\ UNCHANGED renewable
        /\ Becomes(p, "delete") \/ ("lost" \in Faults /\ NotRevoked(p))
     \/ "refuse" \in Faults /\ NotRevoked(p) /\ UNCHANGED <<renewable, barred>>
  /\ UNCHANGED <<owner, expiry, saved, committed, spent>>

Delete(p) ==
  /\ At(p, "delete")
  /\ \/ saved' = NoRecord /\ Ends(p, "revoked", TRUE)
     \/ "disk" \in Faults /\ Ends(p, "credential_storage_error", TRUE) /\ UNCHANGED saved
  /\ UNCHANGED <<tokens, credentialHistory>>

(***************************************************************************)
(* delete_local_credential: the file only, and nothing is said to X.       *)
(***************************************************************************)
DeleteLocal(p) ==
  /\ At(p, "idle")
  /\ \/ saved' = NoRecord /\ Ends(p, "deleted", FALSE)
     \/ "disk" \in Faults /\ Ends(p, "credential_storage_error", FALSE) /\ UNCHANGED saved
  /\ sent' = [sent EXCEPT ![p] = 0]
  /\ UNCHANGED <<tokens, committed, spent>>

CallDies(p) ==
  /\ ~At(p, "idle")
  /\ Ends(p, "crashed", call[p].attempted)
  /\ UNCHANGED <<tokens, saved, credentialHistory>>

ResolveStep(p) ==
  NoClient(p) \/ SendRefresh(p) \/ RefreshDenied(p) \/ ReplaceRecord(p)
CallStep(p) == Persist(p) \/ ResolveStep(p) \/ Used(p) \/ SendRevoke(p) \/ Delete(p)

Resolve(p) == Starts /\ (Load(p) \/ LoadFails(p))
OtherBegins(p) == Resolve(p) \/ (Starts /\ (LoadToRevoke(p) \/ DeleteLocal(p)))

--------------------------------------------------------------------------------
Outcomes ==
  {"none", "logged_in", "not_persisted", "used", "revoked", "deleted", "crashed",
   "provider_error", "configuration_error", "credential_missing",
   "credential_expired", "credential_storage_error", "callback_listener_failed",
   "browser_launch_failed", "oauth_callback_timeout", "oauth_state_mismatch",
   "authorization_failed"}

CallState ==
  [at : {"idle", "bind", "browser", "listen", "held", "exchange", "persist", "refresh",
         "replace", "resolved", "revoke", "delete"},
   record : Record \cup {NoRecord}, stamp : Nat, token : Nat, attempted : BOOLEAN,
   outcome : Outcomes]

CredentialTypeOK ==
  /\ clock \in 0..MaxTime /\ calls \in 0..MaxCalls
  /\ owner \in Seq(Accounts) /\ Len(owner) <= MaxTokens
  /\ expiry \in Seq(Nat) /\ Len(expiry) = Len(owner)
  /\ renewable \subseteq Issued /\ barred \subseteq Issued /\ spent \subseteq Issued
  /\ saved \in Record \cup {NoRecord} /\ committed \subseteq Record
  /\ call \in [Procs -> CallState]
  /\ sent \in [Procs -> Nat]

(***************************************************************************)
(* A token handed out for use is in a record that reached the file, as far *)
(* as that record knows it has not expired, and if it was due for refresh  *)
(* it is the outcome of that refresh: a refresh that fails, or whose       *)
(* result cannot be saved, yields no token at all, not even the old one.   *)
(***************************************************************************)
TokenIsSound ==
  \A p \in Procs : At(p, "resolved") =>
    \E record \in committed :
      /\ record.access = call[p].token
      /\ record.ends # 0 => record.ends > call[p].stamp
      /\ call[p].attempted \/ record.refresh = 0 \/ ~Due(record, call[p].stamp)

(***************************************************************************)
(* attempted is the truth: a report of a failure, or of a token resolved,  *)
(* says that the token endpoint was asked exactly if one request was sent, *)
(* and never more than one is; a login that succeeds, or fails to save     *)
(* what it was granted, makes no such statement.                           *)
(***************************************************************************)
AttemptsTold ==
  \A p \in Procs :
    At(p, "idle") /\ call[p].outcome \notin {"crashed", "logged_in", "not_persisted"} =>
      sent[p] = IF call[p].attempted THEN 1 ELSE 0

(***************************************************************************)
(* A refresh token that has been exchanged for a committed successor is    *)
(* never presented again, across crashes and failed saves; for one process *)
(* at a time, which docs/specs/0003 makes a precondition.                  *)
(***************************************************************************)
SpentStaysSpent ==
  [][\A p \in Procs : sent'[p] = sent[p] + 1 /\ At(p, "refresh") =>
       call[p].record.refresh \notin spent]_lifecycleVars

(***************************************************************************)
(* A revocation removes the file only when X no longer accepts the token   *)
(* that is in it; for one process at a time.                               *)
(***************************************************************************)
RemovedIsRevoked ==
  [][\A p \in Procs : At(p, "delete") /\ saved # NoRecord /\ saved' = NoRecord =>
       IF saved.refresh # 0 THEN saved.refresh \notin renewable
       ELSE saved.access \in barred]_lifecycleVars

================================================================================
