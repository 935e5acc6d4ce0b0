------------------------------ MODULE XContextCli ------------------------------
EXTENDS Credentials, BookmarkStore
(***************************************************************************)
(* The commands of cli.py that ask X about a user: auth login, and a page  *)
(* of bookmarks (likes and posts go the same way), saved or only printed.  *)
(* A save is preflight of the store, a credential, the authenticated       *)
(* subject, one page of that subject, and the store again; several         *)
(* commands may be under way at once, and all of them share the credential *)
(* file and the store.                                                     *)
(***************************************************************************)
ASSUME AccountsAreSubjects == Accounts \subseteq Users

VARIABLES
  cmd,        \* cmd[p]: the collection command of p, what it knows and reported
  asked       \* history: content requests p has sent in its present command

cliVars == <<clock, calls, credentialVars, bookmarkVars, cmd, asked>>

NoOne == "nobody"
Quiet == [at |-> "idle", op |-> "none", source |-> "none", account |-> NoOne,
          subject |-> NoOne, page |-> << >>, told |-> 0, printed |-> FALSE]

CliInit ==
  /\ Starting /\ CredentialInit /\ StoreInit
  /\ cmd = [p \in Procs |-> Quiet] /\ asked = [p \in Procs |-> 0]

InCmd(p, place) == cmd[p].at = place
Free(p) == InCmd(p, "idle") /\ At(p, "idle") /\ SaverAt(p, "idle")

(***************************************************************************)
(* The end of a command and its diagnostic: how many requests it says were *)
(* attempted, and whether the envelope was printed.                        *)
(***************************************************************************)
CredentialRequests(p) == IF call[p].attempted THEN 1 ELSE 0
Reports(p, requests, printed) ==
  cmd' = [cmd EXCEPT ![p].at = "idle", ![p].told = requests + CredentialRequests(p),
                     ![p].printed = printed]

(***************************************************************************)
(* A command that fails before it has a page ends its save as well.        *)
(***************************************************************************)
Abandon(p) ==
  IF cmd[p].op = "save" THEN SaveEnds(p, "not_acquired") /\ UNCHANGED <<file, touches, history>>
  ELSE UNCHANGED bookmarkVars

(***************************************************************************)
(* main: the arguments are valid; a save looks at its store first.         *)
(***************************************************************************)
Collection(p, op) ==
  /\ Free(p) /\ Starts
  /\ IF op = "save"
     THEN /\ Preflight(p)
          /\ cmd' = [cmd EXCEPT ![p] = [Quiet EXCEPT !.op = op,
                       !.at = IF Readable THEN "resolve" ELSE "idle"]]
     ELSE /\ cmd' = [cmd EXCEPT ![p] = [Quiet EXCEPT !.op = op, !.at = "resolve"]]
          /\ UNCHANGED bookmarkVars
  /\ asked' = [asked EXCEPT ![p] = 0] /\ sent' = [sent EXCEPT ![p] = 0]
  /\ call' = [call EXCEPT ![p] = Rest]
  /\ UNCHANGED <<tokens, saved, committed, spent>>

(***************************************************************************)
(* X_CONTEXT_USER_ACCESS_TOKEN overrides the file, which is not touched;   *)
(* it is asked for nothing when it could not go into a header.             *)
(***************************************************************************)
Override(p) ==
  /\ InCmd(p, "resolve")
  /\ \/ \E account \in Accounts :
          /\ cmd' = [cmd EXCEPT ![p].at = "subject", ![p].source = "environment",
                                ![p].account = account]
          /\ UNCHANGED bookmarkVars
     \/ "refuse" \in Faults /\ Reports(p, 0, FALSE) /\ Abandon(p)
  /\ UNCHANGED <<clock, calls, credentialVars, asked>>

ResolveSaved(p) ==
  /\ InCmd(p, "resolve")
  /\ Load(p) \/ LoadFails(p)
  /\ cmd' = [cmd EXCEPT ![p].at = "resolving", ![p].source = "persisted"]
  /\ UNCHANGED <<clock, calls, bookmarkVars, asked>>

Resolving(p) ==
  /\ InCmd(p, "resolving") /\ ResolveStep(p)
  /\ UNCHANGED <<clock, calls, bookmarkVars, cmd, asked>>

Unresolved(p) ==
  /\ InCmd(p, "resolving") /\ At(p, "idle")
  /\ Reports(p, 0, FALSE)
  /\ Abandon(p)
  /\ UNCHANGED <<clock, calls, credentialVars, asked>>

ResolvedToken(p) ==
  /\ InCmd(p, "resolving") /\ At(p, "resolved")
  /\ cmd' = [cmd EXCEPT ![p].at = "subject", ![p].account = owner[call[p].token]]
  /\ UNCHANGED <<clock, calls, credentialVars, bookmarkVars, asked>>

(***************************************************************************)
(* _lookup_collection: the account behind the token, and one page of it.   *)
(* A request that fails, or a response that is not accepted, ends it.      *)
(***************************************************************************)
AsksX(p) == asked' = [asked EXCEPT ![p] = @ + 1]

Rejects(p) ==
  \/ "refuse" \in Faults
  \/ cmd[p].source = "persisted" /\ ~(clock < expiry[call[p].token])

Subject(p) ==
  /\ InCmd(p, "subject")
  /\ AsksX(p)
  /\ \/ cmd' = [cmd EXCEPT ![p].at = "collection", ![p].subject = cmd[p].account]
        /\ UNCHANGED <<credentialVars, bookmarkVars>>
     \/ Rejects(p) /\ Reports(p, 1, FALSE) /\ Abandon(p)
        /\ call' = [call EXCEPT ![p].at = "idle"]
        /\ UNCHANGED <<tokens, saved, credentialHistory>>
  /\ UNCHANGED <<clock, calls>>

OneRequest(p) == 1                                    \* a fault for the checks
BothRequests(p) == 2

Page(p) ==
  /\ InCmd(p, "collection")
  /\ AsksX(p)
  /\ \/ \E page \in Pages :
          /\ cmd' = [cmd EXCEPT ![p].page = page,
                       ![p].at = IF cmd[p].op = "save" THEN "save" ELSE "print"]
          /\ IF cmd[p].op = "save" THEN Acquired(p, cmd[p].subject, page)
             ELSE UNCHANGED bookmarkVars
     \/ Rejects(p) /\ Reports(p, BothRequests(p), FALSE) /\ Abandon(p)
  /\ call' = [call EXCEPT ![p].at = "idle"]
  /\ UNCHANGED <<clock, calls, tokens, saved, credentialHistory>>

Saving(p) ==
  /\ InCmd(p, "save") /\ SaveStep(p)
  /\ UNCHANGED <<clock, calls, credentialVars, cmd, asked>>

(***************************************************************************)
(* The envelope is printed after the store has it, or not at all.          *)
(***************************************************************************)
Stored(p) == saver[p].outcome = "saved"

Emit(p) ==
  /\ InCmd(p, "print") \/ (InCmd(p, "save") /\ SaverAt(p, "idle"))
  /\ Reports(p, 2, InCmd(p, "save") => Stored(p))
  /\ UNCHANGED <<clock, calls, credentialVars, bookmarkVars, asked>>

--------------------------------------------------------------------------------
(***************************************************************************)
(* auth login, beside the collections.                                     *)
(***************************************************************************)
AuthLogin(p) ==
  /\ Free(p) /\ Starts /\ Login(p)
  /\ cmd' = [cmd EXCEPT ![p] = [Quiet EXCEPT !.op = "login"]]
  /\ asked' = [asked EXCEPT ![p] = 0]
  /\ UNCHANGED bookmarkVars
AuthPersist(p) ==
  /\ cmd[p].op = "login" /\ Persist(p)
  /\ UNCHANGED <<clock, calls, bookmarkVars, cmd, asked>>

Killed(p) ==
  /\ "crash" \in Faults /\ ~Free(p)
  /\ cmd' = [cmd EXCEPT ![p] = [Quiet EXCEPT !.op = "killed"]]
  /\ call' = [call EXCEPT ![p] = [Rest EXCEPT !.outcome = "crashed"]]
  /\ SaveEnds(p, "crashed")
  /\ UNCHANGED <<clock, calls, tokens, saved, credentialHistory, file, touches,
                 history, asked>>

Command(p) ==
  \/ Collection(p, "show") \/ Collection(p, "save") \/ Override(p) \/ ResolveSaved(p)
  \/ Resolving(p) \/ Unresolved(p) \/ ResolvedToken(p) \/ Subject(p) \/ Page(p)
  \/ Saving(p) \/ Emit(p) \/ AuthLogin(p) \/ AuthPersist(p) \/ Killed(p)

CliNext ==
  \/ \E p \in Procs : Command(p)
  \/ Touch /\ UNCHANGED <<clock, calls, credentialVars, cmd, asked>>
  \/ Tick /\ UNCHANGED <<credentialVars, bookmarkVars, cmd, asked>>

CliSpec == CliInit /\ [][CliNext]_cliVars

--------------------------------------------------------------------------------
Cmd ==
  [at : {"idle", "resolve", "resolving", "subject", "collection", "save", "print"},
   op : {"none", "show", "save", "login", "killed"},
   source : {"none", "environment", "persisted"},
   account : Accounts \cup {NoOne}, subject : Accounts \cup {NoOne},
   page : Pages \cup {<< >>}, told : 0..3, printed : BOOLEAN]

CliTypeOK ==
  /\ CredentialTypeOK /\ StoreTypeOK
  /\ cmd \in [Procs -> Cmd]
  /\ asked \in [Procs -> 0..2]

(***************************************************************************)
(* The diagnostic counts every request that was sent, to the token         *)
(* endpoint and for content, whatever ended the command.                   *)
(***************************************************************************)
RequestsTold ==
  CliTypeOK /\
  \A p \in Procs : Free(p) /\ cmd[p].op \in {"show", "save"} =>
    cmd[p].told = asked[p] + sent[p]
================================================================================
