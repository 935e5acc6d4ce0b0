------------------------------ MODULE LocalOutput ------------------------------
EXTENDS Processes
(***************************************************************************)
(* The portable output of shared_context/core.py: a directory with two     *)
(* files per record, records/<id>.json and records/<id>.md, and a manifest *)
(* that pins them all.  generate merges the records it is given with those *)
(* it finds and replaces the files that differ one by one, the manifest    *)
(* last; verify and preview only read.  There is no lock: each listing,    *)
(* read, temporary file and replacement is a step, and a second command,   *)
(* the operator, a full disk or a crash may come between any two.          *)
(*                                                                         *)
(* The body of a record's file is the version of the record; the body of   *)
(* the manifest is the version of every record, which is what its digests  *)
(* amount to.                                                              *)
(***************************************************************************)
CONSTANTS
  Ids,        \* record identities, numbers in their order
  Versions,   \* what a record may say, its status included
  Requests,   \* the fixture sets generate is given: records and versions
  Earlier,    \* the sets an earlier generate may have left
  MaxTouches  \* bound on what the operator does to the directory

\* What normalize lets through: at least one record, each of them once.
Sets == UNION {[ids -> Versions] : ids \in (SUBSET Ids) \ {{}}}

ASSUME LocalAssumption ==
  /\ Ids \subseteq Nat \ {0} /\ Versions \subseteq Nat \ {0} /\ MaxTouches \in Nat
  /\ Requests \cup Earlier \subseteq Sets

VARIABLES
  dir,        \* "none", "bare" without its records directory, or "full"
  files,      \* the managed files there are
  temp,       \* temp[p]: where p has a temporary file
  litter,     \* where temporary files of dead commands are left
  run,        \* run[p]: the command p is in
  touches,
  \* history variables
  whole,      \* whole[p]: the sets that were whole at some time since p began
  raced,      \* raced[p]: how often, up to twice, the files changed under p's last look
  wrote       \* wrote[p]: p has replaced a managed file in this command

disk == <<dir, files, temp, litter>>
localHistory == <<whole, raced, wrote>>
localVars == <<clock, calls, disk, run, touches, localHistory>>

Manifest == <<0, "manifest">>
RecordsDir == <<0, "records">>
FilesOf(i) == {<<i, "json">>, <<i, "md">>}
Names == {Manifest} \cup UNION {FilesOf(i) : i \in Ids}

Empty == [i \in {} |-> 0]
Damaged == [i \in {0} |-> 0]                \* a body no generate has written

(***************************************************************************)
(* artifacts: the files of a set of records, and the order they come in.   *)
(***************************************************************************)
Artifacts(set) ==
  [n \in {Manifest} \cup UNION {FilesOf(i) : i \in DOMAIN set} |->
     IF n = Manifest THEN set ELSE [i \in {n[1]} |-> set[i]]]

Rank(n) == 2 * n[1] + (IF n[2] = "md" THEN 1 ELSE 0)

(***************************************************************************)
(* _read_managed: files that are the artifacts of what their manifest says.*)
(***************************************************************************)
SameNames(all) ==                                     \* a fault for the checks
  Manifest \in DOMAIN all /\ DOMAIN all = DOMAIN Artifacts(all[Manifest])
IsManaged(all) ==
  Manifest \in DOMAIN all /\ all[Manifest] # Empty /\ all = Artifacts(all[Manifest])

NowWhole == {set \in Sets : files = Artifacts(set)}

NoRun == [at |-> "idle", op |-> "none", want |-> Empty, expected |-> Empty,
          todo |-> {}, got |-> Empty, alien |-> FALSE, attempted |-> FALSE,
          outcome |-> "none", result |-> Empty]

LocalInit ==
  /\ Starting
  /\ \/ dir = "none" /\ files = Empty
     \/ dir = "full" /\ \E set \in Earlier : files = Artifacts(set)
  /\ litter = {} /\ touches = 0
  /\ temp = [p \in Procs |-> "none"] /\ run = [p \in Procs |-> NoRun]
  /\ whole = [p \in Procs |-> {}]
  /\ raced = [p \in Procs |-> 0] /\ wrote = [p \in Procs |-> FALSE]

RunAt(p, place) == run[p].at = place
Goes(p, place) == run' = [run EXCEPT ![p].at = place]

(***************************************************************************)
(* The end of a command; a failure says whether a replacement was tried.   *)
(***************************************************************************)
Concludes(p, outcome, result) ==
  /\ run' = [run EXCEPT ![p] = [NoRun EXCEPT !.op = run[p].op, !.outcome = outcome,
                                             !.result = result]]
  /\ whole' = [whole EXCEPT ![p] = @ \cap {result}]
  /\ UNCHANGED <<raced, wrote>>
Failure(p) == IF run[p].attempted THEN "partial" ELSE "refused"
Fails(p) == Concludes(p, Failure(p), Empty)

--------------------------------------------------------------------------------
(***************************************************************************)
(* _snapshot lists the directory, reads what it finds file by file in no   *)
(* particular order, those at the top first, then the records directory.   *)
(* A temporary file of somebody else is one file too many.                 *)
(***************************************************************************)
AlienIn(p, place) == place \in litter \/ \E q \in Procs \ {p} : temp[q] = place

Listing(p, command, place) ==
  [command EXCEPT !.at = place, !.got = Empty, !.alien = AlienIn(p, "top"),
     !.todo = ({Manifest} \cap DOMAIN files) \cup (IF dir = "full" THEN {RecordsDir} ELSE {})]
Looks(p, place) ==
  run' = [run EXCEPT ![p] = Listing(p, @, place)] /\ raced' = [raced EXCEPT ![p] = 0]

Looking(p) == run[p].at \in {"prepare", "before", "after", "final"}
Seen(p) == Looking(p) /\ run[p].todo = {}

(***************************************************************************)
(* The failure of a command that may have a temporary file, which it then  *)
(* removes, if it can.                                                     *)
(***************************************************************************)
Drops(p) ==
  /\ temp' = [temp EXCEPT ![p] = "none"]
  /\ \/ UNCHANGED litter
     \/ "disk" \in Faults /\ litter' = litter \cup ({temp[p]} \ {"none"})
  /\ UNCHANGED <<dir, files>>
Gives(p) == Fails(p) /\ Drops(p)

Look(p) ==
  /\ Looking(p)
  /\ \E n \in run[p].todo :
       \/ /\ n = RecordsDir /\ run[p].todo = {n}
          /\ run' = [run EXCEPT ![p].todo = (@ \ {n}) \cup (DOMAIN files \ {Manifest}),
                                ![p].alien = @ \/ AlienIn(p, "records")]
       \/ /\ n \in DOMAIN files
          /\ run' = [run EXCEPT ![p].todo = @ \ {n},
               ![p].got = [m \in DOMAIN @ \cup {n} |-> IF m = n THEN files[n] ELSE @[m]]]
  /\ UNCHANGED <<disk, localHistory>>

LookFails(p) ==
  /\ Looking(p)
  /\ "disk" \in Faults \/ \E n \in run[p].todo : n # RecordsDir /\ n \notin DOMAIN files
  /\ Gives(p)

--------------------------------------------------------------------------------
(***************************************************************************)
(* A command begins: verify, preview and generate all look first.          *)
(***************************************************************************)
Command(p, op, request) ==
  /\ RunAt(p, "idle") /\ Starts
  /\ run' = [run EXCEPT ![p] =
       Listing(p, [NoRun EXCEPT !.op = op, !.want = request], "prepare")]
  /\ whole' = [whole EXCEPT ![p] = NowWhole]
  /\ raced' = [raced EXCEPT ![p] = 0] /\ wrote' = [wrote EXCEPT ![p] = FALSE]
  /\ UNCHANGED disk

Begins(p) ==
  \/ Command(p, "verify", Empty) \/ Command(p, "preview", Empty)
  \/ \E request \in Requests : Command(p, "generate", request)

(***************************************************************************)
(* _prepare: nothing at all, or a managed set, is what the records of the  *)
(* request are merged into.  An empty directory is neither.                *)
(***************************************************************************)
Merge(old, new) ==
  [i \in DOMAIN old \cup DOMAIN new |-> IF i \in DOMAIN new THEN new[i] ELSE old[i]]

Found(p) == IF run[p].got = Empty THEN Empty ELSE run[p].got[Manifest]
Acceptable(p) ==
  /\ ~run[p].alien
  /\ IsManaged(run[p].got) \/ (run[p].got = Empty /\ dir = "none")

Prepared(p) ==
  /\ RunAt(p, "prepare") /\ Seen(p)
  /\ LET want == Merge(Found(p), run[p].want) IN
       CASE ~Acceptable(p) -> Fails(p)
         [] Acceptable(p) /\ run[p].op = "verify" ->
              IF run[p].got = Empty THEN Fails(p) ELSE Concludes(p, "done", Found(p))
         [] Acceptable(p) /\ run[p].op = "preview" -> Concludes(p, "done", Empty)
         [] Acceptable(p) /\ run[p].op = "generate" ->
              IF run[p].got = Artifacts(want) THEN Concludes(p, "done", want)
              ELSE /\ run' = [run EXCEPT ![p].at = "mkdir", ![p].want = want,
                                         ![p].expected = run[p].got]
                   /\ UNCHANGED localHistory
  /\ UNCHANGED disk

MakeDirectory(p) ==
  /\ RunAt(p, "mkdir")
  /\ dir' = (IF dir = "none" THEN "bare" ELSE dir) /\ Goes(p, "mkrecords")
  /\ UNCHANGED <<files, temp, litter, localHistory>>

MakeRecords(p) ==
  /\ RunAt(p, "mkrecords") /\ dir # "none"
  /\ dir' = "full" /\ Goes(p, "next")
  /\ UNCHANGED <<files, temp, litter, localHistory>>

MakeFails(p) ==
  /\ \/ "disk" \in Faults /\ run[p].at \in {"mkdir", "mkrecords"}
     \/ RunAt(p, "mkrecords") /\ dir = "none"
  /\ Fails(p)
  /\ UNCHANGED disk

--------------------------------------------------------------------------------
(***************************************************************************)
(* generate's loop: the next file that differs, in the order of artifacts. *)
(***************************************************************************)
Wanted(p) == Artifacts(run[p].want)
Differing(p) ==
  {n \in DOMAIN Wanted(p) : n \notin DOMAIN run[p].expected \/ run[p].expected[n] # Wanted(p)[n]}
NextFile(p) ==
  LET records == Differing(p) \ {Manifest} IN
    IF records = {} THEN Manifest
    ELSE CHOOSE n \in records : \A m \in records : Rank(n) <= Rank(m)
PlaceOf(n) == IF n = Manifest THEN "top" ELSE "records"

Turn(p) ==
  /\ RunAt(p, "next")
  /\ Looks(p, IF Differing(p) = {} THEN "final" ELSE "before")
  /\ UNCHANGED <<disk, whole, wrote>>

(***************************************************************************)
(* Before the temporary file, and again with it there, the directory must  *)
(* be what this command has read and written so far.                       *)
(***************************************************************************)
Unnoticed(p) == TRUE                                  \* a fault for the checks
Unchanged(p) == ~run[p].alien /\ run[p].got = run[p].expected

Compare(p) ==
  /\ RunAt(p, "before") /\ Seen(p)
  /\ IF Unchanged(p) THEN Goes(p, "temp") /\ UNCHANGED localHistory ELSE Fails(p)
  /\ UNCHANGED disk

WriteTemporary(p) ==
  /\ RunAt(p, "temp") /\ (dir = "full" \/ (dir = "bare" /\ PlaceOf(NextFile(p)) = "top"))
  /\ temp' = [temp EXCEPT ![p] = PlaceOf(NextFile(p))]
  /\ Looks(p, "after")
  /\ UNCHANGED <<dir, files, litter, whole, wrote>>

TemporaryFails(p) ==
  /\ RunAt(p, "temp")
  /\ "disk" \in Faults \/ dir # "full"
  /\ Fails(p)
  /\ temp' = [temp EXCEPT ![p] = "none"]
  /\ \/ UNCHANGED litter
     \/ "disk" \in Faults /\ dir = "full" /\ litter' = litter \cup {PlaceOf(NextFile(p))}
  /\ UNCHANGED <<dir, files>>

CompareAgain(p) ==
  /\ RunAt(p, "after") /\ Seen(p)
  /\ IF Unchanged(p) /\ temp[p] # "none"
     THEN /\ run' = [run EXCEPT ![p].at = "replace", ![p].attempted = TRUE]
          /\ UNCHANGED <<disk, localHistory>>
     ELSE Gives(p)

(***************************************************************************)
(* os.replace, and the file read back.  Whoever else is under way has now  *)
(* looked at something that has changed.                                   *)
(***************************************************************************)
Witness ==
  whole' = [q \in Procs |-> IF RunAt(q, "idle") THEN whole[q] ELSE whole[q] \cup NowWhole']
Overtaken(q) == IF RunAt(q, "idle") \/ raced[q] = 2 THEN raced[q] ELSE raced[q] + 1
Changes(p) == raced' = [q \in Procs |-> IF q = p THEN raced[q] ELSE Overtaken(q)]

ReplaceFile(p) ==
  /\ RunAt(p, "replace") /\ temp[p] # "none"
  /\ LET n == NextFile(p) IN
       files' = [m \in DOMAIN files \cup {n} |-> IF m = n THEN Wanted(p)[n] ELSE files[m]]
  /\ temp' = [temp EXCEPT ![p] = "none"]
  /\ Goes(p, "readback")
  /\ wrote' = [wrote EXCEPT ![p] = TRUE]
  /\ Witness /\ Changes(p)
  /\ UNCHANGED <<dir, litter>>

ReplaceFails(p) ==
  /\ RunAt(p, "replace")
  /\ "disk" \in Faults \/ temp[p] = "none"
  /\ Gives(p)

Readback(p) ==
  /\ RunAt(p, "readback")
  /\ LET n == NextFile(p) IN
       IF n \in DOMAIN files /\ files[n] = Wanted(p)[n]
       THEN /\ run' = [run EXCEPT ![p].at = "next",
                 ![p].expected = [m \in DOMAIN @ \cup {n} |-> IF m = n THEN files[n] ELSE @[m]]]
            /\ UNCHANGED localHistory
       ELSE Fails(p)
  /\ UNCHANGED disk

ReadbackFails(p) ==
  /\ RunAt(p, "readback") /\ "disk" \in Faults
  /\ Fails(p)
  /\ UNCHANGED disk

(***************************************************************************)
(* The directory must be, at the end, the managed set that was wanted.     *)
(***************************************************************************)
AsWanted(p) == ~run[p].alien /\ run[p].got = Wanted(p)

Finish(p) ==
  /\ RunAt(p, "final") /\ Seen(p)
  /\ IF AsWanted(p) THEN Concludes(p, "done", run[p].want) ELSE Fails(p)
  /\ UNCHANGED disk

LocalDies(p) ==
  /\ ~RunAt(p, "idle")
  /\ Concludes(p, "crashed", Empty)
  /\ temp' = [temp EXCEPT ![p] = "none"]
  /\ litter' = litter \cup ({temp[p]} \ {"none"})
  /\ UNCHANGED <<dir, files>>

LocalStep(p) ==
  \/ Look(p) \/ LookFails(p) \/ Prepared(p)
  \/ MakeDirectory(p) \/ MakeRecords(p) \/ MakeFails(p)
  \/ Turn(p) \/ Compare(p) \/ WriteTemporary(p) \/ TemporaryFails(p) \/ CompareAgain(p)
  \/ ReplaceFile(p) \/ ReplaceFails(p) \/ Readback(p) \/ ReadbackFails(p) \/ Finish(p)
  \/ "crash" \in Faults /\ LocalDies(p)

(***************************************************************************)
(* The operator damages a file, or starts over in a fresh place.           *)
(***************************************************************************)
Damage ==
  /\ \E n \in DOMAIN files : files' = [files EXCEPT ![n] = Damaged]
  /\ UNCHANGED <<dir, temp, litter>>
Remove ==
  /\ dir # "none"
  /\ dir' = "none" /\ files' = Empty /\ litter' = {} /\ temp' = [p \in Procs |-> "none"]
TouchLocal ==
  /\ touches < MaxTouches /\ touches' = touches + 1
  /\ Damage \/ Remove
  /\ Witness /\ raced' = [p \in Procs |-> Overtaken(p)]
  /\ UNCHANGED <<clock, calls, run, wrote>>

LocalNext ==
  \/ \E p \in Procs : Begins(p) /\ UNCHANGED touches
  \/ \E p \in Procs : LocalStep(p) /\ UNCHANGED <<clock, calls, touches>>
  \/ TouchLocal

LocalSpec == LocalInit /\ [][LocalNext]_localVars

--------------------------------------------------------------------------------
Bodies == Sets \cup {Damaged}
Contents == UNION {[names -> Bodies] : names \in SUBSET Names}

Run ==
  [at : {"idle", "prepare", "mkdir", "mkrecords", "next", "before", "temp", "after",
         "replace", "readback", "final"},
   op : {"none", "verify", "preview", "generate"},
   want : Sets \cup {Empty}, expected : Contents, got : Contents,
   todo : SUBSET (Names \cup {RecordsDir}), alien : BOOLEAN, attempted : BOOLEAN,
   outcome : {"none", "done", "refused", "partial", "crashed"},
   result : Sets \cup {Empty}]

LocalTypeOK ==
  /\ calls \in 0..MaxCalls /\ touches \in 0..MaxTouches
  /\ dir \in {"none", "bare", "full"} /\ litter \subseteq {"top", "records"}
  /\ temp \in [Procs -> {"none", "top", "records"}]
  /\ files \in Contents /\ run \in [Procs -> Run]
  /\ whole \in [Procs -> SUBSET (Sets \cup {Empty})]
  /\ raced \in [Procs -> 0..2] /\ wrote \in [Procs -> BOOLEAN]

(***************************************************************************)
(* What a command reports is true, although it reads file by file while    *)
(* others write and nothing keeps them out: a set that verify accepts or   *)
(* generate reports was whole at some moment of the command, if the files  *)
(* changed at most once under its last look, and a refusal has replaced no *)
(* file.  Under two changes it need not be: verify may take the old bodies *)
(* of one generate and those that a second one has put back.               *)
(***************************************************************************)
OutcomeIsTrue ==
  LocalTypeOK /\
  \A p \in Procs : RunAt(p, "idle") =>
    /\ run[p].outcome = "done" /\ run[p].result # Empty /\ raced[p] <= 1 =>
         run[p].result \in whole[p]
    /\ run[p].outcome = "refused" => ~wrote[p]

(***************************************************************************)
(* A new manifest says that everything the old one said is still there,    *)
(* except what this generate was asked to change: "omission retains        *)
(* previous records" (README.md:119).  Two writers may overlap, as long as *)
(* the last look before the replacement is not overtaken; that much is     *)
(* left to the operator ("Use one writer").                                *)
(***************************************************************************)
MergeKeeps ==
  [][\A p \in Procs :
       RunAt(p, "replace") /\ run'[p].at = "readback" /\ NextFile(p) = Manifest /\ raced[p] = 0 =>
         /\ files' = Artifacts(files'[Manifest])
         /\ Manifest \in DOMAIN files => DOMAIN files[Manifest] \subseteq DOMAIN files'[Manifest]
    ]_localVars
================================================================================
