--------------------------- MODULE LocalOutputProofs ---------------------------
EXTENDS LocalOutput, WellFoundedInduction, NaturalsInduction, TLAPS
(***************************************************************************)
(* Proofs about the portable output, for any records, versions, requests   *)
(* and number of commands side by side, whatever fails and however often   *)
(* the operator damages or removes the directory.                          *)
(***************************************************************************)

(***************************************************************************)
(* How a look c relates to the files `all` of one moment: what it has read *)
(* is theirs, and what it has not read it still has on its list.           *)
(***************************************************************************)
Fits(c, all) == \A n \in DOMAIN c.got : n \in DOMAIN all /\ c.got[n] = all[n]
Covers(c, all) ==
  \A n \in DOMAIN all :
    n \in DOMAIN c.got \cup c.todo \/ (RecordsDir \in c.todo /\ n # Manifest)

(***************************************************************************)
(* One file was replaced or damaged since `old`, or all were removed, and  *)
(* what a look under way can have read then.                               *)
(***************************************************************************)
ChangesAt(old, new, n) ==
  /\ n \in DOMAIN new /\ DOMAIN new = DOMAIN old \cup {n}
  /\ \A m \in DOMAIN new : m # n => new[m] = old[m]
Blends(c, old, new, n) ==
  /\ Covers(c, old)
  /\ \A m \in DOMAIN c.got : m \in DOMAIN new /\ (m # n => c.got[m] = new[m])
  /\ n \in DOMAIN c.got =>
       c.got[n] = new[n] \/ (n \in DOMAIN old /\ c.got[n] = old[n])
Outlives(c, old, new) ==
  /\ new = Empty /\ Fits(c, old)
  /\ Covers(c, old) \/ (DOMAIN c.got \subseteq {Manifest} /\ c.todo = {})

WasWhole(old, w) == \A set \in Sets : old = Artifacts(set) => set \in w

Places == {"prepare", "before", "after", "final"}

\* A look of the run c, under which the files changed k times and are `all` now.
LookOK(c, all, w, k) ==
  c.at \in Places =>
    /\ RecordsDir \in c.todo =>
         DOMAIN c.got \subseteq {Manifest} /\ c.todo \subseteq {Manifest, RecordsDir}
    /\ k = 0 => Fits(c, all) /\ Covers(c, all)
    /\ k = 1 => \E old \in Contents :
         /\ WasWhole(old, w)
         /\ \/ \E n \in Names : ChangesAt(old, all, n) /\ Blends(c, old, all, n)
            \/ Outlives(c, old, all)

\* What a generate has planned, and where it stands.
Writing == {"mkdir", "mkrecords", "next", "before", "temp", "after", "replace", "readback", "final"}
PlanOK(c, all, k) ==
  /\ c.at = "prepare" => c.op # "none" /\ (c.op = "generate" => c.want \in Sets)
  /\ c.at \in Writing =>
       /\ c.want \in Sets /\ DOMAIN c.expected \subseteq DOMAIN Artifacts(c.want)
       /\ Manifest \in DOMAIN c.expected =>
            c.expected[Manifest] \in Sets /\ DOMAIN c.expected[Manifest] \subseteq DOMAIN c.want
       /\ c.at = "replace" => c.attempted /\ (k = 0 => all = c.expected)

\* Its next file, as an operator of the run.
Differs(c) ==
  {n \in DOMAIN Artifacts(c.want) :
     n \notin DOMAIN c.expected \/ c.expected[n] # Artifacts(c.want)[n]}
FirstOf(records) == CHOOSE n \in records : \A m \in records : Rank(n) <= Rank(m)
Following(c) ==
  IF Differs(c) \ {Manifest} = {} THEN Manifest ELSE FirstOf(Differs(c) \ {Manifest})

TempOK(c, t, there) ==
  t # "none" =>
    /\ c.at \in {"after", "replace"} /\ t = PlaceOf(Following(c))
    /\ t = "records" => there = "full"
    /\ t = "top" => there # "none"

ReportOK(c, all, w, k, r) ==
  /\ c.at # "idle" => WasWhole(all, w) /\ (r => c.attempted)
  /\ c.at = "idle" =>
       /\ c.outcome = "done" /\ c.result # Empty /\ k <= 1 => c.result \in w
       /\ c.outcome = "refused" => ~r

ProcessOK(p) ==
  /\ LookOK(run[p], files, whole[p], raced[p]) /\ PlanOK(run[p], files, raced[p])
  /\ TempOK(run[p], temp[p], dir) /\ ReportOK(run[p], files, whole[p], raced[p], wrote[p])

DirOK ==
  /\ dir # "full" => DOMAIN files \subseteq {Manifest}
  /\ dir = "none" => files = Empty

(***************************************************************************)
(* The inductive invariant.                                                *)
(***************************************************************************)
LocalInv == LocalTypeOK /\ DirOK /\ \A p \in Procs : ProcessOK(p)

--------------------------------------------------------------------------------
(***************************************************************************)
(* Sets of records, and what the files say of them.                        *)
(***************************************************************************)
LEMMA OfSets ==
  ASSUME NEW set \in Sets
  PROVE  /\ set = [i \in DOMAIN set |-> set[i]] /\ DOMAIN set \subseteq Ids
         /\ DOMAIN set # {} /\ \A i \in DOMAIN set : set[i] \in Versions
<1>1. PICK ids \in (SUBSET Ids) \ {{}} : set \in [ids -> Versions]
  BY DEF Sets
<1> QED BY <1>1

LEMMA InSets ==
  ASSUME NEW ids \in SUBSET Ids, ids # {}, NEW set \in [ids -> Versions]
  PROVE  set \in Sets
BY DEF Sets

LEMMA OfContents ==
  ASSUME NEW all \in Contents
  PROVE  /\ all = [n \in DOMAIN all |-> all[n]] /\ DOMAIN all \subseteq Names
         /\ \A n \in DOMAIN all : all[n] \in Bodies
<1>1. PICK names \in SUBSET Names : all \in [names -> Bodies]
  BY DEF Contents
<1> QED BY <1>1

LEMMA InContents ==
  ASSUME NEW names \in SUBSET Names, NEW all \in [names -> Bodies]
  PROVE  all \in Contents
BY DEF Contents

LEMMA SameContents ==
  ASSUME NEW all \in Contents, NEW other \in Contents, DOMAIN all = DOMAIN other,
         \A n \in DOMAIN all : all[n] = other[n]
  PROVE  all = other
<1>1. all = [n \in DOMAIN all |-> all[n]]
  BY OfContents
<1>2. other = [n \in DOMAIN other |-> other[n]]
  BY OfContents
<1> QED BY <1>1, <1>2

LEMMA EmptyIsEmpty ==
  /\ DOMAIN Empty = {} /\ Empty \in Contents /\ Empty \notin Sets
  /\ \A all \in Contents : DOMAIN all = {} => all = Empty
<1>1. DOMAIN Empty = {}
  BY DEF Empty
<1>2. Empty \in Contents
  <2>1. Empty \in [{} -> Bodies]
    BY DEF Empty
  <2> QED BY <2>1, InContents
<1>3. Empty \notin Sets
  BY <1>1, OfSets
<1>4. ASSUME NEW all \in Contents, DOMAIN all = {} PROVE all = Empty
  BY <1>1, <1>2, <1>4, SameContents
<1> QED BY <1>1, <1>2, <1>3, <1>4

LEMMA NamesAre ==
  /\ Manifest \in Names /\ Manifest # RecordsDir /\ RecordsDir \notin Names
  /\ \A n \in Names : n = Manifest \/ \E i \in Ids : n \in FilesOf(i)
  /\ \A i \in Nat : FilesOf(i) # {} /\ \A n \in FilesOf(i) : n[1] = i
  /\ \A i \in Ids : Manifest \notin FilesOf(i) /\ FilesOf(i) \subseteq Names
<1>1. \A i \in Ids : i # 0
  BY LocalAssumption
<1>2. \A i \in Nat : FilesOf(i) = {<<i, "json">>, <<i, "md">>}
  BY DEF FilesOf
<1>3. \A i \in Ids : Manifest \notin FilesOf(i) /\ RecordsDir \notin FilesOf(i)
  BY <1>1, <1>2, LocalAssumption DEF Manifest, RecordsDir
<1>4. Manifest # RecordsDir
  BY DEF Manifest, RecordsDir
<1>5. \A n : n \in Names <=> n = Manifest \/ \E i \in Ids : n \in FilesOf(i)
  BY DEF Names
<1>6. \A i \in Ids : RecordsDir \notin FilesOf(i)
  BY <1>3
<1>7. ASSUME NEW i \in Nat PROVE FilesOf(i) # {} /\ \A n \in FilesOf(i) : n[1] = i
  <2>1. \A n : n \in FilesOf(i) <=> n = <<i, "json">> \/ n = <<i, "md">>
    BY <1>2
  <2>2. <<i, "json">>[1] = i /\ <<i, "md">>[1] = i
    OBVIOUS
  <2> QED BY <2>1, <2>2
<1> QED BY <1>3, <1>4, <1>5, <1>7

LEMMA ArtifactsAre ==
  ASSUME NEW set \in Sets
  PROVE  /\ Artifacts(set) \in Contents /\ Artifacts(set)[Manifest] = set
         /\ \A n : n \in DOMAIN Artifacts(set) <=>
              n = Manifest \/ \E i \in DOMAIN set : n \in FilesOf(i)
         /\ Manifest \in DOMAIN Artifacts(set)
         /\ \E n \in DOMAIN Artifacts(set) : n # Manifest
<1> DEFINE names == {Manifest} \cup UNION {FilesOf(i) : i \in DOMAIN set}
<1>1. DOMAIN set \subseteq Ids /\ DOMAIN set # {} /\ \A i \in DOMAIN set : set[i] \in Versions
  BY OfSets
<1>2. DOMAIN Artifacts(set) = names
  BY DEF Artifacts
<1>3. \A n : n \in names <=> n = Manifest \/ \E i \in DOMAIN set : n \in FilesOf(i)
  OBVIOUS
<1>4. names \subseteq Names
  BY <1>1, <1>3, NamesAre
<1>5. Artifacts(set)[Manifest] = set
  BY DEF Artifacts
<1>6. ASSUME NEW n \in names PROVE Artifacts(set)[n] \in Bodies
  <2>1. CASE n = Manifest
    BY <1>5, <2>1 DEF Bodies
  <2>2. CASE n # Manifest
    <3>1. PICK i \in DOMAIN set : n \in FilesOf(i)
      BY <1>3, <2>2
    <3>2. n[1] = i
      BY <1>1, <3>1, NamesAre, LocalAssumption
    <3>3. Artifacts(set)[n] = [j \in {i} |-> set[i]]
      BY <2>2, <3>2 DEF Artifacts
    <3>4. {i} \in SUBSET Ids /\ {i} # {} /\ [j \in {i} |-> set[i]] \in [{i} -> Versions]
      BY <1>1
    <3> QED BY <3>3, <3>4, InSets DEF Bodies
  <2> QED BY <2>1, <2>2
<1>7. Artifacts(set) \in [names -> Bodies]
  BY <1>6 DEF Artifacts
<1>8. \E n \in names : n # Manifest
  <2>1. PICK i \in DOMAIN set : TRUE
    BY <1>1
  <2>2. PICK n \in FilesOf(i) : TRUE
    <3>1. i \in Nat
      BY <1>1, LocalAssumption
    <3> QED BY <3>1, NamesAre
  <2> QED BY <1>1, <1>3, <2>1, <2>2, NamesAre
<1> HIDE DEF names
<1> QED BY <1>2, <1>3, <1>4, <1>5, <1>7, <1>8, InContents

(***************************************************************************)
(* What _read_managed accepts stands for a set of records.                 *)
(***************************************************************************)
LEMMA ManagedIsSet ==
  ASSUME NEW all \in Contents, IsManaged(all)
  PROVE  all[Manifest] \in Sets /\ all = Artifacts(all[Manifest])
<1>1. all[Manifest] \in Sets \cup {Damaged} /\ all = Artifacts(all[Manifest])
  BY OfContents DEF IsManaged, Bodies
<1>2. ASSUME all[Manifest] = Damaged PROVE FALSE
  <2>1. DOMAIN Damaged = {0}
    BY DEF Damaged
  <2>2. \A n \in FilesOf(0) : n \in DOMAIN all
    BY <1>1, <1>2, <2>1 DEF Artifacts
  <2>3. <<0, "json">> \in Names
    BY <2>2, OfContents DEF FilesOf
  <2>4. <<0, "json">> # Manifest
    BY DEF Manifest
  <2> QED BY <2>3, <2>4, NamesAre, LocalAssumption
<1> QED BY <1>1, <1>2

(***************************************************************************)
(* The next file of a generate: the manifest only when nothing else        *)
(* differs.                                                                *)
(***************************************************************************)
LEMMA SomethingIsFirst ==
  ASSUME NEW records \in SUBSET Names, records # {}
  PROVE  FirstOf(records) \in records
<1> DEFINE Ranks == {Rank(n) : n \in records}
<1>1. \A n \in Names : Rank(n) \in Nat
  <2>1. \A n \in Names : n[1] \in Nat
    <3>1. Manifest[1] = 0
      BY DEF Manifest
    <3> QED BY <3>1, NamesAre, LocalAssumption
  <2> QED BY <2>1 DEF Rank
<1>2. Ranks \subseteq Nat /\ Ranks # {}
  BY <1>1
<1>3. PICK k \in Ranks : \A j \in Ranks : ~(<<j, k>> \in OpToRel(<, Nat))
  BY <1>2, WFMin, NatLessThanWellFounded
<1>4. \A j \in Ranks : k <= j
  <2>1. \A j \in Ranks : ~(j < k)
    BY <1>2, <1>3 DEF OpToRel
  <2> HIDE DEF Ranks
  <2> QED BY <1>2, <2>1
<1>5. \E n \in records : \A m \in records : Rank(n) <= Rank(m)
  BY <1>4
<1> QED BY <1>5 DEF FirstOf

LEMMA FollowingIs ==
  ASSUME NEW c, c.want \in Sets
  PROVE  /\ Following(c) \in DOMAIN Artifacts(c.want) /\ Following(c) \in Names
         /\ Following(c) = Manifest => Differs(c) \subseteq {Manifest}
<1> DEFINE records == Differs(c) \ {Manifest}
<1>1. records \subseteq DOMAIN Artifacts(c.want) /\ DOMAIN Artifacts(c.want) \subseteq Names
  BY ArtifactsAre, OfContents DEF Differs
<1>2. records # {} => FirstOf(records) \in records
  BY <1>1, SomethingIsFirst
<1>3. Following(c) = IF records = {} THEN Manifest ELSE FirstOf(records)
  BY DEF Following
<1>4. Manifest \in DOMAIN Artifacts(c.want)
  BY ArtifactsAre
<1>5. records = {} <=> Differs(c) \subseteq {Manifest}
  OBVIOUS
<1> HIDE DEF records
<1> QED
  <2>1. CASE records = {}
    BY <1>1, <1>3, <1>4, <1>5, <2>1
  <2>2. CASE records # {}
    <3>1. FirstOf(records) # Manifest
      BY <1>2, <2>2 DEF records
    <3> QED BY <1>1, <1>2, <1>3, <2>2, <3>1
  <2> QED BY <2>1, <2>2

LEMMA NextIsFollowing ==
  ASSUME NEW p
  PROVE  NextFile(p) = Following(run[p]) /\ Wanted(p) = Artifacts(run[p].want)
BY DEF NextFile, Following, FirstOf, Differing, Differs, Wanted

(***************************************************************************)
(* Artifacts that agree but for the manifest, and the manifest replaced.   *)
(***************************************************************************)
LEMMA LastReplacement ==
  ASSUME NEW want \in Sets, NEW all \in Contents,
         DOMAIN all \subseteq DOMAIN Artifacts(want),
         \A n \in DOMAIN Artifacts(want) \ {Manifest} :
           n \in DOMAIN all /\ all[n] = Artifacts(want)[n]
  PROVE  [m \in DOMAIN all \cup {Manifest} |->
            IF m = Manifest THEN Artifacts(want)[Manifest] ELSE all[m]] = Artifacts(want)
<1> DEFINE new == [m \in DOMAIN all \cup {Manifest} |->
                     IF m = Manifest THEN Artifacts(want)[Manifest] ELSE all[m]]
<1>1. Artifacts(want) \in Contents /\ Manifest \in DOMAIN Artifacts(want)
  BY ArtifactsAre
<1>2. DOMAIN new = DOMAIN Artifacts(want)
  BY <1>1
<1>3. \A m \in DOMAIN new : new[m] = Artifacts(want)[m]
  BY <1>2
<1>4. new \in [DOMAIN new -> Bodies] /\ DOMAIN new \in SUBSET Names
  BY <1>1, <1>2, <1>3, OfContents
<1>5. new \in Contents
  BY <1>4, InContents
<1> HIDE DEF new
<1>6. new = Artifacts(want)
  BY <1>1, <1>2, <1>3, <1>5, SameContents
<1> QED BY <1>6 DEF new

--------------------------------------------------------------------------------
(***************************************************************************)
(* A look that has nothing left on its list.                               *)
(***************************************************************************)
LEMMA FullLook ==
  ASSUME NEW c \in Run, NEW all \in Contents, Fits(c, all), Covers(c, all), c.todo = {}
  PROVE  c.got = all
<1>1. c.got \in Contents /\ DOMAIN c.got = DOMAIN all
  BY DEF Run, Fits, Covers
<1> QED BY <1>1, SameContents DEF Fits

(***************************************************************************)
(* What it has put together was there at some moment, if the files changed *)
(* at most once under it: of the two states on either side of one          *)
(* replacement, the look has found the one or the other.                   *)
(***************************************************************************)
LEMMA SnapshotWasWhole ==
  ASSUME files \in Contents, NEW c \in Run, NEW w, NEW k \in 0..1, NEW set \in Sets,
         LookOK(c, files, w, k), c.at \in Places, c.todo = {}, WasWhole(files, w),
         c.got = Artifacts(set)
  PROVE  set \in w
<1>1. CASE k = 0
  <2>1. files = Artifacts(set)
    BY <1>1, FullLook DEF LookOK
  <2> QED BY <2>1 DEF WasWhole
<1>2. CASE k = 1
  <2>1. PICK old \in Contents :
          /\ WasWhole(old, w)
          /\ \/ \E n \in Names : ChangesAt(old, files, n) /\ Blends(c, old, files, n)
             \/ Outlives(c, old, files)
    BY <1>2 DEF LookOK
  <2>2. CASE c.got = old
    BY <2>1, <2>2 DEF WasWhole
  <2>3. CASE c.got = files
    BY <2>3 DEF WasWhole
  <2>4. ASSUME NEW n \in Names, ChangesAt(old, files, n), Blends(c, old, files, n)
        PROVE  c.got = old \/ c.got = files
    <3>1. c.got \in Contents /\ DOMAIN old \subseteq DOMAIN c.got
      BY <2>4 DEF Run, Blends, Covers
    <3>2. DOMAIN c.got \subseteq DOMAIN files /\ DOMAIN files = DOMAIN old \cup {n}
      BY <2>4 DEF Blends, ChangesAt
    <3>3. \A m \in DOMAIN c.got : m # n => m \in DOMAIN old /\ c.got[m] = files[m] /\ c.got[m] = old[m]
      BY <2>4, <3>2 DEF Blends, ChangesAt
    <3>4. CASE n \in DOMAIN c.got /\ c.got[n] = files[n]
      <4>1. DOMAIN c.got = DOMAIN files /\ \A m \in DOMAIN c.got : c.got[m] = files[m]
        BY <3>1, <3>2, <3>3, <3>4
      <4> QED BY <3>1, <4>1, SameContents
    <3>5. CASE n \in DOMAIN c.got /\ n \in DOMAIN old /\ c.got[n] = old[n]
      <4>1. DOMAIN c.got = DOMAIN old /\ \A m \in DOMAIN c.got : c.got[m] = old[m]
        BY <3>1, <3>2, <3>3, <3>5
      <4> QED BY <3>1, <4>1, SameContents
    <3>6. CASE n \notin DOMAIN c.got
      <4>1. DOMAIN c.got = DOMAIN old /\ \A m \in DOMAIN c.got : c.got[m] = old[m]
        BY <3>1, <3>2, <3>3, <3>6
      <4> QED BY <3>1, <4>1, SameContents
    <3> QED BY <2>4, <3>4, <3>5, <3>6 DEF Blends
  <2>5. ASSUME Outlives(c, old, files) PROVE c.got = old
    <3>1. PICK n \in DOMAIN c.got : n # Manifest
      BY ArtifactsAre
    <3>2. Fits(c, old) /\ Covers(c, old)
      BY <2>5, <3>1 DEF Outlives
    <3> QED BY <3>2, FullLook
  <2> QED BY <2>1, <2>2, <2>3, <2>4, <2>5
<1> QED BY <1>1, <1>2

(***************************************************************************)
(* A look begins.                                                          *)
(***************************************************************************)
LEMMA ListingOK ==
  ASSUME DirOK, files \in Contents, NEW p, NEW c \in Run, NEW place \in Places, NEW w
  PROVE  /\ Listing(p, c, place) \in Run /\ LookOK(Listing(p, c, place), files, w, 0)
         /\ Listing(p, c, place).at = place
         /\ Listing(p, c, place).want = c.want /\ Listing(p, c, place).op = c.op
         /\ Listing(p, c, place).expected = c.expected
         /\ Listing(p, c, place).attempted = c.attempted
<1> DEFINE d == Listing(p, c, place)
           top == {Manifest} \cap DOMAIN files
           todo == top \cup (IF dir = "full" THEN {RecordsDir} ELSE {})
<1>1. d = [c EXCEPT !.at = place, !.got = Empty, !.alien = AlienIn(p, "top"), !.todo = todo]
  BY DEF Listing
<1>2. todo \in SUBSET (Names \cup {RecordsDir})
  BY NamesAre
<1>3. AlienIn(p, "top") \in BOOLEAN
  BY DEF AlienIn
<1> HIDE DEF d, todo
<1>4. /\ d.at = place /\ d.got = Empty /\ d.todo = todo /\ d.want = c.want /\ d.op = c.op
      /\ d.expected = c.expected /\ d.attempted = c.attempted
  BY <1>1 DEF Run
<1>5. d \in Run
  BY <1>1, <1>2, <1>3, EmptyIsEmpty DEF Run, Places
<1>6. LookOK(d, files, w, 0)
  <2>1. todo \subseteq {Manifest, RecordsDir}
    BY DEF todo
  <2>2. Fits(d, files)
    BY <1>4, EmptyIsEmpty DEF Fits
  <2>3. ASSUME NEW n \in DOMAIN files PROVE n \in todo \/ (RecordsDir \in todo /\ n # Manifest)
    BY <2>3 DEF todo, DirOK
  <2>4. Covers(d, files)
    BY <1>4, <2>3, EmptyIsEmpty DEF Covers
  <2> QED BY <1>4, <2>1, <2>2, <2>4, EmptyIsEmpty DEF LookOK
<1>7. Listing(p, c, place) = d
  BY DEF d
<1> QED BY <1>4, <1>5, <1>6, <1>7

LEMMA ListingOf ==
  ASSUME DirOK, files \in Contents, NEW p, NEW c \in Run, NEW place \in Places, NEW w
  PROVE  \E e \in Run : /\ e = Listing(p, c, place) /\ LookOK(e, files, w, 0) /\ e.at = place
                        /\ e.want = c.want /\ e.op = c.op /\ e.expected = c.expected
                        /\ e.attempted = c.attempted
BY ListingOK

(***************************************************************************)
(* It goes on: the records directory is listed, or one file is read.       *)
(***************************************************************************)
LEMMA ListsRecords ==
  ASSUME files \in Contents, NEW c \in Run, NEW d \in Run, NEW w, NEW k \in 0..2, LookOK(c, files, w, k),
         c.todo = {RecordsDir}, d.at = c.at, d.got = c.got,
         d.todo = DOMAIN files \ {Manifest}
  PROVE  LookOK(d, files, w, k)
<1>1. RecordsDir \notin d.todo
  BY NamesAre, OfContents
<1>2. ASSUME NEW all, DOMAIN all \subseteq DOMAIN files, Covers(c, all) PROVE Covers(d, all)
  BY <1>2, NamesAre DEF Covers
<1>3. CASE k = 0
  BY <1>1, <1>2, <1>3 DEF LookOK, Fits
<1>4. CASE k = 1 /\ c.at \in Places
  <2>1. PICK old \in Contents :
          /\ WasWhole(old, w)
          /\ \/ \E n \in Names : ChangesAt(old, files, n) /\ Blends(c, old, files, n)
             \/ Outlives(c, old, files)
    BY <1>4 DEF LookOK
  <2>2. ASSUME NEW n \in Names, ChangesAt(old, files, n), Blends(c, old, files, n)
        PROVE  Blends(d, old, files, n)
    <3>1. Covers(d, old)
      BY <1>2, <2>2 DEF Blends, ChangesAt
    <3> QED BY <2>2, <3>1 DEF Blends
  <2>3. ASSUME Outlives(c, old, files) PROVE Outlives(d, old, files)
    <3>1. d.todo = {} /\ DOMAIN c.got \subseteq {Manifest}
      BY <1>4, <2>3, EmptyIsEmpty DEF Outlives, LookOK
    <3> QED BY <2>3, <3>1 DEF Outlives, Fits
  <2>4. \E o \in Contents :
          /\ WasWhole(o, w)
          /\ \/ \E n \in Names : ChangesAt(o, files, n) /\ Blends(d, o, files, n)
             \/ Outlives(d, o, files)
    BY <2>1, <2>2, <2>3
  <2> QED BY <1>1, <1>4, <2>4 DEF LookOK
<1>5. CASE k = 2 \/ c.at \notin Places
  BY <1>1, <1>5 DEF LookOK
<1> QED BY <1>3, <1>4, <1>5

LEMMA ReadsFile ==
  ASSUME files \in Contents, NEW c \in Run, NEW d \in Run, NEW w, NEW k \in 0..2, LookOK(c, files, w, k),
         NEW n \in c.todo, n \in DOMAIN files, d.at = c.at, d.todo = c.todo \ {n},
         d.got = [m \in DOMAIN c.got \cup {n} |-> IF m = n THEN files[n] ELSE c.got[m]]
  PROVE  LookOK(d, files, w, k)
<1>1. n # RecordsDir
  BY NamesAre, OfContents
<1>2. c.at \in Places /\ RecordsDir \in d.todo =>
        DOMAIN d.got \subseteq {Manifest} /\ d.todo \subseteq {Manifest, RecordsDir}
  BY <1>1 DEF LookOK
<1>3. ASSUME NEW all, Covers(c, all) PROVE Covers(d, all)
  BY <1>1, <1>3 DEF Covers
<1>4. CASE k = 0
  BY <1>2, <1>3, <1>4 DEF LookOK, Fits
<1>5. CASE k = 1 /\ c.at \in Places
  <2>1. PICK old \in Contents :
          /\ WasWhole(old, w)
          /\ \/ \E m \in Names : ChangesAt(old, files, m) /\ Blends(c, old, files, m)
             \/ Outlives(c, old, files)
    BY <1>5 DEF LookOK
  <2>2. ~Outlives(c, old, files)
    BY EmptyIsEmpty DEF Outlives
  <2>3. PICK m \in Names : ChangesAt(old, files, m) /\ Blends(c, old, files, m)
    BY <2>1, <2>2
  <2>4. Blends(d, old, files, m)
    BY <1>3, <2>3 DEF Blends
  <2>5. \E o \in Contents :
          /\ WasWhole(o, w)
          /\ \/ \E j \in Names : ChangesAt(o, files, j) /\ Blends(d, o, files, j)
             \/ Outlives(d, o, files)
    BY <2>1, <2>3, <2>4
  <2> QED BY <1>2, <1>5, <2>5 DEF LookOK
<1>6. CASE k = 2 \/ c.at \notin Places
  BY <1>2, <1>6 DEF LookOK
<1> QED BY <1>4, <1>5, <1>6

--------------------------------------------------------------------------------
(***************************************************************************)
(* Somebody else changes the files: a look under way now counts one change *)
(* more, and what was whole at its start is still known.                   *)
(***************************************************************************)
LEMMA LookOvertaken ==
  ASSUME files \in Contents, files' \in Contents,
         files' = Empty \/ \E n \in Names : ChangesAt(files, files', n),
         NEW c \in Run, NEW w, NEW k \in 0..2, WasWhole(files, w), LookOK(c, files, w, k),
         NEW u, w \subseteq u, NEW j \in 1..2, j = 1 => k = 0
  PROVE  LookOK(c, files', u, j)
<1>1. c.at \in Places /\ RecordsDir \in c.todo =>
        DOMAIN c.got \subseteq {Manifest} /\ c.todo \subseteq {Manifest, RecordsDir}
  BY DEF LookOK
<1>2. ASSUME j = 1, c.at \in Places
      PROVE  \E old \in Contents :
               /\ WasWhole(old, u)
               /\ \/ \E n \in Names : ChangesAt(old, files', n) /\ Blends(c, old, files', n)
                  \/ Outlives(c, old, files')
  <2>1. Fits(c, files) /\ Covers(c, files)
    BY <1>2 DEF LookOK
  <2>2. WasWhole(files, u)
    BY DEF WasWhole
  <2>3. ASSUME NEW n \in Names, ChangesAt(files, files', n) PROVE Blends(c, files, files', n)
    BY <2>1, <2>3 DEF Blends, ChangesAt, Fits, Covers
  <2>4. files' = Empty => Outlives(c, files, files')
    BY <2>1 DEF Outlives, Fits, Covers
  <2> QED BY <2>2, <2>3, <2>4
<1> QED BY <1>1, <1>2 DEF LookOK

(***************************************************************************)
(* A process that does nothing while another one acts.                     *)
(***************************************************************************)
Still(q) ==
  run'[q] = run[q] /\ whole'[q] = whole[q] /\ raced'[q] = raced[q] /\ wrote'[q] = wrote[q]

DirGrows == dir' = dir \/ (dir = "none" /\ dir' = "bare") \/ (dir # "none" /\ dir' = "full")

LEMMA Bystander ==
  ASSUME NEW q, ProcessOK(q), files' = files, DirGrows, Still(q), temp'[q] = temp[q]
  PROVE  ProcessOK(q)'
<1>1. LookOK(run'[q], files', whole'[q], raced'[q])
  BY DEF ProcessOK, Still
<1>2. PlanOK(run'[q], files', raced'[q])
  BY DEF ProcessOK, Still
<1>3. TempOK(run'[q], temp'[q], dir')
  BY DEF ProcessOK, TempOK, Still, DirGrows
<1>4. ReportOK(run'[q], files', whole'[q], raced'[q], wrote'[q])
  BY DEF ProcessOK, Still
<1> QED BY <1>1, <1>2, <1>3, <1>4 DEF ProcessOK

(***************************************************************************)
(* A step that leaves the managed files alone, told by the new state c of  *)
(* the run that takes it.                                                  *)
(***************************************************************************)
Puts(p, c, w, k, r, t) ==
  /\ run' = [run EXCEPT ![p] = c] /\ whole' = [whole EXCEPT ![p] = w]
  /\ raced' = [raced EXCEPT ![p] = k] /\ wrote' = [wrote EXCEPT ![p] = r]
  /\ temp' = [temp EXCEPT ![p] = t]
  /\ files' = files /\ litter' \subseteq {"top", "records"} /\ DirGrows
  /\ calls' \in 0..MaxCalls /\ touches' = touches

LEMMA QuietStep ==
  ASSUME LocalInv, NEW p \in Procs, NEW c \in Run, NEW w \in SUBSET (Sets \cup {Empty}),
         NEW k \in 0..2, NEW r \in BOOLEAN, NEW t \in {"none", "top", "records"},
         Puts(p, c, w, k, r, t),
         LookOK(c, files, w, k), PlanOK(c, files, k), TempOK(c, t, dir), ReportOK(c, files, w, k, r)
  PROVE  LocalInv'
<1>1. LocalTypeOK'
  BY DEF LocalInv, LocalTypeOK, Puts, DirGrows
<1>2. DirOK'
  BY DEF LocalInv, DirOK, Puts, DirGrows
<1>3. ASSUME NEW q \in Procs, q # p PROVE ProcessOK(q)'
  <2>1. Still(q) /\ temp'[q] = temp[q] /\ files' = files /\ DirGrows
    BY <1>3 DEF LocalInv, LocalTypeOK, Puts, Still
  <2> QED BY <1>3, <2>1, Bystander DEF LocalInv
<1>4. ProcessOK(p)'
  <2>1. run'[p] = c /\ whole'[p] = w /\ raced'[p] = k /\ wrote'[p] = r /\ temp'[p] = t
    BY DEF LocalInv, LocalTypeOK, Puts
  <2>2. files' = files /\ DirGrows
    BY DEF Puts
  <2>3. LookOK(c, files', w, k)
    BY <2>2
  <2>4. PlanOK(c, files', k) /\ ReportOK(c, files', w, k, r)
    BY <2>2
  <2>5. TempOK(c, t, dir')
    BY <2>2 DEF TempOK, DirGrows
  <2> QED BY <2>1, <2>3, <2>4, <2>5 DEF ProcessOK
<1> QED BY <1>1, <1>2, <1>3, <1>4 DEF LocalInv

(***************************************************************************)
(* What is known of one process.                                           *)
(***************************************************************************)
LEMMA OfProcess ==
  ASSUME LocalInv, NEW p \in Procs
  PROVE  /\ run[p] \in Run /\ whole[p] \in SUBSET (Sets \cup {Empty}) /\ raced[p] \in 0..2
         /\ wrote[p] \in BOOLEAN /\ temp[p] \in {"none", "top", "records"}
         /\ LookOK(run[p], files, whole[p], raced[p]) /\ PlanOK(run[p], files, raced[p])
         /\ TempOK(run[p], temp[p], dir) /\ ReportOK(run[p], files, whole[p], raced[p], wrote[p])
         /\ files \in Contents /\ DirOK /\ run \in [Procs -> Run]
BY DEF LocalInv, LocalTypeOK, ProcessOK

(***************************************************************************)
(* The end of a command.                                                   *)
(***************************************************************************)
LEMMA ConcludesOK ==
  ASSUME LocalInv, NEW p \in Procs, ~RunAt(p, "idle"),
         NEW outcome \in {"done", "refused", "partial", "crashed"}, NEW result \in Sets \cup {Empty},
         Concludes(p, outcome, result),
         outcome = "done" /\ result # Empty /\ raced[p] <= 1 => result \in whole[p],
         outcome = "refused" => ~run[p].attempted,
         temp' = [temp EXCEPT ![p] = "none"], litter' \subseteq {"top", "records"},
         files' = files, dir' = dir, calls' = calls, touches' = touches
  PROVE  LocalInv'
<1> DEFINE c == [NoRun EXCEPT !.op = run[p].op, !.outcome = outcome, !.result = result]
           w == whole[p] \cap {result}
<1>1. c \in Run /\ c.at = "idle" /\ c.outcome = outcome /\ c.result = result
  BY OfProcess, EmptyIsEmpty DEF NoRun, Run
<1>2. w \in SUBSET (Sets \cup {Empty}) /\ raced[p] \in 0..2 /\ wrote[p] \in BOOLEAN
  BY OfProcess
<1>3. Puts(p, c, w, raced[p], wrote[p], "none")
  BY DEF Concludes, Puts, DirGrows, LocalInv, LocalTypeOK
<1> HIDE DEF c
<1>4. LookOK(c, files, w, raced[p]) /\ PlanOK(c, files, raced[p]) /\ TempOK(c, "none", dir)
  BY <1>1 DEF LookOK, Places, PlanOK, Writing, TempOK
<1>5. ReportOK(c, files, w, raced[p], wrote[p])
  BY <1>1, OfProcess DEF ReportOK, RunAt
<1> HIDE DEF w
<1> QED BY <1>1, <1>2, <1>3, <1>4, <1>5, QuietStep

LEMMA FailsOK ==
  ASSUME LocalInv, NEW p \in Procs, ~RunAt(p, "idle"), Fails(p),
         temp' = [temp EXCEPT ![p] = "none"], litter' \subseteq {"top", "records"},
         files' = files, dir' = dir, calls' = calls, touches' = touches
  PROVE  LocalInv'
<1>1. Failure(p) \in {"refused", "partial"} /\ (Failure(p) = "refused" => ~run[p].attempted)
  BY DEF Failure
<1>2. Concludes(p, Failure(p), Empty)
  BY DEF Fails
<1> HIDE DEF Failure
<1> QED BY <1>1, <1>2, ConcludesOK

\* A run without a temporary file.
LEMMA NoTemp ==
  ASSUME LocalInv, NEW p \in Procs, run[p].at \notin {"after", "replace"}
  PROVE  temp[p] = "none" /\ temp = [temp EXCEPT ![p] = "none"]
BY OfProcess DEF LocalInv, LocalTypeOK, TempOK

--------------------------------------------------------------------------------
(***************************************************************************)
(* A command goes on: what it has planned stays, and c.at moves.           *)
(***************************************************************************)
SamePlan(c, d) ==
  /\ d.op = c.op /\ d.want = c.want /\ d.expected = c.expected /\ d.attempted = c.attempted
  /\ c.at # "idle" /\ d.at # "idle"

LEMMA SameStage ==
  ASSUME NEW c, NEW d, SamePlan(c, d), d.at = c.at, NEW w, NEW k, NEW r, NEW t,
         PlanOK(c, files, k), TempOK(c, t, dir), ReportOK(c, files, w, k, r)
  PROVE  PlanOK(d, files, k) /\ TempOK(d, t, dir) /\ ReportOK(d, files, w, k, r)
BY DEF SamePlan, PlanOK, TempOK, ReportOK, Following, Differs

LEMMA NextStage ==
  ASSUME NEW c, NEW d, SamePlan(c, d), c.at \in Writing, d.at \in Writing \ {"replace"},
         NEW w, NEW k, NEW j, NEW r, PlanOK(c, files, k), ReportOK(c, files, w, k, r)
  PROVE  PlanOK(d, files, j) /\ ReportOK(d, files, w, j, r) /\ TempOK(d, "none", dir)
BY DEF SamePlan, PlanOK, ReportOK, TempOK, Writing

Frame == calls' = calls /\ touches' = touches
Left(p, c, k, t) == Puts(p, c, whole[p], k, wrote[p], t)

\* Steps that only move the run.
LEMMA OnlyRuns ==
  ASSUME LocalInv, NEW p \in Procs, NEW c, run' = [run EXCEPT ![p] = c],
         files' = files, temp' = temp, litter' = litter, DirGrows, Frame,
         UNCHANGED localHistory
  PROVE  Left(p, c, raced[p], temp[p])
BY DEF LocalInv, LocalTypeOK, Left, Puts, Frame, localHistory

LEMMA LookStep ==
  ASSUME LocalInv, NEW p \in Procs, Look(p), Frame
  PROVE  LocalInv'
<1> DEFINE c == run[p]
<1>1. c.at \in Places /\ c \in Run
  BY OfProcess DEF Look, Looking, Places
<1>2. PICK n \in c.todo :
       \/ /\ n = RecordsDir /\ c.todo = {n}
          /\ run' = [run EXCEPT ![p].todo = (@ \ {n}) \cup (DOMAIN files \ {Manifest}),
                                ![p].alien = @ \/ AlienIn(p, "records")]
       \/ /\ n \in DOMAIN files
          /\ run' = [run EXCEPT ![p].todo = @ \ {n},
               ![p].got = [m \in DOMAIN @ \cup {n} |-> IF m = n THEN files[n] ELSE @[m]]]
  BY DEF Look
<1>3. files' = files /\ temp' = temp /\ litter' = litter /\ dir' = dir /\ UNCHANGED localHistory
  BY DEF Look, disk
<1>4. ASSUME NEW d \in Run, run' = [run EXCEPT ![p] = d], SamePlan(c, d), d.at = c.at,
             LookOK(d, files, whole[p], raced[p])
      PROVE  LocalInv'
  <2>1. Left(p, d, raced[p], temp[p])
    BY <1>3, <1>4, OnlyRuns DEF DirGrows
  <2>2. PlanOK(d, files, raced[p]) /\ TempOK(d, temp[p], dir) /\ ReportOK(d, files, whole[p], raced[p], wrote[p])
    BY <1>4, OfProcess, SameStage
  <2> QED BY <1>4, <2>1, <2>2, OfProcess, QuietStep DEF Left
<1>5. CASE n = RecordsDir /\ c.todo = {n} /\
           run' = [run EXCEPT ![p].todo = (@ \ {n}) \cup (DOMAIN files \ {Manifest}),
                              ![p].alien = @ \/ AlienIn(p, "records")]
  <2> DEFINE d == [c EXCEPT !.todo = (@ \ {n}) \cup (DOMAIN files \ {Manifest}),
                            !.alien = @ \/ AlienIn(p, "records")]
  <2>1. run' = [run EXCEPT ![p] = d]
    BY <1>5, OfProcess
  <2>2. d.todo = DOMAIN files \ {Manifest} /\ d.at = c.at /\ d.got = c.got /\ SamePlan(c, d)
    BY <1>1, <1>5 DEF Run, SamePlan, Places
  <2>3. AlienIn(p, "records") \in BOOLEAN /\ DOMAIN files \subseteq Names
    BY OfProcess, OfContents DEF AlienIn
  <2>4. d \in Run
    BY <1>1, <1>5, <2>3 DEF Run
  <2> HIDE DEF d
  <2>5. LookOK(d, files, whole[p], raced[p])
    BY <1>5, <2>2, <2>4, OfProcess, ListsRecords
  <2> QED BY <1>4, <2>1, <2>2, <2>4, <2>5
<1>6. CASE n \in DOMAIN files /\
           run' = [run EXCEPT ![p].todo = @ \ {n},
             ![p].got = [m \in DOMAIN @ \cup {n} |-> IF m = n THEN files[n] ELSE @[m]]]
  <2> DEFINE got == [m \in DOMAIN c.got \cup {n} |-> IF m = n THEN files[n] ELSE c.got[m]]
             d == [c EXCEPT !.todo = @ \ {n}, !.got = got]
  <2>1. run' = [run EXCEPT ![p] = d]
    BY <1>6, OfProcess
  <2>2. c.got \in Contents /\ files \in Contents
    BY OfProcess DEF Run
  <2>3. got \in Contents
    <3>1. got \in [DOMAIN c.got \cup {n} -> Bodies] /\ DOMAIN c.got \cup {n} \in SUBSET Names
      BY <1>6, <2>2, OfContents
    <3> QED BY <3>1, InContents
  <2> HIDE DEF got
  <2>4. d \in Run /\ d.todo = c.todo \ {n} /\ d.got = got /\ d.at = c.at /\ SamePlan(c, d)
    BY <1>1, <2>3 DEF Run, SamePlan, Places
  <2> HIDE DEF d
  <2>5. d.got = [m \in DOMAIN c.got \cup {n} |-> IF m = n THEN files[n] ELSE c.got[m]]
    BY <2>4 DEF got
  <2>6. LookOK(d, files, whole[p], raced[p])
    BY <1>2, <1>6, <2>4, <2>5, OfProcess, ReadsFile
  <2> QED BY <1>4, <2>1, <2>4, <2>6
<1> QED BY <1>2, <1>5, <1>6

LEMMA GivesOK ==
  ASSUME LocalInv, NEW p \in Procs, ~RunAt(p, "idle"), Gives(p), Frame
  PROVE  LocalInv'
<1>1. litter' \subseteq {"top", "records"} /\ files' = files /\ dir' = dir
      /\ temp' = [temp EXCEPT ![p] = "none"]
  BY DEF Gives, Drops, LocalInv, LocalTypeOK
<1> QED BY <1>1, FailsOK DEF Gives, Frame

\* A failure before or after the temporary file was there.
LEMMA FailsQuietly ==
  ASSUME LocalInv, NEW p \in Procs, ~RunAt(p, "idle"), run[p].at \notin {"after", "replace"},
         Fails(p), UNCHANGED disk, Frame
  PROVE  LocalInv'
<1>1. litter' \subseteq {"top", "records"} /\ files' = files /\ dir' = dir
      /\ temp' = [temp EXCEPT ![p] = "none"]
  BY NoTemp DEF disk, LocalInv, LocalTypeOK
<1> QED BY <1>1, FailsOK DEF Frame

LEMMA EndsQuietly ==
  ASSUME LocalInv, NEW p \in Procs, run[p].at \in {"prepare", "final"},
         NEW result \in Sets \cup {Empty}, Concludes(p, "done", result), UNCHANGED disk, Frame,
         Seen(p), result # Empty => run[p].got = Artifacts(result)
  PROVE  LocalInv'
<1>1. litter' \subseteq {"top", "records"} /\ files' = files /\ dir' = dir
      /\ temp' = [temp EXCEPT ![p] = "none"]
  BY NoTemp DEF disk, LocalInv, LocalTypeOK
<1>2. result # Empty /\ raced[p] <= 1 => result \in whole[p]
  <2> SUFFICES ASSUME result # Empty, raced[p] <= 1 PROVE result \in whole[p]
    OBVIOUS
  <2>1. run[p].at \in Places /\ run[p].todo = {} /\ raced[p] \in 0..1 /\ result \in Sets
    BY OfProcess DEF Places, Seen
  <2>2. WasWhole(files, whole[p])
    BY <2>1, OfProcess DEF ReportOK, Places
  <2> QED BY <2>1, <2>2, OfProcess, SnapshotWasWhole
<1> QED BY <1>1, <1>2, ConcludesOK DEF Frame, RunAt

--------------------------------------------------------------------------------
(***************************************************************************)
(* _prepare merges the records of the request into those it has found.     *)
(***************************************************************************)
LEMMA MergeIs ==
  ASSUME NEW old \in Sets \cup {Empty}, NEW new \in Sets
  PROVE  /\ Merge(old, new) \in Sets /\ DOMAIN old \subseteq DOMAIN Merge(old, new)
         /\ old # Empty => DOMAIN Artifacts(old) \subseteq DOMAIN Artifacts(Merge(old, new))
<1> DEFINE ids == DOMAIN old \cup DOMAIN new
           merged == Merge(old, new)
<1>1. /\ DOMAIN old \subseteq Ids /\ DOMAIN new \subseteq Ids /\ ids # {}
      /\ \A i \in DOMAIN old : old[i] \in Versions
      /\ \A i \in DOMAIN new : new[i] \in Versions
  BY OfSets, EmptyIsEmpty
<1>2. merged \in [ids -> Versions] /\ DOMAIN merged = ids
  BY <1>1 DEF Merge
<1>3. merged \in Sets
  BY <1>1, <1>2, InSets
<1>4. ASSUME old # Empty PROVE DOMAIN Artifacts(old) \subseteq DOMAIN Artifacts(merged)
  <2> HIDE DEF merged
  <2>1. old \in Sets
    BY <1>4
  <2> QED BY <1>2, <1>3, <2>1, ArtifactsAre
<1> HIDE DEF merged
<1>5. merged = Merge(old, new)
  BY DEF merged
<1> QED BY <1>2, <1>3, <1>4, <1>5

LEMMA PreparedStep ==
  ASSUME LocalInv, NEW p \in Procs, Prepared(p), Frame
  PROVE  LocalInv'
<1> DEFINE c == run[p]
           want == Merge(Found(p), c.want)
<1>1. /\ c.at = "prepare" /\ c \in Run /\ Seen(p) /\ UNCHANGED disk /\ ~RunAt(p, "idle")
      /\ c.at \notin {"after", "replace"} /\ c.op \in {"verify", "preview", "generate"}
      /\ c.op = "generate" => c.want \in Sets
  BY OfProcess DEF Prepared, RunAt, PlanOK, Run
<1>2. ASSUME Fails(p) PROVE LocalInv'
  BY <1>1, <1>2, FailsQuietly
<1>3. ASSUME ~Fails(p)
      PROVE  /\ Acceptable(p)
             /\ \/ /\ c.op = "verify" /\ c.got # Empty /\ Concludes(p, "done", Found(p))
                \/ c.op = "preview" /\ Concludes(p, "done", Empty)
                \/ /\ c.op = "generate" /\ c.got = Artifacts(want) /\ Concludes(p, "done", want)
                \/ /\ c.op = "generate"
                   /\ run' = [run EXCEPT ![p].at = "mkdir", ![p].want = want,
                                         ![p].expected = run[p].got]
                   /\ UNCHANGED localHistory
  BY <1>1, <1>3 DEF Prepared
<1>4. ASSUME Acceptable(p)
      PROVE  /\ c.got # Empty => Found(p) \in Sets /\ c.got = Artifacts(Found(p))
             /\ Found(p) \in Sets \cup {Empty}
             /\ c.got = Empty => Found(p) = Empty
  <2>1. CASE c.got = Empty
    BY <2>1 DEF Found
  <2>2. CASE c.got # Empty
    <3>1. IsManaged(c.got) /\ c.got \in Contents /\ Found(p) = c.got[Manifest]
      BY <1>1, <1>4, <2>2 DEF Acceptable, Found, Run
    <3> QED BY <2>2, <3>1, ManagedIsSet
  <2> QED BY <2>1, <2>2
<1>5. ASSUME c.op = "verify", c.got # Empty, Concludes(p, "done", Found(p)), Acceptable(p)
      PROVE  LocalInv'
  BY <1>1, <1>4, <1>5, EndsQuietly
<1>6. ASSUME Concludes(p, "done", Empty) PROVE LocalInv'
  BY <1>1, <1>6, EndsQuietly
<1>7. ASSUME c.op = "generate", Acceptable(p)
      PROVE  /\ want \in Sets /\ DOMAIN Found(p) \subseteq DOMAIN want
             /\ DOMAIN c.got \subseteq DOMAIN Artifacts(want)
             /\ Manifest \in DOMAIN c.got => c.got[Manifest] = Found(p) /\ Found(p) \in Sets
  <2>1. want \in Sets /\ DOMAIN Found(p) \subseteq DOMAIN want
        /\ (Found(p) # Empty => DOMAIN Artifacts(Found(p)) \subseteq DOMAIN Artifacts(want))
    BY <1>1, <1>4, <1>7, MergeIs
  <2> HIDE DEF want
  <2>2. CASE c.got = Empty
    BY <1>4, <1>7, <2>1, <2>2, EmptyIsEmpty
  <2>3. CASE c.got # Empty
    BY <1>4, <1>7, <2>1, <2>3, ArtifactsAre, EmptyIsEmpty
  <2> QED BY <2>1, <2>2, <2>3
<1>8. ASSUME c.op = "generate", c.got = Artifacts(want), Concludes(p, "done", want), Acceptable(p)
      PROVE  LocalInv'
  <2>1. want \in Sets
    BY <1>7, <1>8
  <2> HIDE DEF want
  <2> QED BY <1>1, <1>8, <2>1, EndsQuietly
<1>9. ASSUME c.op = "generate", Acceptable(p), UNCHANGED localHistory,
             run' = [run EXCEPT ![p].at = "mkdir", ![p].want = want, ![p].expected = run[p].got]
      PROVE  LocalInv'
  <2> DEFINE d == [c EXCEPT !.at = "mkdir", !.want = want, !.expected = c.got]
  <2>1. /\ want \in Sets /\ DOMAIN Found(p) \subseteq DOMAIN want
        /\ DOMAIN c.got \subseteq DOMAIN Artifacts(want)
        /\ Manifest \in DOMAIN c.got => c.got[Manifest] = Found(p) /\ Found(p) \in Sets
    BY <1>7, <1>9
  <2>2. run' = [run EXCEPT ![p] = d]
    BY <1>9, OfProcess
  <2> HIDE DEF want
  <2>3. /\ d \in Run /\ d.at = "mkdir" /\ d.want = want /\ d.expected = c.got
        /\ d.attempted = c.attempted
    BY <1>1, <2>1 DEF Run
  <2> HIDE DEF d
  <2>4. Left(p, d, raced[p], temp[p])
    BY <1>1, <1>9, <2>2, OnlyRuns DEF disk, DirGrows
  <2>5. LookOK(d, files, whole[p], raced[p]) /\ PlanOK(d, files, raced[p])
    BY <2>1, <2>3 DEF LookOK, Places, PlanOK
  <2>6. TempOK(d, temp[p], dir)
    BY <1>1, NoTemp DEF TempOK
  <2>7. ReportOK(d, files, whole[p], raced[p], wrote[p])
    BY <1>1, <2>3, OfProcess DEF ReportOK
  <2> QED BY <2>3, <2>4, <2>5, <2>6, <2>7, OfProcess, QuietStep DEF Left
<1> HIDE DEF want
<1> QED BY <1>2, <1>3, <1>5, <1>6, <1>8, <1>9

--------------------------------------------------------------------------------
(***************************************************************************)
(* The steps of generate that change no managed file.                      *)
(***************************************************************************)
LEMMA Moves ==
  ASSUME LocalInv, NEW p \in Procs, NEW place \in Writing \ (Places \cup {"replace"}),
         run[p].at \in Writing \ {"after", "replace"}, Goes(p, place),
         files' = files, temp' = temp, litter' = litter, DirGrows, Frame, UNCHANGED localHistory
  PROVE  LocalInv'
<1> DEFINE c == run[p]
           d == [c EXCEPT !.at = place]
<1>1. run' = [run EXCEPT ![p] = d]
  BY OfProcess DEF Goes
<1>2. d \in Run /\ d.at = place /\ SamePlan(c, d)
  BY OfProcess DEF Run, SamePlan, Writing
<1> HIDE DEF d
<1>3. Left(p, d, raced[p], temp[p]) /\ temp[p] = "none"
  BY <1>1, OnlyRuns, NoTemp
<1>4. PlanOK(d, files, raced[p]) /\ ReportOK(d, files, whole[p], raced[p], wrote[p]) /\ TempOK(d, "none", dir)
  BY <1>2, OfProcess, NextStage
<1>5. LookOK(d, files, whole[p], raced[p])
  BY <1>2 DEF LookOK
<1> QED BY <1>2, <1>3, <1>4, <1>5, OfProcess, QuietStep DEF Left

LEMMA MakeStep ==
  ASSUME LocalInv, NEW p \in Procs, MakeDirectory(p) \/ MakeRecords(p) \/ MakeFails(p), Frame
  PROVE  LocalInv'
<1>1. CASE MakeDirectory(p)
  <2>1. dir \in {"none", "bare", "full"}
    BY DEF LocalInv, LocalTypeOK
  <2> QED BY <1>1, <2>1, Moves DEF MakeDirectory, RunAt, Writing, Places, DirGrows
<1>2. CASE MakeRecords(p)
  BY <1>2, Moves DEF MakeRecords, RunAt, Writing, Places, DirGrows
<1>3. CASE MakeFails(p)
  BY <1>3, FailsQuietly DEF MakeFails, RunAt
<1> QED BY <1>1, <1>2, <1>3

LEMMA LooksAnew ==
  ASSUME LocalInv, NEW p \in Procs, NEW place \in {"before", "after", "final"},
         run[p].at \in Writing, Looks(p, place), NEW t \in {"none", "top", "records"},
         temp' = [temp EXCEPT ![p] = t], UNCHANGED <<dir, files, litter, whole, wrote>>, Frame,
         t # "none" => place = "after" /\ t = PlaceOf(NextFile(p)) /\ dir # "none"
                       /\ (t = "records" => dir = "full")
  PROVE  LocalInv'
<1> DEFINE c == run[p]
           d == Listing(p, c, place)
<1>1. /\ d \in Run /\ LookOK(d, files, whole[p], 0) /\ d.at = place
      /\ d.want = c.want /\ d.op = c.op /\ d.expected = c.expected /\ d.attempted = c.attempted
  <2>1. place \in Places /\ c \in Run /\ files \in Contents /\ DirOK
    BY OfProcess DEF Places
  <2>2. \E e \in Run : /\ e = Listing(p, c, place) /\ LookOK(e, files, whole[p], 0) /\ e.at = place
                       /\ e.want = c.want /\ e.op = c.op /\ e.expected = c.expected
                       /\ e.attempted = c.attempted
    BY <2>1, ListingOf
  <2> QED BY <2>2
<1>2. run' = [run EXCEPT ![p] = d] /\ raced' = [raced EXCEPT ![p] = 0]
  BY DEF Looks
<1> HIDE DEF d
<1>3. SamePlan(c, d)
  BY <1>1 DEF SamePlan, Writing
<1>4. PlanOK(d, files, 0) /\ ReportOK(d, files, whole[p], 0, wrote[p])
  BY <1>1, <1>3, OfProcess, NextStage DEF Writing
<1>5. TempOK(d, t, dir)
  <2>1. Following(d) = Following(c)
    BY <1>1 DEF Following, Differs
  <2> QED BY <1>1, <2>1, NextIsFollowing DEF TempOK
<1>6. Left(p, d, 0, t)
  BY <1>2 DEF Left, Puts, Frame, DirGrows, LocalInv, LocalTypeOK
<1> QED BY <1>1, <1>4, <1>5, <1>6, OfProcess, QuietStep DEF Left

LEMMA TurnStep ==
  ASSUME LocalInv, NEW p \in Procs, Turn(p), Frame
  PROVE  LocalInv'
<1>1. run[p].at = "next" /\ UNCHANGED <<dir, files, litter, whole, wrote>>
      /\ temp' = [temp EXCEPT ![p] = "none"]
  BY NoTemp DEF Turn, RunAt, disk
<1>2. PICK place \in {"before", "after", "final"} : Looks(p, place)
  BY DEF Turn
<1> QED BY <1>1, <1>2, LooksAnew DEF Writing

LEMMA CompareStep ==
  ASSUME LocalInv, NEW p \in Procs, Compare(p), Frame
  PROVE  LocalInv'
<1>1. run[p].at = "before" /\ UNCHANGED disk
  BY DEF Compare, RunAt
<1>2. CASE Fails(p)
  BY <1>1, <1>2, FailsQuietly DEF RunAt
<1>3. CASE Goes(p, "temp") /\ UNCHANGED localHistory
  BY <1>1, <1>3, Moves DEF Writing, Places, disk, DirGrows
<1> QED BY <1>2, <1>3 DEF Compare

LEMMA TemporaryStep ==
  ASSUME LocalInv, NEW p \in Procs, WriteTemporary(p) \/ TemporaryFails(p), Frame
  PROVE  LocalInv'
<1>1. CASE WriteTemporary(p)
  <2>1. PlaceOf(NextFile(p)) \in {"top", "records"}
    BY DEF PlaceOf
  <2>2. run[p].at = "temp" /\ Looks(p, "after") /\ UNCHANGED <<dir, files, litter, whole, wrote>>
        /\ temp' = [temp EXCEPT ![p] = PlaceOf(NextFile(p))]
        /\ (dir = "full" \/ (dir = "bare" /\ PlaceOf(NextFile(p)) = "top"))
    BY <1>1 DEF WriteTemporary, RunAt
  <2> HIDE DEF PlaceOf
  <2> QED BY <2>1, <2>2, LooksAnew DEF Writing
<1>2. CASE TemporaryFails(p)
  <2>1. PlaceOf(NextFile(p)) \in {"top", "records"}
    BY DEF PlaceOf
  <2>2. run[p].at = "temp" /\ Fails(p) /\ temp' = [temp EXCEPT ![p] = "none"]
        /\ files' = files /\ dir' = dir
        /\ (litter' = litter \/ litter' = litter \cup {PlaceOf(NextFile(p))})
    BY <1>2 DEF TemporaryFails, RunAt
  <2>3. litter' \subseteq {"top", "records"}
    BY <2>1, <2>2 DEF LocalInv, LocalTypeOK
  <2> QED BY <2>2, <2>3, FailsOK DEF RunAt, Frame
<1> QED BY <1>1, <1>2

LEMMA CompareAgainStep ==
  ASSUME LocalInv, NEW p \in Procs, CompareAgain(p), Frame
  PROVE  LocalInv'
<1> DEFINE c == run[p]
           d == [c EXCEPT !.at = "replace", !.attempted = TRUE]
<1>1. c.at = "after" /\ c \in Run /\ Seen(p) /\ ~RunAt(p, "idle")
  BY OfProcess DEF CompareAgain, RunAt
<1>2. CASE Gives(p)
  BY <1>1, <1>2, GivesOK
<1>3. CASE /\ Unchanged(p) /\ temp[p] # "none"
           /\ run' = [run EXCEPT ![p].at = "replace", ![p].attempted = TRUE]
           /\ UNCHANGED <<disk, localHistory>>
  <2>1. run' = [run EXCEPT ![p] = d]
    BY <1>3, OfProcess
  <2>2. /\ d \in Run /\ d.at = "replace" /\ d.attempted = TRUE /\ d.op = c.op
        /\ d.want = c.want /\ d.expected = c.expected
    BY <1>1 DEF Run
  <2> HIDE DEF d
  <2>3. Left(p, d, raced[p], temp[p])
    BY <1>3, <2>1, OnlyRuns DEF disk, DirGrows
  <2>4. raced[p] = 0 => files = c.expected
    <3>1. raced[p] = 0 => c.got = files
      BY <1>1, OfProcess, FullLook DEF LookOK, Places, Seen
    <3> QED BY <1>3, <3>1 DEF Unchanged
  <2>5. PlanOK(d, files, raced[p])
    BY <1>1, <2>2, <2>4, OfProcess DEF PlanOK, Writing
  <2>6. ReportOK(d, files, whole[p], raced[p], wrote[p])
    BY <1>1, <2>2, OfProcess DEF ReportOK
  <2>7. TempOK(d, temp[p], dir)
    <3>1. Following(d) = Following(c)
      BY <2>2 DEF Following, Differs
    <3>2. TempOK(c, temp[p], dir)
      BY OfProcess
    <3> QED BY <2>2, <3>1, <3>2 DEF TempOK
  <2>8. LookOK(d, files, whole[p], raced[p])
    BY <2>2 DEF LookOK, Places
  <2> QED BY <2>2, <2>3, <2>5, <2>6, <2>7, <2>8, OfProcess, QuietStep DEF Left
<1> QED BY <1>2, <1>3 DEF CompareAgain

--------------------------------------------------------------------------------
(***************************************************************************)
(* The files change, by a replacement or by the operator, while the run q  *)
(* is under way.                                                           *)
(***************************************************************************)
LEMMA Overtakes ==
  ASSUME LocalInv, NEW q \in Procs, files' \in Contents,
         files' = Empty \/ \E n \in Names : ChangesAt(files, files', n),
         run'[q] = run[q], wrote'[q] = wrote[q], raced'[q] = Overtaken(q),
         whole'[q] = IF RunAt(q, "idle") THEN whole[q] ELSE whole[q] \cup NowWhole',
         temp'[q] = "none" \/ (temp'[q] = temp[q] /\ dir' = dir)
  PROVE  ProcessOK(q)'
<1> DEFINE c == run[q]
<1>1. TempOK(c, temp'[q], dir')
  BY OfProcess DEF TempOK
<1>2. CASE c.at = "idle"
  <2>1. LookOK(c, files', whole'[q], raced'[q]) /\ PlanOK(c, files', raced'[q])
    BY <1>2 DEF LookOK, Places, PlanOK, Writing
  <2>2. ReportOK(c, files', whole'[q], raced'[q], wrote'[q])
    BY <1>2, OfProcess DEF ReportOK, Overtaken, RunAt
  <2> QED BY <1>1, <2>1, <2>2 DEF ProcessOK
<1>3. CASE c.at # "idle"
  <2>1. /\ raced'[q] \in 1..2 /\ (raced'[q] = 1 => raced[q] = 0) /\ raced[q] \in 0..2
        /\ whole'[q] = whole[q] \cup NowWhole'
    BY <1>3, OfProcess DEF Overtaken, RunAt
  <2>2. WasWhole(files, whole[q]) /\ (wrote[q] => c.attempted)
    BY <1>3, OfProcess DEF ReportOK
  <2>3. LookOK(c, files', whole'[q], raced'[q])
    BY <2>1, <2>2, OfProcess, LookOvertaken
  <2>4. PlanOK(c, files', raced'[q])
    BY <2>1, OfProcess DEF PlanOK
  <2>5. ReportOK(c, files', whole'[q], raced'[q], wrote'[q])
    BY <1>3, <2>1, <2>2 DEF ReportOK, WasWhole, NowWhole
  <2> QED BY <1>1, <2>3, <2>4, <2>5 DEF ProcessOK
<1> QED BY <1>2, <1>3

\* The files after a replacement.
Replaced(n, body) == [m \in DOMAIN files \cup {n} |-> IF m = n THEN body ELSE files[m]]

LEMMA ReplacedIs ==
  ASSUME files \in Contents, NEW n \in Names, NEW body \in Bodies
  PROVE  Replaced(n, body) \in Contents /\ ChangesAt(files, Replaced(n, body), n)
         /\ DOMAIN Replaced(n, body) = DOMAIN files \cup {n}
<1>1. DOMAIN files \subseteq Names /\ \A m \in DOMAIN files : files[m] \in Bodies
  BY OfContents
<1>2. Replaced(n, body) \in [DOMAIN files \cup {n} -> Bodies] /\ DOMAIN files \cup {n} \in SUBSET Names
  BY <1>1 DEF Replaced
<1>3. Replaced(n, body) \in Contents
  BY <1>2, InContents
<1> QED BY <1>3 DEF Replaced, ChangesAt

LEMMA ReplaceStep ==
  ASSUME LocalInv, NEW p \in Procs, ReplaceFile(p), Frame
  PROVE  LocalInv'
<1> DEFINE c == run[p]
           n == NextFile(p)
           body == Wanted(p)[n]
           d == [c EXCEPT !.at = "readback"]
<1>1. c.at = "replace" /\ c \in Run /\ c.want \in Sets /\ c.attempted /\ temp[p] # "none"
  BY OfProcess DEF ReplaceFile, RunAt, PlanOK, Writing
<1>2. n \in Names /\ body \in Bodies /\ n = Following(c)
  BY <1>1, FollowingIs, NextIsFollowing, ArtifactsAre, OfContents
<1>3. files' = Replaced(n, body)
  BY DEF ReplaceFile, Replaced
<1>4. /\ temp' = [temp EXCEPT ![p] = "none"] /\ run' = [run EXCEPT ![p] = d]
      /\ wrote' = [wrote EXCEPT ![p] = TRUE] /\ dir' = dir /\ litter' = litter
      /\ whole' = [q \in Procs |-> IF RunAt(q, "idle") THEN whole[q] ELSE whole[q] \cup NowWhole']
      /\ raced' = [q \in Procs |-> IF q = p THEN raced[q] ELSE Overtaken(q)]
  BY OfProcess DEF ReplaceFile, Goes, Witness, Changes
<1>5. d \in Run /\ d.at = "readback" /\ SamePlan(c, d)
  BY <1>1 DEF Run, SamePlan
<1> HIDE DEF n, body, d
<1>6. files' \in Contents /\ ChangesAt(files, files', n) /\ DOMAIN files' = DOMAIN files \cup {n}
  BY <1>2, <1>3, OfProcess, ReplacedIs
<1>7. NowWhole' \subseteq Sets
  BY DEF NowWhole
<1>8. LocalTypeOK'
  <2>1. \A q \in Procs : Overtaken(q) \in 0..2 /\ raced[q] \in 0..2
    BY OfProcess DEF Overtaken
  <2>2. raced' \in [Procs -> 0..2]
    BY <1>4, <2>1
  <2>3. whole' \in [Procs -> SUBSET (Sets \cup {Empty})]
    BY <1>4, <1>7, OfProcess
  <2> QED BY <1>4, <1>5, <1>6, <2>2, <2>3 DEF LocalInv, LocalTypeOK, Frame
<1>9. DirOK'
  <2>1. temp[p] = PlaceOf(n) /\ (temp[p] = "records" => dir = "full") /\ (temp[p] = "top" => dir # "none")
    BY <1>1, <1>2, OfProcess DEF TempOK
  <2>2. dir # "none" /\ (dir # "full" => n = Manifest)
    BY <2>1 DEF PlaceOf
  <2> QED BY <1>4, <1>6, <2>2, OfProcess DEF DirOK
<1>10. ASSUME NEW q \in Procs, q # p PROVE ProcessOK(q)'
  <2>1. /\ run'[q] = run[q] /\ wrote'[q] = wrote[q] /\ raced'[q] = Overtaken(q)
        /\ temp'[q] = temp[q] /\ dir' = dir
        /\ whole'[q] = IF RunAt(q, "idle") THEN whole[q] ELSE whole[q] \cup NowWhole'
    BY <1>4, <1>10, OfProcess DEF LocalInv, LocalTypeOK
  <2> QED BY <1>2, <1>6, <2>1, Overtakes
<1>11. ProcessOK(p)'
  <2>1. /\ run'[p] = d /\ wrote'[p] = TRUE /\ raced'[p] = raced[p] /\ temp'[p] = "none"
        /\ whole'[p] = whole[p] \cup NowWhole'
    BY <1>1, <1>4, OfProcess DEF LocalInv, LocalTypeOK, RunAt
  <2>2. LookOK(d, files', whole'[p], raced'[p]) /\ TempOK(d, temp'[p], dir')
    BY <1>5, <2>1 DEF LookOK, Places, TempOK
  <2>3. PlanOK(d, files', raced'[p])
    BY <1>1, <1>5, OfProcess DEF PlanOK, Writing, SamePlan
  <2>4. ReportOK(d, files', whole'[p], raced'[p], wrote'[p])
    BY <1>1, <1>5, <2>1 DEF ReportOK, SamePlan, WasWhole, NowWhole
  <2> QED BY <2>1, <2>2, <2>3, <2>4 DEF ProcessOK
<1> QED BY <1>8, <1>9, <1>10, <1>11 DEF LocalInv

LEMMA ReadbackStep ==
  ASSUME LocalInv, NEW p \in Procs, Readback(p) \/ ReadbackFails(p), Frame
  PROVE  LocalInv'
<1> DEFINE c == run[p]
           n == NextFile(p)
           expected == [m \in DOMAIN c.expected \cup {n} |-> IF m = n THEN files[n] ELSE c.expected[m]]
           d == [c EXCEPT !.at = "next", !.expected = expected]
<1>1. c.at = "readback" /\ c \in Run /\ c.want \in Sets /\ UNCHANGED disk
      /\ c.expected \in Contents
  BY OfProcess DEF Readback, ReadbackFails, RunAt, PlanOK, Writing, Run
<1>2. CASE Fails(p)
  BY <1>1, <1>2, FailsQuietly DEF RunAt
<1>3. CASE /\ n \in DOMAIN files /\ files[n] = Wanted(p)[n] /\ UNCHANGED localHistory
           /\ run' = [run EXCEPT ![p].at = "next",
                ![p].expected = [m \in DOMAIN @ \cup {n} |-> IF m = n THEN files[n] ELSE @[m]]]
  <2>1. n \in DOMAIN Artifacts(c.want) /\ n \in Names /\ files[n] = Artifacts(c.want)[n]
    BY <1>1, <1>3, FollowingIs, NextIsFollowing
  <2>2. run' = [run EXCEPT ![p] = d]
    BY <1>3, OfProcess
  <2> HIDE DEF n
  <2>3. expected \in [DOMAIN c.expected \cup {n} -> Bodies] /\ DOMAIN c.expected \cup {n} \in SUBSET Names
    BY <1>1, <1>3, <2>1, OfProcess, OfContents
  <2>4. expected \in Contents /\ DOMAIN expected = DOMAIN c.expected \cup {n}
    BY <2>3, InContents
  <2>5. Manifest \in DOMAIN expected =>
          expected[Manifest] \in Sets /\ DOMAIN expected[Manifest] \subseteq DOMAIN c.want
    <3>1. CASE n = Manifest
      BY <1>1, <2>1, <3>1, ArtifactsAre
    <3>2. CASE n # Manifest
      BY <1>1, <3>2, OfProcess DEF PlanOK, Writing
    <3> QED BY <3>1, <3>2
  <2> HIDE DEF expected
  <2>6. /\ d \in Run /\ d.at = "next" /\ d.want = c.want /\ d.expected = expected
        /\ d.attempted = c.attempted
    BY <1>1, <2>4 DEF Run
  <2> HIDE DEF d
  <2>7. Left(p, d, raced[p], temp[p]) /\ temp[p] = "none"
    BY <1>1, <1>3, <2>2, OnlyRuns, NoTemp DEF disk, DirGrows
  <2>8. PlanOK(d, files, raced[p])
    BY <1>1, <2>1, <2>4, <2>5, <2>6, OfProcess DEF PlanOK, Writing
  <2>9. ReportOK(d, files, whole[p], raced[p], wrote[p]) /\ LookOK(d, files, whole[p], raced[p])
        /\ TempOK(d, "none", dir)
    BY <1>1, <2>6, OfProcess DEF ReportOK, LookOK, Places, TempOK
  <2> QED BY <2>6, <2>7, <2>8, <2>9, OfProcess, QuietStep DEF Left
<1> QED BY <1>2, <1>3 DEF Readback, ReadbackFails

LEMMA FinishStep ==
  ASSUME LocalInv, NEW p \in Procs, Finish(p), Frame
  PROVE  LocalInv'
<1>1. run[p].at = "final" /\ Seen(p) /\ UNCHANGED disk /\ run[p].want \in Sets
  BY OfProcess DEF Finish, RunAt, PlanOK, Writing
<1>2. CASE Fails(p)
  BY <1>1, <1>2, FailsQuietly DEF RunAt
<1>3. CASE AsWanted(p) /\ Concludes(p, "done", run[p].want)
  BY <1>1, <1>3, EndsQuietly DEF AsWanted, Wanted
<1> QED BY <1>2, <1>3 DEF Finish

LEMMA DeathStep ==
  ASSUME LocalInv, NEW p \in Procs, LocalDies(p), Frame
  PROVE  LocalInv'
<1>1. ~RunAt(p, "idle") /\ Concludes(p, "crashed", Empty) /\ files' = files /\ dir' = dir
      /\ temp' = [temp EXCEPT ![p] = "none"]
  BY DEF LocalDies
<1>2. litter' \subseteq {"top", "records"}
  BY OfProcess DEF LocalDies, LocalInv, LocalTypeOK
<1> QED BY <1>1, <1>2, ConcludesOK DEF Frame

LEMMA BeginsStep ==
  ASSUME LocalInv, NEW p \in Procs, Begins(p), touches' = touches
  PROVE  LocalInv'
<1>1. PICK op \in {"verify", "preview", "generate"}, request \in Requests \cup {Empty} :
        Command(p, op, request) /\ (op = "generate" => request \in Requests)
  BY DEF Begins
<1> DEFINE c == [NoRun EXCEPT !.op = op, !.want = request]
           d == Listing(p, c, "prepare")
<1>2. Requests \subseteq Sets
  BY LocalAssumption
<1>3. /\ c \in Run /\ c.op = op /\ c.want = request /\ c.attempted = FALSE
  BY <1>2, EmptyIsEmpty DEF NoRun, Run
<1>4. /\ run[p].at = "idle" /\ run' = [run EXCEPT ![p] = d] /\ UNCHANGED disk
      /\ whole' = [whole EXCEPT ![p] = NowWhole] /\ raced' = [raced EXCEPT ![p] = 0]
      /\ wrote' = [wrote EXCEPT ![p] = FALSE]
  BY <1>1 DEF Command, RunAt
<1>5. calls' \in 0..MaxCalls
  BY <1>1, ProcessesAssumption DEF Command, Starts, LocalInv, LocalTypeOK
<1> HIDE DEF c
<1>6. d \in Run /\ d.at = "prepare" /\ d.op = op /\ d.want = request /\ d.attempted = FALSE
      /\ LookOK(d, files, NowWhole, 0)
  <2>1. "prepare" \in Places /\ files \in Contents /\ DirOK
    BY DEF Places, LocalInv, LocalTypeOK
  <2>2. /\ d \in Run /\ LookOK(d, files, NowWhole, 0) /\ d.at = "prepare"
        /\ d.want = c.want /\ d.op = c.op /\ d.attempted = c.attempted
    BY <1>3, <2>1, ListingOK
  <2> HIDE DEF d
  <2> QED BY <1>3, <2>2
<1> HIDE DEF d
<1>7. temp' = [temp EXCEPT ![p] = "none"]
  BY <1>4, NoTemp DEF disk
<1>8. Puts(p, d, NowWhole, 0, FALSE, "none")
  BY <1>4, <1>5, <1>7 DEF Puts, disk, DirGrows, LocalInv, LocalTypeOK
<1>9. PlanOK(d, files, 0) /\ TempOK(d, "none", dir) /\ ReportOK(d, files, NowWhole, 0, FALSE)
  BY <1>1, <1>2, <1>6 DEF PlanOK, Writing, TempOK, ReportOK, WasWhole, NowWhole
<1>10. NowWhole \in SUBSET (Sets \cup {Empty}) /\ 0 \in 0..2 /\ FALSE \in BOOLEAN
       /\ "none" \in {"none", "top", "records"}
  BY DEF NowWhole
<1> QED BY <1>6, <1>8, <1>9, <1>10, QuietStep

LEMMA TouchStep ==
  ASSUME LocalInv, TouchLocal
  PROVE  LocalInv'
<1>1. /\ whole' = [q \in Procs |-> IF RunAt(q, "idle") THEN whole[q] ELSE whole[q] \cup NowWhole']
      /\ raced' = [q \in Procs |-> Overtaken(q)] /\ UNCHANGED <<clock, calls, run, wrote>>
  BY DEF TouchLocal, Witness
<1>2. touches' \in 0..MaxTouches
  BY LocalAssumption DEF TouchLocal, LocalInv, LocalTypeOK
<1>3. \/ files' = Empty /\ dir' = "none" /\ temp' = [q \in Procs |-> "none"] /\ litter' = {}
      \/ /\ \E n \in Names : ChangesAt(files, files', n)
         /\ files' \in Contents /\ DOMAIN files' = DOMAIN files
         /\ UNCHANGED <<dir, temp, litter>>
  <2>1. CASE Remove
    BY <2>1 DEF Remove
  <2>2. CASE Damage
    <3>1. PICK n \in DOMAIN files : files' = [files EXCEPT ![n] = Damaged]
      BY <2>2 DEF Damage
    <3>2. files' = Replaced(n, Damaged)
      BY ZenonT(60), <3>1, OfProcess, OfContents DEF Replaced, LocalInv, LocalTypeOK
    <3>3. n \in Names /\ Damaged \in Bodies /\ files \in Contents
      BY OfContents DEF Bodies, LocalInv, LocalTypeOK
    <3>4. files' \in Contents /\ ChangesAt(files, files', n) /\ DOMAIN files' = DOMAIN files
      BY ZenonT(60), <3>2, <3>3, ReplacedIs
    <3> QED BY <2>2, <3>3, <3>4 DEF Damage
  <2> QED BY <2>1, <2>2 DEF TouchLocal
<1>4. files' \in Contents /\ (files' = Empty \/ \E n \in Names : ChangesAt(files, files', n))
  BY <1>3, EmptyIsEmpty
<1>5. NowWhole' \subseteq Sets
  BY DEF NowWhole
<1>6. LocalTypeOK'
  <2>1. \A q \in Procs : Overtaken(q) \in 0..2
    BY OfProcess DEF Overtaken
  <2>2. whole' \in [Procs -> SUBSET (Sets \cup {Empty})]
    BY <1>1, <1>5, OfProcess
  <2> QED BY <1>1, <1>2, <1>3, <1>4, <2>1, <2>2 DEF LocalInv, LocalTypeOK
<1>7. DirOK'
  BY <1>3, EmptyIsEmpty DEF DirOK, LocalInv
<1>8. ASSUME NEW q \in Procs PROVE ProcessOK(q)'
  <2>1. /\ run'[q] = run[q] /\ wrote'[q] = wrote[q] /\ raced'[q] = Overtaken(q)
        /\ whole'[q] = IF RunAt(q, "idle") THEN whole[q] ELSE whole[q] \cup NowWhole'
    BY <1>1
  <2>2. temp'[q] = "none" \/ (temp'[q] = temp[q] /\ dir' = dir)
    BY <1>3
  <2> QED BY <1>4, <2>1, <2>2, Overtakes
<1> QED BY <1>6, <1>7, <1>8 DEF LocalInv

--------------------------------------------------------------------------------
LEMMA LocalStarts == LocalInit => LocalInv
<1> SUFFICES ASSUME LocalInit PROVE LocalInv
  OBVIOUS
<1>1. files \in Contents /\ dir \in {"none", "full"} /\ (dir = "none" => files = Empty)
  BY LocalAssumption, EmptyIsEmpty, ArtifactsAre DEF LocalInit
<1>2. /\ NoRun \in Run /\ NoRun.at = "idle" /\ NoRun.outcome = "none"
  BY EmptyIsEmpty DEF NoRun, Run
<1>3. LocalTypeOK
  BY <1>1, <1>2, LocalAssumption, ProcessesAssumption DEF LocalInit, Starting, LocalTypeOK
<1>4. DirOK
  BY <1>1, EmptyIsEmpty DEF DirOK
<1>5. ASSUME NEW p \in Procs PROVE ProcessOK(p)
  <2>1. run[p] = NoRun /\ temp[p] = "none" /\ raced[p] = 0
    BY DEF LocalInit
  <2> QED BY <1>2, <2>1
      DEF ProcessOK, LookOK, Places, PlanOK, Writing, TempOK, ReportOK
<1> QED BY <1>3, <1>4, <1>5 DEF LocalInv

LEMMA LocalKeeps == LocalInv /\ [LocalNext]_localVars => LocalInv'
<1> SUFFICES ASSUME LocalInv, [LocalNext]_localVars PROVE LocalInv'
  OBVIOUS
<1>1. ASSUME NEW p \in Procs, LocalStep(p), UNCHANGED <<clock, calls, touches>> PROVE LocalInv'
  <2>1. Frame
    BY <1>1 DEF Frame
  <2>2. CASE Look(p)
    BY <2>1, <2>2, LookStep
  <2>3. CASE LookFails(p)
    BY <2>1, <2>3, GivesOK DEF LookFails, Looking, RunAt
  <2>4. CASE Prepared(p)
    BY <2>1, <2>4, PreparedStep
  <2>5. CASE MakeDirectory(p) \/ MakeRecords(p) \/ MakeFails(p)
    BY <2>1, <2>5, MakeStep
  <2>6. CASE Turn(p)
    BY <2>1, <2>6, TurnStep
  <2>7. CASE Compare(p)
    BY <2>1, <2>7, CompareStep
  <2>8. CASE WriteTemporary(p) \/ TemporaryFails(p)
    BY <2>1, <2>8, TemporaryStep
  <2>9. CASE CompareAgain(p)
    BY <2>1, <2>9, CompareAgainStep
  <2>10. CASE ReplaceFile(p)
    BY <2>1, <2>10, ReplaceStep
  <2>11. CASE ReplaceFails(p)
    BY <2>1, <2>11, GivesOK DEF ReplaceFails, RunAt
  <2>12. CASE Readback(p) \/ ReadbackFails(p)
    BY <2>1, <2>12, ReadbackStep
  <2>13. CASE Finish(p)
    BY <2>1, <2>13, FinishStep
  <2>14. CASE LocalDies(p)
    BY <2>1, <2>14, DeathStep
  <2> QED BY <1>1, <2>2, <2>3, <2>4, <2>5, <2>6, <2>7, <2>8, <2>9, <2>10, <2>11, <2>12,
             <2>13, <2>14 DEF LocalStep
<1>2. ASSUME NEW p \in Procs, Begins(p), touches' = touches PROVE LocalInv'
  BY <1>2, BeginsStep
<1>3. CASE TouchLocal
  BY <1>3, TouchStep
<1>4. CASE UNCHANGED localVars
  BY <1>4 DEF localVars, disk, localHistory, LocalInv, LocalTypeOK, DirOK, ProcessOK
<1> QED BY <1>1, <1>2, <1>3, <1>4 DEF LocalNext

(***************************************************************************)
(* The files, the temporary ones, and what every command has read, planned *)
(* and written agree at every moment of generate, verify and preview.      *)
(***************************************************************************)
THEOREM LocalIsInductive == LocalSpec => []LocalInv
BY LocalStarts, LocalKeeps, PTL DEF LocalSpec

(***************************************************************************)
(* What verify accepts and generate reports was there, if the files        *)
(* changed at most once under the look, and a refusal has written nothing  *)
(* (verify, generate and main of the shared context).                      *)
(***************************************************************************)
THEOREM OutcomesAreTrue == LocalSpec => []OutcomeIsTrue
<1>1. LocalInv => OutcomeIsTrue
  BY DEF LocalInv, OutcomeIsTrue, ProcessOK, ReportOK, RunAt
<1> QED BY <1>1, LocalIsInductive, PTL

--------------------------------------------------------------------------------
(***************************************************************************)
(* A run that goes from its last comparison to reading back has replaced   *)
(* its file in that step.                                                  *)
(***************************************************************************)
LEMMA OnlyReplaces ==
  ASSUME LocalInv, [LocalNext]_localVars, NEW p \in Procs,
         RunAt(p, "replace"), run'[p].at = "readback"
  PROVE  ReplaceFile(p)
<1>1. run \in [Procs -> Run] /\ run[p].at = "replace"
  BY OfProcess DEF RunAt
<1>2. ASSUME NEW outcome, NEW result, Concludes(p, outcome, result) PROVE FALSE
  BY <1>1, <1>2 DEF Concludes, NoRun
<1>3. ~Fails(p)
  BY <1>2 DEF Fails
<1>4. ASSUME NEW q \in Procs, q # p, NEW c, run' = [run EXCEPT ![q] = c] PROVE FALSE
  BY <1>1, <1>4
<1>5. ASSUME NEW q \in Procs, Begins(q) PROVE FALSE
  <2>1. q # p
    BY <1>1, <1>5 DEF Begins, Command, RunAt
  <2> QED BY <1>4, <1>5, <2>1 DEF Begins, Command
<1>6. ASSUME NEW q \in Procs, q # p, NEW outcome, NEW result, Concludes(q, outcome, result)
      PROVE  FALSE
  BY <1>4, <1>6 DEF Concludes
<1>7. ASSUME NEW q \in Procs, q # p, Fails(q) PROVE FALSE
  BY <1>6, <1>7 DEF Fails
<1>8. ASSUME NEW q \in Procs, q # p, LocalStep(q) PROVE FALSE
  <2>1. CASE Look(q)
    BY <1>1, <1>8, <2>1 DEF Look
  <2>2. CASE LookFails(q) \/ ReplaceFails(q) \/ ReadbackFails(q) \/ TemporaryFails(q) \/ MakeFails(q)
    BY <1>7, <1>8, <2>2
       DEF LookFails, ReplaceFails, ReadbackFails, TemporaryFails, MakeFails, Gives
  <2>3. CASE Prepared(q)
    <3>1. run[q].at = "prepare" /\ run[q].op \in {"verify", "preview", "generate"}
      BY <2>3, OfProcess DEF Prepared, RunAt, PlanOK, Run
    <3>2. \/ Fails(q)
          \/ \E result : Concludes(q, "done", result)
          \/ \E w : run' = [run EXCEPT ![q].at = "mkdir", ![q].want = w, ![q].expected = run[q].got]
      BY <2>3, <3>1 DEF Prepared
    <3>3. ASSUME NEW w,
                 run' = [run EXCEPT ![q].at = "mkdir", ![q].want = w, ![q].expected = run[q].got]
          PROVE  FALSE
      BY <1>1, <1>8, <3>3
    <3> QED BY <1>6, <1>7, <1>8, <3>2, <3>3
  <2>4. CASE MakeDirectory(q) \/ MakeRecords(q) \/ ReplaceFile(q) \/ Readback(q)
    BY <1>1, <1>7, <1>8, <2>4 DEF MakeDirectory, MakeRecords, ReplaceFile, Readback, Goes
  <2>5. CASE Turn(q) \/ WriteTemporary(q)
    BY <1>4, <1>8, <2>5 DEF Turn, WriteTemporary, Looks
  <2>6. CASE Compare(q) \/ CompareAgain(q)
    BY <1>1, <1>7, <1>8, <2>6 DEF Compare, CompareAgain, Goes, Gives
  <2>7. CASE Finish(q) \/ LocalDies(q)
    BY <1>6, <1>7, <1>8, <2>7 DEF Finish, LocalDies
  <2> QED BY <1>8, <2>1, <2>2, <2>3, <2>4, <2>5, <2>6, <2>7 DEF LocalStep
<1>9. ASSUME LocalStep(p) PROVE ReplaceFile(p)
  BY <1>1, <1>2, <1>3, <1>9
     DEF LocalStep, Look, LookFails, Looking, Prepared, MakeDirectory, MakeRecords, MakeFails, Turn,
         Compare, WriteTemporary, TemporaryFails, CompareAgain, ReplaceFails, Readback,
         ReadbackFails, Finish, LocalDies, RunAt, Gives
<1>10. ASSUME run' = run PROVE FALSE
  BY <1>1, <1>10
<1> QED BY <1>5, <1>8, <1>9, <1>10 DEF LocalNext, TouchLocal, localVars

(***************************************************************************)
(* A new manifest describes the files that are there, and names every      *)
(* record of the old one, if nothing changed since the last look before    *)
(* it: "omission retains previous records" (README.md:119).                *)
(***************************************************************************)
THEOREM MergesKeep == LocalSpec => MergeKeeps
<1> DEFINE Kept == \A p \in Procs :
       RunAt(p, "replace") /\ run'[p].at = "readback" /\ NextFile(p) = Manifest /\ raced[p] = 0 =>
         /\ files' = Artifacts(files'[Manifest])
         /\ Manifest \in DOMAIN files => DOMAIN files[Manifest] \subseteq DOMAIN files'[Manifest]
<1>1. LocalInv /\ [LocalNext]_localVars => Kept
  <2> SUFFICES ASSUME LocalInv, [LocalNext]_localVars, NEW p \in Procs, RunAt(p, "replace"),
                      run'[p].at = "readback", NextFile(p) = Manifest, raced[p] = 0
               PROVE  /\ files' = Artifacts(files'[Manifest])
                      /\ Manifest \in DOMAIN files =>
                           DOMAIN files[Manifest] \subseteq DOMAIN files'[Manifest]
    OBVIOUS
  <2> DEFINE c == run[p]
  <2>1. /\ c.want \in Sets /\ files = c.expected /\ files \in Contents
        /\ DOMAIN files \subseteq DOMAIN Artifacts(c.want)
        /\ Manifest \in DOMAIN files => DOMAIN files[Manifest] \subseteq DOMAIN c.want
    BY OfProcess DEF PlanOK, Writing, RunAt
  <2>2. \A n \in DOMAIN Artifacts(c.want) \ {Manifest} :
          n \in DOMAIN files /\ files[n] = Artifacts(c.want)[n]
    <3>1. Differs(c) \subseteq {Manifest}
      BY <2>1, NextIsFollowing, FollowingIs
    <3> QED BY <2>1, <3>1 DEF Differs
  <2>3. files' = [m \in DOMAIN files \cup {Manifest} |->
                    IF m = Manifest THEN Artifacts(c.want)[Manifest] ELSE files[m]]
    BY OnlyReplaces, NextIsFollowing DEF ReplaceFile
  <2>4. files' = Artifacts(c.want)
    BY <2>1, <2>2, <2>3, LastReplacement
  <2>5. files'[Manifest] = c.want
    BY <2>1, <2>4, ArtifactsAre
  <2> QED BY <2>1, <2>4, <2>5
<1>2. MergeKeeps <=> [][Kept]_localVars
  BY DEF MergeKeeps
<1> HIDE DEF Kept
<1> QED BY <1>1, <1>2, LocalIsInductive, PTL DEF LocalSpec

================================================================================
