------------------------------- MODULE Documents -------------------------------
(***************************************************************************)
(* The vocabulary of a publication: titles, document identities and the    *)
(* bodies a native Doc can show.  Texts are opaque; two bodies are equal   *)
(* exactly when the program's comparison of the strings says so.           *)
(***************************************************************************)
CONSTANTS
  Ids,        \* file identities the provider may hand out
  NoId,       \* no identity (Python: '' or a missing key)
  Records,    \* titles of the record documents (PREFIX + record_id)
  Current,    \* title of the index document
  Fixtures,   \* the compiled record sets that may be published
  Text        \* Text[v][r]: what core.markdown makes of record r in fixture v

ASSUME NamesAssumption ==
  /\ NoId \notin Ids
  /\ Current \notin Records

Roles == Records \cup {Current}

Links == [Records -> Ids \cup {NoId}]

NoDoc == [kind |-> "none"]          \* the title has no document
Empty == [kind |-> "empty"]         \* a document just created
Foreign == [kind |-> "foreign"]     \* whatever the owner typed instead
Markdown(v, r) == [kind |-> "record", text |-> Text[v][r]]

(***************************************************************************)
(* drive._index: the records published, and the document each one is in.   *)
(* The digests it also holds are functions of the records.                 *)
(***************************************************************************)
Index(v, links) == [kind |-> "index", fixture |-> v, links |-> links]

Written ==
  {Markdown(v, r) : v \in Fixtures, r \in Records}
    \cup {Index(v, links) : v \in Fixtures, links \in Links}
================================================================================
