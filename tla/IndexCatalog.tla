---------------------------- MODULE IndexCatalog ----------------------------
(***************************************************************************)
(* What the index builds promise the catalog, one entry per index name of  *)
(* the collection.  An index is created unfinished from nothing, becomes   *)
(* ready with its creation options unchanged (carrying the commit          *)
(* timestamp), or is removed while unfinished; a ready index is never      *)
(* touched again.  Dropping the collection removes every index, and never  *)
(* happens under an unfinished one.  IndexBuilder.tla implements this      *)
(* specification under the mapping entries <- catalog.                     *)
(***************************************************************************)
CONSTANTS
    Names,     \* the index names of the collection
    Opts,      \* the option sets an index spec may carry
    Stamps,    \* the commit timestamps
    NoStamp    \* an entry with no commit timestamp

VARIABLE entries

Entry == [state: {"absent", "building", "ready"}, opts: Opts, ts: Stamps \cup {NoStamp}]

Absent == [state |-> "absent", opts |-> CHOOSE o \in Opts : TRUE, ts |-> NoStamp]

Init == entries = [n \in Names |-> Absent]

\* An unfinished index appears where there was none.
Begin(n, o) ==
    /\ entries[n].state = "absent"
    /\ entries' = [entries EXCEPT ![n] = [state |-> "building", opts |-> o, ts |-> NoStamp]]

\* An unfinished index becomes ready, its options unchanged.
Commit(n, t) ==
    /\ entries[n].state = "building"
    /\ entries' = [entries EXCEPT ![n] = [@ EXCEPT !.state = "ready", !.ts = t]]

\* An unfinished index is removed.
Abort(n) ==
    /\ entries[n].state = "building"
    /\ entries' = [entries EXCEPT ![n] = Absent]

\* The collection, and every index of it, is dropped; no build is under way.
DropAll ==
    /\ \A n \in Names : entries[n].state # "building"
    /\ entries' = [n \in Names |-> Absent]

Next ==
    \/ \E n \in Names, o \in Opts : Begin(n, o)
    \/ \E n \in Names, t \in Stamps \cup {NoStamp} : Commit(n, t)
    \/ \E n \in Names : Abort(n)
    \/ DropAll

Spec == Init /\ [][Next]_entries

=============================================================================
