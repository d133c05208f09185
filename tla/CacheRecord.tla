---------------------------- MODULE CacheRecord ----------------------------
(***************************************************************************)
(* The table of cache-record.c: one record per page, which says whether    *)
(* the page's file may be read, must be written, or must be left alone.    *)
(*                                                                         *)
(* cache_record_get_or_create and cache_record_close are one critical      *)
(* section each.  The absolute expiration_time is kept as the time left,   *)
(* expiration_time - time(NULL), down to -1 for every past moment.         *)
(***************************************************************************)
EXTENDS Integers

CONSTANTS
  Keys,        \* pages, by the hash of their URL
  TTL,         \* CACHE_TTL
  MaxReaders   \* no more readers are counted than this (bounds the model)

VARIABLE table

unavailable  == "unavailable"
should_read  == "should_read"
should_write == "should_write"
Statuses == {unavailable, should_read, should_write}

\* struct cache_record.  A page that nobody has asked for has no record.
RecordType ==
  [ present : BOOLEAN,
    left : -1 .. TTL,
    write_in_progress : BOOLEAN,
    readers : 0 .. MaxReaders ]

NoRecord == [present |-> FALSE, left |-> -1, write_in_progress |-> FALSE, readers |-> 0]

InitTable == table = [k \in Keys |-> NoRecord]

Stale(k) == table[k].left < 0

-----------------------------------------------------------------------------
(* cache_record_get_or_create, by the status it returns *)

\* should_write: the page has no record yet.
Create(k) ==
  /\ ~table[k].present
  /\ table' = [table EXCEPT ![k] =
       [present |-> TRUE, left |-> TTL, write_in_progress |-> TRUE, readers |-> 0]]

\* Mutation of Refreshable: readers are not looked at.
RefreshableWhileRead(k) ==
  table[k].present /\ Stale(k) /\ ~table[k].write_in_progress

Refreshable(k) ==
  /\ table[k].present
  /\ Stale(k)
  /\ table[k].readers = 0
  /\ ~table[k].write_in_progress

\* should_write: the page is stale and nobody uses it.  The time to live
\* starts again here, before the new page has been fetched.
Refresh(k) ==
  /\ Refreshable(k)
  /\ table' = [table EXCEPT ![k] =
       [present |-> TRUE, left |-> TTL, write_in_progress |-> TRUE, readers |-> @.readers]]

\* Mutation of Share: a page may be read while it is written.
ShareWhileWritten(k) ==
  /\ table[k].present
  /\ table[k].left > 0
  /\ table[k].readers < MaxReaders
  /\ table' = [table EXCEPT ![k].readers = @ + 1]

\* should_read: the page is fresh and nobody writes it.
Share(k) ==
  /\ table[k].present
  /\ table[k].left > 0
  /\ ~table[k].write_in_progress
  /\ table[k].readers < MaxReaders
  /\ table' = [table EXCEPT ![k].readers = @ + 1]

\* unavailable: neither test holds.  time(NULL) is read once for each test,
\* so a page in its last second may fail both.
Refuse(k) ==
  /\ table[k].present
  /\ ~Refreshable(k)
  /\ table[k].left <= 1 \/ table[k].write_in_progress
  /\ UNCHANGED table

GetOrCreate(k, s) ==
  \/ s = should_write /\ (Create(k) \/ Refresh(k))
  \/ s = should_read  /\ Share(k)
  \/ s = unavailable  /\ Refuse(k)

-----------------------------------------------------------------------------
(* cache_record_close *)

\* Mutation of Close: a reader is not counted off.
CloseWriterOnly(k, s) ==
  \/ s = should_write /\ table' = [table EXCEPT ![k].write_in_progress = FALSE]
  \/ s # should_write /\ UNCHANGED table

Close(k, s) ==
  \/ s = should_write /\ table' = [table EXCEPT ![k].write_in_progress = FALSE]
  \/ s = should_read  /\ table' = [table EXCEPT ![k].readers = @ - 1]
  \/ s = unavailable  /\ UNCHANGED table

-----------------------------------------------------------------------------

\* A second passes for every record.
Tick ==
  /\ \E k \in Keys : table[k].left >= 0
  /\ table' = [k \in Keys |-> [table[k] EXCEPT !.left = IF @ < 0 THEN @ ELSE @ - 1]]

=============================================================================
