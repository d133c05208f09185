------------------------------- MODULE Relay -------------------------------
(***************************************************************************)
(* handle_valid_request of worker.c, run by several threads at once over   *)
(* the cache table and the cache files: a page is read from its file, or   *)
(* fetched from its server, relayed to the client and, if the table says   *)
(* so, written to its file.                                                *)
(*                                                                         *)
(* A page has Chunks chunks, what one recv delivers.  What a page contains *)
(* does not matter; how much of it is in the file does.  The environment   *)
(* fails in the ways listed in Faults only.  HeaderComesWhole is no matter *)
(* of failure: TCP may cut a stream anywhere.  An uninitialised cache_file *)
(* holds a member of Garbage, and using "wild" ends the process.           *)
(***************************************************************************)
EXTENDS Integers, FiniteSets

CONSTANTS
  ClientThreads,     \* threads whose jobs have a client socket
  PrefetchThreads,   \* threads whose jobs have client_socket_fd = -1
  Keys, TTL, MaxReaders,
  NoKey,             \* the page of a URL with a '?' or of more than 2048 bytes
  Chunks,            \* chunks of every page
  Faults,            \* what may go wrong around the proxy, see below
  HeaderComesWhole,  \* the first recv of every page gets its whole header
  Garbage            \* what an uninitialised FILE* may hold

Threads == ClientThreads \cup PrefetchThreads

\* "open": fopen fails; "connect": connect or sending the request fails;
\* "client": the client goes away; "server": the server closes or fails in
\* the middle of a page; "length": a page comes without Content-Length.
ASSUME RelayAssumption ==
  /\ IsFiniteSet(Threads)
  /\ ClientThreads \cap PrefetchThreads = {}
  /\ NoKey \notin Keys
  /\ TTL \in Nat
  /\ MaxReaders \in Nat \ {0}
  /\ Chunks \in Nat \ {0}
  /\ Faults \subseteq {"open", "connect", "client", "server", "length"}
  /\ HeaderComesWhole \in BOOLEAN
  /\ Garbage \subseteq {"null", "wild"}

VARIABLES
  table,     \* cache_table
  disk,      \* chunks in each page's cache file
  pc,        \* where each thread is in handle_valid_request
  key,       \* its page
  status,    \* cache_action
  handle,    \* cache_file: "none" before it is declared and after fclose
  pos,       \* chunks read from the file, or received from the server
  socket,    \* server_socket_fd is open
  crashed    \* the process has died

vars == <<table, disk, pc, key, status, handle, pos, socket, crashed>>

Cache == INSTANCE CacheRecord

TypeOK ==
  /\ table \in [Keys -> Cache!RecordType]
  /\ disk \in [Keys -> 0..Chunks]
  /\ pc \in [Threads -> {"idle", "routed", "read", "connect", "receive", "relay",
                         "spin", "finish", "closeFile", "closeRecord"}]
  /\ key \in [Threads -> Keys \cup {NoKey}]
  /\ status \in [Threads -> Cache!Statuses]
  /\ handle \in [Threads -> {"none", "null", "wild", "read", "write"}]
  /\ pos \in [Threads -> 0..Chunks]
  /\ socket \in [Threads -> BOOLEAN]
  /\ crashed \in BOOLEAN

Init ==
  /\ Cache!InitTable
  /\ disk = [k \in Keys |-> 0]
  /\ pc = [t \in Threads |-> "idle"]
  /\ key = [t \in Threads |-> NoKey]
  /\ status = [t \in Threads |-> Cache!unavailable]
  /\ handle = [t \in Threads |-> "none"]
  /\ pos = [t \in Threads |-> 0]
  /\ socket = [t \in Threads |-> FALSE]
  /\ crashed = FALSE

At(t, here) == ~crashed /\ pc[t] = here
Goto(t, there) == pc' = [pc EXCEPT ![t] = there]
Holds(t, h) == handle' = [handle EXCEPT ![t] = h]

\* The process dies at this step of t.
Dies(t) ==
  /\ crashed' = TRUE
  /\ UNCHANGED <<table, disk, pc, key, status, handle, pos, socket>>

-----------------------------------------------------------------------------
(* Looking the page up *)

\* A call of handle_valid_request: all its locals are new.
Call(t, k, s) ==
  /\ At(t, "idle")
  /\ Goto(t, "routed")
  /\ key' = [key EXCEPT ![t] = k]
  /\ status' = [status EXCEPT ![t] = s]
  /\ Holds(t, "none")
  /\ pos' = [pos EXCEPT ![t] = 0]
  /\ socket' = [socket EXCEPT ![t] = FALSE]
  /\ UNCHANGED <<disk, crashed>>

RequestPage(t, k) ==
  \E s \in Cache!Statuses : Cache!GetOrCreate(k, s) /\ Call(t, k, s)

RequestUncacheable(t) ==
  Call(t, NoKey, Cache!unavailable) /\ UNCHANGED table

\* A prefetch that need not write: close the record and return.  Without a
\* record, cache_record_close locks a mutex at NULL.
PrefetchNotNeeded(t) ==
  /\ At(t, "routed")
  /\ t \in PrefetchThreads
  /\ status[t] # Cache!should_write
  /\ IF key[t] = NoKey THEN Dies(t)
     ELSE /\ Cache!Close(key[t], status[t])
          /\ Goto(t, "idle")
          /\ UNCHANGED <<disk, key, status, handle, pos, socket, crashed>>

\* From here on a thread has a client or is to write the page.
Proceeds(t) == At(t, "routed") /\ (t \in ClientThreads \/ status[t] = Cache!should_write)

OpenForRead(t) ==
  /\ Proceeds(t) /\ status[t] = Cache!should_read
  /\ Holds(t, "read") /\ Goto(t, "read")
  /\ UNCHANGED <<table, disk, key, status, pos, socket, crashed>>

\* fopen with "w+" truncates the file.
OpenForWrite(t) ==
  /\ Proceeds(t) /\ status[t] = Cache!should_write
  /\ Holds(t, "write") /\ Goto(t, "connect")
  /\ disk' = [disk EXCEPT ![key[t]] = 0]
  /\ UNCHANGED <<table, key, status, pos, socket, crashed>>

\* The page goes to the client from the server, as if not cached.
OpenFails(t) ==
  /\ "open" \in Faults
  /\ Proceeds(t) /\ status[t] # Cache!unavailable
  /\ Holds(t, "null") /\ Goto(t, "connect")
  /\ UNCHANGED <<table, disk, key, status, pos, socket, crashed>>

\* cache_file is used below without having been assigned.
NoFile(t) ==
  /\ Proceeds(t) /\ status[t] = Cache!unavailable
  /\ \E g \in Garbage : Holds(t, g)
  /\ Goto(t, "connect")
  /\ UNCHANGED <<table, disk, key, status, pos, socket, crashed>>

-----------------------------------------------------------------------------
(* A hit: from the file to the client *)

ReadChunk(t) ==
  /\ At(t, "read") /\ pos[t] < disk[key[t]]
  /\ pos' = [pos EXCEPT ![t] = @ + 1]
  /\ UNCHANGED <<table, disk, pc, key, status, handle, socket, crashed>>

\* The end of the file, or a send that fails.
ReadEnds(t) ==
  /\ At(t, "read") /\ (pos[t] = disk[key[t]] \/ "client" \in Faults)
  /\ Goto(t, "closeFile")
  /\ UNCHANGED <<table, disk, key, status, handle, pos, socket, crashed>>

-----------------------------------------------------------------------------
(* A miss: from the server to the client, and to the file *)

Connect(t) ==
  /\ At(t, "connect")
  /\ socket' = [socket EXCEPT ![t] = TRUE]
  /\ Goto(t, "receive")
  /\ UNCHANGED <<table, disk, key, status, handle, pos, crashed>>

\* connect or the request fails: the file is closed and FAIL returned; the
\* socket stays open and the record as it is.
ConnectFails(t) ==
  /\ "connect" \in Faults
  /\ At(t, "connect")
  /\ IF handle[t] = "wild" THEN Dies(t)
     ELSE /\ Holds(t, "none") /\ Goto(t, "idle")
          /\ socket' = [socket EXCEPT ![t] = TRUE]
          /\ UNCHANGED <<table, disk, key, status, pos, crashed>>

\* cache_and_send, the file's part: one more chunk, of which the buffer of
\* the stream may keep back what it has not written yet.
Store(t) ==
  /\ pos' = [pos EXCEPT ![t] = @ + 1]
  /\ IF handle[t] = "write"
     THEN \E n \in disk[key[t]] .. pos[t] + 1 : disk' = [disk EXCEPT ![key[t]] = n]
     ELSE UNCHANGED disk

\* The first chunk.  It is also the last if the page has no Content-Length.  If
\* it ends within the header, the lengths that are found in it are wrong in
\* every way (Exchange!FirstRecv), and it may be the last or not.
FirstChunk(t) ==
  /\ At(t, "receive") /\ handle[t] # "wild"
  /\ Store(t)
  /\ \/ Chunks > 1 /\ Goto(t, "relay")
     \/ (Chunks = 1 \/ "length" \in Faults \/ ~HeaderComesWhole) /\ Goto(t, "finish")
  /\ UNCHANGED <<table, key, status, handle, socket, crashed>>

\* fwrite through a pointer that was never assigned.
FirstChunkCrash(t) ==
  /\ At(t, "receive") /\ handle[t] = "wild"
  /\ Dies(t)

\* The client is gone at the first chunk: FAIL at once, nothing is closed.
FirstChunkUnsent(t) ==
  /\ "client" \in Faults
  /\ At(t, "receive") /\ handle[t] # "wild" /\ t \in ClientThreads
  /\ Store(t) /\ Goto(t, "idle")
  /\ UNCHANGED <<table, key, status, handle, socket, crashed>>

\* Mutation of NextChunk: response_content_read is not advanced.
NextChunkUncounted(t) ==
  /\ At(t, "relay")
  /\ Goto(t, "relay")
  /\ UNCHANGED <<table, disk, key, status, handle, pos, socket, crashed>>

\* Mutation of NextChunk: the loop's comparison is >= instead of >.
NextChunkOneMore(t) ==
  /\ At(t, "relay")
  /\ Store(t)
  /\ Goto(t, IF pos[t] = Chunks THEN "finish" ELSE "relay")
  /\ UNCHANGED <<table, key, status, handle, socket, crashed>>

\* The next chunk, the last one if the lengths are right.  If they are not,
\* any chunk may be the last, or none: recv is then called for more than the
\* server sends (ServerCloses).
NextChunk(t) ==
  /\ At(t, "relay")
  /\ Store(t)
  /\ \/ pos[t] + 1 < Chunks /\ Goto(t, "relay")
     \/ (pos[t] + 1 = Chunks \/ ~HeaderComesWhole) /\ Goto(t, "finish")
     \/ pos[t] + 1 = Chunks /\ ~HeaderComesWhole /\ Goto(t, "spin")
  /\ UNCHANGED <<table, key, status, handle, socket, crashed>>

\* The client is gone later: the loop is left and the page finished as it is.
NextChunkUnsent(t) ==
  /\ "client" \in Faults
  /\ At(t, "relay") /\ t \in ClientThreads
  /\ Store(t) /\ Goto(t, "finish")
  /\ UNCHANGED <<table, key, status, handle, socket, crashed>>

\* recv returns 0: nothing is stored, and the loop that waits for the rest
\* never ends.  At the first chunk the lengths are computed from NULL, and
\* whether there is a loop depends on an address.
ServerCloses(t) ==
  /\ "server" \in Faults
  /\ \/ At(t, "receive") /\ (Goto(t, "finish") \/ Goto(t, "spin"))
     \/ At(t, "relay") /\ Goto(t, "spin")
  /\ UNCHANGED <<table, disk, key, status, handle, pos, socket, crashed>>

\* recv returns 0 again and again.
Spins(t) == At(t, "spin") /\ UNCHANGED vars

\* recv returns -1, which fwrite takes for a length.
ReceiveCrash(t) ==
  /\ "server" \in Faults
  /\ At(t, "receive") \/ At(t, "relay")
  /\ handle[t] = "write"
  /\ Dies(t)

-----------------------------------------------------------------------------
(* Finishing *)

\* Mutation of Finish: the socket is not closed.
FinishWithoutClose(t) ==
  /\ At(t, "finish")
  /\ IF status[t] = Cache!should_write /\ handle[t] = "null" THEN Dies(t)
     ELSE /\ Goto(t, IF status[t] = Cache!should_write THEN "closeFile" ELSE "idle")
          /\ UNCHANGED <<table, disk, key, status, handle, pos, socket, crashed>>

\* The socket is closed.  A page that was to be written but has no file is
\* passed to fseek or fclose as NULL.
Finish(t) ==
  /\ At(t, "finish")
  /\ IF status[t] = Cache!should_write /\ handle[t] = "null" THEN Dies(t)
     ELSE /\ socket' = [socket EXCEPT ![t] = FALSE]
          /\ Goto(t, IF status[t] = Cache!should_write THEN "closeFile" ELSE "idle")
          /\ UNCHANGED <<table, disk, key, status, handle, pos, crashed>>

\* Mutation of CloseFile: the record is closed, the file is not.
CloseFileForgotten(t) ==
  /\ At(t, "closeFile")
  /\ Goto(t, "closeRecord")
  /\ UNCHANGED <<table, disk, key, status, handle, pos, socket, crashed>>

\* fclose writes out what the buffer has kept back.
CloseFile(t) ==
  /\ At(t, "closeFile")
  /\ Holds(t, "none") /\ Goto(t, "closeRecord")
  /\ disk' = IF handle[t] = "write" THEN [disk EXCEPT ![key[t]] = pos[t]] ELSE disk
  /\ UNCHANGED <<table, key, status, pos, socket, crashed>>

CloseRecord(t) ==
  /\ At(t, "closeRecord")
  /\ Cache!Close(key[t], status[t])
  /\ Goto(t, "idle")
  /\ UNCHANGED <<disk, key, status, handle, pos, socket, crashed>>

-----------------------------------------------------------------------------

SecondPasses ==
  /\ ~crashed
  /\ Cache!Tick
  /\ UNCHANGED <<disk, pc, key, status, handle, pos, socket, crashed>>

Dead == crashed /\ UNCHANGED vars

\* What a thread does by itself once called.
Step(t) ==
  \/ PrefetchNotNeeded(t) \/ OpenForRead(t) \/ OpenForWrite(t) \/ OpenFails(t)
  \/ NoFile(t) \/ ReadChunk(t) \/ ReadEnds(t) \/ Connect(t) \/ ConnectFails(t)
  \/ FirstChunk(t) \/ FirstChunkCrash(t) \/ FirstChunkUnsent(t)
  \/ NextChunk(t) \/ NextChunkUnsent(t) \/ ServerCloses(t) \/ Spins(t)
  \/ ReceiveCrash(t) \/ Finish(t) \/ CloseFile(t) \/ CloseRecord(t)

Next ==
  \/ \E t \in Threads :
       Step(t) \/ RequestUncacheable(t) \/ \E k \in Keys : RequestPage(t, k)
  \/ SecondPasses
  \/ Dead

Spec == Init /\ [][Next]_vars

\* Threads run and servers answer; every page is asked for again and again.
Fairness ==
  /\ \A t \in Threads : WF_vars(Step(t))
  /\ \A k \in Keys : SF_vars(\E t \in ClientThreads : RequestPage(t, k))

FairSpec == Spec /\ Fairness

-----------------------------------------------------------------------------
(* Properties *)

Writing(k) == {t \in Threads : handle[t] = "write" /\ key[t] = k}
Reading(k) == {t \in Threads : handle[t] = "read" /\ key[t] = k}

\* cache-record.h: a record is a "reader writer problem" type object.  What
\* counts is the files: none is open for writing twice, or while it is read,
\* whatever fails.
ExclusiveWriter ==
  \A k \in Keys :
    /\ \A t, u \in Writing(k) : t = u
    /\ Writing(k) = {} \/ Reading(k) = {}

\* A file that somebody reads does not change under the reader.
StableWhileRead ==
  [][\A k \in Keys : Reading(k) # {} => disk'[k] = disk[k]]_vars

\* A page read from the cache is complete (README.md: reading an incomplete
\* cache file is what the record is there to prevent), when clients stay,
\* servers send what they announce, and the network does not cut the header
\* of a page: HeaderComesWhole.
HitsAreWhole ==
  \A k \in Keys : Reading(k) # {} => disk[k] = Chunks

\* The cache files, as users of the cache see them.
Files == INSTANCE PageFiles WITH
  Users <- Threads, Pages <- Keys,
  content <- [k \in Keys |-> IF Writing(k) # {} THEN "part"
                              ELSE IF disk[k] = Chunks THEN "whole" ELSE "none"],
  readers <- [k \in Keys |-> Reading(k)],
  writers <- [k \in Keys |-> Writing(k)]

\* The table, whose critical sections only hand out permissions, makes the
\* use of the files, which happens outside of them, follow PageFiles, under
\* the same conditions as HitsAreWhole.
ImplementsPageFiles == Files!Spec

\* cache-record.h: whoever gets a record "MUST call cache_record_close" with
\* its status: a record counts exactly the threads that are to close it.
Using(k, s) == {t \in Threads : pc[t] # "idle" /\ key[t] = k /\ status[t] = s}

RecordsAreReleased ==
  \A k \in Keys :
    /\ table[k].write_in_progress <=> Using(k, Cache!should_write) # {}
    /\ table[k].readers = Cardinality(Using(k, Cache!should_read))

\* A request that has returned has closed its file and its socket.
NothingLeaks ==
  \A t \in Threads :
    pc[t] = "idle" => ~socket[t] /\ handle[t] \notin {"read", "write"}

\* A request ends, unless the process does, under the same conditions.
RequestsEnd ==
  \A t \in Threads : pc[t] = "routed" ~> pc[t] = "idle" \/ crashed

\* A stale page that is asked for is fetched again: its readers cannot hold
\* off the refresh for ever, since none joins after the expiration.
StalePagesAreRefreshed ==
  \A k \in Keys : Cache!Stale(k) ~> ~Cache!Stale(k) \/ crashed

\* README.md: while a page is fetched others get unavailable, and "the first
\* few requests will trigger a server get".  When nothing around the proxy
\* fails the process dies of no request that has a record in the table.
ServesUnavailable ==
  crashed => \E t \in Threads : pc[t] # "idle" /\ key[t] = NoKey

=============================================================================
