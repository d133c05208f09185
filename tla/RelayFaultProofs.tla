-------------------------- MODULE RelayFaultProofs --------------------------
(***************************************************************************)
(* Proofs about Relay: which failures around the proxy each promise of the *)
(* cache survives.  The runs relay_abandoned and relay_truncated show that *)
(* it does not survive others.                                             *)
(***************************************************************************)
EXTENDS RelayProofs

\* A step of one thread leaves the others where they are.
LEMMA OthersStay ==
  ASSUME TypeOK, NEW t \in Threads, NEW u \in Threads \ {t}, Step(t)
  PROVE  /\ pc'[u] = pc[u] /\ handle'[u] = handle[u] /\ pos'[u] = pos[u]
         /\ socket'[u] = socket[u] /\ UNCHANGED <<key, status>>
<1> USE DEF TypeOK, At, Goto, Holds, Dies, Store
<1>1. CASE PrefetchNotNeeded(t) \/ OpenForRead(t) \/ OpenForWrite(t) \/ OpenFails(t)
  BY <1>1 DEF PrefetchNotNeeded, OpenForRead, OpenForWrite, OpenFails
<1>2. CASE NoFile(t) \/ ReadChunk(t) \/ ReadEnds(t) \/ Connect(t) \/ ConnectFails(t)
  BY <1>2 DEF NoFile, ReadChunk, ReadEnds, Connect, ConnectFails
<1>3. CASE FirstChunk(t) \/ FirstChunkCrash(t) \/ FirstChunkUnsent(t)
  BY <1>3 DEF FirstChunk, FirstChunkCrash, FirstChunkUnsent
<1>4. CASE NextChunk(t) \/ NextChunkUnsent(t) \/ ServerCloses(t) \/ Spins(t)
  BY <1>4 DEF NextChunk, NextChunkUnsent, ServerCloses, Spins, vars
<1>5. CASE ReceiveCrash(t) \/ Finish(t) \/ CloseFile(t) \/ CloseRecord(t)
  BY <1>5 DEF ReceiveCrash, Finish, CloseFile, CloseRecord
<1> QED BY <1>1, <1>2, <1>3, <1>4, <1>5 DEF Step

\* Of the steps of a called thread only cache_record_close touches the table.
LEMMA OnlyCloseTouchesTable ==
  ASSUME NEW t \in Threads, Step(t), ~UNCHANGED table
  PROVE  /\ (At(t, "routed") /\ status[t] # Cache!should_write) \/ At(t, "closeRecord")
         /\ Cache!Close(key[t], status[t]) /\ Goto(t, "idle")
         /\ UNCHANGED <<disk, key, status, handle, socket>>
<1>1. PrefetchNotNeeded(t) \/ CloseRecord(t)
  BY DEF Step, OpenForRead, OpenForWrite, OpenFails, NoFile, ReadChunk, ReadEnds, Connect,
         ConnectFails, FirstChunk, FirstChunkCrash, FirstChunkUnsent, NextChunk,
         NextChunkUnsent, ServerCloses, Spins, ReceiveCrash, Finish, CloseFile, Dies, vars
<1> QED BY <1>1 DEF PrefetchNotNeeded, CloseRecord, Dies

-----------------------------------------------------------------------------
(* Complete hits *)

\* A page that has been received is complete, first in the hands of the thread
\* and then in its file, until the record is closed.
Complete(t) ==
  /\ pc[t] \in {"finish", "closeFile"} /\ handle[t] = "write" => pos[t] = Chunks
  /\ pc[t] = "closeRecord" /\ status[t] = Cache!should_write => disk[key[t]] = Chunks

\* A page that may be shared is complete.
Fresh(k) == table[k].present /\ ~table[k].write_in_progress => disk[k] = Chunks

WholeInv == RelayInv /\ (\A t \in Threads : Complete(t)) /\ \A k \in Keys : Fresh(k)

\* A thread completes the page before it closes the file, and the file before
\* the record, provided that servers send pages, with the header in one piece,
\* and clients take them.
LEMMA StepCompletes ==
  ASSUME RelayInv, NEW t \in Threads, Complete(t), Step(t),
         HeaderComesWhole, Faults \subseteq {"open", "connect"}
  PROVE  Complete(t)'
<1> USE RelayAssumption
    DEF RelayInv, TypeOK, Stages, Stage, Complete, At, Goto, Holds,
        Cache!should_write, Cache!should_read, Cache!unavailable
<1>1. CASE pc'[t] \notin {"finish", "closeFile", "closeRecord"}
  BY <1>1
<1>2. CASE pc'[t] = "finish" /\ pc[t] # "finish"
  <2>1. FirstChunk(t) \/ NextChunk(t)
    BY <1>2
    DEF Step, PrefetchNotNeeded, OpenForRead, OpenForWrite, OpenFails, NoFile, ReadChunk,
        ReadEnds, Connect, ConnectFails, FirstChunkCrash, FirstChunkUnsent, NextChunkUnsent,
        ServerCloses, Spins, ReceiveCrash, Finish, CloseFile, CloseRecord, Dies, vars
  <2>2. pos'[t] = Chunks
    BY <1>2, <2>1 DEF FirstChunk, NextChunk, Store
  <2> QED BY <1>2, <2>2
<1>3. CASE pc'[t] = "closeFile" /\ pc[t] # "closeFile"
  <2>1. ReadEnds(t) \/ Finish(t)
    BY <1>3
    DEF Step, PrefetchNotNeeded, OpenForRead, OpenForWrite, OpenFails, NoFile, ReadChunk,
        Connect, ConnectFails, FirstChunk, FirstChunkCrash, FirstChunkUnsent, NextChunk,
        NextChunkUnsent, ServerCloses, Spins, ReceiveCrash, CloseFile, CloseRecord, Dies, vars
  <2>2. CASE ReadEnds(t)
    BY <2>2 DEF ReadEnds
  <2>3. CASE Finish(t)
    BY <1>3, <2>3 DEF Finish, Dies
  <2> QED BY <2>1, <2>2, <2>3
<1>4. CASE pc'[t] = "closeRecord" /\ pc[t] # "closeRecord"
  <2>1. CloseFile(t)
    BY <1>4
    DEF Step, PrefetchNotNeeded, OpenForRead, OpenForWrite, OpenFails, NoFile, ReadChunk,
        ReadEnds, Connect, ConnectFails, FirstChunk, FirstChunkCrash, FirstChunkUnsent,
        NextChunk, NextChunkUnsent, ServerCloses, Spins, ReceiveCrash, Finish, CloseRecord,
        Dies, vars
  <2> QED BY <1>4, <2>1 DEF CloseFile
<1>5. CASE pc'[t] = pc[t] /\ pc[t] \in {"finish", "closeFile", "closeRecord"}
  <2>1. UNCHANGED <<disk, handle, pos, key, status>>
    BY <1>5
    DEF Step, PrefetchNotNeeded, OpenForRead, OpenForWrite, OpenFails, NoFile, ReadChunk,
        ReadEnds, Connect, ConnectFails, FirstChunk, FirstChunkCrash, FirstChunkUnsent,
        NextChunk, NextChunkUnsent, ServerCloses, Spins, ReceiveCrash, Finish, CloseFile,
        CloseRecord, Dies, vars
  <2> QED BY <1>5, <2>1
<1> QED BY <1>1, <1>2, <1>3, <1>4, <1>5

\* The others do not touch the file of a thread that has the record.
LEMMA OthersComplete ==
  ASSUME RelayInv, NEW t \in Threads, NEW u \in Threads \ {t}, Complete(u), Step(t)
  PROVE  Complete(u)'
<1>1. /\ pc'[u] = pc[u] /\ handle'[u] = handle[u] /\ pos'[u] = pos[u]
      /\ UNCHANGED <<key, status>>
  BY OthersStay DEF RelayInv
<1>2. ASSUME pc[u] = "closeRecord", status[u] = Cache!should_write
      PROVE  disk'[key[u]] = disk[key[u]]
  <2>1. key[u] \in Keys /\ u \in Owners(key[u])
    BY <1>2 DEF RelayInv, Stages, Stage, Owners, Cache!should_write, Cache!unavailable
  <2>2. t \notin Owners(key[u])
    BY <2>1 DEF RelayInv, Owned
  <2> QED BY <2>1, <2>2, OwnerWrites
<1> QED BY <1>1, <1>2 DEF Complete

\* Calls and the clock come between neither.
LEMMA StillComplete ==
  ASSUME RelayInv, NEW u \in Threads, Complete(u),
         \/ \E t \in Threads : RequestUncacheable(t) \/ \E k \in Keys : RequestPage(t, k)
         \/ SecondPasses \/ Dead \/ UNCHANGED vars
  PROVE  Complete(u)'
<1>1. ASSUME NEW t \in Threads, NEW k, NEW s, Call(t, k, s)
      PROVE  Complete(u)'
  BY <1>1 DEF Call, At, Goto, Holds, Complete, RelayInv, TypeOK
<1>2. CASE SecondPasses \/ Dead \/ UNCHANGED vars
  BY <1>2 DEF SecondPasses, Dead, vars, Complete
<1> QED BY <1>1, <1>2 DEF RequestUncacheable, RequestPage

\* A page becomes one to be shared only when its writer closes the record.
LEMMA WriterReleases ==
  ASSUME RelayInv, [Next]_vars, NEW k \in Keys,
         table'[k].present, ~table'[k].write_in_progress,
         ~table[k].present \/ table[k].write_in_progress
  PROVE  \E t \in Threads :
           /\ pc[t] = "closeRecord" /\ status[t] = Cache!should_write /\ key[t] = k
           /\ UNCHANGED disk
<1>1. table \in [Keys -> Cache!RecordType] /\ table[k] \in Cache!RecordType
  BY DEF RelayInv, TypeOK
<1>2. ~UNCHANGED table
  OBVIOUS
<1>3. ASSUME NEW t \in Threads, Step(t)
      PROVE  /\ pc[t] = "closeRecord" /\ status[t] = Cache!should_write /\ key[t] = k
             /\ UNCHANGED disk
  <2>1. /\ (At(t, "routed") /\ status[t] # Cache!should_write) \/ At(t, "closeRecord")
        /\ Cache!Close(key[t], status[t]) /\ UNCHANGED disk
    BY <1>2, <1>3, OnlyCloseTouchesTable
  <2>2. CASE status[t] = Cache!should_write /\ key[t] = k
    BY <2>1, <2>2 DEF At
  <2>3. CASE status[t] = Cache!should_write /\ key[t] # k
    <3>1. table' = [table EXCEPT ![key[t]].write_in_progress = FALSE]
      BY <2>1, <2>3 DEF Cache!Close, Cache!should_write, Cache!should_read, Cache!unavailable
    <3> QED BY <1>1, <2>3, <3>1
  <2>4. CASE status[t] # Cache!should_write
    <3>1. table' = [table EXCEPT ![key[t]].readers = @ - 1] \/ UNCHANGED table
      BY <2>1, <2>4 DEF Cache!Close
    <3>2. table'[k].present = table[k].present
          /\ table'[k].write_in_progress = table[k].write_in_progress
      BY <1>1, <3>1 DEF Cache!RecordType
    <3> QED BY <3>2
  <2> QED BY <2>2, <2>3, <2>4
<1>4. ASSUME NEW t \in Threads, NEW j \in Keys, RequestPage(t, j)
      PROVE  FALSE
  <2>1. PICK s : Cache!GetOrCreate(j, s)
    BY <1>4 DEF RequestPage
  <2>2. CASE Cache!Create(j) \/ Cache!Refresh(j)
    BY <1>1, <2>2 DEF Cache!Create, Cache!Refresh
  <2>3. CASE Cache!Share(j)
    <3>1. table[j].present /\ ~table[j].write_in_progress
          /\ table' = [table EXCEPT ![j].readers = @ + 1]
      BY <2>3 DEF Cache!Share
    <3>2. j # k
      BY <3>1
    <3> QED BY <1>1, <3>1, <3>2
  <2>4. CASE Cache!Refuse(j)
    BY <1>2, <2>4 DEF Cache!Refuse
  <2> QED BY <2>1, <2>2, <2>3, <2>4 DEF Cache!GetOrCreate
<1>5. ~Dead /\ ~UNCHANGED vars
  BY <1>2 DEF Dead, vars
<1>6. ~SecondPasses
  <2>1. SecondPasses => table'[k] = [table[k] EXCEPT !.left = IF @ < 0 THEN @ ELSE @ - 1]
    BY DEF SecondPasses, Cache!Tick
  <2> QED BY <1>1, <2>1 DEF Cache!RecordType
<1>7. \A t \in Threads : ~RequestUncacheable(t)
  BY <1>2 DEF RequestUncacheable
<1> QED BY <1>3, <1>4, <1>5, <1>6, <1>7 DEF Next

\* So a page that may be shared stays complete.
LEMMA FreshKept ==
  ASSUME WholeInv, [Next]_vars, NEW k \in Keys
  PROVE  Fresh(k)'
<1> SUFFICES ASSUME table'[k].present, ~table'[k].write_in_progress
             PROVE  disk'[k] = Chunks
  BY DEF Fresh
<1>1. CASE ~table[k].present \/ table[k].write_in_progress
  <2>1. PICK t \in Threads :
          /\ pc[t] = "closeRecord" /\ status[t] = Cache!should_write /\ key[t] = k
          /\ UNCHANGED disk
    BY <1>1, WriterReleases DEF WholeInv
  <2> QED BY <2>1 DEF WholeInv, Complete
<1>2. CASE table[k].present /\ ~table[k].write_in_progress
  <2>1. Owners(k) = {}
    BY <1>2 DEF WholeInv, RelayInv, Owned
  <2>2. disk'[k] = disk[k]
    BY <2>1, OwnersWrite DEF WholeInv
  <2> QED BY <1>2, <2>2 DEF WholeInv, Fresh
<1> QED BY <1>1, <1>2

\* With good peers and headers in one piece all pages to be shared are complete.
LEMMA WholeHolds ==
  ASSUME HeaderComesWhole, Faults \subseteq {"open", "connect"}
  PROVE  Spec => []WholeInv
<1>1. Init => WholeInv
  <2>1. Init => RelayInv
    BY InitInv
  <2>2. Init => \A t \in Threads : Complete(t)
    BY DEF Init, Complete
  <2>3. Init => \A k \in Keys : Fresh(k)
    BY DEF Init, Fresh, Cache!InitTable, Cache!NoRecord
  <2> QED BY <2>1, <2>2, <2>3 DEF WholeInv
<1>2. WholeInv /\ [Next]_vars => WholeInv'
  <2> SUFFICES ASSUME WholeInv, [Next]_vars PROVE WholeInv'
    OBVIOUS
  <2>1. RelayInv'
    BY NextInv DEF WholeInv
  <2>2. ASSUME NEW u \in Threads PROVE Complete(u)'
    <3>1. CASE \E t \in Threads : Step(t)
      BY <3>1, StepCompletes, OthersComplete DEF WholeInv
    <3>2. CASE ~\E t \in Threads : Step(t)
      BY <3>2, StillComplete DEF WholeInv, Next
    <3> QED BY <3>1, <3>2
  <2>3. \A k \in Keys : Fresh(k)'
    BY FreshKept
  <2> QED BY <2>1, <2>2, <2>3 DEF WholeInv
<1> QED BY <1>1, <1>2, PTL DEF Spec

\* README.md: nobody reads an incomplete cache file.  It takes clients that
\* stay, servers that send whole pages with their length, and a network that
\* delivers the header of every page in one piece; failing to open a file or
\* to reach a server does no harm.
THEOREM HitsAreWholeWithGoodPeers ==
  ASSUME HeaderComesWhole, Faults \subseteq {"open", "connect"}
  PROVE  Spec => []HitsAreWhole
<1>1. WholeInv => HitsAreWhole
  <2> SUFFICES ASSUME WholeInv, NEW k \in Keys, Reading(k) # {}
               PROVE  disk[k] = Chunks
    BY DEF HitsAreWhole
  <2>1. PICK t \in Threads : handle[t] = "read" /\ key[t] = k
    BY DEF Reading
  <2>2. status[t] = Cache!should_read /\ pc[t] # "idle"
    BY <2>1 DEF WholeInv, RelayInv, Stages, Stage
  <2>3. table[k].readers >= 1
    BY <2>1, <2>2, ReaderIsCounted DEF WholeInv, RelayInv
  <2>4. table[k].present /\ ~table[k].write_in_progress
    BY <2>3 DEF WholeInv, RelayInv, Owned
  <2> QED BY <2>4 DEF WholeInv, Fresh
<1> QED BY <1>1, WholeHolds, PTL

-----------------------------------------------------------------------------
(* Records given back *)

\* A thread that is to read has its file: it never goes to the server, where
\* a reader's record is not closed.
ReadsFromFile ==
  \A t \in Threads :
    pc[t] \in {"connect", "receive", "relay", "spin", "finish"} => status[t] # Cache!should_read

ReleaseInv == RelayInv /\ ReadsFromFile /\ RecordsAreReleased

\* Files are there to be opened, servers to be reached and clients stay; a
\* server that fails later does no harm.
LEMMA StepReadsFromFile ==
  ASSUME RelayInv, ReadsFromFile, NEW t \in Threads, Step(t),
         Faults \subseteq {"server", "length"}
  PROVE  ReadsFromFile'
<1>1. UNCHANGED <<key, status>>
  BY DEF Step, PrefetchNotNeeded, OpenForRead, OpenForWrite, OpenFails, NoFile, ReadChunk,
         ReadEnds, Connect, ConnectFails, FirstChunk, FirstChunkCrash, FirstChunkUnsent,
         NextChunk, NextChunkUnsent, ServerCloses, Spins, ReceiveCrash, Finish, CloseFile,
         CloseRecord, Dies, vars
<1>2. ASSUME NEW u \in Threads \ {t}
      PROVE  pc'[u] = pc[u]
  BY OthersStay DEF RelayInv
<1>3. CASE pc[t] \in {"connect", "receive", "relay", "spin", "finish"}
  BY <1>1, <1>2, <1>3 DEF ReadsFromFile
<1>4. CASE pc'[t] \notin {"connect", "receive", "relay", "spin", "finish"}
  BY <1>1, <1>2, <1>4 DEF ReadsFromFile
<1>5. CASE /\ pc[t] \notin {"connect", "receive", "relay", "spin", "finish"}
           /\ pc'[t] \in {"connect", "receive", "relay", "spin", "finish"}
  <2>1. OpenForWrite(t) \/ NoFile(t)
    BY <1>5
    DEF RelayInv, TypeOK, At, Goto, Step, PrefetchNotNeeded, OpenForRead, OpenFails,
        ReadChunk, ReadEnds, Connect, ConnectFails, FirstChunk, FirstChunkCrash,
        FirstChunkUnsent, NextChunk, NextChunkUnsent, ServerCloses, Spins, ReceiveCrash,
        Finish, CloseFile, CloseRecord, Dies, vars
  <2>2. status[t] # Cache!should_read
    BY <2>1
    DEF OpenForWrite, NoFile, Cache!should_write, Cache!should_read, Cache!unavailable
  <2> QED BY <1>1, <1>2, <2>2 DEF ReadsFromFile
<1> QED BY <1>3, <1>4, <1>5

\* A record whose table entry and users stay the same.
LEMMA SameUsers ==
  ASSUME RecordsAreReleased, NEW k \in Keys,
         table'[k].write_in_progress = table[k].write_in_progress,
         table'[k].readers = table[k].readers,
         Using(k, Cache!should_write)' = Using(k, Cache!should_write),
         Using(k, Cache!should_read)' = Using(k, Cache!should_read)
  PROVE  /\ table'[k].write_in_progress <=> Using(k, Cache!should_write)' # {}
         /\ table'[k].readers = Cardinality(Using(k, Cache!should_read)')
  BY DEF RecordsAreReleased

\* A thread goes on, or returns without a permission: nothing to be closed.
LEMMA QuietRelease ==
  ASSUME RelayInv, RecordsAreReleased, NEW t \in Threads, UNCHANGED <<table, key, status>>,
         pc[t] # "idle", \A u \in Threads \ {t} : pc'[u] = pc[u],
         pc'[t] # "idle" \/ status[t] = Cache!unavailable
  PROVE  RecordsAreReleased'
<1>1. ASSUME NEW k \in Keys, NEW s \in {Cache!should_write, Cache!should_read}
      PROVE  Using(k, s)' = Using(k, s)
  BY DEF Using, Cache!should_write, Cache!should_read, Cache!unavailable
<1> QED BY <1>1, SameUsers DEF RecordsAreReleased

\* A thread returns and closes the record: it was the writer, or one of the
\* readers that are counted.
LEMMA CloseReleases ==
  ASSUME RelayInv, RecordsAreReleased, NEW t \in Threads, pc[t] # "idle", key[t] \in Keys,
         Cache!Close(key[t], status[t]), Goto(t, "idle"), UNCHANGED <<key, status>>
  PROVE  RecordsAreReleased'
<1> DEFINE W(k) == Using(k, Cache!should_write)
           R(k) == Using(k, Cache!should_read)
<1> USE DEF Cache!should_write, Cache!should_read, Cache!unavailable
<1> SUFFICES ASSUME NEW k \in Keys
             PROVE  /\ table'[k].write_in_progress <=> W(k)' # {}
                    /\ table'[k].readers = Cardinality(R(k)')
  BY DEF RecordsAreReleased
<1>1. table \in [Keys -> Cache!RecordType] /\ table[k] \in Cache!RecordType
  BY DEF RelayInv, TypeOK
<1>2. pc' = [pc EXCEPT ![t] = "idle"] /\ DOMAIN pc = Threads
  BY DEF Goto, RelayInv, TypeOK
<1>3. CASE k # key[t] \/ status[t] = Cache!unavailable
  <2>1. table'[k] = table[k]
    BY <1>1, <1>3 DEF Cache!Close
  <2>2. W(k)' = W(k) /\ R(k)' = R(k)
    BY <1>2, <1>3 DEF Using
  <2> QED BY <2>1, <2>2, SameUsers
<1>4. CASE k = key[t] /\ status[t] = Cache!should_write
  <2>1. table' = [table EXCEPT ![k].write_in_progress = FALSE]
    BY <1>4 DEF Cache!Close
  <2>2. table'[k].write_in_progress = FALSE /\ table'[k].readers = table[k].readers
    BY <1>1, <2>1 DEF Cache!RecordType
  <2>3. W(k)' = {}
    <3>1. W(k) \subseteq Owners(k) /\ t \in Owners(k)
      BY <1>4 DEF Using, Owners
    <3>2. W(k) \subseteq {t}
      BY <3>1 DEF RelayInv, Owned
    <3> QED BY <1>2, <3>2 DEF Using
  <2>4. R(k)' = R(k)
    BY <1>2, <1>4 DEF Using
  <2> QED BY <2>2, <2>3, <2>4 DEF RecordsAreReleased
<1>5. CASE k = key[t] /\ status[t] = Cache!should_read
  <2>1. table' = [table EXCEPT ![k].readers = @ - 1]
    BY <1>5 DEF Cache!Close
  <2>2. /\ table'[k].write_in_progress = table[k].write_in_progress
        /\ table'[k].readers = table[k].readers - 1
    BY <1>1, <2>1 DEF Cache!RecordType
  <2>3. W(k)' = W(k)
    BY <1>2, <1>5 DEF Using
  <2>4. R(k)' = R(k) \ {t} /\ t \in R(k)
    BY <1>2, <1>5 DEF Using
  <2>5. Cardinality(R(k)') = Cardinality(R(k)) - 1
    <3>1. IsFiniteSet(R(k))
      BY ThreadSets DEF Using
    <3> QED BY <2>4, <3>1, FS_RemoveElement
  <2> QED BY <2>2, <2>3, <2>5 DEF RecordsAreReleased
<1> QED BY <1>3, <1>4, <1>5 DEF RelayInv, TypeOK, Cache!Statuses

\* A call with a permission is entered in the record.
LEMMA CallIsCounted ==
  ASSUME RelayInv, RecordsAreReleased, NEW t \in Threads, NEW j \in Keys, RequestPage(t, j)
  PROVE  RecordsAreReleased'
<1> DEFINE W(k) == Using(k, Cache!should_write)
           R(k) == Using(k, Cache!should_read)
<1> USE DEF Cache!should_write, Cache!should_read, Cache!unavailable
<1> SUFFICES ASSUME NEW k \in Keys
             PROVE  /\ table'[k].write_in_progress <=> W(k)' # {}
                    /\ table'[k].readers = Cardinality(R(k)')
  BY DEF RecordsAreReleased
<1>1. table \in [Keys -> Cache!RecordType] /\ table[k] \in Cache!RecordType
  BY DEF RelayInv, TypeOK
<1>2. PICK s : Cache!GetOrCreate(j, s) /\ Call(t, j, s)
  BY DEF RequestPage
<1>3. /\ pc[t] = "idle" /\ pc' = [pc EXCEPT ![t] = "routed"]
      /\ key' = [key EXCEPT ![t] = j] /\ status' = [status EXCEPT ![t] = s]
      /\ DOMAIN pc = Threads /\ key \in [Threads -> Keys \cup {NoKey}]
      /\ status \in [Threads -> Cache!Statuses]
  BY <1>2 DEF Call, At, Goto, RelayInv, TypeOK
<1>4. CASE k # j \/ s = Cache!unavailable
  <2>1. table'[k] = table[k]
    BY <1>1, <1>2, <1>4
    DEF Cache!GetOrCreate, Cache!Create, Cache!Refresh, Cache!Share, Cache!Refuse
  <2>2. W(k)' = W(k) /\ R(k)' = R(k)
    BY <1>3, <1>4 DEF Using
  <2> QED BY <2>1, <2>2, SameUsers
<1>5. CASE k = j /\ s = Cache!should_write
  <2>1. Cache!Create(k) \/ Cache!Refresh(k)
    BY <1>2, <1>5 DEF Cache!GetOrCreate
  <2>2. table[k].readers = 0
    BY <2>1 DEF Cache!Create, Cache!Refresh, Cache!Refreshable, RelayInv, Owned
  <2>3. table'[k].write_in_progress /\ table'[k].readers = 0
    BY <1>1, <2>1, <2>2 DEF Cache!Create, Cache!Refresh
  <2>4. t \in W(k)'
    BY <1>3, <1>5 DEF Using
  <2>5. R(k)' = R(k)
    BY <1>3, <1>5 DEF Using
  <2> QED BY <2>2, <2>3, <2>4, <2>5 DEF RecordsAreReleased
<1>6. CASE k = j /\ s = Cache!should_read
  <2>1. table' = [table EXCEPT ![k].readers = @ + 1]
    BY <1>2, <1>6 DEF Cache!GetOrCreate, Cache!Share
  <2>2. /\ table'[k].write_in_progress = table[k].write_in_progress
        /\ table'[k].readers = table[k].readers + 1
    BY <1>1, <2>1 DEF Cache!RecordType
  <2>3. W(k)' = W(k)
    BY <1>3, <1>6 DEF Using
  <2>4. R(k)' = R(k) \cup {t} /\ t \notin R(k)
    BY <1>3, <1>6 DEF Using
  <2>5. Cardinality(R(k)') = Cardinality(R(k)) + 1
    <3>1. IsFiniteSet(R(k))
      BY ThreadSets DEF Using
    <3> QED BY <2>4, <3>1, FS_AddElement
  <2> QED BY <2>2, <2>3, <2>5 DEF RecordsAreReleased
<1> QED BY <1>2, <1>4, <1>5, <1>6 DEF Cache!GetOrCreate

\* Every step of a called thread keeps the count.
LEMMA StepReleases ==
  ASSUME RelayInv, ReadsFromFile, RecordsAreReleased, NEW t \in Threads, Step(t),
         Faults \subseteq {"server", "length"}
  PROVE  RecordsAreReleased'
<1>1. CASE ~UNCHANGED table
  <2>1. /\ (At(t, "routed") /\ status[t] # Cache!should_write) \/ At(t, "closeRecord")
        /\ Cache!Close(key[t], status[t]) /\ Goto(t, "idle") /\ UNCHANGED <<key, status>>
    BY <1>1, OnlyCloseTouchesTable
  <2>2. status[t] # Cache!unavailable
    BY <1>1, <2>1 DEF Cache!Close, Cache!should_write, Cache!should_read, Cache!unavailable
  <2>3. pc[t] # "idle" /\ key[t] \in Keys
    BY <2>1, <2>2 DEF At, RelayInv, Stages, Stage
  <2> QED BY <2>1, <2>3, CloseReleases
<1>2. CASE UNCHANGED table /\ (pc'[t] # "idle" \/ status[t] = Cache!unavailable)
  <2>1. pc[t] # "idle" /\ UNCHANGED <<key, status>>
    BY DEF Step, PrefetchNotNeeded, OpenForRead, OpenForWrite, OpenFails, NoFile, Proceeds,
           ReadChunk, ReadEnds, Connect, ConnectFails, FirstChunk, FirstChunkCrash,
           FirstChunkUnsent, NextChunk, NextChunkUnsent, ServerCloses, Spins, ReceiveCrash,
           Finish, CloseFile, CloseRecord, At, Dies, vars
  <2>2. \A u \in Threads \ {t} : pc'[u] = pc[u]
    BY OthersStay DEF RelayInv
  <2> QED BY <1>2, <2>1, <2>2, QuietRelease
<1>3. CASE UNCHANGED table /\ pc'[t] = "idle" /\ status[t] # Cache!unavailable
  <2>1. PrefetchNotNeeded(t) \/ Finish(t) \/ CloseRecord(t)
    BY <1>3
    DEF RelayInv, TypeOK, At, Goto, Step, OpenForRead, OpenForWrite, OpenFails, NoFile,
        Proceeds, ReadChunk, ReadEnds, Connect, ConnectFails, FirstChunk, FirstChunkCrash,
        FirstChunkUnsent, NextChunk, NextChunkUnsent, ServerCloses, Spins, ReceiveCrash,
        CloseFile, Dies, vars
  <2>2. CASE Finish(t)
    <3>1. pc[t] = "finish" /\ status[t] # Cache!should_write
      BY <1>3, <2>2 DEF Finish, At, Goto, Dies, RelayInv, TypeOK
    <3> QED BY <1>3, <3>1
      DEF ReadsFromFile, RelayInv, TypeOK, Cache!Statuses
  <2>3. CASE PrefetchNotNeeded(t) \/ CloseRecord(t)
    <3>1. pc[t] # "idle"
      BY <2>3 DEF PrefetchNotNeeded, CloseRecord, At
    <3>2. key[t] \in Keys
      BY <1>3, <3>1 DEF RelayInv, Stages, Stage
    <3>3. /\ Cache!Close(key[t], status[t]) /\ Goto(t, "idle") /\ UNCHANGED <<key, status>>
      BY <2>3, <3>2, RelayAssumption DEF PrefetchNotNeeded, CloseRecord
    <3> QED BY <3>1, <3>2, <3>3, CloseReleases
  <2> QED BY <2>1, <2>2, <2>3
<1> QED BY <1>1, <1>2, <1>3

\* cache-record.h: whoever has got a record must close it.  It takes files
\* that can be opened, servers that can be reached and clients that stay.
THEOREM RecordsAreReleasedWithReachableServers ==
  ASSUME Faults \subseteq {"server", "length"}
  PROVE  Spec => []RecordsAreReleased
<1>1. Init => ReleaseInv
  <2> SUFFICES ASSUME Init PROVE ReadsFromFile /\ RecordsAreReleased
    BY InitInv DEF ReleaseInv
  <2>1. ReadsFromFile
    BY DEF Init, ReadsFromFile
  <2>2. \A k \in Keys : \A s : Using(k, s) = {}
    BY DEF Init, Using
  <2> QED BY <2>1, <2>2, FS_EmptySet
    DEF Init, RecordsAreReleased, Cache!InitTable, Cache!NoRecord
<1>2. ReleaseInv /\ [Next]_vars => ReleaseInv'
  <2> SUFFICES ASSUME ReleaseInv, [Next]_vars PROVE ReadsFromFile' /\ RecordsAreReleased'
    BY NextInv DEF ReleaseInv
  <2> USE DEF ReleaseInv
  <2>1. ASSUME NEW t \in Threads, Step(t) PROVE ReadsFromFile' /\ RecordsAreReleased'
    BY <2>1, StepReadsFromFile, StepReleases
  <2>2. ASSUME NEW t \in Threads, NEW k, NEW s, Call(t, k, s) PROVE ReadsFromFile'
    BY <2>2 DEF Call, Goto, ReadsFromFile, RelayInv, TypeOK
  <2>3. ASSUME NEW t \in Threads, NEW k \in Keys, RequestPage(t, k)
        PROVE  ReadsFromFile' /\ RecordsAreReleased'
    BY <2>2, <2>3, CallIsCounted DEF RequestPage
  <2>4. ASSUME NEW t \in Threads, RequestUncacheable(t)
        PROVE  ReadsFromFile' /\ RecordsAreReleased'
    <3>1. ASSUME NEW k \in Keys, NEW s \in {Cache!should_write, Cache!should_read}
          PROVE  Using(k, s)' = Using(k, s)
      BY <2>4, RelayAssumption
      DEF RequestUncacheable, Call, At, Goto, Using, RelayInv, TypeOK,
          Cache!should_write, Cache!should_read, Cache!unavailable
    <3> QED BY <2>2, <2>4, <3>1, SameUsers DEF RequestUncacheable, RecordsAreReleased
  <2>5. CASE SecondPasses
    <3>1. ASSUME NEW k \in Keys
          PROVE  /\ table'[k].write_in_progress = table[k].write_in_progress
                 /\ table'[k].readers = table[k].readers
      <4>1. table[k] \in Cache!RecordType
        BY DEF RelayInv, TypeOK
      <4>2. table'[k] = [table[k] EXCEPT !.left = IF @ < 0 THEN @ ELSE @ - 1]
        BY <2>5 DEF SecondPasses, Cache!Tick
      <4> QED BY <4>1, <4>2 DEF Cache!RecordType
    <3>2. ASSUME NEW k \in Keys, NEW s
          PROVE  Using(k, s)' = Using(k, s)
      BY <2>5 DEF SecondPasses, Using
    <3> QED BY <2>5, <3>1, <3>2, SameUsers
      DEF SecondPasses, ReadsFromFile, RecordsAreReleased
  <2>6. CASE Dead \/ UNCHANGED vars
    BY <2>6 DEF Dead, vars, ReadsFromFile, RecordsAreReleased, Using
  <2> QED BY <2>1, <2>3, <2>4, <2>5, <2>6 DEF Next
<1>3. ReleaseInv => RecordsAreReleased
  BY DEF ReleaseInv
<1> QED BY <1>1, <1>2, <1>3, PTL DEF Spec

-----------------------------------------------------------------------------
(* Nothing left open *)

\* Where no socket is open.
NoSocket(t) ==
  pc[t] \in {"idle", "routed", "read", "connect", "closeFile", "closeRecord"} => ~socket[t]

\* An idle thread has no file.
NoHandle(t) == pc[t] = "idle" => handle[t] \notin {"read", "write"}

TidyInv == RelayInv /\ \A t \in Threads : NoSocket(t) /\ NoHandle(t)

\* A thread that returns has closed what it opened, when no error path
\* returns early.
LEMMA StepTidies ==
  ASSUME RelayInv, NEW t \in Threads, NoSocket(t), NoHandle(t), Step(t),
         Faults \cap {"connect", "client"} = {}
  PROVE  NoSocket(t)' /\ NoHandle(t)'
<1> USE DEF RelayInv, TypeOK, Stages, Stage, NoSocket, NoHandle, At, Goto, Holds, Dies
<1>1. CASE PrefetchNotNeeded(t) \/ CloseRecord(t)
  BY <1>1 DEF PrefetchNotNeeded, CloseRecord
<1>2. CASE OpenForRead(t) \/ OpenForWrite(t) \/ OpenFails(t) \/ NoFile(t)
  BY <1>2 DEF OpenForRead, OpenForWrite, OpenFails, NoFile, Proceeds
<1>3. CASE ReadChunk(t) \/ ReadEnds(t) \/ Connect(t)
  BY <1>3 DEF ReadChunk, ReadEnds, Connect
<1>4. CASE ConnectFails(t) \/ FirstChunkUnsent(t) \/ NextChunkUnsent(t)
  BY <1>4 DEF ConnectFails, FirstChunkUnsent, NextChunkUnsent
<1>5. CASE FirstChunk(t) \/ FirstChunkCrash(t) \/ NextChunk(t)
  BY <1>5 DEF FirstChunk, FirstChunkCrash, NextChunk
<1>6. CASE ServerCloses(t) \/ Spins(t) \/ ReceiveCrash(t)
  BY <1>6 DEF ServerCloses, Spins, ReceiveCrash, vars
<1>7. CASE Finish(t)
  <2>1. CASE UNCHANGED <<pc, socket, handle>>
    BY <2>1
  <2>2. CASE ~UNCHANGED <<pc, socket, handle>>
    <3>1. /\ pc[t] = "finish" /\ socket' = [socket EXCEPT ![t] = FALSE]
          /\ UNCHANGED handle
      BY <1>7, <2>2 DEF Finish
    <3>2. pc'[t] = "idle" => status[t] # Cache!should_write
      BY <1>7, <2>2 DEF Finish
    <3> QED BY <3>1, <3>2
  <2> QED BY <2>1, <2>2
<1>8. CASE CloseFile(t)
  BY <1>8 DEF CloseFile
<1> QED BY <1>1, <1>2, <1>3, <1>4, <1>5, <1>6, <1>7, <1>8 DEF Step

\* Idle threads hold nothing, whatever else fails.
LEMMA TidyHolds ==
  ASSUME Faults \cap {"connect", "client"} = {}
  PROVE  Spec => []TidyInv
<1>1. Init => TidyInv
  BY InitInv DEF Init, TidyInv, NoSocket, NoHandle
<1>2. TidyInv /\ [Next]_vars => TidyInv'
  <2> SUFFICES ASSUME TidyInv, [Next]_vars, NEW u \in Threads
               PROVE  NoSocket(u)' /\ NoHandle(u)'
    BY NextInv DEF TidyInv
  <2> USE DEF TidyInv
  <2>1. ASSUME NEW t \in Threads, Step(t), t = u PROVE NoSocket(u)' /\ NoHandle(u)'
    BY <2>1, StepTidies
  <2>2. ASSUME NEW t \in Threads, Step(t), t # u PROVE NoSocket(u)' /\ NoHandle(u)'
    <3>1. pc'[u] = pc[u] /\ handle'[u] = handle[u] /\ socket'[u] = socket[u]
      BY <2>2, OthersStay DEF RelayInv
    <3> QED BY <3>1 DEF NoSocket, NoHandle
  <2>3. ASSUME NEW t \in Threads, NEW k, NEW s, Call(t, k, s)
        PROVE  NoSocket(u)' /\ NoHandle(u)'
    BY <2>3 DEF Call, At, Goto, Holds, NoSocket, NoHandle, RelayInv, TypeOK
  <2>4. CASE SecondPasses \/ Dead \/ UNCHANGED vars
    BY <2>4 DEF SecondPasses, Dead, vars, NoSocket, NoHandle
  <2> QED BY <2>1, <2>2, <2>3, <2>4 DEF Next, RequestUncacheable, RequestPage
<1> QED BY <1>1, <1>2, PTL DEF Spec

\* A request that has returned has closed its file and its socket, unless the
\* server could not be reached or the client had gone.
THEOREM NothingLeaksWithReachablePeers ==
  ASSUME Faults \cap {"connect", "client"} = {}
  PROVE  Spec => []NothingLeaks
<1>1. TidyInv => NothingLeaks
  BY DEF TidyInv, NoSocket, NoHandle, NothingLeaks
<1> QED BY <1>1, TidyHolds, PTL

-----------------------------------------------------------------------------
(* The cache files as their users see them *)

\* A step that neither opens nor closes a cache file.
LEMMA FilesStutter ==
  ASSUME \A k \in Keys : Reading(k)' = Reading(k) /\ Writing(k)' = Writing(k),
         \A k \in Keys : Writing(k) = {} => disk'[k] = disk[k]
  PROVE  UNCHANGED Files!vars
  BY DEF Files!vars

\* A call: the thread had no file, and has none.
LEMMA CallImplements ==
  ASSUME TidyInv, NEW t \in Threads, NEW k, NEW s, Call(t, k, s)
  PROVE  UNCHANGED Files!vars
<1>1. /\ handle[t] \notin {"read", "write"} /\ UNCHANGED disk
      /\ handle' = [handle EXCEPT ![t] = "none"] /\ key' = [key EXCEPT ![t] = k]
      /\ DOMAIN handle = Threads /\ DOMAIN key = Threads
  BY DEF TidyInv, RelayInv, TypeOK, NoHandle, Call, At, Holds
<1>2. \A j \in Keys : Reading(j)' = Reading(j) /\ Writing(j)' = Writing(j)
  BY <1>1 DEF Reading, Writing
<1> QED BY <1>1, <1>2, FilesStutter

\* A step of a called thread: it opens a file, closes one, or works on its own.
LEMMA StepImplements ==
  ASSUME WholeInv, TidyInv, NEW t \in Threads, Step(t),
         HeaderComesWhole, Faults \subseteq {"open"}
  PROVE  [Files!Next]_Files!vars
<1> USE DEF Cache!should_write, Cache!should_read, Cache!unavailable
<1>1. /\ TypeOK /\ Stages /\ DOMAIN handle = Threads
      /\ \A k \in Keys : Owned(k) /\ Fresh(k)
  BY DEF WholeInv, RelayInv, TypeOK
<1>2. /\ \A u \in Threads \ {t} : handle'[u] = handle[u]
      /\ UNCHANGED key
  <2>1. UNCHANGED key
    BY DEF Step, PrefetchNotNeeded, OpenForRead, OpenForWrite, OpenFails, NoFile, ReadChunk,
           ReadEnds, Connect, ConnectFails, FirstChunk, FirstChunkCrash, FirstChunkUnsent,
           NextChunk, NextChunkUnsent, ServerCloses, Spins, ReceiveCrash, Finish, CloseFile,
           CloseRecord, Dies, vars
  <2> QED BY <1>1, <2>1, OthersStay
<1>3. CASE OpenForRead(t)
  <2>1. /\ pc[t] = "routed" /\ handle[t] = "none" /\ status[t] = Cache!should_read
        /\ handle' = [handle EXCEPT ![t] = "read"] /\ UNCHANGED disk
    BY <1>1, <1>3 DEF OpenForRead, Proceeds, At, Holds, Stages, Stage
  <2>2. key[t] \in Keys /\ table[key[t]].readers >= 1
    BY <1>1, <2>1, ReaderIsCounted
  <2>3. Owners(key[t]) = {} /\ disk[key[t]] = Chunks
    BY <1>1, <2>2 DEF Owned, Fresh
  <2>4. Writing(key[t]) = {}
    BY <2>2, <2>3, WritersOwn DEF WholeInv
  <2>5. \A k \in Keys : Writing(k)' = Writing(k)
    BY <1>1, <1>2, <2>1 DEF Writing
  <2>6. \A k \in Keys : Reading(k)' = IF k = key[t] THEN Reading(k) \cup {t} ELSE Reading(k)
    BY <1>1, <1>2, <2>1 DEF Reading
  <2>7. t \notin Reading(key[t])
    BY <2>1 DEF Reading
  <2>8. Files!Hit(key[t], t)
    BY <2>1, <2>2, <2>3, <2>4, <2>5, <2>6, <2>7 DEF Files!Hit
  <2> QED BY <2>2, <2>8 DEF Files!Next
<1>4. CASE OpenForWrite(t)
  <2>1. /\ pc[t] = "routed" /\ handle[t] = "none" /\ status[t] = Cache!should_write
        /\ handle' = [handle EXCEPT ![t] = "write"] /\ disk' = [disk EXCEPT ![key[t]] = 0]
    BY <1>1, <1>4 DEF OpenForWrite, Proceeds, At, Holds, Stages, Stage
  <2>2. key[t] \in Keys /\ t \in Owners(key[t])
    BY <1>1, <2>1 DEF Stages, Stage, Owners
  <2>3. Writing(key[t]) = {}
    <3>1. Writing(key[t]) \subseteq {t}
      BY <1>1, <2>2, WritersOwn DEF WholeInv, Owned
    <3> QED BY <2>1, <3>1 DEF Writing
  <2>4. Reading(key[t]) = {}
    BY <2>2, ReadersExclude DEF WholeInv
  <2>5. \A k \in Keys : Reading(k)' = Reading(k)
    BY <1>1, <1>2, <2>1 DEF Reading
  <2>6. \A k \in Keys : Writing(k)' = IF k = key[t] THEN {t} ELSE Writing(k)
    BY <1>1, <1>2, <2>1, <2>3 DEF Writing
  <2>7. \A k \in Keys \ {key[t]} : disk'[k] = disk[k]
    BY <1>1, <2>1 DEF TypeOK
  <2>8. Files!Fetch(key[t], t)
    BY <2>2, <2>3, <2>4, <2>5, <2>6, <2>7 DEF Files!Fetch
  <2> QED BY <2>2, <2>8 DEF Files!Next
<1>5. CASE CloseFile(t) /\ handle[t] = "read"
  <2>1. /\ handle' = [handle EXCEPT ![t] = "none"] /\ UNCHANGED disk
        /\ pc[t] = "closeFile" /\ status[t] = Cache!should_read
    BY <1>1, <1>5 DEF CloseFile, At, Holds, Stages, Stage
  <2>2. key[t] \in Keys
    BY <1>1, <2>1 DEF Stages, Stage
  <2>3. \A k \in Keys : Writing(k)' = Writing(k)
    BY <1>1, <1>2, <1>5, <2>1 DEF Writing
  <2>4. \A k \in Keys : Reading(k)' = IF k = key[t] THEN Reading(k) \ {t} ELSE Reading(k)
    BY <1>1, <1>2, <1>5, <2>1 DEF Reading
  <2>5. t \in Reading(key[t])
    BY <1>5 DEF Reading
  <2>6. Files!HitEnds(key[t], t)
    BY <2>1, <2>2, <2>3, <2>4, <2>5 DEF Files!HitEnds
  <2> QED BY <2>2, <2>6 DEF Files!Next
<1>6. CASE CloseFile(t) /\ handle[t] = "write"
  <2>1. /\ handle' = [handle EXCEPT ![t] = "none"] /\ disk' = [disk EXCEPT ![key[t]] = pos[t]]
        /\ pc[t] = "closeFile" /\ status[t] = Cache!should_write /\ key[t] \in Keys
    BY <1>1, <1>6 DEF CloseFile, At, Holds, Stages, Stage
  <2>2. pos[t] = Chunks
    BY <1>6, <2>1 DEF WholeInv, Complete
  <2>3. Writing(key[t]) = {t}
    <3>1. t \in Writing(key[t])
      BY <1>6 DEF Writing
    <3> QED BY <1>1, <2>1, <3>1, WritersOwn DEF WholeInv, Owned
  <2>4. \A k \in Keys : Reading(k)' = Reading(k)
    BY <1>1, <1>2, <1>6, <2>1 DEF Reading
  <2>5. \A k \in Keys : Writing(k)' = IF k = key[t] THEN {} ELSE Writing(k)
    BY <1>1, <1>2, <2>1, <2>3 DEF Writing
  <2>6. /\ disk'[key[t]] = Chunks
        /\ \A k \in Keys \ {key[t]} : disk'[k] = disk[k]
    BY <1>1, <2>1, <2>2 DEF TypeOK
  <2>7. Files!Fetched(key[t], t)
    BY <2>1, <2>3, <2>4, <2>5, <2>6 DEF Files!Fetched
  <2> QED BY <2>1, <2>7 DEF Files!Next
<1>7. CASE OpenFails(t) \/ NoFile(t)
  <2>1. /\ handle[t] = "none" /\ handle'[t] \in {"null", "wild"} /\ UNCHANGED disk
    BY <1>1, <1>7, RelayAssumption
    DEF OpenFails, NoFile, Proceeds, At, Holds, Stages, Stage
  <2>2. \A k \in Keys : Reading(k)' = Reading(k) /\ Writing(k)' = Writing(k)
    BY <1>2, <2>1 DEF Reading, Writing
  <2> QED BY <2>1, <2>2, FilesStutter
<1>8. CASE /\ ~OpenForRead(t) /\ ~OpenForWrite(t) /\ ~CloseFile(t)
           /\ ~OpenFails(t) /\ ~NoFile(t)
  <2>1. UNCHANGED handle /\ (UNCHANGED disk \/ Store(t))
    BY <1>8
    DEF Step, PrefetchNotNeeded, ReadChunk, ReadEnds, Connect, ConnectFails, FirstChunk,
        FirstChunkCrash, FirstChunkUnsent, NextChunk, NextChunkUnsent, ServerCloses, Spins,
        ReceiveCrash, Finish, CloseRecord, Dies, vars
  <2>2. ASSUME NEW k \in Keys, Writing(k) = {}
        PROVE  disk'[k] = disk[k]
    <3>1. ~(handle[t] = "write" /\ key[t] = k)
      BY <2>2 DEF Writing
    <3> QED BY <1>1, <2>1, <3>1 DEF Store, TypeOK
  <2>3. \A k \in Keys : Reading(k)' = Reading(k) /\ Writing(k)' = Writing(k)
    BY <1>2, <2>1 DEF Reading, Writing
  <2> QED BY <2>2, <2>3, FilesStutter
<1>9. CloseFile(t) => handle[t] \in {"read", "write"}
  BY <1>1 DEF CloseFile, At, Stages, Stage
<1> QED BY <1>3, <1>4, <1>5, <1>6, <1>7, <1>8, <1>9

\* With good peers, and headers that come in one piece, the relay implements
\* PageFiles: a file is written by one thread, and read only when whole,
\* although the table's critical sections hand out permissions only.
THEOREM RelayImplementsPageFiles ==
  ASSUME HeaderComesWhole, Faults \subseteq {"open"}
  PROVE  Spec => ImplementsPageFiles
<1>1. Init => Files!Init
  <2> SUFFICES ASSUME Init PROVE Files!Init
    OBVIOUS
  <2>1. \A k \in Keys : Reading(k) = {} /\ Writing(k) = {} /\ disk[k] # Chunks
    BY RelayAssumption DEF Init, Reading, Writing
  <2> QED BY <2>1 DEF Files!Init
<1>2. WholeInv /\ TidyInv /\ [Next]_vars => [Files!Next]_Files!vars
  <2> SUFFICES ASSUME WholeInv, TidyInv, [Next]_vars PROVE [Files!Next]_Files!vars
    OBVIOUS
  <2>1. ASSUME NEW t \in Threads, Step(t) PROVE [Files!Next]_Files!vars
    BY <2>1, StepImplements
  <2>2. ASSUME NEW t \in Threads, NEW k, NEW s, Call(t, k, s)
        PROVE  UNCHANGED Files!vars
    BY <2>2, CallImplements
  <2>3. CASE SecondPasses \/ Dead \/ UNCHANGED vars
    <3>1. UNCHANGED <<disk, key, handle>>
      BY <2>3 DEF SecondPasses, Dead, vars
    <3>2. \A k \in Keys : Reading(k)' = Reading(k) /\ Writing(k)' = Writing(k)
      BY <3>1 DEF Reading, Writing
    <3> QED BY <3>1, <3>2, FilesStutter
  <2> QED BY <2>1, <2>2, <2>3 DEF Next, RequestUncacheable, RequestPage
<1>3. Spec => []WholeInv
  BY WholeHolds
<1>4. Spec => []TidyInv
  BY TidyHolds
<1> QED BY <1>1, <1>2, <1>3, <1>4, PTL DEF Spec, ImplementsPageFiles, Files!Spec

=============================================================================
