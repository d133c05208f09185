---------------------------- MODULE RelayProofs ----------------------------
(***************************************************************************)
(* Proofs about Relay: whatever fails, a cache file has one writer or      *)
(* readers, and does not change under a reader.                            *)
(***************************************************************************)
EXTENDS Relay, FiniteSetTheorems, TLAPS

\* What a thread holds at each place of handle_valid_request.
Stage(t) ==
  /\ pc[t] # "idle" /\ status[t] # Cache!unavailable => key[t] \in Keys
  /\ handle[t] = "write" => status[t] = Cache!should_write /\ key[t] \in Keys
  /\ handle[t] = "read" => status[t] = Cache!should_read /\ pc[t] \in {"read", "closeFile"}
  /\ pc[t] = "routed" => handle[t] = "none" /\ pos[t] = 0
  /\ pc[t] = "read" => handle[t] = "read"
  /\ pc[t] \in {"connect", "receive"} => pos[t] = 0
  /\ pc[t] \in {"connect", "receive", "relay", "spin", "finish"} =>
       /\ handle[t] \in {"null", "wild", "write"}
       /\ handle[t] = "wild" => status[t] = Cache!unavailable
  /\ pc[t] = "relay" => pos[t] < Chunks
  /\ pc[t] = "closeFile" => handle[t] \in {"read", "write"}
  /\ pc[t] = "closeRecord" => handle[t] = "none" /\ status[t] # Cache!unavailable

Stages == \A t \in Threads : Stage(t)

\* The threads a record counts as readers, and those entitled to its file:
\* also a thread that has returned without closing the file.
Readers(k) == Using(k, Cache!should_read)

Owners(k) ==
  {t \in Threads : /\ key[t] = k
                   /\ status[t] = Cache!should_write
                   /\ pc[t] # "idle" \/ handle[t] = "write"}

\* A record may count readers that have gone, never miss one; it has one
\* owner at most, and no readers meanwhile.
Owned(k) ==
  /\ table[k].write_in_progress => table[k].readers = 0
  /\ ~table[k].present => ~table[k].write_in_progress /\ table[k].readers = 0
  /\ Cardinality(Readers(k)) <= table[k].readers
  /\ \A t, u \in Owners(k) : t = u
  /\ Owners(k) # {} => table[k].write_in_progress

RelayInv == TypeOK /\ Stages /\ \A k \in Keys : Owned(k)

-----------------------------------------------------------------------------
(* The readers a record counts *)

\* A set of threads has a cardinality.
LEMMA ThreadSets ==
  ASSUME NEW S, S \subseteq Threads
  PROVE  IsFiniteSet(S) /\ Cardinality(S) \in Nat
  BY RelayAssumption, FS_Subset, FS_CardinalityType

\* A smaller set of threads counts no more.
LEMMA FewerThreads ==
  ASSUME NEW S, NEW R, S \subseteq R, R \subseteq Threads
  PROVE  Cardinality(S) <= Cardinality(R)
  BY ThreadSets, FS_Subset

\* One more thread counts one more at most.
LEMMA OneMoreThread ==
  ASSUME NEW S, NEW R, NEW t \in Threads, R \subseteq Threads, S \subseteq R \cup {t}
  PROVE  Cardinality(S) <= Cardinality(R) + 1
<1>1. IsFiniteSet(R) /\ Cardinality(R) \in Nat
  BY ThreadSets
<1>2. Cardinality(R \cup {t}) <= Cardinality(R) + 1
  BY <1>1, FS_AddElement
<1>3. Cardinality(S) <= Cardinality(R \cup {t}) /\ Cardinality(S) \in Nat
  <2>1. R \cup {t} \subseteq Threads /\ S \subseteq Threads
    OBVIOUS
  <2> QED BY <2>1, FewerThreads, ThreadSets
<1>4. Cardinality(R \cup {t}) \in Nat
  BY ThreadSets
<1> QED BY <1>1, <1>2, <1>3, <1>4

\* Without one of its threads a set counts one less at least.
LEMMA OneThreadLess ==
  ASSUME NEW S, NEW R, NEW t \in R, R \subseteq Threads, S \subseteq R \ {t}
  PROVE  Cardinality(S) <= Cardinality(R) - 1
<1>1. Cardinality(R \ {t}) = Cardinality(R) - 1
  BY ThreadSets, FS_RemoveElement
<1>2. Cardinality(S) <= Cardinality(R \ {t})
  BY FewerThreads
<1> QED BY <1>1, <1>2

\* cache_record_close never takes the number of readers below zero.
LEMMA ReaderIsCounted ==
  ASSUME TypeOK, Stages, \A k \in Keys : Owned(k),
         NEW t \in Threads, pc[t] # "idle", status[t] = Cache!should_read
  PROVE  key[t] \in Keys /\ table[key[t]].readers >= 1
<1>1. key[t] \in Keys
  BY DEF Stages, Stage, Cache!should_read, Cache!unavailable
<1> DEFINE R == Readers(key[t])
<1>2. t \in R /\ R \subseteq Threads
  BY DEF Readers, Using
<1>3. Cardinality({}) <= Cardinality(R) - 1
  <2>1. {} \subseteq R \ {t}
    OBVIOUS
  <2> QED BY <1>2, <2>1, OneThreadLess
<1>4. Cardinality({}) = 0
  BY FS_EmptySet
<1>5. Cardinality(R) <= table[key[t]].readers
  BY <1>1 DEF Owned
<1>6. table[key[t]].readers \in Int
  BY <1>1 DEF TypeOK, Cache!RecordType
<1>7. Cardinality(R) \in Nat
  BY <1>2, ThreadSets
<1> QED BY <1>1, <1>3, <1>4, <1>5, <1>6, <1>7

-----------------------------------------------------------------------------
(* Types and stages *)

\* What cache_record_get_or_create leaves is a table of records.
LEMMA GetOrCreateTypes ==
  ASSUME TypeOK, NEW k \in Keys, NEW s, Cache!GetOrCreate(k, s)
  PROVE  table' \in [Keys -> Cache!RecordType] /\ s \in Cache!Statuses
<1> USE RelayAssumption DEF TypeOK, Cache!RecordType, Cache!Statuses
<1>1. CASE s = Cache!should_write /\ Cache!Create(k)
  BY <1>1 DEF Cache!Create
<1>2. CASE s = Cache!should_write /\ Cache!Refresh(k)
  <2> DEFINE r == [present |-> TRUE, left |-> TTL, write_in_progress |-> TRUE,
                   readers |-> table[k].readers]
  <2>1. r \in Cache!RecordType
    OBVIOUS
  <2>2. table' = [table EXCEPT ![k] = r]
    BY <1>2 DEF Cache!Refresh
  <2> QED BY <1>2, <2>1, <2>2
<1>3. CASE s = Cache!should_read /\ Cache!Share(k)
  BY <1>3 DEF Cache!Share
<1>4. CASE s = Cache!unavailable /\ Cache!Refuse(k)
  BY <1>4 DEF Cache!Refuse
<1> QED BY <1>1, <1>2, <1>3, <1>4 DEF Cache!GetOrCreate

\* So does cache_record_close by a thread that has the record.
LEMMA CloseTypes ==
  ASSUME TypeOK, Stages, \A k \in Keys : Owned(k),
         NEW t \in Threads, pc[t] # "idle", key[t] \in Keys,
         Cache!Close(key[t], status[t])
  PROVE  table' \in [Keys -> Cache!RecordType]
<1>1. table \in [Keys -> Cache!RecordType] /\ table[key[t]] \in Cache!RecordType
  BY DEF TypeOK
<1>2. CASE status[t] = Cache!should_write
  <2> DEFINE r == [table[key[t]] EXCEPT !.write_in_progress = FALSE]
  <2>1. r \in Cache!RecordType
    BY <1>1 DEF Cache!RecordType
  <2>2. table' = [table EXCEPT ![key[t]].write_in_progress = FALSE]
    BY <1>2 DEF Cache!Close, Cache!should_write, Cache!should_read, Cache!unavailable
  <2>3. table' = [table EXCEPT ![key[t]] = r]
    BY <1>1, <2>2
  <2> QED BY <1>1, <2>1, <2>3
<1>3. CASE status[t] = Cache!should_read
  <2> DEFINE r == [table[key[t]] EXCEPT !.readers = @ - 1]
  <2>1. r \in Cache!RecordType
    BY <1>1, <1>3, ReaderIsCounted, RelayAssumption DEF Cache!RecordType
  <2>2. table' = [table EXCEPT ![key[t]].readers = @ - 1]
    BY <1>3 DEF Cache!Close, Cache!should_write, Cache!should_read, Cache!unavailable
  <2>3. table' = [table EXCEPT ![key[t]] = r]
    BY <1>1, <2>2
  <2> QED BY <1>1, <2>1, <2>3
<1>4. CASE status[t] = Cache!unavailable
  BY <1>1, <1>4
  DEF Cache!Close, Cache!should_write, Cache!should_read, Cache!unavailable
<1> QED BY <1>2, <1>3, <1>4 DEF TypeOK, Cache!Statuses

\* A step of a called thread keeps the types and the stages.
LEMMA StepStages ==
  ASSUME TypeOK, Stages, \A k \in Keys : Owned(k), NEW t \in Threads, Step(t)
  PROVE  TypeOK' /\ Stages'
<1> USE RelayAssumption DEF TypeOK, Stages, Stage, Cache!Statuses, Cache!unavailable, Cache!should_read, Cache!should_write
<1>1. CASE PrefetchNotNeeded(t)
  <2>1. CASE key[t] = NoKey
    BY <1>1, <2>1 DEF PrefetchNotNeeded, Dies
  <2>2. CASE key[t] # NoKey
    <3>1. /\ At(t, "routed") /\ Goto(t, "idle")
          /\ Cache!Close(key[t], status[t])
          /\ UNCHANGED <<disk, key, status, handle, pos, socket, crashed>>
      BY <1>1, <2>2 DEF PrefetchNotNeeded
    <3>2. table' \in [Keys -> Cache!RecordType]
      BY <3>1, <2>2, CloseTypes DEF At
    <3>3. TypeOK'
      BY <3>1, <3>2 DEF At, Goto
    <3>4. Stages'
      BY <3>1 DEF At, Goto
    <3> QED BY <3>3, <3>4
  <2> QED BY <2>1, <2>2
<1>2. CASE OpenForRead(t)
  BY <1>2 DEF OpenForRead, At, Goto, Holds, Proceeds
<1>3. CASE OpenForWrite(t)
  BY <1>3 DEF OpenForWrite, At, Goto, Holds, Proceeds
<1>4. CASE OpenFails(t)
  BY <1>4 DEF OpenFails, At, Goto, Holds, Proceeds
<1>5. CASE NoFile(t)
  BY <1>5 DEF NoFile, At, Goto, Holds, Proceeds
<1>6. CASE ReadChunk(t)
  BY <1>6 DEF ReadChunk, At, Goto, Holds
<1>7. CASE ReadEnds(t)
  BY <1>7 DEF ReadEnds, At, Goto, Holds
<1>8. CASE Connect(t)
  BY <1>8 DEF Connect, At, Goto, Holds
<1>9. CASE ConnectFails(t)
  <2>1. CASE handle[t] = "wild"
    BY <1>9, <2>1 DEF ConnectFails, Dies
  <2>2. CASE handle[t] # "wild"
    <3>1. /\ At(t, "connect") /\ Holds(t, "none") /\ Goto(t, "idle")
          /\ socket' = [socket EXCEPT ![t] = TRUE]
          /\ UNCHANGED <<table, disk, key, status, pos, crashed>>
      BY <1>9, <2>2 DEF ConnectFails
    <3> QED BY <3>1 DEF At, Goto, Holds
  <2> QED BY <2>1, <2>2
<1>10. CASE FirstChunk(t)
  BY <1>10 DEF FirstChunk, At, Goto, Holds, Store
<1>11. CASE FirstChunkCrash(t)
  BY <1>11 DEF FirstChunkCrash, At, Goto, Holds, Dies
<1>12. CASE FirstChunkUnsent(t)
  BY <1>12 DEF FirstChunkUnsent, At, Goto, Holds, Store
<1>13. CASE NextChunk(t)
  BY <1>13 DEF NextChunk, At, Goto, Holds, Store
<1>14. CASE NextChunkUnsent(t)
  BY <1>14 DEF NextChunkUnsent, At, Goto, Holds, Store
<1>15. CASE ServerCloses(t)
  BY <1>15 DEF ServerCloses, At, Goto, Holds
<1>16. CASE Spins(t)
  BY <1>16 DEF Spins, vars
<1>17. CASE ReceiveCrash(t)
  BY <1>17 DEF ReceiveCrash, At, Goto, Holds, Dies
<1>18. CASE Finish(t)
  <2>1. CASE status[t] = Cache!should_write /\ handle[t] = "null"
    BY <1>18, <2>1 DEF Finish, Dies
  <2>2. CASE status[t] = Cache!should_write /\ handle[t] # "null"
    <3>1. /\ At(t, "finish") /\ Goto(t, "closeFile")
          /\ socket' = [socket EXCEPT ![t] = FALSE]
          /\ UNCHANGED <<table, disk, key, status, handle, pos, crashed>>
      BY <1>18, <2>2 DEF Finish
    <3>2. TypeOK'
      BY <3>1 DEF At, Goto
    <3>3. handle[t] \in {"read", "write"}
      BY <3>1, <2>2 DEF At
    <3>4. Stages'
      BY <3>1, <3>3 DEF At, Goto
    <3> QED BY <3>2, <3>4
  <2>3. CASE status[t] # Cache!should_write
    <3>1. /\ At(t, "finish") /\ Goto(t, "idle")
          /\ socket' = [socket EXCEPT ![t] = FALSE]
          /\ UNCHANGED <<table, disk, key, status, handle, pos, crashed>>
      BY <1>18, <2>3 DEF Finish
    <3>2. TypeOK'
      BY <3>1 DEF At, Goto
    <3>3. Stages'
      BY <2>3, <3>1 DEF At, Goto
    <3> QED BY <3>2, <3>3
  <2> QED BY <2>1, <2>2, <2>3
<1>19. CASE CloseFile(t)
  BY <1>19 DEF CloseFile, At, Goto, Holds
<1>20. CASE CloseRecord(t)
  BY <1>20, CloseTypes DEF CloseRecord, At, Goto, Holds, Cache!Close
<1> QED BY <1>1, <1>2, <1>3, <1>4, <1>5, <1>6, <1>7, <1>8, <1>9, <1>10, <1>11, <1>12, <1>13, <1>14, <1>15, <1>16, <1>17, <1>18, <1>19, <1>20 DEF Step


\* So does a call, the clock, and what is not a step.
LEMMA RequestPageStages ==
  ASSUME TypeOK, Stages, NEW t \in Threads, NEW k \in Keys, RequestPage(t, k)
  PROVE  TypeOK' /\ Stages'
<1>1. PICK s : Cache!GetOrCreate(k, s) /\ Call(t, k, s)
  BY DEF RequestPage
<1>2. table' \in [Keys -> Cache!RecordType] /\ s \in Cache!Statuses
  BY <1>1, GetOrCreateTypes
<1>3. TypeOK'
  BY <1>1, <1>2, RelayAssumption DEF Call, At, Goto, Holds, TypeOK
<1>4. Stages'
  BY <1>1 DEF Call, At, Goto, Holds, TypeOK, Stages, Stage
<1> QED BY <1>3, <1>4

\* A call for a page without a record keeps them too.
LEMMA RequestUncacheableStages ==
  ASSUME TypeOK, Stages, NEW t \in Threads, RequestUncacheable(t)
  PROVE  TypeOK' /\ Stages'
BY RelayAssumption
DEF RequestUncacheable, Call, At, Goto, Holds, TypeOK, Stages, Stage, Cache!Statuses

\* So does the clock.
LEMMA SecondPassesStages ==
  ASSUME TypeOK, Stages, SecondPasses
  PROVE  TypeOK' /\ Stages'
<1>1. ASSUME NEW k \in Keys
      PROVE  [table[k] EXCEPT !.left = IF @ < 0 THEN @ ELSE @ - 1] \in Cache!RecordType
  <2>1. table[k] \in Cache!RecordType
    BY DEF TypeOK
  <2> QED BY <2>1, RelayAssumption DEF Cache!RecordType
<1>2. table' \in [Keys -> Cache!RecordType]
  BY <1>1 DEF SecondPasses, Cache!Tick
<1> QED BY <1>2 DEF SecondPasses, TypeOK, Stages, Stage

-----------------------------------------------------------------------------
(* Ownership *)

\* A record keeps its owner and readers when it is not touched and loses
\* users only.
LEMMA RecordKept ==
  ASSUME NEW k \in Keys, Owned(k), table'[k] = table[k],
         Readers(k)' \subseteq Readers(k), Owners(k)' \subseteq Owners(k),
         TypeOK
  PROVE  Owned(k)'
<1>1. Readers(k) \subseteq Threads /\ Readers(k)' \subseteq Threads
  BY DEF Readers, Using
<1>2. Cardinality(Readers(k)') <= Cardinality(Readers(k))
  BY <1>1, FewerThreads
<1>3. Cardinality(Readers(k)') \in Nat /\ Cardinality(Readers(k)) \in Nat
  BY <1>1, ThreadSets
<1>4. table[k].readers \in Int
  BY DEF TypeOK, Cache!RecordType
<1> QED BY <1>2, <1>3, <1>4 DEF Owned

\* A step of a called thread that leaves the table alone.
LEMMA QuietStep ==
  ASSUME TypeOK, \A k \in Keys : Owned(k),
         NEW t \in Threads, pc[t] # "idle", UNCHANGED <<table, key, status>>,
         \A u \in Threads \ {t} : pc'[u] = pc[u] /\ handle'[u] = handle[u]
  PROVE  \A k \in Keys : Owned(k)'
<1> TAKE k \in Keys
<1>1. Readers(k)' \subseteq Readers(k)
  BY DEF Readers, Using
<1>2. Owners(k)' \subseteq Owners(k)
  BY DEF Owners
<1> QED BY <1>1, <1>2, RecordKept

\* cache_record_close: the thread that leaves was counted.
LEMMA CloseKeepsOwned ==
  ASSUME TypeOK, Stages, \A k \in Keys : Owned(k),
         NEW t \in Threads, pc[t] # "idle", handle[t] # "write",
         key[t] \in Keys, Cache!Close(key[t], status[t]), Goto(t, "idle"),
         UNCHANGED <<key, status, handle>>
  PROVE  \A k \in Keys : Owned(k)'
<1> TAKE k \in Keys
<1>1. Readers(k)' \subseteq Readers(k) /\ Owners(k)' \subseteq Owners(k)
  BY DEF Readers, Using, Owners, Goto, TypeOK
<1>2. table \in [Keys -> Cache!RecordType] /\ table[k] \in Cache!RecordType
  BY DEF TypeOK
<1>3. Cardinality(Readers(k)) \in Nat /\ Cardinality(Readers(k)') \in Nat
  <2>1. Readers(k) \subseteq Threads /\ Readers(k)' \subseteq Threads
    BY DEF Readers, Using
  <2> QED BY <2>1, ThreadSets
<1>4. CASE k # key[t] \/ status[t] = Cache!unavailable
  <2>1. table'[k] = table[k]
    BY <1>2, <1>4 DEF Cache!Close, Cache!should_write, Cache!should_read, Cache!unavailable
  <2> QED BY <1>1, <2>1, RecordKept
<1>5. CASE k = key[t] /\ status[t] = Cache!should_write
  <2>1. t \in Owners(k)
    BY <1>5 DEF Owners
  <2>2. Owners(k)' = {}
    <3>1. t \notin Owners(k)'
      BY DEF Owners, Goto, TypeOK
    <3> QED BY <1>1, <2>1, <3>1 DEF Owned
  <2>3. table[k].write_in_progress /\ table[k].readers = 0 /\ table[k].present
    BY <2>1 DEF Owned
  <2>4. table' = [table EXCEPT ![k].write_in_progress = FALSE]
    BY <1>5 DEF Cache!Close, Cache!should_write, Cache!should_read, Cache!unavailable
  <2>5. table'[k].write_in_progress = FALSE /\ table'[k].readers = 0
    BY <1>2, <2>3, <2>4 DEF Cache!RecordType
  <2>6. Cardinality(Readers(k)') <= 0
    <3>1. Cardinality(Readers(k)') <= Cardinality(Readers(k))
      BY <1>1, FewerThreads DEF Readers, Using
    <3>2. Cardinality(Readers(k)) <= 0
      BY <2>3 DEF Owned
    <3> QED BY <1>3, <3>1, <3>2
  <2> QED BY <2>2, <2>5, <2>6 DEF Owned
<1>6. CASE k = key[t] /\ status[t] = Cache!should_read
  <2>1. t \in Readers(k) /\ t \notin Readers(k)'
    BY <1>6 DEF Readers, Using, Goto, TypeOK
  <2>2. table[k].readers >= 1 /\ ~table[k].write_in_progress /\ table[k].present
    BY <1>6, ReaderIsCounted DEF Owned
  <2>3. table' = [table EXCEPT ![k].readers = @ - 1]
    BY <1>6 DEF Cache!Close, Cache!should_write, Cache!should_read, Cache!unavailable
  <2>4. /\ table'[k].readers = table[k].readers - 1
        /\ table'[k].write_in_progress = table[k].write_in_progress
        /\ table'[k].present = table[k].present
    BY <1>2, <2>3 DEF Cache!RecordType
  <2>5. Cardinality(Readers(k)') <= Cardinality(Readers(k)) - 1
    <3>1. Readers(k)' \subseteq Readers(k) \ {t} /\ Readers(k) \subseteq Threads
      BY <1>1, <2>1 DEF Readers, Using
    <3> QED BY <2>1, <3>1, OneThreadLess
  <2>6. Cardinality(Readers(k)) <= table[k].readers /\ Owners(k) = {}
    BY <2>2 DEF Owned
  <2>7. Owners(k)' = {}
    BY <1>1, <2>6
  <2>8. table[k].readers \in Int
    BY <1>2 DEF Cache!RecordType
  <2>9. Cardinality(Readers(k)') <= table'[k].readers
    BY <1>3, <2>4, <2>5, <2>6, <2>8
  <2> QED BY <2>2, <2>4, <2>7, <2>9 DEF Owned
<1> QED BY <1>4, <1>5, <1>6 DEF TypeOK, Cache!Statuses

\* A step of a called thread keeps the ownership of every record.
LEMMA StepOwned ==
  ASSUME TypeOK, Stages, \A k \in Keys : Owned(k), NEW t \in Threads, Step(t)
  PROVE  \A k \in Keys : Owned(k)'
<1> DEFINE Quiet ==
      /\ pc[t] # "idle" /\ UNCHANGED <<table, key, status>>
      /\ \A u \in Threads \ {t} : pc'[u] = pc[u] /\ handle'[u] = handle[u]
<1>1. CASE PrefetchNotNeeded(t)
  <2>1. CASE key[t] = NoKey
    <3>1. Quiet
      BY <1>1, <2>1 DEF PrefetchNotNeeded, At, Dies
    <3> QED BY <3>1, QuietStep
  <2>2. CASE key[t] # NoKey
    <3>1. /\ At(t, "routed") /\ Goto(t, "idle")
          /\ Cache!Close(key[t], status[t]) /\ UNCHANGED <<key, status, handle>>
      BY <1>1, <2>2 DEF PrefetchNotNeeded
    <3>2. key[t] \in Keys /\ handle[t] = "none" /\ pc[t] # "idle"
      BY <2>2, <3>1 DEF At, TypeOK, Stages, Stage
    <3> QED BY <3>1, <3>2, CloseKeepsOwned
  <2> QED BY <2>1, <2>2
<1>2. CASE CloseRecord(t)
  <2>1. key[t] \in Keys /\ handle[t] = "none" /\ pc[t] # "idle"
    BY <1>2 DEF CloseRecord, At, Stages, Stage
  <2> QED BY <1>2, <2>1, CloseKeepsOwned DEF CloseRecord
<1>3. CASE Step(t) /\ ~PrefetchNotNeeded(t) /\ ~CloseRecord(t)
  <2> USE DEF TypeOK
  <2>1. CASE OpenForRead(t)
    <3>1. Quiet
      BY <2>1 DEF OpenForRead, At, Goto, Holds, Proceeds
    <3> QED BY <3>1, QuietStep
  <2>2. CASE OpenForWrite(t)
    <3>1. Quiet
      BY <2>2 DEF OpenForWrite, At, Goto, Holds, Proceeds
    <3> QED BY <3>1, QuietStep
  <2>3. CASE OpenFails(t)
    <3>1. Quiet
      BY <2>3 DEF OpenFails, At, Goto, Holds, Proceeds
    <3> QED BY <3>1, QuietStep
  <2>4. CASE NoFile(t)
    <3>1. Quiet
      BY <2>4 DEF NoFile, At, Goto, Holds, Proceeds
    <3> QED BY <3>1, QuietStep
  <2>5. CASE ReadChunk(t)
    <3>1. Quiet
      BY <2>5 DEF ReadChunk, At
    <3> QED BY <3>1, QuietStep
  <2>6. CASE ReadEnds(t)
    <3>1. Quiet
      BY <2>6 DEF ReadEnds, At, Goto
    <3> QED BY <3>1, QuietStep
  <2>7. CASE Connect(t)
    <3>1. Quiet
      BY <2>7 DEF Connect, At, Goto
    <3> QED BY <3>1, QuietStep
  <2>8. CASE ConnectFails(t)
    <3>1. Quiet
      BY <2>8 DEF ConnectFails, At, Goto, Holds, Dies
    <3> QED BY <3>1, QuietStep
  <2>9. CASE FirstChunk(t)
    <3>1. Quiet
      BY <2>9 DEF FirstChunk, At, Goto
    <3> QED BY <3>1, QuietStep
  <2>10. CASE FirstChunkCrash(t)
    <3>1. Quiet
      BY <2>10 DEF FirstChunkCrash, At, Dies
    <3> QED BY <3>1, QuietStep
  <2>11. CASE FirstChunkUnsent(t)
    <3>1. Quiet
      BY <2>11 DEF FirstChunkUnsent, At, Goto
    <3> QED BY <3>1, QuietStep
  <2>12. CASE NextChunk(t)
    <3>1. Quiet
      BY <2>12 DEF NextChunk, At, Goto
    <3> QED BY <3>1, QuietStep
  <2>13. CASE NextChunkUnsent(t)
    <3>1. Quiet
      BY <2>13 DEF NextChunkUnsent, At, Goto
    <3> QED BY <3>1, QuietStep
  <2>14. CASE ServerCloses(t)
    <3>1. Quiet
      BY <2>14 DEF ServerCloses, At, Goto
    <3> QED BY <3>1, QuietStep
  <2>15. CASE Spins(t)
    <3>1. Quiet
      BY <2>15 DEF Spins, At, vars
    <3> QED BY <3>1, QuietStep
  <2>16. CASE ReceiveCrash(t)
    <3>1. Quiet
      BY <2>16 DEF ReceiveCrash, At, Dies
    <3> QED BY <3>1, QuietStep
  <2>17. CASE Finish(t)
    <3>1. Quiet
      BY <2>17 DEF Finish, At, Goto, Dies
    <3> QED BY <3>1, QuietStep
  <2>18. CASE CloseFile(t)
    <3>1. Quiet
      BY <2>18 DEF CloseFile, At, Goto, Holds
    <3> QED BY <3>1, QuietStep
  <2> QED BY <1>3, <2>1, <2>2, <2>3, <2>4, <2>5, <2>6, <2>7, <2>8, <2>9, <2>10, <2>11, <2>12, <2>13, <2>14, <2>15, <2>16, <2>17, <2>18 DEF Step
<1> QED BY <1>1, <1>2, <1>3


\* cache_record_get_or_create: whoever is to write is alone, and a reader is
\* counted.
LEMMA RequestPageOwned ==
  ASSUME TypeOK, Stages, \A k \in Keys : Owned(k),
         NEW t \in Threads, NEW k \in Keys, RequestPage(t, k)
  PROVE  \A j \in Keys : Owned(j)'
<1>1. PICK s : Cache!GetOrCreate(k, s) /\ Call(t, k, s)
  BY DEF RequestPage
<1>2. /\ pc[t] = "idle" /\ pc' = [pc EXCEPT ![t] = "routed"]
      /\ key' = [key EXCEPT ![t] = k] /\ status' = [status EXCEPT ![t] = s]
      /\ handle' = [handle EXCEPT ![t] = "none"]
  BY <1>1 DEF Call, At, Goto, Holds
<1>3. table \in [Keys -> Cache!RecordType] /\ table[k] \in Cache!RecordType
  BY DEF TypeOK
<1>4. ASSUME NEW j \in Keys, table'[j] = table[j], j # k \/ s = Cache!unavailable
      PROVE  Owned(j)'
  <2>1. Readers(j)' \subseteq Readers(j) /\ Owners(j)' \subseteq Owners(j)
    BY <1>2, <1>4 DEF Readers, Using, Owners, TypeOK, Cache!should_write, Cache!should_read, Cache!unavailable
  <2> QED BY <1>4, <2>1, RecordKept
<1>5. ASSUME NEW j \in Keys, j # k
      PROVE  table'[j] = table[j]
  BY <1>1, <1>3, <1>5
  DEF Cache!GetOrCreate, Cache!Create, Cache!Refresh, Cache!Share, Cache!Refuse
<1>6. Cardinality(Readers(k)) \in Nat /\ Cardinality(Readers(k)') \in Nat
  <2>1. Readers(k) \subseteq Threads /\ Readers(k)' \subseteq Threads
    BY DEF Readers, Using
  <2> QED BY <2>1, ThreadSets
<1>7. CASE s = Cache!should_write
  <2>1. ~table[k].write_in_progress /\ table[k].readers = 0
    BY <1>1, <1>3, <1>7
    DEF Cache!GetOrCreate, Cache!Create, Cache!Refresh, Cache!Refreshable, Owned,
        Cache!should_write, Cache!should_read, Cache!unavailable
  <2>2. table'[k].present /\ table'[k].write_in_progress /\ table'[k].readers = 0
    BY <1>1, <1>3, <1>7, <2>1
    DEF Cache!GetOrCreate, Cache!Create, Cache!Refresh, Cache!should_write, Cache!should_read, Cache!unavailable
  <2>3. Owners(k) = {} /\ Cardinality(Readers(k)) <= 0
    BY <2>1 DEF Owned
  <2>4. Owners(k)' \subseteq {t}
    BY <1>2, <2>3 DEF Owners, TypeOK
  <2>5. Readers(k)' \subseteq Readers(k) /\ Readers(k) \subseteq Threads
    BY <1>2, <1>7 DEF Readers, Using, TypeOK, Cache!should_write, Cache!should_read, Cache!unavailable
  <2>6. Cardinality(Readers(k)') <= 0
    BY <1>6, <2>3, <2>5, FewerThreads
  <2>7. Owned(k)'
    BY <2>2, <2>4, <2>6 DEF Owned
  <2> QED BY <1>4, <1>5, <2>7
<1>8. CASE s = Cache!should_read
  <2>1. /\ table[k].present /\ ~table[k].write_in_progress
        /\ table' = [table EXCEPT ![k].readers = @ + 1]
    BY <1>1, <1>8 DEF Cache!GetOrCreate, Cache!Share, Cache!should_write, Cache!should_read, Cache!unavailable
  <2>2. /\ table'[k].present = table[k].present
        /\ table'[k].write_in_progress = table[k].write_in_progress
        /\ table'[k].readers = table[k].readers + 1
    BY <1>3, <2>1 DEF Cache!RecordType
  <2>3. Owners(k) = {} /\ Cardinality(Readers(k)) <= table[k].readers
    BY <2>1 DEF Owned
  <2>4. Owners(k)' = {}
    BY <1>2, <1>8, <2>3 DEF Owners, TypeOK, Cache!should_write, Cache!should_read, Cache!unavailable
  <2>5. Readers(k)' \subseteq Readers(k) \cup {t} /\ Readers(k) \subseteq Threads
    BY <1>2 DEF Readers, Using, TypeOK
  <2>6. Cardinality(Readers(k)') <= Cardinality(Readers(k)) + 1
    BY <2>5, OneMoreThread
  <2>7. table[k].readers \in Int
    BY <1>3 DEF Cache!RecordType
  <2>8. Cardinality(Readers(k)') <= table'[k].readers
    BY <1>6, <2>2, <2>3, <2>6, <2>7
  <2>9. Owned(k)'
    BY <2>1, <2>2, <2>4, <2>8 DEF Owned
  <2> QED BY <1>4, <1>5, <2>9
<1>9. CASE s = Cache!unavailable
  <2>1. table' = table
    BY <1>1, <1>9 DEF Cache!GetOrCreate, Cache!Refuse, Cache!should_write, Cache!should_read, Cache!unavailable
  <2> QED BY <1>4, <1>9, <2>1
<1> QED BY <1>1, <1>7, <1>8, <1>9 DEF Cache!GetOrCreate

\* A call for a page without a record touches no record.
LEMMA RequestUncacheableOwned ==
  ASSUME TypeOK, Stages, \A k \in Keys : Owned(k),
         NEW t \in Threads, RequestUncacheable(t)
  PROVE  \A k \in Keys : Owned(k)'
<1> TAKE k \in Keys
<1>1. /\ pc[t] = "idle" /\ pc' = [pc EXCEPT ![t] = "routed"]
      /\ key' = [key EXCEPT ![t] = NoKey]
      /\ status' = [status EXCEPT ![t] = Cache!unavailable]
      /\ handle' = [handle EXCEPT ![t] = "none"]
  BY DEF RequestUncacheable, Call, At, Goto, Holds
<1>2. k # NoKey
  BY RelayAssumption
<1>3. Readers(k)' \subseteq Readers(k) /\ Owners(k)' \subseteq Owners(k)
  BY <1>1, <1>2 DEF Readers, Using, Owners, TypeOK
<1> QED BY <1>3, RecordKept DEF RequestUncacheable

\* The clock touches expiration times only.
LEMMA SecondPassesOwned ==
  ASSUME TypeOK, Stages, \A k \in Keys : Owned(k), SecondPasses
  PROVE  \A k \in Keys : Owned(k)'
<1> TAKE k \in Keys
<1>1. table[k] \in Cache!RecordType
  BY DEF TypeOK
<1>2. table'[k] = [table[k] EXCEPT !.left = IF @ < 0 THEN @ ELSE @ - 1]
  BY DEF SecondPasses, Cache!Tick
<1>3. /\ table'[k].present = table[k].present
      /\ table'[k].write_in_progress = table[k].write_in_progress
      /\ table'[k].readers = table[k].readers
  BY <1>1, <1>2 DEF Cache!RecordType
<1>4. Readers(k)' = Readers(k) /\ Owners(k)' = Owners(k)
  BY DEF SecondPasses, Readers, Using, Owners
<1> QED BY <1>3, <1>4 DEF Owned

-----------------------------------------------------------------------------
(* The theorems *)

\* Nothing is called and no page is known at first.
LEMMA InitInv == Init => RelayInv
<1> SUFFICES ASSUME Init PROVE RelayInv
  OBVIOUS
<1>1. TypeOK
  <2>1. Cache!NoRecord \in Cache!RecordType
    BY RelayAssumption DEF Cache!NoRecord, Cache!RecordType
  <2>2. table \in [Keys -> Cache!RecordType]
    BY <2>1 DEF Init, Cache!InitTable
  <2>3. 0 \in 0..Chunks
    BY RelayAssumption
  <2> QED BY <2>2, <2>3 DEF Init, TypeOK, Cache!Statuses
<1>2. Stages
  BY DEF Init, Stages, Stage
<1>3. ASSUME NEW k \in Keys
      PROVE  Owned(k)
  <2>1. Readers(k) = {} /\ Owners(k) = {}
    BY DEF Init, Readers, Using, Owners
  <2>2. Cardinality(Readers(k)) = 0
    BY <2>1, FS_EmptySet
  <2>3. table[k] = Cache!NoRecord
    BY DEF Init, Cache!InitTable
  <2> QED BY <2>1, <2>2, <2>3 DEF Owned, Cache!NoRecord
<1> QED BY <1>1, <1>2, <1>3 DEF RelayInv

\* The invariant is inductive: one lemma pair per kind of step.
LEMMA NextInv == RelayInv /\ [Next]_vars => RelayInv'
<1> SUFFICES ASSUME RelayInv, [Next]_vars PROVE RelayInv'
  OBVIOUS
<1> USE DEF RelayInv
<1>1. ASSUME NEW t \in Threads, Step(t) PROVE RelayInv'
  BY <1>1, StepStages, StepOwned
<1>2. ASSUME NEW t \in Threads, RequestUncacheable(t) PROVE RelayInv'
  BY <1>2, RequestUncacheableStages, RequestUncacheableOwned
<1>3. ASSUME NEW t \in Threads, NEW k \in Keys, RequestPage(t, k) PROVE RelayInv'
  BY <1>3, RequestPageStages, RequestPageOwned
<1>4. CASE SecondPasses
  BY <1>4, SecondPassesStages, SecondPassesOwned
<1>5. CASE Dead \/ UNCHANGED vars
  BY <1>5
  DEF Dead, vars, TypeOK, Stages, Stage, Owned, Readers, Using, Owners
<1> QED BY <1>1, <1>2, <1>3, <1>4, <1>5 DEF Next

\* Every state of every behaviour satisfies it.
LEMMA InvariantHolds == Spec => []RelayInv
<1>1. Init => RelayInv
  BY InitInv
<1>2. RelayInv /\ [Next]_vars => RelayInv'
  BY NextInv
<1> QED BY <1>1, <1>2, PTL DEF Spec

\* Types, for any number of threads, pages and chunks and whatever fails.
THEOREM RelayTypeCorrect == Spec => []TypeOK
<1>1. RelayInv => TypeOK
  BY DEF RelayInv
<1> QED BY <1>1, InvariantHolds, PTL

\* Whoever has a file open for writing owns its record.
LEMMA WritersOwn ==
  ASSUME RelayInv, NEW k \in Keys
  PROVE  Writing(k) \subseteq Owners(k)
  BY DEF RelayInv, Stages, Stage, Writing, Owners

\* Nobody owns the record of a file that is open for reading.
LEMMA ReadersExclude ==
  ASSUME RelayInv, NEW k \in Keys, Reading(k) # {}
  PROVE  Owners(k) = {}
<1>1. PICK t \in Threads : handle[t] = "read" /\ key[t] = k
  BY DEF Reading
<1>2. status[t] = Cache!should_read /\ pc[t] # "idle"
  BY <1>1 DEF RelayInv, Stages, Stage
<1>3. table[k].readers >= 1
  BY <1>1, <1>2, ReaderIsCounted DEF RelayInv
<1> QED BY <1>3 DEF RelayInv, Owned

\* cache-record.h, "reader writer problem": one writer or readers for every
\* file, although requests that fail never close their records.
THEOREM OneWriterOrReaders == Spec => []ExclusiveWriter
<1>1. RelayInv => ExclusiveWriter
  <2> SUFFICES ASSUME RelayInv, NEW k \in Keys
               PROVE  /\ \A t, u \in Writing(k) : t = u
                      /\ Writing(k) = {} \/ Reading(k) = {}
    BY DEF ExclusiveWriter
  <2>1. \A t, u \in Writing(k) : t = u
    BY WritersOwn DEF RelayInv, Owned
  <2>2. Writing(k) = {} \/ Reading(k) = {}
    BY WritersOwn, ReadersExclude
  <2> QED BY <2>1, <2>2
<1> QED BY <1>1, InvariantHolds, PTL

\* Only the owner of a record changes the file of its page.
LEMMA OwnerWrites ==
  ASSUME RelayInv, NEW t \in Threads, Step(t), NEW k \in Keys, disk'[k] # disk[k]
  PROVE  t \in Owners(k)
<1>1. OpenForWrite(t) \/ FirstChunk(t) \/ FirstChunkUnsent(t) \/ NextChunk(t)
      \/ NextChunkUnsent(t) \/ CloseFile(t)
  BY DEF Step, PrefetchNotNeeded, OpenForRead, OpenFails, NoFile, ReadChunk, ReadEnds,
         Connect, ConnectFails, FirstChunkCrash, ServerCloses, Spins, ReceiveCrash, Finish,
         CloseRecord, Dies, vars
<1>2. key[t] = k /\ pc[t] # "idle" /\ status[t] = Cache!should_write
  <2> USE DEF RelayInv, TypeOK, Stages, Stage
  <2>1. CASE OpenForWrite(t)
    BY <2>1 DEF OpenForWrite, Proceeds, At
  <2>2. CASE Store(t) /\ pc[t] # "idle"
    BY <2>2 DEF Store
  <2>3. CASE CloseFile(t)
    BY <2>3 DEF CloseFile, At
  <2>4. (Store(t) /\ pc[t] # "idle") \/ OpenForWrite(t) \/ CloseFile(t)
    BY <1>1 DEF FirstChunk, FirstChunkUnsent, NextChunk, NextChunkUnsent, At
  <2> QED BY <2>1, <2>2, <2>3, <2>4
<1> QED BY <1>2 DEF Owners

\* So a file that changes has an owner.
LEMMA OwnersWrite ==
  ASSUME RelayInv, [Next]_vars, NEW k \in Keys, disk'[k] # disk[k]
  PROVE  Owners(k) # {}
<1>1. PICK t \in Threads : Step(t)
  BY DEF Next, RequestPage, RequestUncacheable, Call, SecondPasses, Dead, vars
<1> QED BY <1>1, OwnerWrites

\* A page that is being read is not rewritten under its reader.
THEOREM PagesAreStable == Spec => StableWhileRead
<1>1. RelayInv /\ [Next]_vars =>
        \A k \in Keys : Reading(k) # {} => disk'[k] = disk[k]
  BY OwnersWrite, ReadersExclude
<1> QED BY <1>1, InvariantHolds, PTL DEF Spec, StableWhileRead

=============================================================================
