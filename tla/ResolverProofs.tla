--------------------------- MODULE ResolverProofs ---------------------------
(***************************************************************************)
(* The safety properties of Resolver, for any number of workers, names,    *)
(* addresses and lines.                                                    *)
(***************************************************************************)
EXTENDS Resolver, TLAPS

\* A bounded sequence is a sequence, and as long as it says.
LEMMA BoundedSeqFacts ==
  ASSUME NEW S, NEW n \in Nat, NEW s \in BoundedSeq(S, n)
  PROVE  /\ s \in Seq(S) /\ Len(s) \in 0..n
         /\ DOMAIN s = 1..Len(s)
<1>1. PICK m \in 0..n : s \in [1..m -> S]
  BY DEF BoundedSeq, SeqOf
<1> QED
  BY <1>1

\* No addresses are within every bound.
LEMMA EmptyIsBounded ==
  ASSUME NEW S, NEW n \in Nat
  PROVE  <<>> \in BoundedSeq(S, n)
<1>1. 0 \in 0..n /\ <<>> \in [1..0 -> S]
  OBVIOUS
<1>2. \E m \in 0..n : <<>> \in [1..m -> S]
  BY <1>1
<1> QED
  BY <1>2 DEF BoundedSeq, SeqOf

\* The table holds the lines read so far, and all of them from the start of
\* the first worker on.
TableInv ==
  /\ table = {file[i] : i \in 1..loaded}
  /\ mainPc = "load" => \A w \in Workers : pc[w] = "unborn"
  /\ mainPc # "load" => loaded = Len(file)
  /\ mainPc \in {"load", "start"} \/ \A w \in Workers : pc[w] # "unborn"

\* What is known of a request at each point of resolve_host.
Before == {"unborn", "idle", "say", "saying", "checkName", "lock", "lookup", "scan", "exited"}

RequestInv(w) ==
  /\ status[w] = "error" => pc[w] \in Before
  /\ status[w] = "blocked" => pc[w] \in {"say", "saying", "reply"}
  /\ status[w] = "not_found" => pc[w] = "reply"
  /\ status[w] = "ok" => pc[w] = "reply" /\ host[w].name \notin table
                         /\ at[w] \in 1..Len(list[w]) /\ list[w][at[w]] \notin table
  /\ pc[w] \in {"lock", "lookup", "scan"} => host[w].name \notin table
  /\ pc[w] = "scan" => at[w] \in 1..Len(list[w])
  /\ pc[w] \in {"checkName", "lock", "lookup"} => at[w] = 1
  /\ status[w] = "error" /\ pc[w] \in {"say", "saying"} => at[w] = 1
  /\ status[w] = "blocked" =>
       host[w].name \in table \/ (list[w] # <<>> /\ ToSet(list[w]) \subseteq table)
  /\ \A i \in 1 .. at[w] - 1 : list[w][i] \in table
  /\ pc[w] \in {"unborn", "idle"} => \A i \in live[w] : i < at[w]

RequestsInv == \A w \in Workers : RequestInv(w)

LockInv == \A w \in Workers : lookupLock = w <=> pc[w] = "lookup"

CloseInv ==
  /\ "closed" \in {stdOut, lookupLock} => mainPc = "done"
  /\ mainPc = "done" => \A w \in Workers : pc[w] = "exited"

IInv == TypeOK /\ TableInv /\ RequestsInv /\ LockInv /\ CloseInv

-----------------------------------------------------------------------------

\* Before anything is loaded.
LEMMA InitHolds == Init => IInv
<1> SUFFICES ASSUME Init PROVE IInv
  OBVIOUS
<1> USE ResolverAssumption DEF Init, block_table_create, safe_init
<1>1. file \in Seq(Lines) /\ Len(file) \in 0..MaxLines
  BY BoundedSeqFacts
<1>2. <<>> \in BoundedSeq(Addresses, MaxAddresses)
  BY EmptyIsBounded
<1>3. TypeOK
  BY <1>1, <1>2 DEF TypeOK, WorkerPC, NoHost
<1>4. TableInv
  BY DEF TableInv
<1>5. RequestsInv
  BY DEF RequestsInv, RequestInv, Before
<1>6. LockInv /\ CloseInv
  BY DEF LockInv, CloseInv
<1> QED
  BY <1>3, <1>4, <1>5, <1>6 DEF IInv

\* From the start of the first worker on the table is what the file lists.
LEMMA TableIsListed ==
  ASSUME IInv, mainPc # "load"
  PROVE  table = Listed
<1>1. DOMAIN file = 1..Len(file)
  BY BoundedSeqFacts, ResolverAssumption DEF IInv, TypeOK
<1> QED
  BY <1>1 DEF IInv, TableInv, Listed, ToSet

-----------------------------------------------------------------------------

\* Every step keeps the types.
LEMMA TypeStep ==
  ASSUME IInv, [Next]_vars
  PROVE  TypeOK'
<1> USE ResolverAssumption
<1>1. ASSUME LoadLine
      PROVE  TypeOK'
  <2>1. file \in Seq(Lines) /\ Len(file) \in Nat
    BY BoundedSeqFacts DEF IInv, TypeOK
  <2>2. file[loaded + 1] \in Lines /\ loaded + 1 \in 0..Len(file)
    BY <1>1, <2>1 DEF LoadLine, block_table_add, IInv, TypeOK
  <2> QED
    BY <1>1, <2>2 DEF LoadLine, block_table_add, request, TypeOK, IInv
<1>2. ASSUME Loaded
      PROVE  TypeOK'
  BY <1>2 DEF Loaded, request, TypeOK, WorkerPC, IInv
<1>3. ASSUME NEW w \in Workers, StartWorker(w)
      PROVE  TypeOK'
  BY <1>3 DEF StartWorker, Goes, shared, request, TypeOK, WorkerPC, IInv
<1>4. ASSUME Started
      PROVE  TypeOK'
  BY <1>4 DEF Started, request, TypeOK, WorkerPC, IInv
<1>5. ASSUME Shutdown
      PROVE  TypeOK'
  BY <1>5 DEF Shutdown, request, TypeOK, WorkerPC, IInv
<1>6. ASSUME JoinAndFree
      PROVE  TypeOK'
  BY <1>6 DEF JoinAndFree, free_shared_resource, safe_close, request, TypeOK, WorkerPC, IInv
<1>7. ASSUME NEW w \in Workers, NEW h \in Hosts, Request(w, h)
      PROVE  TypeOK'
  <2>1. list' \in [Workers -> BoundedSeq(Addresses, MaxAddresses)]
    BY <1>7, EmptyIsBounded DEF Request, TypeOK, IInv
  <2>2. at' \in [Workers -> Nat] /\ \A v \in Workers : at'[v] \in 1..Len(list'[v]) \cup {1}
    BY <1>7 DEF Request, TypeOK, IInv
  <2>3. host' \in [Workers -> [name : Names \cup {NoName}, port : Ports \cup {NoPort}]]
    BY <1>7 DEF Request, Hosts, TypeOK, IInv
  <2>4. live' \in [Workers -> SUBSET (1..MaxAddresses)]
    BY <1>7 DEF Request, TypeOK, IInv
  <2> QED
    BY <1>7, <2>1, <2>2, <2>3, <2>4 DEF Request, Goes, shared, TypeOK, WorkerPC, IInv
<1>8. ASSUME NEW w \in Workers, Exit(w)
      PROVE  TypeOK'
  BY <1>8 DEF Exit, Goes, shared, request, TypeOK, WorkerPC, IInv
<1>9. ASSUME NEW w \in Workers, SafeWrite(w)
      PROVE  TypeOK'
  BY <1>9 DEF SafeWrite, Goes, shared, request, TypeOK, WorkerPC, IInv
<1>10. ASSUME NEW w \in Workers, Written(w)
      PROVE  TypeOK'
  BY <1>10 DEF Written, Goes, shared, request, TypeOK, WorkerPC, IInv
<1>11. ASSUME NEW w \in Workers, CheckName(w)
      PROVE  TypeOK'
  BY <1>11
    DEF CheckName, block_table_check, Resolved, shared, request, TypeOK, WorkerPC, IInv
<1>12. ASSUME NEW w \in Workers, Lock(w)
      PROVE  TypeOK'
  BY <1>12 DEF Lock, Goes, shared, request, TypeOK, WorkerPC, IInv
<1>13. ASSUME NEW w \in Workers, NEW answer \in Answers, Lookup(w, answer)
      PROVE  TypeOK'
  <2>1. answer \in Seq(Addresses) /\ Len(answer) \in 0..MaxAddresses /\ DOMAIN answer = 1..Len(answer)
    BY BoundedSeqFacts DEF Answers
  <2>2. list' \in [Workers -> BoundedSeq(Addresses, MaxAddresses)]
    BY <1>13 DEF Lookup, Answers, TypeOK, IInv
  <2>3. live' \in [Workers -> SUBSET (1..MaxAddresses)]
    BY <1>13, <2>1 DEF Lookup, TypeOK, IInv
  <2>4. \A v \in Workers : at[v] \in 1..Len(list'[v]) \cup {1}
    <3>1. at[w] = 1
      BY <1>13 DEF Lookup, IInv, RequestsInv, RequestInv
    <3>2. \A v \in Workers \ {w} : list'[v] = list[v]
      BY <1>13 DEF Lookup, TypeOK, IInv
    <3> QED
      BY <3>1, <3>2 DEF TypeOK, IInv
  <2>5. /\ pc' \in [Workers -> WorkerPC]
        /\ status' \in [Workers -> {"ok", "error", "not_found", "blocked"}]
    BY <1>13 DEF Lookup, Resolved, TypeOK, WorkerPC, IInv
  <2>6. lookupLock' = NoThread /\ UNCHANGED <<file, loaded, table, mainPc, host, at, stdOut>>
    BY <1>13 DEF Lookup, shared
  <2> QED
    BY <2>2, <2>3, <2>4, <2>5, <2>6 DEF TypeOK, IInv
<1>14. ASSUME NEW w \in Workers, Accepted(w)
      PROVE  TypeOK'
  BY <1>14 DEF Accepted, block_table_check, Resolved, shared, TypeOK, WorkerPC, IInv
<1>15. ASSUME NEW w \in Workers, Skipped(w)
      PROVE  TypeOK'
  BY <1>15 DEF Skipped, block_table_check, shared, TypeOK, WorkerPC, IInv
<1>16. ASSUME NEW w \in Workers, AllBlocked(w)
      PROVE  TypeOK'
  BY <1>16 DEF AllBlocked, block_table_check, Resolved, shared, TypeOK, WorkerPC, IInv
<1>17. ASSUME NEW w \in Workers, Reply(w)
      PROVE  TypeOK'
  BY <1>17 DEF Reply, Goes, FreeAddresses, shared, NoHost, TypeOK, WorkerPC, IInv
<1>18. CASE UNCHANGED vars
  BY <1>18 DEF vars, TypeOK, WorkerPC, IInv
<1> QED
  BY <1>1, <1>2, <1>3, <1>4, <1>5, <1>6, <1>7, <1>8, <1>9, <1>10, <1>11, <1>12, <1>13, <1>14, <1>15, <1>16, <1>17, <1>18
    DEF Next, MainStep, WorkerStep, Exited

\* The workers start when the whole list is in the table.
LEMMA TableStep ==
  ASSUME IInv, [Next]_vars
  PROVE  TableInv'
<1> USE ResolverAssumption
<1>1. ASSUME LoadLine
      PROVE  TableInv'
  BY <1>1 DEF LoadLine, block_table_add, request, TableInv, TypeOK, IInv
<1>2. ASSUME Loaded
      PROVE  TableInv'
  BY <1>2 DEF Loaded, request, TableInv, TypeOK, IInv
<1>3. ASSUME NEW w \in Workers, StartWorker(w)
      PROVE  TableInv'
  BY <1>3 DEF StartWorker, Goes, shared, request, TableInv, TypeOK, IInv
<1>4. ASSUME Started
      PROVE  TableInv'
  BY <1>4 DEF Started, request, TableInv, TypeOK, IInv
<1>5. ASSUME Shutdown
      PROVE  TableInv'
  BY <1>5 DEF Shutdown, request, TableInv, TypeOK, IInv
<1>6. ASSUME JoinAndFree
      PROVE  TableInv'
  BY <1>6 DEF JoinAndFree, free_shared_resource, safe_close, request, TableInv, TypeOK, IInv
<1>7. ASSUME NEW w \in Workers, NEW h \in Hosts, Request(w, h)
      PROVE  TableInv'
  BY <1>7 DEF Request, Goes, shared, request, TableInv, TypeOK, IInv
<1>8. ASSUME NEW w \in Workers, Exit(w)
      PROVE  TableInv'
  BY <1>8 DEF Exit, Goes, shared, request, TableInv, TypeOK, IInv
<1>9. ASSUME NEW w \in Workers, SafeWrite(w)
      PROVE  TableInv'
  BY <1>9 DEF SafeWrite, Goes, shared, request, TableInv, TypeOK, IInv
<1>10. ASSUME NEW w \in Workers, Written(w)
      PROVE  TableInv'
  BY <1>10 DEF Written, Goes, shared, request, TableInv, TypeOK, IInv
<1>11. ASSUME NEW w \in Workers, CheckName(w)
      PROVE  TableInv'
  BY <1>11
    DEF CheckName, block_table_check, Resolved, shared, request, TableInv, TypeOK, IInv
<1>12. ASSUME NEW w \in Workers, Lock(w)
      PROVE  TableInv'
  BY <1>12 DEF Lock, Goes, shared, request, TableInv, TypeOK, IInv
<1>13. ASSUME NEW w \in Workers, NEW answer \in Answers, Lookup(w, answer)
      PROVE  TableInv'
  BY <1>13 DEF Lookup, Resolved, shared, TableInv, TypeOK, IInv
<1>14. ASSUME NEW w \in Workers, Accepted(w)
      PROVE  TableInv'
  BY <1>14 DEF Accepted, block_table_check, Resolved, shared, TableInv, TypeOK, IInv
<1>15. ASSUME NEW w \in Workers, Skipped(w)
      PROVE  TableInv'
  BY <1>15 DEF Skipped, block_table_check, shared, TableInv, TypeOK, IInv
<1>16. ASSUME NEW w \in Workers, AllBlocked(w)
      PROVE  TableInv'
  BY <1>16 DEF AllBlocked, block_table_check, Resolved, shared, TableInv, TypeOK, IInv
<1>17. ASSUME NEW w \in Workers, Reply(w)
      PROVE  TableInv'
  BY <1>17 DEF Reply, Goes, FreeAddresses, shared, NoHost, TableInv, TypeOK, IInv
<1>18. CASE UNCHANGED vars
  BY <1>18 DEF vars, TableInv, TypeOK, IInv
<1> QED
  BY <1>1, <1>2, <1>3, <1>4, <1>5, <1>6, <1>7, <1>8, <1>9, <1>10, <1>11, <1>12, <1>13, <1>14, <1>15, <1>16, <1>17, <1>18
    DEF Next, MainStep, WorkerStep, Exited

\* addr_lookup_lock is held by the thread that looks up.
LEMMA LockStep ==
  ASSUME IInv, [Next]_vars
  PROVE  LockInv'
<1> USE ResolverAssumption
<1>1. ASSUME LoadLine
      PROVE  LockInv'
  BY <1>1 DEF LoadLine, block_table_add, request, LockInv, TypeOK, IInv
<1>2. ASSUME Loaded
      PROVE  LockInv'
  BY <1>2 DEF Loaded, request, LockInv, TypeOK, IInv
<1>3. ASSUME NEW w \in Workers, StartWorker(w)
      PROVE  LockInv'
  BY <1>3 DEF StartWorker, Goes, shared, request, LockInv, TypeOK, IInv
<1>4. ASSUME Started
      PROVE  LockInv'
  BY <1>4 DEF Started, request, LockInv, TypeOK, IInv
<1>5. ASSUME Shutdown
      PROVE  LockInv'
  BY <1>5 DEF Shutdown, request, LockInv, TypeOK, IInv
<1>6. ASSUME JoinAndFree
      PROVE  LockInv'
  BY <1>6 DEF JoinAndFree, free_shared_resource, safe_close, request, LockInv, TypeOK, IInv
<1>7. ASSUME NEW w \in Workers, NEW h \in Hosts, Request(w, h)
      PROVE  LockInv'
  BY <1>7 DEF Request, Goes, shared, request, LockInv, TypeOK, IInv
<1>8. ASSUME NEW w \in Workers, Exit(w)
      PROVE  LockInv'
  BY <1>8 DEF Exit, Goes, shared, request, LockInv, TypeOK, IInv
<1>9. ASSUME NEW w \in Workers, SafeWrite(w)
      PROVE  LockInv'
  BY <1>9 DEF SafeWrite, Goes, shared, request, LockInv, TypeOK, IInv
<1>10. ASSUME NEW w \in Workers, Written(w)
      PROVE  LockInv'
  BY <1>10 DEF Written, Goes, shared, request, LockInv, TypeOK, IInv
<1>11. ASSUME NEW w \in Workers, CheckName(w)
      PROVE  LockInv'
  BY <1>11
    DEF CheckName, block_table_check, Resolved, shared, request, LockInv, TypeOK, IInv
<1>12. ASSUME NEW w \in Workers, Lock(w)
      PROVE  LockInv'
  BY <1>12 DEF Lock, Goes, shared, request, LockInv, TypeOK, IInv
<1>13. ASSUME NEW w \in Workers, NEW answer \in Answers, Lookup(w, answer)
      PROVE  LockInv'
  BY <1>13 DEF Lookup, Resolved, shared, LockInv, TypeOK, IInv
<1>14. ASSUME NEW w \in Workers, Accepted(w)
      PROVE  LockInv'
  BY <1>14 DEF Accepted, block_table_check, Resolved, shared, LockInv, TypeOK, IInv
<1>15. ASSUME NEW w \in Workers, Skipped(w)
      PROVE  LockInv'
  BY <1>15 DEF Skipped, block_table_check, shared, LockInv, TypeOK, IInv
<1>16. ASSUME NEW w \in Workers, AllBlocked(w)
      PROVE  LockInv'
  BY <1>16 DEF AllBlocked, block_table_check, Resolved, shared, LockInv, TypeOK, IInv
<1>17. ASSUME NEW w \in Workers, Reply(w)
      PROVE  LockInv'
  BY <1>17 DEF Reply, Goes, FreeAddresses, shared, NoHost, LockInv, TypeOK, IInv
<1>18. CASE UNCHANGED vars
  BY <1>18 DEF vars, LockInv, TypeOK, IInv
<1> QED
  BY <1>1, <1>2, <1>3, <1>4, <1>5, <1>6, <1>7, <1>8, <1>9, <1>10, <1>11, <1>12, <1>13, <1>14, <1>15, <1>16, <1>17, <1>18
    DEF Next, MainStep, WorkerStep, Exited

\* Nothing is freed before all workers have returned.
LEMMA CloseStep ==
  ASSUME IInv, [Next]_vars
  PROVE  CloseInv'
<1> USE ResolverAssumption
<1>1. ASSUME LoadLine
      PROVE  CloseInv'
  BY <1>1 DEF LoadLine, block_table_add, request, CloseInv, LockInv, TypeOK, IInv
<1>2. ASSUME Loaded
      PROVE  CloseInv'
  BY <1>2 DEF Loaded, request, CloseInv, LockInv, TypeOK, IInv
<1>3. ASSUME NEW w \in Workers, StartWorker(w)
      PROVE  CloseInv'
  BY <1>3 DEF StartWorker, Goes, shared, request, CloseInv, LockInv, TypeOK, IInv
<1>4. ASSUME Started
      PROVE  CloseInv'
  BY <1>4 DEF Started, request, CloseInv, LockInv, TypeOK, IInv
<1>5. ASSUME Shutdown
      PROVE  CloseInv'
  BY <1>5 DEF Shutdown, request, CloseInv, LockInv, TypeOK, IInv
<1>6. ASSUME JoinAndFree
      PROVE  CloseInv'
  BY <1>6 DEF JoinAndFree, free_shared_resource, safe_close, request, CloseInv, LockInv, TypeOK, IInv
<1>7. ASSUME NEW w \in Workers, NEW h \in Hosts, Request(w, h)
      PROVE  CloseInv'
  BY <1>7 DEF Request, Goes, shared, request, CloseInv, LockInv, TypeOK, IInv
<1>8. ASSUME NEW w \in Workers, Exit(w)
      PROVE  CloseInv'
  BY <1>8 DEF Exit, Goes, shared, request, CloseInv, LockInv, TypeOK, IInv
<1>9. ASSUME NEW w \in Workers, SafeWrite(w)
      PROVE  CloseInv'
  BY <1>9 DEF SafeWrite, Goes, shared, request, CloseInv, LockInv, TypeOK, IInv
<1>10. ASSUME NEW w \in Workers, Written(w)
      PROVE  CloseInv'
  BY <1>10 DEF Written, Goes, shared, request, CloseInv, LockInv, TypeOK, IInv
<1>11. ASSUME NEW w \in Workers, CheckName(w)
      PROVE  CloseInv'
  BY <1>11
    DEF CheckName, block_table_check, Resolved, shared, request, CloseInv, LockInv, TypeOK, IInv
<1>12. ASSUME NEW w \in Workers, Lock(w)
      PROVE  CloseInv'
  BY <1>12 DEF Lock, Goes, shared, request, CloseInv, LockInv, TypeOK, IInv
<1>13. ASSUME NEW w \in Workers, NEW answer \in Answers, Lookup(w, answer)
      PROVE  CloseInv'
  BY <1>13 DEF Lookup, Resolved, shared, CloseInv, LockInv, TypeOK, IInv
<1>14. ASSUME NEW w \in Workers, Accepted(w)
      PROVE  CloseInv'
  BY <1>14
    DEF Accepted, block_table_check, Resolved, shared, CloseInv, LockInv, TypeOK, IInv
<1>15. ASSUME NEW w \in Workers, Skipped(w)
      PROVE  CloseInv'
  BY <1>15 DEF Skipped, block_table_check, shared, CloseInv, LockInv, TypeOK, IInv
<1>16. ASSUME NEW w \in Workers, AllBlocked(w)
      PROVE  CloseInv'
  BY <1>16
    DEF AllBlocked, block_table_check, Resolved, shared, CloseInv, LockInv, TypeOK, IInv
<1>17. ASSUME NEW w \in Workers, Reply(w)
      PROVE  CloseInv'
  BY <1>17 DEF Reply, Goes, FreeAddresses, shared, NoHost, CloseInv, LockInv, TypeOK, IInv
<1>18. CASE UNCHANGED vars
  BY <1>18 DEF vars, CloseInv, LockInv, TypeOK, IInv
<1> QED
  BY <1>1, <1>2, <1>3, <1>4, <1>5, <1>6, <1>7, <1>8, <1>9, <1>10, <1>11, <1>12, <1>13, <1>14, <1>15, <1>16, <1>17, <1>18
    DEF Next, MainStep, WorkerStep, Exited

\* What is known of a request stays true while another worker moves.
LEMMA OthersKeep ==
  ASSUME IInv, NEW v \in Workers, table' = table,
         pc'[v] = pc[v], host'[v] = host[v], status'[v] = status[v],
         list'[v] = list[v], at'[v] = at[v], live'[v] = live[v]
  PROVE  RequestInv(v)'
  BY DEF IInv, RequestsInv, RequestInv, Before

\* Every step of resolve_host keeps what is known of its request.
LEMMA RequestStep ==
  ASSUME IInv, [Next]_vars
  PROVE  RequestsInv'
<1> USE ResolverAssumption
<1>1. ASSUME LoadLine
      PROVE  RequestsInv'
  <2> SUFFICES ASSUME NEW w \in Workers PROVE RequestInv(w)'
    BY DEF RequestsInv
  <2>1. pc[w] = "unborn" /\ RequestInv(w)
    BY <1>1 DEF LoadLine, block_table_add, IInv, TableInv, RequestsInv
  <2>2. status[w] = "error"
    BY <2>1 DEF RequestInv, IInv, TypeOK
  <2>3. table \subseteq table'
    BY <1>1 DEF LoadLine, block_table_add
  <2> QED
    BY <1>1, <2>1, <2>2, <2>3 DEF LoadLine, block_table_add, request, RequestInv, Before
<1>2. ASSUME Loaded
      PROVE  RequestsInv'
  BY <1>2 DEF Loaded, request, RequestInv, RequestsInv, Before, TypeOK, IInv
<1>3. ASSUME NEW w \in Workers, StartWorker(w)
      PROVE  RequestsInv'
  <2>1. ASSUME NEW v \in Workers, v # w
        PROVE  RequestInv(v)'
    <3>1. /\ table' = table /\ pc'[v] = pc[v] /\ host'[v] = host[v] /\ status'[v] = status[v]
          /\ list'[v] = list[v] /\ at'[v] = at[v] /\ live'[v] = live[v]
      BY <1>3, <2>1 DEF StartWorker, Goes, shared, request, IInv, TypeOK
    <3> QED
      BY <3>1, OthersKeep
  <2>2. RequestInv(w)'
    BY <1>3
      DEF StartWorker, Goes, shared, request, RequestInv, RequestsInv, Before, TypeOK, IInv
  <2> QED
    BY <2>1, <2>2 DEF RequestsInv
<1>4. ASSUME Started
      PROVE  RequestsInv'
  BY <1>4 DEF Started, request, RequestInv, RequestsInv, Before, TypeOK, IInv
<1>5. ASSUME Shutdown
      PROVE  RequestsInv'
  BY <1>5 DEF Shutdown, request, RequestInv, RequestsInv, Before, TypeOK, IInv
<1>6. ASSUME JoinAndFree
      PROVE  RequestsInv'
  BY <1>6
    DEF JoinAndFree, free_shared_resource, safe_close, request, RequestInv, RequestsInv, Before, TypeOK, IInv
<1>7. ASSUME NEW w \in Workers, NEW h \in Hosts, Request(w, h)
      PROVE  RequestsInv'
  <2>1. ASSUME NEW v \in Workers, v # w
        PROVE  RequestInv(v)'
    <3>1. /\ table' = table /\ pc'[v] = pc[v] /\ host'[v] = host[v] /\ status'[v] = status[v]
          /\ list'[v] = list[v] /\ at'[v] = at[v] /\ live'[v] = live[v]
      BY <1>7, <2>1 DEF Request, Goes, shared, request, IInv, TypeOK
    <3> QED
      BY <3>1, OthersKeep
  <2>2. RequestInv(w)'
    <3>1. list'[w] = <<>> /\ at'[w] = 1 /\ live'[w] = {} /\ pc'[w] = "say"
      BY <1>7 DEF Request, Goes, IInv, TypeOK
    <3>2. RequestInv(w) /\ pc[w] = "idle" /\ status' = status
      BY <1>7 DEF Request, Goes, IInv, RequestsInv
    <3>3. status'[w] = "error"
      BY <3>2 DEF RequestInv, IInv, TypeOK
    <3> QED
      BY <3>1, <3>3 DEF RequestInv, Before
  <2> QED
    BY <2>1, <2>2 DEF RequestsInv
<1>8. ASSUME NEW w \in Workers, Exit(w)
      PROVE  RequestsInv'
  <2>1. ASSUME NEW v \in Workers, v # w
        PROVE  RequestInv(v)'
    <3>1. /\ table' = table /\ pc'[v] = pc[v] /\ host'[v] = host[v] /\ status'[v] = status[v]
          /\ list'[v] = list[v] /\ at'[v] = at[v] /\ live'[v] = live[v]
      BY <1>8, <2>1 DEF Exit, Goes, shared, request, IInv, TypeOK
    <3> QED
      BY <3>1, OthersKeep
  <2>2. RequestInv(w)'
    BY <1>8 DEF Exit, Goes, shared, request, RequestInv, RequestsInv, Before, TypeOK, IInv
  <2> QED
    BY <2>1, <2>2 DEF RequestsInv
<1>9. ASSUME NEW w \in Workers, SafeWrite(w)
      PROVE  RequestsInv'
  <2>1. ASSUME NEW v \in Workers, v # w
        PROVE  RequestInv(v)'
    <3>1. /\ table' = table /\ pc'[v] = pc[v] /\ host'[v] = host[v] /\ status'[v] = status[v]
          /\ list'[v] = list[v] /\ at'[v] = at[v] /\ live'[v] = live[v]
      BY <1>9, <2>1 DEF SafeWrite, Goes, shared, request, IInv, TypeOK
    <3> QED
      BY <3>1, OthersKeep
  <2>2. RequestInv(w)'
    BY <1>9
      DEF SafeWrite, Goes, shared, request, RequestInv, RequestsInv, Before, TypeOK, IInv
  <2> QED
    BY <2>1, <2>2 DEF RequestsInv
<1>10. ASSUME NEW w \in Workers, Written(w)
      PROVE  RequestsInv'
  <2>1. ASSUME NEW v \in Workers, v # w
        PROVE  RequestInv(v)'
    <3>1. /\ table' = table /\ pc'[v] = pc[v] /\ host'[v] = host[v] /\ status'[v] = status[v]
          /\ list'[v] = list[v] /\ at'[v] = at[v] /\ live'[v] = live[v]
      BY <1>10, <2>1 DEF Written, Goes, shared, request, IInv, TypeOK
    <3> QED
      BY <3>1, OthersKeep
  <2>2. RequestInv(w)'
    BY <1>10
      DEF Written, Goes, shared, request, RequestInv, RequestsInv, Before, TypeOK, IInv
  <2> QED
    BY <2>1, <2>2 DEF RequestsInv
<1>11. ASSUME NEW w \in Workers, CheckName(w)
      PROVE  RequestsInv'
  <2>1. ASSUME NEW v \in Workers, v # w
        PROVE  RequestInv(v)'
    <3>1. /\ table' = table /\ pc'[v] = pc[v] /\ host'[v] = host[v] /\ status'[v] = status[v]
          /\ list'[v] = list[v] /\ at'[v] = at[v] /\ live'[v] = live[v]
      BY <1>11, <2>1
        DEF CheckName, block_table_check, Resolved, shared, request, IInv, TypeOK
    <3> QED
      BY <3>1, OthersKeep
  <2>2. RequestInv(w)'
    BY <1>11
      DEF CheckName, block_table_check, Resolved, shared, request, RequestInv, RequestsInv, Before, TypeOK, IInv
  <2> QED
    BY <2>1, <2>2 DEF RequestsInv
<1>12. ASSUME NEW w \in Workers, Lock(w)
      PROVE  RequestsInv'
  <2>1. ASSUME NEW v \in Workers, v # w
        PROVE  RequestInv(v)'
    <3>1. /\ table' = table /\ pc'[v] = pc[v] /\ host'[v] = host[v] /\ status'[v] = status[v]
          /\ list'[v] = list[v] /\ at'[v] = at[v] /\ live'[v] = live[v]
      BY <1>12, <2>1 DEF Lock, Goes, shared, request, IInv, TypeOK
    <3> QED
      BY <3>1, OthersKeep
  <2>2. RequestInv(w)'
    BY <1>12 DEF Lock, Goes, shared, request, RequestInv, RequestsInv, Before, TypeOK, IInv
  <2> QED
    BY <2>1, <2>2 DEF RequestsInv
<1>13. ASSUME NEW w \in Workers, NEW answer \in Answers, Lookup(w, answer)
      PROVE  RequestsInv'
  <2>1. ASSUME NEW v \in Workers, v # w
        PROVE  RequestInv(v)'
    <3>1. /\ table' = table /\ pc'[v] = pc[v] /\ host'[v] = host[v] /\ status'[v] = status[v]
          /\ list'[v] = list[v] /\ at'[v] = at[v] /\ live'[v] = live[v]
      BY <1>13, <2>1 DEF Lookup, Resolved, shared, IInv, TypeOK
    <3> QED
      BY <3>1, OthersKeep
  <2>2. RequestInv(w)'
    <3>1. answer \in Seq(Addresses) /\ (answer # <<>> => 1 \in 1..Len(answer))
      BY BoundedSeqFacts DEF Answers
    <3>2. at'[w] = 1 /\ list'[w] = answer
      BY <1>13 DEF Lookup, IInv, TypeOK, RequestsInv, RequestInv
    <3> QED
      BY <1>13, <3>1, <3>2
        DEF Lookup, Resolved, shared, RequestInv, RequestsInv, Before, TypeOK, IInv
  <2> QED
    BY <2>1, <2>2 DEF RequestsInv
<1>14. ASSUME NEW w \in Workers, Accepted(w)
      PROVE  RequestsInv'
  <2>1. ASSUME NEW v \in Workers, v # w
        PROVE  RequestInv(v)'
    <3>1. /\ table' = table /\ pc'[v] = pc[v] /\ host'[v] = host[v] /\ status'[v] = status[v]
          /\ list'[v] = list[v] /\ at'[v] = at[v] /\ live'[v] = live[v]
      BY <1>14, <2>1 DEF Accepted, block_table_check, Resolved, shared, IInv, TypeOK
    <3> QED
      BY <3>1, OthersKeep
  <2>2. RequestInv(w)'
    BY <1>14
      DEF Accepted, block_table_check, Resolved, shared, RequestInv, RequestsInv, Before, TypeOK, IInv
  <2> QED
    BY <2>1, <2>2 DEF RequestsInv
<1>15. ASSUME NEW w \in Workers, Skipped(w)
      PROVE  RequestsInv'
  <2>1. ASSUME NEW v \in Workers, v # w
        PROVE  RequestInv(v)'
    <3>1. /\ table' = table /\ pc'[v] = pc[v] /\ host'[v] = host[v] /\ status'[v] = status[v]
          /\ list'[v] = list[v] /\ at'[v] = at[v] /\ live'[v] = live[v]
      BY <1>15, <2>1 DEF Skipped, block_table_check, shared, IInv, TypeOK
    <3> QED
      BY <3>1, OthersKeep
  <2>2. RequestInv(w)'
    <3>1. list[w] \in Seq(Addresses) /\ at[w] \in 1..Len(list[w])
      BY <1>15, BoundedSeqFacts
        DEF Skipped, block_table_check, IInv, TypeOK, RequestsInv, RequestInv
    <3>2. at'[w] = at[w] + 1 /\ list'[w] = list[w] /\ at'[w] \in 1..Len(list[w])
      BY <1>15, <3>1 DEF Skipped, block_table_check, IInv, TypeOK
    <3>3. \A i \in 1 .. at'[w] - 1 : list[w][i] \in table
      <4>1. \A i \in 1 .. at'[w] - 1 : i = at[w] \/ i \in 1 .. at[w] - 1
        BY <3>1, <3>2
      <4> QED
        BY <1>15, <4>1 DEF Skipped, block_table_check, IInv, RequestsInv, RequestInv
    <3> QED
      BY <1>15, <3>2, <3>3
        DEF Skipped, block_table_check, shared, RequestInv, RequestsInv, Before, TypeOK, IInv
  <2> QED
    BY <2>1, <2>2 DEF RequestsInv
<1>16. ASSUME NEW w \in Workers, AllBlocked(w)
      PROVE  RequestsInv'
  <2>1. ASSUME NEW v \in Workers, v # w
        PROVE  RequestInv(v)'
    <3>1. /\ table' = table /\ pc'[v] = pc[v] /\ host'[v] = host[v] /\ status'[v] = status[v]
          /\ list'[v] = list[v] /\ at'[v] = at[v] /\ live'[v] = live[v]
      BY <1>16, <2>1 DEF AllBlocked, block_table_check, Resolved, shared, IInv, TypeOK
    <3> QED
      BY <3>1, OthersKeep
  <2>2. RequestInv(w)'
    <3>1. list[w] \in Seq(Addresses) /\ DOMAIN list[w] = 1..Len(list[w]) /\ at[w] = Len(list[w])
          /\ at[w] \in 1..Len(list[w])
      BY <1>16, BoundedSeqFacts
        DEF AllBlocked, block_table_check, IInv, TypeOK, RequestsInv, RequestInv
    <3>2. \A i \in DOMAIN list[w] : i = at[w] \/ i \in 1 .. at[w] - 1
      BY <3>1
    <3>3. list[w] # <<>> /\ ToSet(list[w]) \subseteq table
      BY <1>16, <3>1, <3>2
        DEF AllBlocked, block_table_check, ToSet, IInv, RequestsInv, RequestInv
    <3> QED
      BY <1>16, <3>3
        DEF AllBlocked, block_table_check, Resolved, shared, RequestInv, RequestsInv, Before, TypeOK, IInv
  <2> QED
    BY <2>1, <2>2 DEF RequestsInv
<1>17. ASSUME NEW w \in Workers, Reply(w)
      PROVE  RequestsInv'
  <2>1. ASSUME NEW v \in Workers, v # w
        PROVE  RequestInv(v)'
    <3>1. /\ table' = table /\ pc'[v] = pc[v] /\ host'[v] = host[v] /\ status'[v] = status[v]
          /\ list'[v] = list[v] /\ at'[v] = at[v] /\ live'[v] = live[v]
      BY <1>17, <2>1 DEF Reply, Goes, FreeAddresses, shared, NoHost, IInv, TypeOK
    <3> QED
      BY <3>1, OthersKeep
  <2>2. RequestInv(w)'
    BY <1>17
      DEF Reply, Goes, FreeAddresses, shared, NoHost, RequestInv, RequestsInv, Before, TypeOK, IInv
  <2> QED
    BY <2>1, <2>2 DEF RequestsInv
<1>18. CASE UNCHANGED vars
  BY <1>18 DEF vars, RequestInv, RequestsInv, Before, TypeOK, IInv
<1> QED
  BY <1>1, <1>2, <1>3, <1>4, <1>5, <1>6, <1>7, <1>8, <1>9, <1>10, <1>11, <1>12, <1>13, <1>14, <1>15, <1>16, <1>17, <1>18
    DEF Next, MainStep, WorkerStep, Exited

-----------------------------------------------------------------------------

\* IInv is inductive.
THEOREM InductiveInvariant == Spec => []IInv
<1>1. Init => IInv
  BY InitHolds
<1>2. IInv /\ [Next]_vars => IInv'
  BY TypeStep, TableStep, RequestStep, LockStep, CloseStep DEF IInv
<1> QED
  BY <1>1, <1>2, PTL DEF Spec

\* Type correctness; at never leaves the list of addresses.
THEOREM TypeCorrect == Spec => []TypeOK
<1>1. IInv => TypeOK
  BY DEF IInv
<1> QED
  BY <1>1, InductiveInvariant, PTL

\* No request is served to a name or from an address the file lists, however
\* the workers start and interleave.
THEOREM BlockedNeverServed == Spec => []BlockedIsNotServed
<1>1. IInv => BlockedIsNotServed
  <2> SUFFICES ASSUME IInv, NEW w \in Workers, status[w] = "ok"
               PROVE  host[w].name \notin Listed /\ list[w][at[w]] \notin Listed
    BY DEF BlockedIsNotServed
  <2>1. pc[w] = "reply" /\ host[w].name \notin table /\ list[w][at[w]] \notin table
    BY DEF IInv, RequestsInv, RequestInv
  <2>2. mainPc # "load"
    BY <2>1 DEF IInv, TableInv
  <2> QED
    BY <2>1, <2>2, TableIsListed
<1> QED
  BY <1>1, InductiveInvariant, PTL

\* Only a listed name, or a name all of whose addresses are, is refused.
THEOREM OnlyBlockedRefused == Spec => []RefusedIsBlocked
<1>1. IInv => RefusedIsBlocked
  <2> SUFFICES ASSUME IInv, NEW w \in Workers, status[w] = "blocked"
               PROVE  host[w].name \in Listed \/ (list[w] # <<>> /\ ToSet(list[w]) \subseteq Listed)
    BY DEF RefusedIsBlocked
  <2>1. /\ pc[w] \in {"say", "saying", "reply"}
        /\ host[w].name \in table \/ (list[w] # <<>> /\ ToSet(list[w]) \subseteq table)
    BY DEF IInv, RequestsInv, RequestInv
  <2>2. mainPc # "load"
    BY <2>1 DEF IInv, TableInv
  <2> QED
    BY <2>1, <2>2, TableIsListed
<1> QED
  BY <1>1, InductiveInvariant, PTL

\* getaddrinfo is never called by two threads at once.
THEOREM LookupIsExclusive == Spec => []OneLookupAtATime
<1>1. IInv => OneLookupAtATime
  BY DEF IInv, LockInv, OneLookupAtATime
<1> QED
  BY <1>1, InductiveInvariant, PTL

\* What a finished request has not freed are blocked addresses in front of the
\* one it used.
THEOREM LeaksAreBlocked == Spec => []OnlyBlockedLeak
<1>1. IInv => OnlyBlockedLeak
  <2> SUFFICES ASSUME IInv, NEW w \in Workers, pc[w] = "idle", NEW i \in live[w]
               PROVE  i < at[w] /\ list[w][i] \in Listed
    BY DEF OnlyBlockedLeak
  <2>1. i < at[w]
    BY DEF IInv, RequestsInv, RequestInv
  <2>2. i \in 1 .. at[w] - 1
    BY <2>1, ResolverAssumption DEF IInv, TypeOK
  <2>3. list[w][i] \in table
    BY <2>2 DEF IInv, RequestsInv, RequestInv
  <2>4. mainPc # "load"
    BY DEF IInv, TableInv
  <2> QED
    BY <2>1, <2>3, <2>4, TableIsListed
<1> QED
  BY <1>1, InductiveInvariant, PTL

=============================================================================
