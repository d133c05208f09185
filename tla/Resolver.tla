------------------------------ MODULE Resolver ------------------------------
(***************************************************************************)
(* Name resolution and the resources that all threads share: main fills    *)
(* the block table from its file (load_block_list), starts the workers,    *)
(* joins them and frees the resources; the workers print through           *)
(* thread-safe-file.c, and resolve_host decides for each request whether   *)
(* its host is blocked, unknown or to be asked, with the table             *)
(* (block-table.c) and getaddrinfo, which addr_lookup_lock protects.       *)
(*                                                                         *)
(* A line of the file is a name, an address, or one of these with a port,  *)
(* a pair.  block_table_check is one critical section of the table's own   *)
(* mutex, and a step.                                                      *)
(***************************************************************************)
EXTENDS Integers, SequencesExt

CONSTANTS
  Workers,       \* all workers, of both kinds
  Names, Addresses, Ports,
  MaxLines,      \* most lines in the block list (bounds the model)
  MaxAddresses,  \* most addresses of a name (bounds the model)
  NoPort,        \* a host without a port: "http" is looked up
  NoName, NoThread

Lines == Names \cup Addresses \cup ((Names \cup Addresses) \X Ports)

ASSUME ResolverAssumption ==
  /\ IsFiniteSet(Workers) /\ NoThread \notin Workers
  /\ "closed" \notin Workers \cup {NoThread}
  /\ NoName \notin Names /\ NoPort \notin Ports
  /\ MaxLines \in Nat /\ MaxAddresses \in Nat

VARIABLES
  file,        \* the lines of ./blocklist
  loaded,      \* how many of them load_block_list has read
  table,       \* block_table->content
  mainPc,      \* where main is
  pc,          \* where each worker is
  host,        \* hostname, as its name and its port
  status,      \* host_status, "error" (which nothing sets) before it is known
  list,        \* the addresses getaddrinfo has returned
  at,          \* server_address, as a position of list
  live,        \* positions of list whose addrinfo has not been freed
  lookupLock,  \* addr_lookup_lock, "closed" once it is destroyed
  stdOut       \* the mutex of std_out, the same

vars == <<file, loaded, table, mainPc, pc, host, status, list, at, live,
          lookupLock, stdOut>>

request == <<host, status, list, at, live>>
shared == <<file, loaded, table, mainPc>>

WorkerPC == {"unborn", "idle", "say", "saying", "checkName", "lock", "lookup",
             "scan", "reply", "exited"}

TypeOK ==
  /\ file \in BoundedSeq(Lines, MaxLines)
  /\ loaded \in 0..Len(file)
  /\ table \subseteq Lines
  /\ mainPc \in {"load", "start", "serve", "join", "done"}
  /\ pc \in [Workers -> WorkerPC]
  /\ host \in [Workers -> [name : Names \cup {NoName}, port : Ports \cup {NoPort}]]
  /\ status \in [Workers -> {"ok", "error", "not_found", "blocked"}]
  /\ list \in [Workers -> BoundedSeq(Addresses, MaxAddresses)]
  /\ at \in [Workers -> Nat] /\ \A w \in Workers : at[w] \in 1..Len(list[w]) \cup {1}
  /\ live \in [Workers -> SUBSET (1..MaxAddresses)]
  /\ lookupLock \in Workers \cup {NoThread, "closed"}
  /\ stdOut \in Workers \cup {NoThread, "closed"}

\* The table is a set of lines; an entry that is there is ignored.
block_table_create == {}

block_table_add(name) == table' = table \cup {name}

block_table_check(name) == name \in table

\* A mutex around stdout, for which nobody may wait when it is destroyed.
safe_init == NoThread

safe_close == stdOut' = "closed"

\* The stacks, which it frees as well, are module Server's.
free_shared_resource == safe_close /\ lookupLock' = "closed"

NoHost == [name |-> NoName, port |-> NoPort]

Init ==
  /\ file \in BoundedSeq(Lines, MaxLines)
  /\ loaded = 0 /\ table = block_table_create /\ mainPc = "load"
  /\ pc = [w \in Workers |-> "unborn"]
  /\ host = [w \in Workers |-> NoHost]
  /\ status = [w \in Workers |-> "error"]
  /\ list = [w \in Workers |-> <<>>]
  /\ at = [w \in Workers |-> 1]
  /\ live = [w \in Workers |-> {}]
  /\ lookupLock = NoThread /\ stdOut = safe_init

Goes(w, from, to) == pc[w] = from /\ pc' = [pc EXCEPT ![w] = to]

-----------------------------------------------------------------------------
(* The main thread *)

\* One line of the file.
LoadLine ==
  /\ mainPc = "load" /\ loaded < Len(file)
  /\ block_table_add(file[loaded + 1])
  /\ loaded' = loaded + 1
  /\ UNCHANGED <<file, mainPc, pc, request, lookupLock, stdOut>>

\* Mutation of Loaded: the workers are started while the file is being read.
LoadedAtOnce ==
  /\ mainPc = "load"
  /\ mainPc' = "start"
  /\ UNCHANGED <<file, loaded, table, pc, request, lookupLock, stdOut>>

\* The end of the file, or there is none.
Loaded ==
  /\ mainPc = "load" /\ loaded = Len(file)
  /\ mainPc' = "start"
  /\ UNCHANGED <<file, loaded, table, pc, request, lookupLock, stdOut>>

\* pthread_create: a worker runs from now on, while main starts the others.
StartWorker(w) ==
  /\ mainPc = "start"
  /\ Goes(w, "unborn", "idle")
  /\ UNCHANGED <<shared, request, lookupLock, stdOut>>

Started ==
  /\ mainPc = "start" /\ \A w \in Workers : pc[w] # "unborn"
  /\ mainPc' = "serve"
  /\ UNCHANGED <<file, loaded, table, pc, request, lookupLock, stdOut>>

\* main prints, which needs the mutex of std_out, and finishes the stacks.
Shutdown ==
  /\ mainPc = "serve" /\ stdOut = NoThread
  /\ mainPc' = "join"
  /\ UNCHANGED <<file, loaded, table, pc, request, lookupLock, stdOut>>

\* pthread_join, and a last line, for which the mutex of std_out is needed.
JoinAndFree ==
  /\ mainPc = "join" /\ stdOut = NoThread
  /\ \A w \in Workers : pc[w] = "exited"
  /\ mainPc' = "done" /\ free_shared_resource
  /\ UNCHANGED <<file, loaded, table, pc, request>>

-----------------------------------------------------------------------------
(* A worker *)

\* process_job with a complete request; its first line is to be printed.
Request(w, h) ==
  /\ Goes(w, "idle", "say")
  /\ host' = [host EXCEPT ![w] = h]
  /\ list' = [list EXCEPT ![w] = <<>>]
  /\ at' = [at EXCEPT ![w] = 1]
  /\ live' = [live EXCEPT ![w] = {}]
  /\ UNCHANGED <<shared, status, lookupLock, stdOut>>

\* pop gives FINISHED.
Exit(w) ==
  /\ mainPc = "join"
  /\ Goes(w, "idle", "exited")
  /\ UNCHANGED <<shared, request, lookupLock, stdOut>>

\* safe_write.
SafeWrite(w) ==
  /\ stdOut = NoThread /\ stdOut' = w
  /\ Goes(w, "say", "saying")
  /\ UNCHANGED <<shared, request, lookupLock>>

\* Before resolve_host the request line is written, after it that the host is
\* blocked.
Written(w) ==
  /\ Goes(w, "saying", IF status[w] = "error" THEN "checkName" ELSE "reply")
  /\ stdOut' = NoThread
  /\ UNCHANGED <<shared, request, lookupLock>>

Resolved(w, s, next) ==
  /\ status' = [status EXCEPT ![w] = s]
  /\ pc' = [pc EXCEPT ![w] = next]

\* The name without its port is looked for in the table.
CheckName(w) ==
  /\ pc[w] = "checkName"
  /\ IF block_table_check(host[w].name)
     THEN Resolved(w, "blocked", "say")
     ELSE Resolved(w, "error", "lock")
  /\ UNCHANGED <<shared, host, list, at, live, lookupLock, stdOut>>

\* Mutation of Lock: addr_lookup_lock is not taken.
LockForgotten(w) ==
  /\ lookupLock' = w
  /\ Goes(w, "lock", "lookup")
  /\ UNCHANGED <<shared, request, stdOut>>

Lock(w) ==
  /\ lookupLock = NoThread /\ lookupLock' = w
  /\ Goes(w, "lock", "lookup")
  /\ UNCHANGED <<shared, request, stdOut>>

\* Mutation of Lookup: the error is returned before the unlock.
LookupKeepingLock(w, answer) ==
  /\ pc[w] = "lookup"
  /\ lookupLock' = IF answer = <<>> THEN lookupLock ELSE NoThread
  /\ list' = [list EXCEPT ![w] = answer]
  /\ live' = [live EXCEPT ![w] = DOMAIN answer]
  /\ IF answer = <<>> THEN Resolved(w, "not_found", "reply")
                      ELSE Resolved(w, "error", "scan")
  /\ UNCHANGED <<shared, host, at, stdOut>>

\* getaddrinfo returns some addresses, or none and an error, and the lock is
\* released.
Lookup(w, answer) ==
  /\ pc[w] = "lookup"
  /\ lookupLock' = NoThread
  /\ list' = [list EXCEPT ![w] = answer]
  /\ live' = [live EXCEPT ![w] = DOMAIN answer]
  /\ IF answer = <<>> THEN Resolved(w, "not_found", "reply")
                      ELSE Resolved(w, "error", "scan")
  /\ UNCHANGED <<shared, host, at, stdOut>>

\* The address at server_address, again without a port, is not in the table.
Accepted(w) ==
  /\ pc[w] = "scan" /\ ~block_table_check(list[w][at[w]])
  /\ Resolved(w, "ok", "reply")
  /\ UNCHANGED <<shared, host, list, at, live, lookupLock, stdOut>>

\* Mutation of Skipped: ai_next is not tested.
SkippedPastEnd(w) ==
  /\ pc[w] = "scan" /\ block_table_check(list[w][at[w]])
  /\ at' = [at EXCEPT ![w] = @ + 1]
  /\ UNCHANGED <<shared, pc, host, status, list, live, lookupLock, stdOut>>

\* It is, and server_address moves to the next one.
Skipped(w) ==
  /\ pc[w] = "scan" /\ block_table_check(list[w][at[w]]) /\ at[w] < Len(list[w])
  /\ at' = [at EXCEPT ![w] = @ + 1]
  /\ UNCHANGED <<shared, pc, host, status, list, live, lookupLock, stdOut>>

\* Mutation of AllBlocked: gives up at the first blocked address.
FirstBlocked(w) ==
  /\ pc[w] = "scan" /\ block_table_check(list[w][at[w]])
  /\ live' = [live EXCEPT ![w] = {}]
  /\ Resolved(w, "blocked", "say")
  /\ UNCHANGED <<shared, host, list, at, lookupLock, stdOut>>

\* It is, and the last one: the list is freed, server_address is NULL.
AllBlocked(w) ==
  /\ pc[w] = "scan" /\ block_table_check(list[w][at[w]]) /\ at[w] = Len(list[w])
  /\ live' = [live EXCEPT ![w] = {}]
  /\ Resolved(w, "blocked", "say")
  /\ UNCHANGED <<shared, host, list, at, lookupLock, stdOut>>

\* Mutation of FreeAddresses: freed only when the page was served.
FreeAddressesOfPage(w) ==
  live' = IF status[w] = "ok" THEN live ELSE [live EXCEPT ![w] = {}]

\* freeaddrinfo frees server_address and what follows it.
FreeAddresses(w) ==
  live' = [live EXCEPT ![w] = {i \in @ : i < at[w]}]

\* The page (handle_valid_request) or an error is sent: a request that is not
\* a GET gets an error whatever its host.  The locals of process_job end.
Reply(w) ==
  /\ Goes(w, "reply", "idle")
  /\ FreeAddresses(w)
  /\ host' = [host EXCEPT ![w] = NoHost]
  /\ status' = [status EXCEPT ![w] = "error"]
  /\ UNCHANGED <<shared, list, at, lookupLock, stdOut>>

-----------------------------------------------------------------------------

MainStep ==
  LoadLine \/ Loaded \/ Started \/ JoinAndFree \/ \E w \in Workers : StartWorker(w)

Hosts == [name : Names, port : Ports \cup {NoPort}]
Answers == BoundedSeq(Addresses, MaxAddresses)

WorkerStep(w) ==
  \/ Exit(w) \/ SafeWrite(w) \/ Written(w) \/ CheckName(w) \/ Lock(w)
  \/ \E answer \in Answers : Lookup(w, answer)
  \/ Accepted(w) \/ Skipped(w) \/ AllBlocked(w) \/ Reply(w)

Exited == mainPc = "done" /\ UNCHANGED vars

Next ==
  \/ MainStep \/ Shutdown
  \/ \E w \in Workers : WorkerStep(w) \/ \E h \in Hosts : Request(w, h)
  \/ Exited

Spec == Init /\ [][Next]_vars

\* Threads are scheduled, no mutex starves a thread, and getaddrinfo returns.
Fairness ==
  \A w \in Workers : SF_vars(WorkerStep(w))

FairSpec == Spec /\ Fairness

-----------------------------------------------------------------------------
(* Properties *)

Listed == ToSet(file)

\* What the file lists is not served: not by its name, and not at an address
\* the name resolves to, from the first request on.  It takes the whole file
\* to be loaded before the first worker runs (server.c: "must load blocked
\* list before spawning worker threads").  An entry with a port, which README.md
\* says blocks too, never does: the table is asked without the port, and
\* nothing is said of such entries here.
BlockedIsNotServed ==
  \A w \in Workers :
    status[w] = "ok" =>
      host[w].name \notin Listed /\ list[w][at[w]] \notin Listed

\* Nothing else is refused, worker.h: "any resolved addresses NOT in block
\* table will count as ok".
RefusedIsBlocked ==
  \A w \in Workers :
    status[w] = "blocked" =>
      \/ host[w].name \in Listed
      \/ list[w] # <<>> /\ ToSet(list[w]) \subseteq Listed

\* worker.h on resolve_host: "only one thread at a time".
OneLookupAtATime ==
  \A v, w \in Workers : pc[v] = "lookup" /\ pc[w] = "lookup" => v = w

\* Whatever the answer to a request, its list of addresses is freed, except
\* for blocked addresses in front of the one that was used.
OnlyBlockedLeak ==
  \A w \in Workers :
    pc[w] = "idle" => \A i \in live[w] : i < at[w] /\ list[w][i] \in Listed

\* Every request gets its reply.
RequestsAreResolved == \A w \in Workers : pc[w] = "say" ~> pc[w] = "idle"

=============================================================================
