------------------------------- MODULE Server -------------------------------
(***************************************************************************)
(* The thread structure of the proxy: the main thread of server.c accepts  *)
(* connections and pushes them as jobs onto the client stack; client       *)
(* workers (worker_main) pop them, process them, and push unfinished ones  *)
(* back; a client worker that has served a page pushes a job per link onto *)
(* the prefetch stack, from which the prefetch workers live.  A signal     *)
(* makes main finish both stacks, join all workers and free everything.    *)
(*                                                                         *)
(* process_job appears here by its outcome only (TERMINATE, ENQUEUE, and   *)
(* how many links it dispatches); module Relay opens it up.                *)
(***************************************************************************)
EXTENDS Integers, Sequences, FiniteSets

CONSTANTS
  Main,             \* the thread that runs main()
  ClientWorkers,    \* threads with is_client_worker = 1
  PrefetchWorkers,  \* threads with is_client_worker = 0
  Connections,      \* jobs of accepted sockets
  Phantoms,         \* jobs made when accept fails: client_socket_fd = -1
  PrefetchJobs,     \* jobs made from links
  ClientMax,        \* max_job_count of the client stack
  PrefetchMax,      \* max_job_count of the prefetch stack
  MaxLinks,         \* most links of one page (bounds the model)
  NoThread, NoJob

Workers == ClientWorkers \cup PrefetchWorkers
Threads == {Main} \cup Workers
ClientJobs == Connections \cup Phantoms
Jobs == ClientJobs \cup PrefetchJobs

ASSUME ThreadsAssumption ==
  /\ IsFiniteSet(ClientWorkers) /\ ClientWorkers # {}
  /\ IsFiniteSet(PrefetchWorkers) /\ PrefetchWorkers # {}
  /\ ClientWorkers \cap PrefetchWorkers = {}
  /\ Main \notin Workers
  /\ NoThread \notin Threads

ASSUME JobsAssumption ==
  /\ Connections \cap Phantoms = {}
  /\ ClientJobs \cap PrefetchJobs = {}
  /\ NoJob \notin Jobs

\* create_shared_resource gives the prefetch stack four times the slots of
\* the client stack: 128 slots against 4 client workers.
ASSUME SizesAssumption ==
  /\ ClientMax \in Nat \ {0}
  /\ PrefetchMax \in Nat \ {0}
  /\ PrefetchMax >= Cardinality(ClientWorkers)
  /\ MaxLinks \in Nat

VARIABLES
  clientStack,    \* shared: client_job_stack
  prefetchStack,  \* shared: prefetch_job_stack
  pc,             \* where each thread is
  job,            \* main's new_job, a worker's current_job
  links,          \* links a client worker has still to dispatch
  heard,          \* live jobs whose expiration_time has been set
  fate,           \* what became of each job
  shutdown        \* SHOULD_SHUTDOWN

vars == <<clientStack, prefetchStack, pc, job, links, heard, fate, shutdown>>

CS == INSTANCE JobStack
        WITH stack <- clientStack, Jobs <- ClientJobs, MaxJobs <- ClientMax
PS == INSTANCE JobStack
        WITH stack <- prefetchStack, Jobs <- PrefetchJobs, MaxJobs <- PrefetchMax

\* The slots of the client stack beyond max_job_count.
ReserveSlots == Cardinality(ClientWorkers)

MainPC == {"listen", "check", "accept", "push", "pushWait",
           "finishClient", "finishPrefetch", "join", "done"}
WorkerPC == {"pop", "popWait", "process", "dispatch", "dispatchWait",
             "pushBack", "insert", "destruct", "exited"}

Goes(t, from, to) ==
  /\ pc[t] = from
  /\ pc' = [pc EXCEPT ![t] = to]

Unborn(S) == {j \in S : fate[j] = "unborn"}

\* Both stacks are constructed, the handlers installed and the workers
\* running before main calls listen.
Init ==
  /\ CS!Construct
  /\ PS!Construct
  /\ pc = [t \in Threads |-> IF t = Main THEN "listen" ELSE "pop"]
  /\ job = [t \in Threads |-> NoJob]
  /\ links = [w \in ClientWorkers |-> 0]
  /\ heard = {}
  /\ fate = [j \in Jobs |-> "unborn"]
  /\ shutdown = FALSE

-----------------------------------------------------------------------------
(* The main thread *)

\* SHOULD_SHUTDOWN = 0, whatever a signal has set it to before.
Listen ==
  /\ Goes(Main, "listen", "check")
  /\ shutdown' = FALSE
  /\ UNCHANGED <<clientStack, prefetchStack, job, links, heard, fate>>

CheckShutdown ==
  /\ Goes(Main, "check", IF shutdown THEN "finishClient" ELSE "accept")
  /\ UNCHANGED <<clientStack, prefetchStack, job, links, heard, fate, shutdown>>

\* job_construct on what accept returned.
NewJob(j) ==
  /\ Goes(Main, "accept", "push")
  /\ job' = [job EXCEPT ![Main] = j]
  /\ fate' = [fate EXCEPT ![j] = "live"]
  /\ UNCHANGED <<clientStack, prefetchStack, links, heard>>

Accept ==
  /\ \E j \in Unborn(Connections) : NewJob(j)
  /\ UNCHANGED shutdown

\* accept returns -1, interrupted by the signal or for a reason of its own;
\* the result is not looked at.
AcceptFails ==
  /\ \E j \in Unborn(Phantoms) : NewJob(j)
  /\ shutdown' \in {shutdown, TRUE}

Push ==
  /\ Goes(Main, "push", "check")
  /\ CS!PushItem(Main, job[Main])
  /\ job' = [job EXCEPT ![Main] = NoJob]
  /\ UNCHANGED <<prefetchStack, links, heard, fate, shutdown>>

PushBlocks ==
  /\ Goes(Main, "push", "pushWait")
  /\ CS!PushFull(Main)
  /\ UNCHANGED <<prefetchStack, job, links, heard, fate, shutdown>>

\* FAIL: the loop in main calls push again, without looking at the signal.
PushRetry ==
  /\ Goes(Main, "pushWait", "push")
  /\ CS!Reacquire(Main)
  /\ UNCHANGED <<clientStack, prefetchStack, job, links, heard, fate, shutdown>>

FinishClient ==
  /\ Goes(Main, "finishClient", "finishPrefetch")
  /\ CS!SignalFinish
  /\ UNCHANGED <<prefetchStack, job, links, heard, fate, shutdown>>

FinishPrefetch ==
  /\ Goes(Main, "finishPrefetch", "join")
  /\ PS!SignalFinish
  /\ UNCHANGED <<clientStack, job, links, heard, fate, shutdown>>

\* pthread_join on every worker, then free_shared_resource.
JoinAndFree ==
  /\ Goes(Main, "join", "done")
  /\ \A w \in Workers : pc[w] = "exited"
  /\ UNCHANGED <<clientStack, prefetchStack, job, links, heard, fate, shutdown>>

\* The handler runs on some thread, or before accept has blocked: nothing
\* but the flag changes.
Signal ==
  /\ pc[Main] # "done"
  /\ shutdown' = TRUE
  /\ UNCHANGED <<clientStack, prefetchStack, pc, job, links, heard, fate>>

-----------------------------------------------------------------------------
(* Popping, for both kinds of worker *)

ClientPop(w) ==
  /\ \/ \E j \in ClientJobs :
          /\ CS!PopItem(j)
          /\ Goes(w, "pop", "process")
          /\ job' = [job EXCEPT ![w] = j]
     \/ CS!PopWait(w) /\ Goes(w, "pop", "popWait") /\ UNCHANGED job
     \/ CS!PopFinished /\ Goes(w, "pop", "exited") /\ UNCHANGED job
     \/ CS!Reacquire(w) /\ Goes(w, "popWait", "pop") /\ UNCHANGED job
  /\ UNCHANGED <<prefetchStack, links, heard, fate, shutdown>>

PrefetchPop(w) ==
  /\ \/ \E j \in PrefetchJobs :
          /\ PS!PopItem(j)
          /\ Goes(w, "pop", "process")
          /\ job' = [job EXCEPT ![w] = j]
     \/ PS!PopWait(w) /\ Goes(w, "pop", "popWait") /\ UNCHANGED job
     \/ PS!PopFinished /\ Goes(w, "pop", "exited") /\ UNCHANGED job
     \/ PS!Reacquire(w) /\ Goes(w, "popWait", "pop") /\ UNCHANGED job
  /\ UNCHANGED <<clientStack, links, heard, fate, shutdown>>

-----------------------------------------------------------------------------
(* process_job, by its outcome *)

\* expiration_time is set and has passed: TERMINATE.
TimedOut(w) ==
  /\ Goes(w, "process", "destruct")
  /\ job[w] \in heard
  /\ UNCHANGED <<clientStack, prefetchStack, job, links, heard, fate, shutdown>>

\* recv gives 0, the client has closed the connection: TERMINATE.
HangUp(w) ==
  /\ Goes(w, "process", "destruct")
  /\ job[w] \in Connections
  /\ UNCHANGED <<clientStack, prefetchStack, job, links, heard, fate, shutdown>>

\* Nothing to read (recv gives -1), or the empty request of a phantom has no
\* line to parse: ENQUEUE, and expiration_time keeps its value.
NothingToRead(w) ==
  /\ Goes(w, "process", "pushBack")
  /\ job[w] \in ClientJobs
  /\ UNCHANGED <<clientStack, prefetchStack, job, links, heard, fate, shutdown>>

\* Bytes arrived, expiration_time is set, the request line is not complete:
\* ENQUEUE.
PartialRequest(w) ==
  /\ Goes(w, "process", "pushBack")
  /\ job[w] \in Connections
  /\ heard' = heard \cup {job[w]}
  /\ UNCHANGED <<clientStack, prefetchStack, job, links, fate, shutdown>>

\* A complete request is answered, and the n links of the page (none when it
\* was not cached) are dispatched before the TERMINATE.
Answer(w) ==
  /\ Goes(w, "process", "dispatch")
  /\ job[w] \in Connections
  /\ \E n \in 0..MaxLinks : links' = [links EXCEPT ![w] = n]
  /\ heard' = heard \cup {job[w]}
  /\ UNCHANGED <<clientStack, prefetchStack, job, fate, shutdown>>

\* A prefetch job always ends with TERMINATE.
Prefetched(w) ==
  /\ Goes(w, "process", "destruct")
  /\ UNCHANGED <<clientStack, prefetchStack, job, links, heard, fate, shutdown>>

-----------------------------------------------------------------------------
(* dispatch_prefetch_jobs: one job per link, the result of push ignored *)

\* Mutation of OneLink: the loop goes once more after the last link.
OneLinkTooMany(w, j, f) ==
  /\ links' = [links EXCEPT ![w] = @ - 1]
  /\ fate' = [fate EXCEPT ![j] = f]
  /\ UNCHANGED <<clientStack, job, heard, shutdown>>

\* One link less, a new job with the given fate.
OneLink(w, j, f) ==
  /\ links[w] > 0
  /\ links' = [links EXCEPT ![w] = @ - 1]
  /\ fate' = [fate EXCEPT ![j] = f]
  /\ UNCHANGED <<clientStack, job, heard, shutdown>>

Dispatch(w) ==
  \E j \in Unborn(PrefetchJobs) :
    /\ Goes(w, "dispatch", "dispatch")
    /\ PS!PushItem(w, j)
    /\ OneLink(w, j, "live")

\* The stack is full: wait, and then lose the job with the FAIL.
DispatchBlocks(w) ==
  \E j \in Unborn(PrefetchJobs) :
    /\ Goes(w, "dispatch", "dispatchWait")
    /\ PS!PushFull(w)
    /\ OneLink(w, j, "lost")

DispatchWoken(w) ==
  /\ Goes(w, "dispatchWait", "dispatch")
  /\ PS!Reacquire(w)
  /\ UNCHANGED <<clientStack, prefetchStack, job, links, heard, fate, shutdown>>

\* The stack is finished: the job is lost and the mutex stays with w.
DispatchFinished(w) ==
  \E j \in Unborn(PrefetchJobs) :
    /\ Goes(w, "dispatch", "dispatch")
    /\ PS!PushFinished(w)
    /\ OneLink(w, j, "lost")

DispatchEnds(w) ==
  /\ Goes(w, "dispatch", "destruct")
  /\ links[w] = 0
  /\ UNCHANGED <<clientStack, prefetchStack, job, links, heard, fate, shutdown>>

-----------------------------------------------------------------------------
(* What worker_main does with the outcome *)

Destruct(w) ==
  /\ Goes(w, "destruct", "pop")
  /\ fate' = [fate EXCEPT ![job[w]] = "freed"]
  /\ heard' = heard \ {job[w]}
  /\ job' = [job EXCEPT ![w] = NoJob]
  /\ UNCHANGED <<clientStack, prefetchStack, links, shutdown>>

\* job_stack_push_back reads finished before it takes the mutex.
PushBackTest(w) ==
  /\ Goes(w, "pushBack", IF CS!PushBackRefused THEN "destruct" ELSE "insert")
  /\ UNCHANGED <<clientStack, prefetchStack, job, links, heard, fate, shutdown>>

\* Mutation of PushBackInsert: the job is destroyed although it was queued.
PushBackInsertAndFree(w) ==
  /\ Goes(w, "insert", "pop")
  /\ CS!PushBack(job[w])
  /\ job' = [job EXCEPT ![w] = NoJob]
  /\ fate' = [fate EXCEPT ![job[w]] = "freed"]
  /\ UNCHANGED <<prefetchStack, links, heard, shutdown>>

PushBackInsert(w) ==
  /\ Goes(w, "insert", "pop")
  /\ CS!PushBack(job[w])
  /\ job' = [job EXCEPT ![w] = NoJob]
  /\ UNCHANGED <<prefetchStack, links, heard, fate, shutdown>>

-----------------------------------------------------------------------------

SpuriousWakeups ==
  /\ \/ CS!SpuriousWakeup /\ UNCHANGED prefetchStack
     \/ PS!SpuriousWakeup /\ UNCHANGED clientStack
  /\ UNCHANGED <<pc, job, links, heard, fate, shutdown>>

\* main has returned.
Exited == pc[Main] = "done" /\ UNCHANGED vars

MainStep ==
  \/ Listen \/ CheckShutdown \/ Push \/ PushBlocks \/ PushRetry
  \/ FinishClient \/ FinishPrefetch \/ JoinAndFree

ClientStep(w) ==
  \/ ClientPop(w) \/ TimedOut(w) \/ HangUp(w) \/ NothingToRead(w)
  \/ PartialRequest(w) \/ Answer(w) \/ Dispatch(w) \/ DispatchBlocks(w) \/ DispatchWoken(w)
  \/ DispatchFinished(w) \/ DispatchEnds(w) \/ Destruct(w)
  \/ PushBackTest(w) \/ PushBackInsert(w)

PrefetchStep(w) == PrefetchPop(w) \/ Prefetched(w) \/ Destruct(w)

Next ==
  \/ MainStep \/ Accept \/ AcceptFails \/ Signal
  \/ \E w \in ClientWorkers : ClientStep(w)
  \/ \E w \in PrefetchWorkers : PrefetchStep(w)
  \/ SpuriousWakeups
  \/ Exited

Spec == Init /\ [][Next]_vars

\* A job whose expiration_time is set ends one way or another.
Ends(j) ==
  \E w \in ClientWorkers :
    job[w] = j /\ j \in heard /\ (TimedOut(w) \/ HangUp(w) \/ Answer(w))

\* The scheduler runs every thread and the mutexes starve nobody.  A job that
\* is looked at for ever ends: every byte that puts off its expiration also
\* fills its buffer (Exchange!HeardEnds).  Nothing is assumed of clients, signals or wakeups
\* without a signal.
Fairness ==
  /\ WF_vars(MainStep)
  /\ \A w \in ClientWorkers : WF_vars(ClientStep(w))
  /\ \A w \in PrefetchWorkers : WF_vars(PrefetchStep(w))
  /\ \A j \in Connections : SF_vars(Ends(j))

FairSpec == Spec /\ Fairness

-----------------------------------------------------------------------------
(* Properties *)

TypeOK ==
  /\ clientStack \in CS!StackType
  /\ prefetchStack \in PS!StackType
  /\ pc \in [Threads -> MainPC \cup WorkerPC]
  /\ pc[Main] \in MainPC /\ \A w \in Workers : pc[w] \in WorkerPC
  /\ job \in [Threads -> Jobs \cup {NoJob}]
  /\ links \in [ClientWorkers -> 0..MaxLinks]
  /\ heard \subseteq Jobs
  /\ fate \in [Jobs -> {"unborn", "live", "freed", "lost"}]
  /\ shutdown \in BOOLEAN

\* The arrays behind the stacks are never overrun: push_back looks at no
\* bound, and is saved by there being a reserve slot per client worker.
Holders == {w \in ClientWorkers : job[w] # NoJob}

WithinSlots ==
  /\ Len(clientStack.content) + Cardinality(Holders) <= ClientMax + ReserveSlots
  /\ Len(prefetchStack.content) <= PrefetchMax

\* A live job is in exactly one place, one slot of a stack or one thread's
\* hands; a job that was destroyed or given up is nowhere.
Distinct(s) == \A i, k \in DOMAIN s : s[i] = s[k] => i = k

Queued(j) ==
  \/ \E i \in DOMAIN clientStack.content : clientStack.content[i] = j
  \/ \E i \in DOMAIN prefetchStack.content : prefetchStack.content[i] = j

Held(j) == \E t \in Threads : job[t] = j

OneOwner ==
  /\ \A j \in Jobs : fate[j] = "live" <=> Queued(j) \/ Held(j)
  /\ \A j \in Jobs : ~(Queued(j) /\ Held(j))
  /\ Distinct(clientStack.content) /\ Distinct(prefetchStack.content)
  /\ \A t, u \in Threads : job[t] = job[u] /\ job[t] # NoJob => t = u

\* While a stack holds a job, one of its workers is on its way to pop it:
\* no wakeup is lost between push, push_back, pop and signal_finish.
NoLostWakeup ==
  /\ clientStack.content # <<>> =>
       \E w \in ClientWorkers : pc[w] # "exited" /\ w \notin clientStack.notEmpty
  /\ prefetchStack.content # <<>> =>
       \E w \in PrefetchWorkers : pc[w] # "exited" /\ w \notin prefetchStack.notEmpty

\* A producer never waits for room on a stack that has run empty: not even
\* when several dispatchers wait and each pop wakes only one of them.
NoStrandedProducer ==
  /\ clientStack.content = <<>> => clientStack.notFull = {}
  /\ prefetchStack.content = <<>> => prefetchStack.notFull = {}

\* thread-safe-job-stack.h: "job stack MUST BE empty before calling destruct";
\* worker.h: all workers joined before freeing.  When main frees the stacks
\* they hold no job, no thread waits on them, and every client job is closed.
CleanShutdown ==
  pc[Main] = "done" =>
    /\ clientStack.content = <<>> /\ prefetchStack.content = <<>>
    /\ clientStack.notEmpty \cup clientStack.notFull = {}
    /\ prefetchStack.notEmpty \cup prefetchStack.notFull = {}
    /\ \A j \in ClientJobs : fate[j] \in {"unborn", "freed"}

\* The life of every job is the one JobLifecycle promises.
Lifecycle == INSTANCE JobLifecycle WITH
  state <- [j \in Jobs |->
              IF fate[j] # "live" THEN fate[j]
              ELSE IF Queued(j) THEN "queued" ELSE "held"]

ImplementsLifecycle == Lifecycle!Spec

\* A connection whose request has begun to arrive is closed in the end,
\* unless a push on the finished prefetch stack has kept its mutex.
Leaked == prefetchStack.mutex # NoThread

HeardIsClosed ==
  \A j \in Connections : j \in heard ~> fate[j] = "freed" \/ Leaked

\* Once main has seen the signal the server stops, with the same exception.
ShutdownCompletes == pc[Main] = "finishClient" ~> pc[Main] = "done" \/ Leaked

\* After signal_finish on the prefetch stack its workers get FINISHED and
\* return (thread-safe-job-stack.h on job_stack_pop).
FinishReachesPrefetchers ==
  prefetchStack.finished ~> \A w \in PrefetchWorkers : pc[w] = "exited"

=============================================================================
