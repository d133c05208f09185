---------------------------- MODULE ServerProofs ----------------------------
(***************************************************************************)
(* Theorems about Server, for any number of workers, connections and links *)
(* and any sizes that satisfy the assumptions of Server.                   *)
(***************************************************************************)
EXTENDS Server, TLAPS, FiniteSetTheorems, SequenceTheorems

CSP == INSTANCE JobStackProofs
         WITH stack <- clientStack, Jobs <- ClientJobs, MaxJobs <- ClientMax
PSP == INSTANCE JobStackProofs
         WITH stack <- prefetchStack, Jobs <- PrefetchJobs, MaxJobs <- PrefetchMax

\* The lemmas of JobStackProofs are about the operations Server calls.
LEMMA ClientStackOperations ==
  /\ CS!StackType = CSP!StackType
  /\ \A t, j : CS!PushItem(t, j) <=> CSP!PushItem(t, j)
  /\ \A t : CS!PushFull(t) <=> CSP!PushFull(t)
  /\ \A j : CS!PushBack(j) <=> CSP!PushBack(j)
  /\ \A j : CS!PopItem(j) <=> CSP!PopItem(j)
  /\ \A t : CS!PopWait(t) <=> CSP!PopWait(t)
  /\ CS!SignalFinish <=> CSP!SignalFinish
  /\ CS!SpuriousWakeup <=> CSP!SpuriousWakeup
BY DEF CS!StackType, CSP!StackType, CS!Free, CSP!Free, CS!AfterSignal, CSP!AfterSignal,
       CS!PushItem, CSP!PushItem, CS!PushFull, CSP!PushFull,
       CS!PushBack, CSP!PushBack, CS!Cons, CSP!Cons,
       CS!PopItem, CSP!PopItem, CS!Front, CSP!Front, CS!Last, CSP!Last,
       CS!PopWait, CSP!PopWait, CS!SignalFinish, CSP!SignalFinish,
       CS!SpuriousWakeup, CSP!SpuriousWakeup

\* The same for the prefetch stack.
LEMMA PrefetchStackOperations ==
  /\ PS!StackType = PSP!StackType
  /\ \A t, j : PS!PushItem(t, j) <=> PSP!PushItem(t, j)
  /\ \A t : PS!PushFull(t) <=> PSP!PushFull(t)
  /\ \A t : PS!PushFinished(t) <=> PSP!PushFinished(t)
  /\ \A j : PS!PopItem(j) <=> PSP!PopItem(j)
  /\ \A t : PS!PopWait(t) <=> PSP!PopWait(t)
  /\ PS!SignalFinish <=> PSP!SignalFinish
  /\ PS!SpuriousWakeup <=> PSP!SpuriousWakeup
BY DEF PS!StackType, PSP!StackType, PS!Free, PSP!Free, PS!AfterSignal, PSP!AfterSignal,
       PS!PushItem, PSP!PushItem, PS!PushFull, PSP!PushFull,
       PS!PushFinished, PSP!PushFinished,
       PS!PopItem, PSP!PopItem, PS!Front, PSP!Front, PS!Last, PSP!Last,
       PS!PopWait, PSP!PopWait, PS!SignalFinish, PSP!SignalFinish,
       PS!SpuriousWakeup, PSP!SpuriousWakeup

-----------------------------------------------------------------------------
(* Types.  TypeOK is not inductive: what a thread pushes must be a job.    *)

\* Where a thread has a job in its hands.
Carrying == {"push", "pushWait", "process", "dispatch", "dispatchWait",
             "pushBack", "insert", "destruct"}

\* A thread has a job, of its own kind, exactly where the code has one, and
\* a client's job is never given up.
Hands ==
  /\ \A t \in Threads : job[t] # NoJob <=> pc[t] \in Carrying
  /\ \A t \in {Main} \cup ClientWorkers : job[t] \in ClientJobs \cup {NoJob}
  /\ \A t \in PrefetchWorkers : job[t] \in PrefetchJobs \cup {NoJob}
  /\ \A j \in ClientJobs : fate[j] # "lost"

TypeInv == TypeOK /\ Hands

USE ThreadsAssumption, JobsAssumption, SizesAssumption
    DEF Threads, Workers, Jobs, ClientJobs

\* Before main listens everything has its type and no hand holds a job.
LEMMA TypeInvInit == Init => TypeInv
<1>. SUFFICES ASSUME Init PROVE TypeInv
  OBVIOUS
<1>1. clientStack \in CS!StackType /\ prefetchStack \in PS!StackType
  BY DEF Init, CS!Construct, CS!Empty, CS!StackType, PS!Construct, PS!Empty, PS!StackType
<1>2. pc \in [Threads -> MainPC \cup WorkerPC]
  BY DEF Init, MainPC, WorkerPC
<1>3. pc[Main] = "listen" /\ \A w \in Workers : pc[w] = "pop"
  BY DEF Init
<1>4. job \in [Threads -> Jobs \cup {NoJob}] /\ \A t \in Threads : job[t] = NoJob
  BY DEF Init
<1>5. links \in [ClientWorkers -> 0..MaxLinks]
  BY DEF Init
<1>6. TypeOK
  BY <1>1, <1>2, <1>3, <1>4, <1>5 DEF Init, TypeOK, MainPC, WorkerPC
<1>7. Hands
  BY <1>3, <1>4 DEF Init, Hands, Carrying
<1>. QED  BY <1>6, <1>7 DEF TypeInv

\* The steps of main keep TypeInv.
LEMMA TypeInvMain ==
  ASSUME TypeInv, MainStep \/ Accept \/ AcceptFails \/ Signal
  PROVE  TypeInv'
<1>. USE DEF TypeInv, TypeOK, Hands, MainPC, WorkerPC, Carrying, Goes
<1>1. CASE Listen
  BY <1>1 DEF Listen
<1>2. CASE CheckShutdown
  BY <1>2 DEF CheckShutdown
<1>3. CASE Accept
  BY <1>3 DEF Accept, NewJob, Unborn
<1>4. CASE AcceptFails
  <2>1. (shutdown \in BOOLEAN)'
    BY <1>4, Zenon DEF AcceptFails
  <2>2. PICK j \in Unborn(Phantoms) : NewJob(j)
    BY <1>4 DEF AcceptFails
  <2>. QED  BY <2>1, <2>2 DEF NewJob, Unborn
<1>5. CASE Push
  <2>1. (clientStack \in CS!StackType)'
    BY <1>5, ClientStackOperations, CSP!PushItemEffect DEF Push
  <2>. QED  BY <1>5, <2>1 DEF Push
<1>6. CASE PushBlocks
  <2>1. (clientStack \in CS!StackType)'
    BY <1>6, ClientStackOperations, CSP!PushFullEffect DEF PushBlocks
  <2>. QED  BY <1>6, <2>1 DEF PushBlocks
<1>7. CASE PushRetry
  BY <1>7 DEF PushRetry
<1>8. CASE FinishClient
  <2>1. (clientStack \in CS!StackType)'
    BY <1>8, ClientStackOperations, CSP!SignalFinishEffect DEF FinishClient
  <2>. QED  BY <1>8, <2>1 DEF FinishClient
<1>9. CASE FinishPrefetch
  <2>1. (prefetchStack \in PS!StackType)'
    BY <1>9, PrefetchStackOperations, PSP!SignalFinishEffect DEF FinishPrefetch
  <2>. QED  BY <1>9, <2>1 DEF FinishPrefetch
<1>10. CASE JoinAndFree
  BY <1>10 DEF JoinAndFree
<1>11. CASE Signal
  BY <1>11 DEF Signal
<1>. QED
  BY <1>1, <1>2, <1>3, <1>4, <1>5, <1>6, <1>7, <1>8, <1>9, <1>10, <1>11 DEF MainStep

\* The steps of a client worker keep TypeInv.
LEMMA TypeInvClient ==
  ASSUME TypeInv, NEW w \in ClientWorkers, ClientStep(w)
  PROVE  TypeInv'
<1>. USE DEF TypeInv, TypeOK, Hands, MainPC, WorkerPC, Carrying, Goes
<1>1. CASE ClientPop(w)
  <2>1. ASSUME NEW j \in ClientJobs, CS!PopItem(j), Goes(w, "pop", "process"),
               job' = [job EXCEPT ![w] = j],
               UNCHANGED <<prefetchStack, links, heard, fate, shutdown>>
        PROVE  TypeInv'
    <3>1. (clientStack \in CS!StackType)'
      BY <2>1, ClientStackOperations, CSP!PopItemEffect
    <3>. QED  BY <2>1, <3>1
  <2>2. ASSUME CS!PopWait(w), Goes(w, "pop", "popWait"),
               UNCHANGED <<job, prefetchStack, links, heard, fate, shutdown>>
        PROVE  TypeInv'
    <3>1. (clientStack \in CS!StackType)'
      BY <2>2, ClientStackOperations, CSP!PopWaitEffect
    <3>. QED  BY <2>2, <3>1
  <2>3. ASSUME UNCHANGED clientStack, Goes(w, "pop", "exited") \/ Goes(w, "popWait", "pop"),
               UNCHANGED <<job, prefetchStack, links, heard, fate, shutdown>>
        PROVE  TypeInv'
    BY <2>3
  <2>. QED  BY <1>1, <2>1, <2>2, <2>3 DEF ClientPop, CS!PopFinished, CS!Reacquire
<1>2. CASE TimedOut(w)
  BY <1>2 DEF TimedOut
<1>3. CASE HangUp(w)
  BY <1>3 DEF HangUp
<1>4. CASE NothingToRead(w)
  BY <1>4 DEF NothingToRead
<1>5. CASE PartialRequest(w)
  BY <1>5 DEF PartialRequest
<1>6. CASE Answer(w)
  BY <1>6 DEF Answer
<1>7. CASE Dispatch(w)
  <2>1. PICK j \in Unborn(PrefetchJobs) : PS!PushItem(w, j) /\ OneLink(w, j, "live")
    BY <1>7 DEF Dispatch
  <2>2. (prefetchStack \in PS!StackType)'
    BY <2>1, PrefetchStackOperations, PSP!PushItemEffect DEF Unborn
  <2>. QED  BY <1>7, <2>1, <2>2 DEF Dispatch, OneLink, Unborn
<1>8. CASE DispatchBlocks(w)
  <2>1. PICK j \in Unborn(PrefetchJobs) : PS!PushFull(w) /\ OneLink(w, j, "lost")
    BY <1>8 DEF DispatchBlocks
  <2>2. (prefetchStack \in PS!StackType)'
    BY <2>1, PrefetchStackOperations, PSP!PushFullEffect
  <2>. QED  BY <1>8, <2>1, <2>2 DEF DispatchBlocks, OneLink, Unborn
<1>9. CASE DispatchWoken(w)
  BY <1>9 DEF DispatchWoken
<1>10. CASE DispatchFinished(w)
  <2>1. PICK j \in Unborn(PrefetchJobs) : PS!PushFinished(w) /\ OneLink(w, j, "lost")
    BY <1>10 DEF DispatchFinished
  <2>2. (prefetchStack \in PS!StackType)'
    BY <2>1, PrefetchStackOperations, PSP!PushFinishedEffect
  <2>. QED  BY <1>10, <2>1, <2>2 DEF DispatchFinished, OneLink, Unborn
<1>11. CASE DispatchEnds(w)
  BY <1>11 DEF DispatchEnds
<1>12. CASE Destruct(w)
  BY <1>12 DEF Destruct
<1>13. CASE PushBackTest(w)
  BY <1>13 DEF PushBackTest
<1>14. CASE PushBackInsert(w)
  <2>1. (clientStack \in CS!StackType)'
    BY <1>14, ClientStackOperations, CSP!PushBackEffect DEF PushBackInsert
  <2>. QED  BY <1>14, <2>1 DEF PushBackInsert
<1>. QED
  BY <1>1, <1>2, <1>3, <1>4, <1>5, <1>6, <1>7, <1>8, <1>9, <1>10, <1>11, <1>12,
     <1>13, <1>14 DEF ClientStep

\* The steps of a prefetch worker keep TypeInv.
LEMMA TypeInvPrefetch ==
  ASSUME TypeInv, NEW w \in PrefetchWorkers, PrefetchStep(w)
  PROVE  TypeInv'
<1>. USE DEF TypeInv, TypeOK, Hands, MainPC, WorkerPC, Carrying, Goes
<1>1. CASE PrefetchPop(w)
  <2>1. ASSUME NEW j \in PrefetchJobs, PS!PopItem(j), Goes(w, "pop", "process"),
               job' = [job EXCEPT ![w] = j],
               UNCHANGED <<clientStack, links, heard, fate, shutdown>>
        PROVE  TypeInv'
    <3>1. (prefetchStack \in PS!StackType)'
      BY <2>1, PrefetchStackOperations, PSP!PopItemEffect
    <3>. QED  BY <2>1, <3>1
  <2>2. ASSUME PS!PopWait(w), Goes(w, "pop", "popWait"),
               UNCHANGED <<job, clientStack, links, heard, fate, shutdown>>
        PROVE  TypeInv'
    <3>1. (prefetchStack \in PS!StackType)'
      BY <2>2, PrefetchStackOperations, PSP!PopWaitEffect
    <3>. QED  BY <2>2, <3>1
  <2>3. ASSUME UNCHANGED prefetchStack, Goes(w, "pop", "exited") \/ Goes(w, "popWait", "pop"),
               UNCHANGED <<job, clientStack, links, heard, fate, shutdown>>
        PROVE  TypeInv'
    BY <2>3
  <2>. QED  BY <1>1, <2>1, <2>2, <2>3 DEF PrefetchPop, PS!PopFinished, PS!Reacquire
<1>2. CASE Prefetched(w)
  BY <1>2 DEF Prefetched
<1>3. CASE Destruct(w)
  BY <1>3 DEF Destruct
<1>. QED  BY <1>1, <1>2, <1>3 DEF PrefetchStep

\* TypeInv is inductive.
LEMMA TypeInvNext == TypeInv /\ [Next]_vars => TypeInv'
<1>. SUFFICES ASSUME TypeInv, [Next]_vars PROVE TypeInv'
  OBVIOUS
<1>1. CASE SpuriousWakeups
  <2>1. (clientStack \in CS!StackType)' /\ (prefetchStack \in PS!StackType)'
    BY <1>1, ClientStackOperations, PrefetchStackOperations, CSP!SpuriousWakeupEffect,
       PSP!SpuriousWakeupEffect DEF SpuriousWakeups, TypeInv, TypeOK
  <2>. QED  BY <1>1, <2>1 DEF SpuriousWakeups, TypeInv, TypeOK, Hands
<1>2. CASE UNCHANGED vars
  BY <1>2 DEF vars, TypeInv, TypeOK, Hands
<1>. QED
  BY <1>1, <1>2, TypeInvMain, TypeInvClient, TypeInvPrefetch DEF Next, Exited

\* The stacks hold jobs of their own kind, program counters and counters stay
\* in range: in particular the links left to dispatch never go below zero.
THEOREM TypeCorrect == Spec => []TypeOK
<1>1. TypeInv => TypeOK
  BY DEF TypeInv
<1>. QED  BY TypeInvInit, TypeInvNext, <1>1, PTL DEF Spec

-----------------------------------------------------------------------------
(* The moves of jobs.  Of all that a step of the server does, where jobs    *)
(* are (on a stack, in a thread's hands) changes in nine ways only.        *)

cc == clientStack.content
pp == prefetchStack.content

NothingMoves == UNCHANGED <<clientStack.content, prefetchStack.content, job, fate>>

Created(j) ==          \* main gets a job for a connection
  /\ fate[j] = "unborn" /\ job[Main] = NoJob
  /\ job' = [job EXCEPT ![Main] = j]
  /\ fate' = [fate EXCEPT ![j] = "live"]
  /\ cc' = cc /\ pp' = pp

Pushed ==              \* main puts it on the client stack
  /\ job[Main] \in ClientJobs
  /\ Len(cc) < ClientMax
  /\ cc' = Append(cc, job[Main])
  /\ job' = [job EXCEPT ![Main] = NoJob]
  /\ fate' = fate /\ pp' = pp

Removed(s, s2, j) ==   \* s2 is s without its last element, which is j
  /\ Len(s) \in Nat \ {0}
  /\ j = s[Len(s)]
  /\ Len(s2) = Len(s) - 1
  /\ \A i \in 1 .. Len(s) - 1 : s2[i] = s[i]

Taken(w, j) ==         \* a worker takes a job from its stack
  /\ job[w] = NoJob
  /\ job' = [job EXCEPT ![w] = j]
  /\ fate' = fate

TakenByClient(w, j) == Taken(w, j) /\ Removed(cc, cc', j) /\ pp' = pp
TakenByPrefetcher(w, j) == Taken(w, j) /\ Removed(pp, pp', j) /\ cc' = cc

PutBack(w) ==          \* a client worker puts its job at the bottom
  /\ job[w] \in ClientJobs
  /\ Len(cc') = Len(cc) + 1
  /\ cc'[1] = job[w]
  /\ \A i \in 1 .. Len(cc) : cc'[i+1] = cc[i]
  /\ job' = [job EXCEPT ![w] = NoJob]
  /\ fate' = fate /\ pp' = pp

Freed(w) ==            \* a worker destroys its job
  /\ job[w] \in Jobs
  /\ fate' = [fate EXCEPT ![job[w]] = "freed"]
  /\ job' = [job EXCEPT ![w] = NoJob]
  /\ cc' = cc /\ pp' = pp

Dispatched(j) ==       \* a link becomes a job on the prefetch stack
  /\ fate[j] = "unborn"
  /\ Len(pp) < PrefetchMax
  /\ pp' = Append(pp, j)
  /\ fate' = [fate EXCEPT ![j] = "live"]
  /\ job' = job /\ cc' = cc

GivenUp(j) ==          \* a link becomes a job that nobody keeps
  /\ fate[j] = "unborn"
  /\ fate' = [fate EXCEPT ![j] = "lost"]
  /\ job' = job /\ cc' = cc /\ pp' = pp

Move ==
  \/ NothingMoves
  \/ \E j \in ClientJobs : Created(j)
  \/ Pushed
  \/ \E w \in ClientWorkers, j \in ClientJobs : TakenByClient(w, j)
  \/ \E w \in PrefetchWorkers, j \in PrefetchJobs : TakenByPrefetcher(w, j)
  \/ \E w \in ClientWorkers : PutBack(w)
  \/ \E w \in Workers : Freed(w)
  \/ \E j \in PrefetchJobs : Dispatched(j)
  \/ \E j \in PrefetchJobs : GivenUp(j)

\* A step of main moves jobs in one of the nine ways.
LEMMA MainMoves ==
  ASSUME TypeInv, MainStep \/ Accept \/ AcceptFails \/ Signal
  PROVE  Move
<1>. USE DEF cc, pp, Goes
<1>1. CASE Listen \/ CheckShutdown \/ PushRetry \/ JoinAndFree \/ Signal
  BY <1>1 DEF Listen, CheckShutdown, PushRetry, JoinAndFree, Signal, Move, NothingMoves
<1>2. CASE Accept \/ AcceptFails
  <2>1. PICK j \in ClientJobs : fate[j] = "unborn" /\ NewJob(j)
    BY <1>2 DEF Accept, AcceptFails, Unborn
  <2>2. Created(j)
    BY <2>1 DEF NewJob, Created, TypeInv, Hands, Carrying
  <2>. QED  BY <2>2 DEF Move
<1>3. CASE Push
  <2>1. job[Main] \in ClientJobs
    BY <1>3 DEF Push, TypeInv, Hands, Carrying
  <2>2. /\ Len(cc) < ClientMax
        /\ cc' = Append(cc, job[Main])
    BY <1>3, <2>1, ClientStackOperations, CSP!PushItemEffect DEF Push, TypeInv, TypeOK
  <2>3. Pushed
    BY <1>3, <2>1, <2>2 DEF Push, Pushed
  <2>. QED  BY <2>3 DEF Move
<1>4. CASE PushBlocks
  <2>1. cc' = cc
    BY <1>4, ClientStackOperations, CSP!PushFullEffect DEF PushBlocks, TypeInv, TypeOK
  <2>. QED  BY <1>4, <2>1 DEF PushBlocks, Move, NothingMoves
<1>5. CASE FinishClient
  <2>1. cc' = cc
    BY <1>5, ClientStackOperations, CSP!SignalFinishEffect DEF FinishClient, TypeInv, TypeOK
  <2>. QED  BY <1>5, <2>1 DEF FinishClient, Move, NothingMoves
<1>6. CASE FinishPrefetch
  <2>1. pp' = pp
    BY <1>6, PrefetchStackOperations, PSP!SignalFinishEffect DEF FinishPrefetch, TypeInv, TypeOK
  <2>. QED  BY <1>6, <2>1 DEF FinishPrefetch, Move, NothingMoves
<1>. QED  BY <1>1, <1>2, <1>3, <1>4, <1>5, <1>6 DEF MainStep

\* So does a step of a client worker.
LEMMA ClientMoves ==
  ASSUME TypeInv, NEW w \in ClientWorkers, ClientStep(w)
  PROVE  Move
<1>. USE DEF cc, pp, Goes
<1>1. CASE ClientPop(w)
  <2>1. ASSUME NEW j \in ClientJobs, CS!PopItem(j), Goes(w, "pop", "process"),
               job' = [job EXCEPT ![w] = j], UNCHANGED <<prefetchStack, fate>>
        PROVE  Move
    <3>1. Removed(cc, cc', j)
      BY <2>1, ClientStackOperations, CSP!PopItemEffect DEF Removed, TypeInv, TypeOK
    <3>2. TakenByClient(w, j)
      BY <2>1, <3>1 DEF TakenByClient, Taken, TypeInv, Hands, Carrying
    <3>. QED  BY <3>2 DEF Move
  <2>2. ASSUME CS!PopWait(w), UNCHANGED <<job, prefetchStack, fate>>
        PROVE  Move
    <3>1. cc' = cc
      BY <2>2, ClientStackOperations, CSP!PopWaitEffect DEF TypeInv, TypeOK
    <3>. QED  BY <2>2, <3>1 DEF Move, NothingMoves
  <2>3. ASSUME UNCHANGED <<clientStack, job, prefetchStack, fate>>
        PROVE  Move
    BY <2>3 DEF Move, NothingMoves
  <2>. QED  BY <1>1, <2>1, <2>2, <2>3 DEF ClientPop, CS!PopFinished, CS!Reacquire
<1>2. CASE \/ TimedOut(w) \/ HangUp(w) \/ NothingToRead(w) \/ PartialRequest(w)
           \/ Answer(w) \/ DispatchWoken(w) \/ DispatchEnds(w) \/ PushBackTest(w)
  BY <1>2 DEF TimedOut, HangUp, NothingToRead, PartialRequest, Answer, DispatchWoken,
              DispatchEnds, PushBackTest, Move, NothingMoves
<1>3. CASE Dispatch(w)
  <2>1. PICK j \in Unborn(PrefetchJobs) : PS!PushItem(w, j) /\ OneLink(w, j, "live")
    BY <1>3 DEF Dispatch
  <2>2. Len(pp) < PrefetchMax /\ pp' = Append(pp, j)
    BY <2>1, PrefetchStackOperations, PSP!PushItemEffect DEF Unborn, TypeInv, TypeOK
  <2>3. Dispatched(j)
    BY <2>1, <2>2 DEF Dispatched, OneLink, Unborn
  <2>. QED  BY <2>3 DEF Move, Unborn
<1>4. CASE DispatchBlocks(w)
  <2>1. PICK j \in Unborn(PrefetchJobs) : PS!PushFull(w) /\ OneLink(w, j, "lost")
    BY <1>4 DEF DispatchBlocks
  <2>2. pp' = pp
    BY <2>1, PrefetchStackOperations, PSP!PushFullEffect DEF TypeInv, TypeOK
  <2>3. GivenUp(j)
    BY <2>1, <2>2 DEF GivenUp, OneLink, Unborn
  <2>. QED  BY <2>3 DEF Move, Unborn
<1>5. CASE DispatchFinished(w)
  <2>1. PICK j \in Unborn(PrefetchJobs) : PS!PushFinished(w) /\ OneLink(w, j, "lost")
    BY <1>5 DEF DispatchFinished
  <2>2. pp' = pp
    BY <2>1, PrefetchStackOperations, PSP!PushFinishedEffect DEF TypeInv, TypeOK
  <2>3. GivenUp(j)
    BY <2>1, <2>2 DEF GivenUp, OneLink, Unborn
  <2>. QED  BY <2>3 DEF Move, Unborn
<1>6. CASE Destruct(w)
  <2>1. Freed(w)
    BY <1>6 DEF Destruct, Freed, TypeInv, TypeOK, Hands, Carrying
  <2>. QED  BY <2>1 DEF Move
<1>7. CASE PushBackInsert(w)
  <2>1. job[w] \in ClientJobs
    BY <1>7 DEF PushBackInsert, TypeInv, Hands, Carrying
  <2>2. /\ Len(cc') = Len(cc) + 1
        /\ cc'[1] = job[w]
        /\ \A i \in 1 .. Len(cc) : cc'[i+1] = cc[i]
    BY <1>7, <2>1, ClientStackOperations, CSP!PushBackEffect
       DEF PushBackInsert, TypeInv, TypeOK
  <2>3. PutBack(w)
    BY <1>7, <2>1, <2>2 DEF PushBackInsert, PutBack
  <2>. QED  BY <2>3 DEF Move
<1>. QED  BY <1>1, <1>2, <1>3, <1>4, <1>5, <1>6, <1>7 DEF ClientStep

\* So does a step of a prefetch worker.
LEMMA PrefetchMoves ==
  ASSUME TypeInv, NEW w \in PrefetchWorkers, PrefetchStep(w)
  PROVE  Move
<1>. USE DEF cc, pp, Goes
<1>1. CASE PrefetchPop(w)
  <2>1. ASSUME NEW j \in PrefetchJobs, PS!PopItem(j), Goes(w, "pop", "process"),
               job' = [job EXCEPT ![w] = j], UNCHANGED <<clientStack, fate>>
        PROVE  Move
    <3>1. Removed(pp, pp', j)
      BY <2>1, PrefetchStackOperations, PSP!PopItemEffect DEF Removed, TypeInv, TypeOK
    <3>2. TakenByPrefetcher(w, j)
      BY <2>1, <3>1 DEF TakenByPrefetcher, Taken, TypeInv, Hands, Carrying
    <3>. QED  BY <3>2 DEF Move
  <2>2. ASSUME PS!PopWait(w), UNCHANGED <<job, clientStack, fate>>
        PROVE  Move
    <3>1. pp' = pp
      BY <2>2, PrefetchStackOperations, PSP!PopWaitEffect DEF TypeInv, TypeOK
    <3>. QED  BY <2>2, <3>1 DEF Move, NothingMoves
  <2>3. ASSUME UNCHANGED <<clientStack, job, prefetchStack, fate>>
        PROVE  Move
    BY <2>3 DEF Move, NothingMoves
  <2>. QED  BY <1>1, <2>1, <2>2, <2>3 DEF PrefetchPop, PS!PopFinished, PS!Reacquire
<1>2. CASE Prefetched(w)
  BY <1>2 DEF Prefetched, Move, NothingMoves
<1>3. CASE Destruct(w)
  <2>1. Freed(w)
    BY <1>3 DEF Destruct, Freed, TypeInv, TypeOK, Hands, Carrying
  <2>. QED  BY <2>1 DEF Move
<1>. QED  BY <1>1, <1>2, <1>3 DEF PrefetchStep

\* Whatever happens, jobs move in one of the nine ways or not at all.
LEMMA EveryStepIsAMove == TypeInv /\ [Next]_vars => Move
<1>. SUFFICES ASSUME TypeInv, [Next]_vars PROVE Move
  OBVIOUS
<1>1. CASE SpuriousWakeups
  <2>1. cc' = cc /\ pp' = pp
    BY <1>1, ClientStackOperations, PrefetchStackOperations, CSP!SpuriousWakeupEffect,
       PSP!SpuriousWakeupEffect DEF SpuriousWakeups, TypeInv, TypeOK, cc, pp
  <2>. QED  BY <1>1, <2>1 DEF SpuriousWakeups, Move, NothingMoves, cc, pp
<1>2. CASE UNCHANGED vars
  BY <1>2 DEF vars, Move, NothingMoves
<1>. QED
  BY <1>1, <1>2, MainMoves, ClientMoves, PrefetchMoves DEF Next, Exited

-----------------------------------------------------------------------------
(* The slots of the stacks suffice *)

\* The client workers with a job in hand can be counted.
LEMMA HoldersFinite ==
  /\ IsFiniteSet(Holders) /\ Cardinality(Holders) \in Nat
  /\ Cardinality(Holders) <= ReserveSlots /\ ReserveSlots \in Nat
<1>1. Holders \in SUBSET ClientWorkers
  BY DEF Holders
<1>. QED  BY <1>1, FS_Subset, FS_CardinalityType DEF ReserveSlots

\* A client worker that takes a job becomes a holder, one that gives its job
\* away ceases to be one, and nobody else's hands matter.
LEMMA HolderJoins ==
  ASSUME TypeInv, NEW w \in ClientWorkers, NEW j \in ClientJobs, Taken(w, j)
  PROVE  Cardinality(Holders') = Cardinality(Holders) + 1
<1>1. Holders' = Holders \cup {w} /\ w \notin Holders
  BY DEF Holders, Taken, TypeInv, TypeOK
<1>. QED  BY <1>1, HoldersFinite, FS_AddElement

\* A worker that gives its job away makes one holder less.
LEMMA HolderLeaves ==
  ASSUME TypeInv, NEW w \in ClientWorkers, job[w] # NoJob,
         job' = [job EXCEPT ![w] = NoJob]
  PROVE  Cardinality(Holders') = Cardinality(Holders) - 1
<1>1. Holders' = Holders \ {w} /\ w \in Holders
  BY DEF Holders, TypeInv, TypeOK
<1>. QED  BY <1>1, HoldersFinite, FS_RemoveElement

\* As long as no hand changes the holders are the same.
LEMMA HoldersStay ==
  ASSUME TypeInv, NEW t \in {Main} \cup PrefetchWorkers, NEW j,
         job' = [job EXCEPT ![t] = j]
  PROVE  Holders' = Holders
BY DEF Holders, TypeInv, TypeOK

\* Empty stacks fit.
LEMMA WithinSlotsInit == Init => WithinSlots
<1>. SUFFICES ASSUME Init PROVE WithinSlots
  OBVIOUS
<1>1. Len(cc) = 0 /\ Len(pp) = 0
  BY DEF Init, CS!Construct, CS!Empty, PS!Construct, PS!Empty, cc, pp
<1>. QED  BY <1>1, HoldersFinite DEF WithinSlots, cc, pp

\* No move of a job overruns a stack.
LEMMA WithinSlotsMove == TypeInv /\ WithinSlots /\ Move => WithinSlots'
<1>. SUFFICES ASSUME TypeInv, WithinSlots, Move PROVE WithinSlots'
  OBVIOUS
<1>0. /\ cc \in Seq(ClientJobs) /\ pp \in Seq(PrefetchJobs)
      /\ Len(cc) \in Nat /\ Len(pp) \in Nat
      /\ Len(cc) + Cardinality(Holders) <= ClientMax + ReserveSlots
      /\ Len(pp) <= PrefetchMax
      /\ Cardinality(Holders) \in Nat /\ ReserveSlots \in Nat
      /\ Cardinality(Holders) <= ReserveSlots
  BY HoldersFinite
     DEF TypeInv, TypeOK, CS!StackType, PS!StackType, WithinSlots, cc, pp
<1>. SUFFICES /\ Len(cc') + Cardinality(Holders') <= ClientMax + ReserveSlots
              /\ Len(pp') <= PrefetchMax
  BY DEF WithinSlots, cc, pp, ReserveSlots
<1>1. CASE NothingMoves \/ \E j \in PrefetchJobs : GivenUp(j)
  <2>1. cc' = cc /\ pp' = pp /\ Holders' = Holders
    BY <1>1 DEF NothingMoves, GivenUp, Holders, cc, pp
  <2>. QED  BY <2>1, <1>0
<1>2. CASE \E j \in ClientJobs : Created(j)
  <2>1. Holders' = Holders
    BY <1>2, HoldersStay DEF Created
  <2>. QED  BY <1>0, <1>2, <2>1 DEF Created
<1>3. CASE Pushed
  <2>1. Holders' = Holders
    BY <1>3, HoldersStay DEF Pushed
  <2>. QED  BY <1>0, <1>3, <2>1 DEF Pushed
<1>4. CASE \E w \in ClientWorkers, j \in ClientJobs : TakenByClient(w, j)
  <2>1. Cardinality(Holders') = Cardinality(Holders) + 1
    BY <1>4, HolderJoins DEF TakenByClient
  <2>. QED  BY <1>0, <1>4, <2>1 DEF TakenByClient, Removed
<1>5. CASE \E w \in PrefetchWorkers, j \in PrefetchJobs : TakenByPrefetcher(w, j)
  <2>1. Holders' = Holders
    BY <1>5, HoldersStay DEF TakenByPrefetcher, Taken
  <2>. QED  BY <1>0, <1>5, <2>1 DEF TakenByPrefetcher, Removed
<1>6. CASE \E w \in ClientWorkers : PutBack(w)
  <2>1. Cardinality(Holders') = Cardinality(Holders) - 1
    BY <1>6, HolderLeaves DEF PutBack
  <2>. QED  BY <1>0, <1>6, <2>1 DEF PutBack
<1>7. CASE \E w \in Workers : Freed(w)
  <2>1. PICK w \in Workers : Freed(w)
    BY <1>7
  <2>2. \/ Holders' = Holders
        \/ Cardinality(Holders') = Cardinality(Holders) - 1
    BY <2>1, HolderLeaves, HoldersStay DEF Freed
  <2>. QED  BY <1>0, <2>1, <2>2 DEF Freed
<1>8. CASE \E j \in PrefetchJobs : Dispatched(j)
  <2>1. Holders' = Holders
    BY <1>8 DEF Dispatched, Holders
  <2>. QED  BY <1>0, <1>8, <2>1 DEF Dispatched
<1>. QED
  BY <1>1, <1>2, <1>3, <1>4, <1>5, <1>6, <1>7, <1>8 DEF Move

\* The client stack plus the jobs in the hands of its workers never outgrow
\* max_job_count and one reserve slot per worker, so job_stack_push_back,
\* which looks at no bound, always finds a slot in content_base.
THEOREM SlotsSuffice == Spec => []WithinSlots
<1>1. TypeInv /\ WithinSlots /\ [Next]_vars => WithinSlots'
  BY EveryStepIsAMove, WithinSlotsMove
<1>. QED  BY TypeInvInit, TypeInvNext, WithinSlotsInit, <1>1, PTL DEF Spec

-----------------------------------------------------------------------------
(* One owner *)

In(s, j) == \E i \in DOMAIN s : s[i] = j

\* What is on a sequence after an Append.
LEMMA AppendIn ==
  ASSUME NEW S, NEW s \in Seq(S), NEW x \in S
  PROVE  /\ \A j : In(Append(s, x), j) <=> In(s, j) \/ j = x
         /\ Distinct(s) /\ ~In(s, x) => Distinct(Append(s, x))
<1>1. /\ Len(s) \in Nat /\ DOMAIN s = 1..Len(s)
      /\ DOMAIN Append(s, x) = 1..Len(s)+1
      /\ \A i \in 1..Len(s) : Append(s, x)[i] = s[i]
      /\ Append(s, x)[Len(s)+1] = x
  OBVIOUS
<1>2. \A j : In(Append(s, x), j) <=> In(s, j) \/ j = x
  BY <1>1 DEF In
<1>3. Distinct(s) /\ ~In(s, x) => Distinct(Append(s, x))
  BY <1>1 DEF In, Distinct
<1>. QED  BY <1>2, <1>3

\* What is left after the last element is taken.
LEMMA RemovedIn ==
  ASSUME NEW S, NEW s \in Seq(S), NEW s2 \in Seq(S), NEW x, Removed(s, s2, x),
         Distinct(s)
  PROVE  /\ In(s, x)
         /\ \A j : In(s2, j) <=> In(s, j) /\ j # x
         /\ Distinct(s2)
<1>. DEFINE n == Len(s)
<1>1. /\ n \in Nat \ {0} /\ DOMAIN s = 1..n /\ DOMAIN s2 = 1..n-1
      /\ x = s[n]
      /\ \A i \in 1..n-1 : s2[i] = s[i]
  BY DEF Removed
<1>. HIDE DEF n
<1>2. \A i \in 1..n : i = n \/ i \in 1..n-1
  BY <1>1
<1>3. \A i \in 1..n-1 : i \in 1..n /\ i # n
  BY <1>1
<1>4. n \in 1..n
  BY <1>1
<1>5. \A j : In(s2, j) => In(s, j) /\ j # x
  BY <1>1, <1>3, <1>4 DEF In, Distinct
<1>6. \A j : In(s, j) /\ j # x => In(s2, j)
  BY <1>1, <1>2 DEF In
<1>7. In(s, x) /\ Distinct(s2)
  BY <1>1, <1>3, <1>4 DEF In, Distinct
<1>. QED  BY <1>5, <1>6, <1>7

\* What is on a sequence after a Cons.
LEMMA BottomIn ==
  ASSUME NEW S, NEW s \in Seq(S), NEW s2 \in Seq(S), NEW x,
         Len(s2) = Len(s) + 1, s2[1] = x, \A i \in 1 .. Len(s) : s2[i+1] = s[i]
  PROVE  /\ \A j : In(s2, j) <=> In(s, j) \/ j = x
         /\ Distinct(s) /\ ~In(s, x) => Distinct(s2)
<1>. DEFINE n == Len(s)
<1>1. /\ n \in Nat /\ DOMAIN s = 1..n /\ DOMAIN s2 = 1..n+1
      /\ s2[1] = x /\ \A i \in 1..n : s2[i+1] = s[i]
  OBVIOUS
<1>. HIDE DEF n
<1>2. \A i \in 1..n+1 : i = 1 \/ (i-1 \in 1..n /\ s2[i] = s[i-1])
  <2>1. ASSUME NEW i \in 1..n+1, i # 1 PROVE i-1 \in 1..n /\ (i-1)+1 = i
    BY <1>1, <2>1
  <2>. QED  BY <1>1, <2>1
<1>3. 1 \in 1..n+1 /\ \A i \in 1..n : i+1 \in 1..n+1
  BY <1>1
<1>4. \A j : In(s2, j) <=> In(s, j) \/ j = x
  BY <1>1, <1>2, <1>3 DEF In
<1>5. ASSUME Distinct(s), ~In(s, x) PROVE Distinct(s2)
  <2>1. ASSUME NEW i \in 1..n+1, NEW k \in 1..n+1, s2[i] = s2[k], i # k PROVE FALSE
    <3>1. ASSUME NEW m \in 1..n+1, m # 1, s2[m] = x PROVE FALSE
      BY <1>1, <1>2, <1>5, <3>1 DEF In
    <3>2. CASE i # 1 /\ k # 1
      <4>1. i-1 \in 1..n /\ k-1 \in 1..n /\ s[i-1] = s[k-1]
        BY <1>2, <2>1, <3>2
      <4>2. i-1 = k-1
        BY <1>1, <1>5, <4>1 DEF Distinct
      <4>. QED  BY <2>1, <4>2
    <3>. QED  BY <1>1, <2>1, <3>1, <3>2
  <2>. QED  BY <1>1, <2>1 DEF Distinct
<1>. QED  BY <1>4, <1>5

\* Being queued is being on one of the two stacks.
LEMMA QueuedIsIn == \A j : Queued(j) <=> In(cc, j) \/ In(pp, j)
BY DEF Queued, In, cc, pp

\* The same in the next state.
LEMMA QueuedIsInNext == \A j : Queued(j)' <=> In(cc', j) \/ In(pp', j)
BY DEF Queued, In, cc, pp

\* The stacks hold jobs of disjoint kinds.
LEMMA InTypes ==
  ASSUME TypeInv
  PROVE  /\ cc \in Seq(ClientJobs) /\ pp \in Seq(PrefetchJobs)
         /\ \A j : In(cc, j) => j \in ClientJobs
         /\ \A j : In(pp, j) => j \in PrefetchJobs
<1>1. cc \in Seq(ClientJobs) /\ pp \in Seq(PrefetchJobs)
  BY DEF TypeInv, TypeOK, CS!StackType, PS!StackType, cc, pp
<1>. QED  BY <1>1, ElementOfSeq DEF In

\* Before main listens no job is live.
LEMMA OneOwnerInit == Init => OneOwner
<1>. SUFFICES ASSUME Init PROVE OneOwner
  OBVIOUS
<1>1. cc = <<>> /\ pp = <<>>
  BY DEF Init, CS!Construct, CS!Empty, PS!Construct, PS!Empty, cc, pp
<1>2. \A t \in Threads : job[t] = NoJob
  BY DEF Init
<1>. QED  BY <1>1, <1>2 DEF Init, OneOwner, Queued, Held, Distinct, cc, pp

\* OneOwner, with the content of the stacks through In.
LEMMA OneOwnerIs ==
  OneOwner <=>
    /\ \A j \in Jobs : fate[j] = "live" <=> In(cc, j) \/ In(pp, j) \/ Held(j)
    /\ \A j \in Jobs : ~((In(cc, j) \/ In(pp, j)) /\ Held(j))
    /\ Distinct(cc) /\ Distinct(pp)
    /\ \A t, u \in Threads : job[t] = job[u] /\ job[t] # NoJob => t = u
BY DEF OneOwner, Queued, In, cc, pp

\* No move of a job gives it a second owner, or none.
LEMMA OneOwnerMove == TypeInv /\ TypeInv' /\ OneOwner /\ Move => OneOwner'
<1>. SUFFICES ASSUME TypeInv, TypeInv', OneOwner, Move
              PROVE  /\ \A j \in Jobs : fate'[j] = "live" <=> In(cc', j) \/ In(pp', j) \/ Held(j)'
                     /\ \A j \in Jobs : ~((In(cc', j) \/ In(pp', j)) /\ Held(j)')
                     /\ Distinct(cc') /\ Distinct(pp')
                     /\ \A t, u \in Threads : job'[t] = job'[u] /\ job'[t] # NoJob => t = u
  BY DEF OneOwner, Queued, In, cc, pp, Distinct
<1>1. /\ \A j \in Jobs : fate[j] = "live" <=> In(cc, j) \/ In(pp, j) \/ Held(j)
      /\ \A j \in Jobs : ~((In(cc, j) \/ In(pp, j)) /\ Held(j))
      /\ Distinct(cc) /\ Distinct(pp)
      /\ \A t, u \in Threads : job[t] = job[u] /\ job[t] # NoJob => t = u
  BY OneOwnerIs
<1>2. /\ cc \in Seq(ClientJobs) /\ pp \in Seq(PrefetchJobs)
      /\ \A j : In(cc, j) => j \in ClientJobs
      /\ \A j : In(pp, j) => j \in PrefetchJobs
  BY InTypes
<1>3. /\ cc' \in Seq(ClientJobs) /\ pp' \in Seq(PrefetchJobs)
  BY DEF TypeInv, TypeOK, CS!StackType, PS!StackType, cc, pp
<1>4. fate \in [Jobs -> {"unborn", "live", "freed", "lost"}] /\ job \in [Threads -> Jobs \cup {NoJob}]
  BY DEF TypeInv, TypeOK
<1>5. CASE NothingMoves
  <2>1. cc' = cc /\ pp' = pp /\ fate' = fate /\ job' = job
    BY <1>5 DEF NothingMoves, cc, pp
  <2>. QED  BY <1>1, <2>1 DEF Held
<1>6. CASE \E j \in ClientJobs : Created(j)
  BY <1>1, <1>2, <1>4, <1>6 DEF Created, Held
<1>7. CASE Pushed
  <2>1. /\ \A j : In(cc', j) <=> In(cc, j) \/ j = job[Main]
        /\ Distinct(cc')
    BY <1>1, <1>2, <1>7, AppendIn DEF Pushed, Held
  <2>. QED  BY <1>1, <1>2, <1>4, <1>7, <2>1 DEF Pushed, Held
<1>8. CASE \E w \in ClientWorkers, j \in ClientJobs : TakenByClient(w, j)
  <2>1. PICK w \in ClientWorkers, j \in ClientJobs : TakenByClient(w, j)
    BY <1>8
  <2>2. /\ In(cc, j)
        /\ \A k : In(cc', k) <=> In(cc, k) /\ k # j
        /\ Distinct(cc')
    BY <1>1, <1>2, <1>3, <2>1, RemovedIn DEF TakenByClient
  <2>. QED  BY <1>1, <1>2, <1>4, <2>1, <2>2 DEF TakenByClient, Taken, Held
<1>9. CASE \E w \in PrefetchWorkers, j \in PrefetchJobs : TakenByPrefetcher(w, j)
  <2>1. PICK w \in PrefetchWorkers, j \in PrefetchJobs : TakenByPrefetcher(w, j)
    BY <1>9
  <2>2. /\ In(pp, j)
        /\ \A k : In(pp', k) <=> In(pp, k) /\ k # j
        /\ Distinct(pp')
    BY <1>1, <1>2, <1>3, <2>1, RemovedIn DEF TakenByPrefetcher
  <2>. QED  BY <1>1, <1>2, <1>4, <2>1, <2>2 DEF TakenByPrefetcher, Taken, Held
<1>10. CASE \E w \in ClientWorkers : PutBack(w)
  <2>1. PICK w \in ClientWorkers : PutBack(w)
    BY <1>10
  <2>2. /\ \A j : In(cc', j) <=> In(cc, j) \/ j = job[w]
        /\ Distinct(cc')
    <3>1. /\ job[w] \in ClientJobs /\ Len(cc') = Len(cc) + 1 /\ cc'[1] = job[w]
          /\ \A i \in 1 .. Len(cc) : cc'[i+1] = cc[i]
      BY <2>1 DEF PutBack
    <3>2. ~ In(cc, job[w])
      <4>1. Held(job[w]) /\ job[w] \in Jobs
        BY <3>1 DEF Held, Threads, Workers, Jobs
      <4>. QED  BY <1>1, <4>1
    <3>. QED  BY <1>1, <1>2, <1>3, <3>1, <3>2, BottomIn
  <2>3. /\ w \in Threads /\ job[w] \in Jobs /\ job' = [job EXCEPT ![w] = NoJob]
        /\ fate' = fate /\ pp' = pp
    BY <2>1 DEF PutBack, Threads, Workers, Jobs
  <2>4. \A j \in Jobs : Held(j)' <=> Held(j) /\ j # job[w]
    BY <1>1, <1>4, <2>3, JobsAssumption DEF Held
  <2>5. \A t, u \in Threads : job'[t] = job'[u] /\ job'[t] # NoJob => t = u
    BY <1>1, <1>4, <2>3
  <2>6. Held(job[w])
    BY <2>3 DEF Held
  <2>. QED  BY <1>1, <2>2, <2>3, <2>4, <2>5, <2>6
<1>11. CASE \E w \in Workers : Freed(w)
  BY <1>1, <1>2, <1>4, <1>11 DEF Freed, Held
<1>12. CASE \E j \in PrefetchJobs : Dispatched(j)
  <2>1. PICK j \in PrefetchJobs : Dispatched(j)
    BY <1>12
  <2>2. /\ \A k : In(pp', k) <=> In(pp, k) \/ k = j
        /\ Distinct(pp')
    BY <1>1, <1>2, <2>1, AppendIn DEF Dispatched
  <2>. QED  BY <1>1, <1>2, <1>4, <2>1, <2>2 DEF Dispatched, Held
<1>13. CASE \E j \in PrefetchJobs : GivenUp(j)
  BY <1>1, <1>2, <1>4, <1>13 DEF GivenUp, Held
<1>. QED
  BY <1>5, <1>6, <1>7, <1>8, <1>9, <1>10, <1>11, <1>12, <1>13 DEF Move

\* No job is on a stack twice, on a stack and in a thread's hands, or in the
\* hands of two threads; none that was freed is reachable; none is dropped
\* without its fate saying so.
THEOREM JobsHaveOneOwner == Spec => []OneOwner
<1>1. TypeInv /\ OneOwner /\ [Next]_vars => OneOwner'
  BY EveryStepIsAMove, TypeInvNext, OneOwnerMove
<1>. QED  BY TypeInvInit, TypeInvNext, OneOwnerInit, <1>1, PTL DEF Spec

-----------------------------------------------------------------------------
(* Refinement of JobLifecycle *)

\* The life of a job as JobLifecycle sees it.
LifeOf(j) ==
  IF fate[j] # "live" THEN fate[j]
  ELSE IF In(cc, j) \/ In(pp, j) THEN "queued" ELSE "held"

Life == [j \in Jobs |->
           IF fate[j] # "live" THEN fate[j]
           ELSE IF Queued(j) THEN "queued" ELSE "held"]

\* The abstract state of a job, from its fate and from where it is.
LEMMA LifeIs ==
  /\ Life = [j \in Jobs |-> LifeOf(j)]
  /\ Life' = [j \in Jobs |-> LifeOf(j)']
BY DEF Life, LifeOf, Queued, In, cc, pp

\* The formulas of the instance, written out.
LEMMA LifecycleIs ==
  /\ Lifecycle!Init <=> Life = [j \in Jobs |-> "unborn"]
  /\ \A j, from, to :
       Lifecycle!Moves(j, from, to) <=>
         Life[j] = from /\ Life' = [Life EXCEPT ![j] = to]
BY DEF Life, Lifecycle!Init, Lifecycle!Moves, Lifecycle!Jobs

\* One job's life goes on, the others' do not.
OnlyMoves(j, from, to) ==
  /\ LifeOf(j) = from
  /\ LifeOf(j)' = to
  /\ \A k \in Jobs \ {j} : LifeOf(k)' = LifeOf(k)

\* When one job changes its state the abstract step is a move of it.
LEMMA OneLifeMoves ==
  ASSUME NEW j \in Jobs, NEW from, NEW to, OnlyMoves(j, from, to)
  PROVE  Lifecycle!Moves(j, from, to)
<1>1. Life' = [Life EXCEPT ![j] = to]
  BY LifeIs DEF OnlyMoves
<1>. QED  BY <1>1, LifecycleIs, LifeIs DEF OnlyMoves

\* Every move of a job is a step of JobLifecycle or a stutter.
LEMMA MoveImplementsNext ==
  ASSUME TypeInv, TypeInv', OneOwner, OneOwner', Move
  PROVE  Lifecycle!Next \/ Life' = Life
<1>1. /\ \A j \in Jobs : fate[j] = "live" <=> In(cc, j) \/ In(pp, j) \/ Held(j)
      /\ \A j \in Jobs : ~((In(cc, j) \/ In(pp, j)) /\ Held(j))
      /\ Distinct(cc) /\ Distinct(pp)
  BY OneOwnerIs
<1>2. /\ \A j \in Jobs : fate'[j] = "live" <=> In(cc', j) \/ In(pp', j) \/ Held(j)'
      /\ \A j \in Jobs : ~((In(cc', j) \/ In(pp', j)) /\ Held(j)')
  BY DEF OneOwner, Queued, In, cc, pp
<1>3. /\ cc \in Seq(ClientJobs) /\ pp \in Seq(PrefetchJobs)
      /\ cc' \in Seq(ClientJobs) /\ pp' \in Seq(PrefetchJobs)
      /\ fate \in [Jobs -> {"unborn", "live", "freed", "lost"}]
      /\ job \in [Threads -> Jobs \cup {NoJob}]
      /\ \A j : In(cc, j) => j \in ClientJobs
      /\ \A j : In(pp, j) => j \in PrefetchJobs
  BY InTypes DEF TypeInv, TypeInv, TypeOK, CS!StackType, PS!StackType, cc, pp
<1>4. \A j : LifeOf(j)' = IF fate'[j] # "live" THEN fate'[j]
                          ELSE IF In(cc', j) \/ In(pp', j) THEN "queued" ELSE "held"
  BY DEF LifeOf, In, cc, pp
<1>. USE DEF OnlyMoves, LifeOf
<1>5. CASE NothingMoves
  <2>1. cc' = cc /\ pp' = pp /\ fate' = fate
    BY <1>5 DEF NothingMoves, cc, pp
  <2>. QED  BY <1>4, <2>1, LifeIs
<1>6. CASE \E j \in ClientJobs : Created(j)
  <2>1. PICK j \in ClientJobs : Created(j)
    BY <1>6
  <2>2. OnlyMoves(j, "unborn", "held")
    BY <1>1, <1>3, <1>4, <2>1 DEF Created
  <2>. QED  BY <2>2, OneLifeMoves DEF Lifecycle!Next, Lifecycle!Receive
<1>7. CASE Pushed
  <2>1. PICK j \in ClientJobs : j = job[Main]
    BY <1>7 DEF Pushed
  <2>2. \A k : In(cc', k) <=> In(cc, k) \/ k = j
    BY <1>3, <1>7, <2>1, AppendIn DEF Pushed
  <2>3. Held(j)
    BY <2>1 DEF Held
  <2>4. OnlyMoves(j, "held", "queued")
    BY <1>1, <1>3, <1>4, <1>7, <2>1, <2>2, <2>3 DEF Pushed
  <2>. QED  BY <2>4, OneLifeMoves DEF Lifecycle!Next, Lifecycle!Queue
<1>8. CASE \E w \in ClientWorkers, j \in ClientJobs : TakenByClient(w, j)
  <2>1. PICK w \in ClientWorkers, j \in ClientJobs : TakenByClient(w, j)
    BY <1>8
  <2>2. In(cc, j) /\ \A k : In(cc', k) <=> In(cc, k) /\ k # j
    BY <1>1, <1>3, <2>1, RemovedIn DEF TakenByClient
  <2>3. OnlyMoves(j, "queued", "held")
    BY <1>1, <1>3, <1>4, <2>1, <2>2 DEF TakenByClient, Taken
  <2>. QED  BY <2>3, OneLifeMoves DEF Lifecycle!Next, Lifecycle!Take, Lifecycle!Jobs
<1>9. CASE \E w \in PrefetchWorkers, j \in PrefetchJobs : TakenByPrefetcher(w, j)
  <2>1. PICK w \in PrefetchWorkers, j \in PrefetchJobs : TakenByPrefetcher(w, j)
    BY <1>9
  <2>2. In(pp, j) /\ \A k : In(pp', k) <=> In(pp, k) /\ k # j
    BY <1>1, <1>3, <2>1, RemovedIn DEF TakenByPrefetcher
  <2>3. OnlyMoves(j, "queued", "held")
    BY <1>1, <1>3, <1>4, <2>1, <2>2 DEF TakenByPrefetcher, Taken
  <2>. QED  BY <2>3, OneLifeMoves DEF Lifecycle!Next, Lifecycle!Take, Lifecycle!Jobs
<1>10. CASE \E w \in ClientWorkers : PutBack(w)
  <2>1. PICK w \in ClientWorkers, j \in ClientJobs : PutBack(w) /\ j = job[w]
    BY <1>10 DEF PutBack
  <2>2. \A k : In(cc', k) <=> In(cc, k) \/ k = j
    BY <1>3, <2>1, BottomIn DEF PutBack
  <2>3. Held(j)
    BY <2>1 DEF Held
  <2>4. OnlyMoves(j, "held", "queued")
    BY <1>1, <1>3, <1>4, <2>1, <2>2, <2>3 DEF PutBack
  <2>. QED  BY <2>4, OneLifeMoves DEF Lifecycle!Next, Lifecycle!Queue
<1>11. CASE \E w \in Workers : Freed(w)
  <2>1. PICK w \in Workers, j \in Jobs : Freed(w) /\ j = job[w]
    BY <1>11 DEF Freed
  <2>2. Held(j)
    BY <2>1 DEF Held
  <2>3. OnlyMoves(j, "held", "freed")
    BY <1>1, <1>3, <1>4, <2>1, <2>2 DEF Freed
  <2>. QED
    BY <2>3, OneLifeMoves DEF Lifecycle!Next, Lifecycle!Destroy, Lifecycle!Jobs
<1>12. CASE \E j \in PrefetchJobs : Dispatched(j)
  <2>1. PICK j \in PrefetchJobs : Dispatched(j)
    BY <1>12
  <2>2. \A k : In(pp', k) <=> In(pp, k) \/ k = j
    BY <1>3, <2>1, AppendIn DEF Dispatched
  <2>3. OnlyMoves(j, "unborn", "queued")
    BY <1>1, <1>3, <1>4, <2>1, <2>2 DEF Dispatched
  <2>. QED  BY <2>3, OneLifeMoves DEF Lifecycle!Next, Lifecycle!Submit
<1>13. CASE \E j \in PrefetchJobs : GivenUp(j)
  <2>1. PICK j \in PrefetchJobs : GivenUp(j)
    BY <1>13
  <2>2. OnlyMoves(j, "unborn", "lost")
    BY <1>3, <1>4, <2>1 DEF GivenUp
  <2>. QED  BY <2>2, OneLifeMoves DEF Lifecycle!Next, Lifecycle!Drop
<1>. QED
  BY <1>5, <1>6, <1>7, <1>8, <1>9, <1>10, <1>11, <1>12, <1>13 DEF Move

\* No job is born before main listens, as JobLifecycle wants.
LEMMA InitImplementsInit == Init => Lifecycle!Init
<1>. SUFFICES ASSUME Init PROVE Life = [j \in Jobs |-> "unborn"]
  BY LifecycleIs
<1>. QED  BY LifeIs DEF Init, LifeOf

\* The server implements JobLifecycle: whatever the stacks, locks and threads
\* do, a job only ever goes from one owner to the next, a client's job is
\* never lost, and what was freed stays freed.
THEOREM ServerImplementsLifecycle == Spec => ImplementsLifecycle
<1>1. Init => Lifecycle!Init
  BY InitImplementsInit
<1>2. TypeInv /\ TypeInv' /\ OneOwner /\ OneOwner' /\ [Next]_vars
        => [Lifecycle!Next]_Life
  BY EveryStepIsAMove, MoveImplementsNext
<1>3. TypeInv /\ OneOwner /\ [Next]_vars => TypeInv' /\ OneOwner'
  BY EveryStepIsAMove, TypeInvNext, OneOwnerMove
<1>4. Spec => Lifecycle!Init /\ [][Lifecycle!Next]_Life
  BY <1>1, <1>2, <1>3, TypeInvInit, OneOwnerInit, PTL DEF Spec
<1>. QED
  BY <1>4, PTL DEF ImplementsLifecycle, Lifecycle!Spec, Life

-----------------------------------------------------------------------------
(* No lost wakeup, no stranded producer, a clean shutdown *)

Waiters ==
  /\ \A w \in clientStack.notEmpty : w \in ClientWorkers /\ pc[w] = "popWait"
  /\ \A w \in prefetchStack.notEmpty : w \in PrefetchWorkers /\ pc[w] = "popWait"
  /\ clientStack.notFull \subseteq {Main}
  /\ prefetchStack.notFull \subseteq ClientWorkers

\* Workers leave only after signal_finish, which main calls after its last
\* push, and main leaves after the workers.
Phases ==
  /\ clientStack.finished => pc[Main] \in {"finishPrefetch", "join", "done"}
  /\ \A w \in ClientWorkers : pc[w] = "exited" => clientStack.finished
  /\ \A w \in PrefetchWorkers : pc[w] = "exited" => prefetchStack.finished
  /\ pc[Main] = "done" => \A w \in Workers : pc[w] = "exited"

\* Every pop since the stack was full has woken a producer: those that still
\* wait are outnumbered by the jobs above an allowance of one per producer.
Room ==
  /\ clientStack.notFull # {} => Len(cc) >= ClientMax
  /\ prefetchStack.notFull # {} =>
       Cardinality(prefetchStack.notFull) + PrefetchMax <= Len(pp) + ReserveSlots

Sync == Waiters /\ Phases /\ NoLostWakeup /\ Room

\* All workers are about to pop and nobody waits at first.
LEMMA SyncInit == Init => Sync
<1>. SUFFICES ASSUME Init PROVE Sync
  OBVIOUS
<1>1. /\ cc = <<>> /\ pp = <<>> /\ ~clientStack.finished /\ ~prefetchStack.finished
      /\ clientStack.notEmpty = {} /\ clientStack.notFull = {}
      /\ prefetchStack.notEmpty = {} /\ prefetchStack.notFull = {}
  BY DEF Init, CS!Construct, CS!Empty, PS!Construct, PS!Empty, cc, pp
<1>2. pc[Main] = "listen" /\ \A w \in Workers : pc[w] = "pop"
  BY DEF Init
<1>. QED  BY <1>1, <1>2 DEF Sync, Waiters, Phases, NoLostWakeup, Room, cc, pp

\* Lengths and waiters of typed stacks.
LEMMA StackFacts ==
  ASSUME TypeInv
  PROVE  /\ cc \in Seq(ClientJobs) /\ Len(cc) \in Nat /\ (cc # <<>> => Len(cc) > 0)
         /\ pp \in Seq(PrefetchJobs) /\ Len(pp) \in Nat /\ (pp # <<>> => Len(pp) > 0)
         /\ (cc = <<>> => Len(cc) = 0) /\ (pp = <<>> => Len(pp) = 0)
         /\ clientStack.finished \in BOOLEAN /\ prefetchStack.finished \in BOOLEAN
<1>1. cc \in Seq(ClientJobs) /\ pp \in Seq(PrefetchJobs)
  BY DEF TypeInv, TypeOK, CS!StackType, PS!StackType, cc, pp
<1>2. clientStack.finished \in BOOLEAN /\ prefetchStack.finished \in BOOLEAN
  BY DEF TypeInv, TypeOK, CS!StackType, PS!StackType
<1>. QED  BY <1>1, <1>2, EmptySeq

\* Steps that touch neither stack.
Untouched(t) ==
  /\ UNCHANGED <<clientStack, prefetchStack>>
  /\ \E from, to \in MainPC \cup WorkerPC :
       /\ Goes(t, from, to)
       /\ from = "popWait" => t \notin clientStack.notEmpty \cup prefetchStack.notEmpty
       /\ t # Main => to \notin {"exited"}
       /\ t = Main => from \notin {"finishClient", "finishPrefetch"}
       /\ t = Main /\ to = "done" => \A w \in Workers : pc[w] = "exited"
       /\ t = Main /\ from \in {"finishPrefetch", "join", "done"} => to = "done"
       /\ from \notin {"exited", "done"}

\* A thread that touches no stack disturbs no condition of Sync.
LEMMA SyncUntouched ==
  ASSUME TypeInv, Sync, NEW t \in Threads, Untouched(t)
  PROVE  Sync'
<1>. USE DEF Goes, TypeInv, TypeOK
<1>1. PICK from \in MainPC \cup WorkerPC, to \in MainPC \cup WorkerPC :
       /\ Goes(t, from, to)
       /\ from = "popWait" => t \notin clientStack.notEmpty \cup prefetchStack.notEmpty
       /\ t # Main => to \notin {"exited"}
       /\ t = Main => from \notin {"finishClient", "finishPrefetch"}
       /\ t = Main /\ to = "done" => \A w \in Workers : pc[w] = "exited"
       /\ t = Main /\ from \in {"finishPrefetch", "join", "done"} => to = "done"
       /\ from \notin {"exited", "done"}
  BY DEF Untouched
<1>2. UNCHANGED <<clientStack, prefetchStack>>
  BY DEF Untouched
<1>3. Waiters'
  BY <1>1, <1>2 DEF Sync, Waiters
<1>4. Phases'
  BY <1>1, <1>2 DEF Sync, Phases
<1>5. NoLostWakeup'
  BY <1>1, <1>2 DEF Sync, NoLostWakeup
<1>6. Room'
  BY <1>2 DEF Sync, Room, ReserveSlots, cc, pp
<1>. QED  BY <1>3, <1>4, <1>5, <1>6 DEF Sync

\* The dispatchers that wait for room can be counted.
LEMMA WaitersFinite ==
  ASSUME Waiters
  PROVE  /\ IsFiniteSet(prefetchStack.notFull)
         /\ Cardinality(prefetchStack.notFull) \in Nat
         /\ Cardinality(prefetchStack.notFull) <= ReserveSlots
<1>1. prefetchStack.notFull \in SUBSET ClientWorkers
  BY DEF Waiters
<1>. QED  BY <1>1, FS_Subset, FS_CardinalityType DEF ReserveSlots

\* The steps of main keep Sync.
LEMMA SyncMain ==
  ASSUME TypeInv, Sync, MainStep \/ Accept \/ AcceptFails \/ Signal
  PROVE  Sync'
<1>. USE DEF Goes, MainPC, WorkerPC
<1>0. pc \in [Threads -> MainPC \cup WorkerPC]
  BY DEF TypeInv, TypeOK
<1>1. CASE Listen \/ CheckShutdown \/ Accept \/ AcceptFails \/ PushRetry \/ JoinAndFree
  <2>1. Untouched(Main)
    BY <1>0, <1>1 DEF Listen, CheckShutdown, Accept, AcceptFails, NewJob, PushRetry,
       JoinAndFree, Untouched
  <2>. QED  BY <2>1, SyncUntouched
<1>2. CASE Signal
  BY <1>2 DEF Signal, Sync, Waiters, Phases, NoLostWakeup, Room, ReserveSlots, cc, pp
<1>3. CASE Push
  <2>1. job[Main] \in ClientJobs
    BY <1>3 DEF Push, TypeInv, Hands, Carrying
  <2>2. /\ ~clientStack.finished
        /\ Len(cc) < ClientMax /\ cc' = Append(cc, job[Main])
        /\ clientStack'.notEmpty \subseteq clientStack.notEmpty
        /\ clientStack.notEmpty # {} =>
             \E u \in clientStack.notEmpty : clientStack'.notEmpty = clientStack.notEmpty \ {u}
        /\ clientStack'.finished = clientStack.finished
        /\ clientStack'.notFull = clientStack.notFull
    BY <1>3, <2>1, ClientStackOperations, CSP!PushItemEffect DEF Push, TypeInv, TypeOK, cc
  <2>3. /\ pc' = [pc EXCEPT ![Main] = "check"] /\ pc[Main] = "push"
        /\ prefetchStack' = prefetchStack
    BY <1>3 DEF Push
  <2>4. Waiters'
    BY <1>0, <2>2, <2>3 DEF Sync, Waiters
  <2>5. Phases'
    BY <1>0, <2>2, <2>3 DEF Sync, Phases
  <2>6. NoLostWakeup'
    <3>1. \E w \in ClientWorkers : pc'[w] # "exited" /\ w \notin clientStack'.notEmpty
      <4>1. \A w \in ClientWorkers : pc'[w] # "exited"
        BY <1>0, <2>2, <2>3 DEF Sync, Phases
      <4>2. \E w \in ClientWorkers : w \notin clientStack'.notEmpty
        BY <2>2 DEF Sync, Waiters
      <4>. QED  BY <4>1, <4>2
    <3>. QED  BY <1>0, <2>3, <3>1 DEF Sync, NoLostWakeup
  <2>7. Room'
    BY <2>2, <2>3, StackFacts DEF Sync, Room, ReserveSlots, pp
  <2>. QED  BY <2>4, <2>5, <2>6, <2>7 DEF Sync
<1>4. CASE PushBlocks
  <2>1. /\ Len(cc) >= ClientMax
        /\ cc' = cc
        /\ clientStack'.notEmpty = clientStack.notEmpty
        /\ clientStack'.finished = clientStack.finished
        /\ clientStack'.notFull = clientStack.notFull \cup {Main}
    BY <1>4, ClientStackOperations, CSP!PushFullEffect DEF PushBlocks, TypeInv, TypeOK, cc
  <2>2. /\ pc' = [pc EXCEPT ![Main] = "pushWait"] /\ pc[Main] = "push"
        /\ prefetchStack' = prefetchStack
    BY <1>4 DEF PushBlocks
  <2>3. Waiters'
    BY <1>0, <2>1, <2>2 DEF Sync, Waiters
  <2>4. Phases'
    BY <1>0, <2>1, <2>2 DEF Sync, Phases
  <2>5. NoLostWakeup'
    BY <1>0, <2>1, <2>2 DEF Sync, NoLostWakeup, cc
  <2>6. Room'
    BY <2>1, <2>2, StackFacts DEF Sync, Room, ReserveSlots, pp
  <2>. QED  BY <2>3, <2>4, <2>5, <2>6 DEF Sync
<1>5. CASE FinishClient
  <2>1. /\ cc' = cc
        /\ clientStack'.notEmpty = {}
        /\ clientStack'.finished
        /\ clientStack'.notFull = clientStack.notFull
    BY <1>5, ClientStackOperations, CSP!SignalFinishEffect DEF FinishClient, TypeInv, TypeOK, cc
  <2>2. /\ pc' = [pc EXCEPT ![Main] = "finishPrefetch"] /\ pc[Main] = "finishClient"
        /\ prefetchStack' = prefetchStack
    BY <1>5 DEF FinishClient
  <2>3. Waiters'
    BY <1>0, <2>1, <2>2 DEF Sync, Waiters
  <2>4. Phases'
    BY <1>0, <2>1, <2>2 DEF Sync, Phases
  <2>5. NoLostWakeup'
    BY <1>0, <2>1, <2>2 DEF Sync, NoLostWakeup, cc
  <2>6. Room'
    BY <2>1, <2>2 DEF Sync, Room, ReserveSlots, pp
  <2>. QED  BY <2>3, <2>4, <2>5, <2>6 DEF Sync
<1>6. CASE FinishPrefetch
  <2>1. /\ pp' = pp
        /\ prefetchStack'.notEmpty = {}
        /\ prefetchStack'.finished
        /\ prefetchStack'.notFull = prefetchStack.notFull
    BY <1>6, PrefetchStackOperations, PSP!SignalFinishEffect
       DEF FinishPrefetch, TypeInv, TypeOK, pp
  <2>2. /\ pc' = [pc EXCEPT ![Main] = "join"] /\ pc[Main] = "finishPrefetch"
        /\ clientStack' = clientStack
    BY <1>6 DEF FinishPrefetch
  <2>3. Waiters'
    BY <1>0, <2>1, <2>2 DEF Sync, Waiters
  <2>4. Phases'
    BY <1>0, <2>1, <2>2 DEF Sync, Phases
  <2>5. NoLostWakeup'
    BY <1>0, <2>1, <2>2 DEF Sync, NoLostWakeup, pp
  <2>6. Room'
    BY <2>1, <2>2 DEF Sync, Room, ReserveSlots, cc
  <2>. QED  BY <2>3, <2>4, <2>5, <2>6 DEF Sync
<1>. QED  BY <1>1, <1>2, <1>3, <1>4, <1>5, <1>6 DEF MainStep

\* The steps of a client worker keep Sync.
LEMMA SyncClient ==
  ASSUME TypeInv, Sync, NEW w \in ClientWorkers, ClientStep(w)
  PROVE  Sync'
<1>. USE DEF Goes, MainPC, WorkerPC
<1>0. /\ pc \in [Threads -> MainPC \cup WorkerPC]
      /\ w \in Threads /\ w # Main
  BY DEF TypeInv, TypeOK
<1>1. CASE ClientPop(w)
  <2>1. ASSUME NEW j \in ClientJobs, CS!PopItem(j), Goes(w, "pop", "process"),
               prefetchStack' = prefetchStack
        PROVE  Sync'
    <3>1. /\ Len(cc) \in Nat \ {0}
          /\ Len(cc') = Len(cc) - 1
          /\ clientStack'.notEmpty = clientStack.notEmpty
          /\ clientStack'.finished = clientStack.finished
          /\ clientStack'.notFull \subseteq clientStack.notFull
          /\ clientStack.notFull # {} =>
               \E u \in clientStack.notFull : clientStack'.notFull = clientStack.notFull \ {u}
      BY <2>1, ClientStackOperations, CSP!PopItemEffect DEF TypeInv, TypeOK, cc
    <3>2. Waiters'
      BY <1>0, <2>1, <3>1 DEF Sync, Waiters
    <3>3. Phases'
      BY <1>0, <2>1, <3>1 DEF Sync, Phases
    <3>4. NoLostWakeup'
      BY <1>0, <2>1, <3>1, <3>2 DEF Sync, NoLostWakeup, Waiters
    <3>5. clientStack'.notFull = {}
      BY <3>1 DEF Sync, Waiters
    <3>6. Room'
      BY <2>1, <3>5 DEF Sync, Room, ReserveSlots, pp
    <3>. QED  BY <3>2, <3>3, <3>4, <3>6 DEF Sync
  <2>2. ASSUME CS!PopWait(w), Goes(w, "pop", "popWait"), prefetchStack' = prefetchStack
        PROVE  Sync'
    <3>1. /\ cc = <<>> /\ cc' = cc
          /\ clientStack'.notEmpty = clientStack.notEmpty \cup {w}
          /\ clientStack'.finished = clientStack.finished
          /\ clientStack'.notFull = clientStack.notFull
      BY <2>2, ClientStackOperations, CSP!PopWaitEffect DEF TypeInv, TypeOK, cc
    <3>2. Waiters'
      BY <1>0, <2>2, <3>1 DEF Sync, Waiters
    <3>3. Phases'
      BY <1>0, <2>2, <3>1 DEF Sync, Phases
    <3>4. NoLostWakeup'
      BY <1>0, <2>2, <3>1 DEF Sync, NoLostWakeup, cc
    <3>5. Room'
      BY <2>2, <3>1 DEF Sync, Room, ReserveSlots, pp
    <3>. QED  BY <3>2, <3>3, <3>4, <3>5 DEF Sync
  <2>3. ASSUME CS!PopFinished, Goes(w, "pop", "exited"), prefetchStack' = prefetchStack
        PROVE  Sync'
    <3>1. cc = <<>> /\ clientStack.finished /\ clientStack' = clientStack
      BY <2>3 DEF CS!PopFinished, cc
    <3>2. Waiters'
      BY <1>0, <2>3, <3>1 DEF Sync, Waiters
    <3>3. Phases'
      BY <1>0, <2>3, <3>1 DEF Sync, Phases
    <3>4. NoLostWakeup'
      BY <1>0, <2>3, <3>1 DEF Sync, NoLostWakeup, cc
    <3>5. Room'
      BY <2>3, <3>1 DEF Sync, Room, ReserveSlots, cc, pp
    <3>. QED  BY <3>2, <3>3, <3>4, <3>5 DEF Sync
  <2>4. ASSUME CS!Reacquire(w), Goes(w, "popWait", "pop"), prefetchStack' = prefetchStack
        PROVE  Sync'
    <3>1. Untouched(w)
      BY <1>0, <2>4 DEF CS!Reacquire, Untouched, Sync, Waiters
    <3>. QED  BY <1>0, <3>1, SyncUntouched
  <2>. QED  BY <1>1, <2>1, <2>2, <2>3, <2>4 DEF ClientPop
<1>2. CASE \/ TimedOut(w) \/ HangUp(w) \/ NothingToRead(w) \/ PartialRequest(w)
           \/ Answer(w) \/ DispatchWoken(w) \/ DispatchEnds(w) \/ Destruct(w)
  <2>1. Untouched(w)
    BY <1>0, <1>2 DEF TimedOut, HangUp, NothingToRead, PartialRequest, Answer, DispatchWoken,
       DispatchEnds, Destruct, PS!Reacquire, Untouched
  <2>. QED  BY <1>0, <2>1, SyncUntouched
<1>3. CASE PushBackTest(w)
  <2>1. Untouched(w)
    BY <1>0, <1>3 DEF PushBackTest, Untouched
  <2>. QED  BY <1>0, <2>1, SyncUntouched
<1>4. CASE Dispatch(w)
  <2>1. PICK j \in PrefetchJobs : PS!PushItem(w, j) /\ Goes(w, "dispatch", "dispatch")
    BY <1>4 DEF Dispatch, Unborn
  <2>2. /\ ~prefetchStack.finished
        /\ Len(pp) < PrefetchMax /\ pp' = Append(pp, j)
        /\ prefetchStack'.notEmpty \subseteq prefetchStack.notEmpty
        /\ prefetchStack.notEmpty # {} =>
             \E u \in prefetchStack.notEmpty :
               prefetchStack'.notEmpty = prefetchStack.notEmpty \ {u}
        /\ prefetchStack'.finished = prefetchStack.finished
        /\ prefetchStack'.notFull = prefetchStack.notFull
    BY <2>1, PrefetchStackOperations, PSP!PushItemEffect DEF TypeInv, TypeOK, pp
  <2>3. pc' = pc /\ clientStack' = clientStack
    BY <1>0, <1>4, <2>1 DEF Dispatch, OneLink
  <2>4. Waiters'
    BY <2>2, <2>3 DEF Sync, Waiters
  <2>5. Phases'
    BY <2>2, <2>3 DEF Sync, Phases
  <2>6. NoLostWakeup'
    <3>1. \E u \in PrefetchWorkers : pc'[u] # "exited" /\ u \notin prefetchStack'.notEmpty
      <4>1. \A u \in PrefetchWorkers : pc'[u] # "exited"
        BY <2>2, <2>3 DEF Sync, Phases
      <4>2. \E u \in PrefetchWorkers : u \notin prefetchStack'.notEmpty
        BY <2>2 DEF Sync, Waiters
      <4>. QED  BY <4>1, <4>2
    <3>. QED  BY <2>3, <3>1 DEF Sync, NoLostWakeup
  <2>7. Room'
    <3>1. prefetchStack.notFull # {} =>
            Cardinality(prefetchStack.notFull) + PrefetchMax <= Len(pp) + 1 + ReserveSlots
      BY HoldersFinite, WaitersFinite, StackFacts DEF Sync, Room
    <3>2. Len(pp') = Len(pp) + 1
      BY <2>2, StackFacts
    <3>. QED  BY <2>2, <2>3, <3>1, <3>2 DEF Sync, Room, ReserveSlots, cc
  <2>. QED  BY <2>4, <2>5, <2>6, <2>7 DEF Sync
<1>5. CASE DispatchBlocks(w)
  <2>1. PS!PushFull(w)
    BY <1>5 DEF DispatchBlocks
  <2>2. /\ Len(pp) >= PrefetchMax
        /\ pp' = pp
        /\ prefetchStack'.notEmpty = prefetchStack.notEmpty
        /\ prefetchStack'.finished = prefetchStack.finished
        /\ prefetchStack'.notFull = prefetchStack.notFull \cup {w}
    BY <1>0, <2>1, PrefetchStackOperations, PSP!PushFullEffect DEF TypeInv, TypeOK, pp
  <2>3. /\ pc' = [pc EXCEPT ![w] = "dispatchWait"] /\ pc[w] = "dispatch"
        /\ clientStack' = clientStack
    BY <1>5 DEF DispatchBlocks, OneLink
  <2>4. Waiters'
    BY <1>0, <2>2, <2>3 DEF Sync, Waiters
  <2>5. Phases'
    BY <1>0, <2>2, <2>3 DEF Sync, Phases
  <2>6. NoLostWakeup'
    BY <1>0, <2>2, <2>3 DEF Sync, NoLostWakeup, pp
  <2>7. Room'
    <3>1. /\ Cardinality(prefetchStack'.notFull) \in Nat
          /\ Cardinality(prefetchStack'.notFull) <= ReserveSlots
      <4>1. prefetchStack'.notFull \in SUBSET ClientWorkers
        BY <2>2 DEF Sync, Waiters
      <4>. QED  BY <4>1, FS_Subset, FS_CardinalityType DEF ReserveSlots
    <3>. QED  BY <2>2, <2>3, <3>1, StackFacts, HoldersFinite DEF Sync, Room, ReserveSlots, cc
  <2>. QED  BY <2>4, <2>5, <2>6, <2>7 DEF Sync
<1>6. CASE DispatchFinished(w)
  <2>1. PS!PushFinished(w)
    BY <1>6 DEF DispatchFinished
  <2>2. /\ pp' = pp
        /\ prefetchStack'.notEmpty = prefetchStack.notEmpty
        /\ prefetchStack'.finished = prefetchStack.finished
        /\ prefetchStack'.notFull = prefetchStack.notFull
    BY <1>0, <2>1, PrefetchStackOperations, PSP!PushFinishedEffect DEF TypeInv, TypeOK, pp
  <2>3. pc' = pc /\ clientStack' = clientStack
    BY <1>0, <1>6 DEF DispatchFinished, OneLink
  <2>4. Waiters' /\ Phases'
    BY <2>2, <2>3 DEF Sync, Waiters, Phases
  <2>5. NoLostWakeup' /\ Room'
    BY <2>2, <2>3 DEF Sync, NoLostWakeup, Room, ReserveSlots, cc, pp
  <2>. QED  BY <2>4, <2>5 DEF Sync
<1>7. CASE PushBackInsert(w)
  <2>1. job[w] \in ClientJobs
    BY <1>0, <1>7 DEF PushBackInsert, TypeInv, Hands, Carrying
  <2>2. /\ Len(cc') = Len(cc) + 1
        /\ clientStack'.notEmpty \subseteq clientStack.notEmpty
        /\ clientStack'.finished = clientStack.finished
        /\ clientStack'.notFull = clientStack.notFull
    BY <1>7, <2>1, ClientStackOperations, CSP!PushBackEffect
       DEF PushBackInsert, TypeInv, TypeOK, cc
  <2>3. /\ pc' = [pc EXCEPT ![w] = "pop"] /\ pc[w] = "insert"
        /\ prefetchStack' = prefetchStack
    BY <1>7 DEF PushBackInsert
  <2>4. Waiters'
    BY <1>0, <2>2, <2>3 DEF Sync, Waiters
  <2>5. Phases'
    BY <1>0, <2>2, <2>3 DEF Sync, Phases
  <2>6. NoLostWakeup'
    <3>1. pc'[w] # "exited" /\ w \notin clientStack'.notEmpty
      BY <1>0, <2>2, <2>3 DEF Sync, Waiters
    <3>. QED  BY <1>0, <2>3, <3>1 DEF Sync, NoLostWakeup
  <2>7. Room'
    BY <2>2, <2>3, StackFacts DEF Sync, Room, ReserveSlots, pp
  <2>. QED  BY <2>4, <2>5, <2>6, <2>7 DEF Sync
<1>. QED
  BY <1>1, <1>2, <1>3, <1>4, <1>5, <1>6, <1>7 DEF ClientStep

\* The steps of a prefetch worker keep Sync.
LEMMA SyncPrefetch ==
  ASSUME TypeInv, Sync, NEW w \in PrefetchWorkers, PrefetchStep(w)
  PROVE  Sync'
<1>. USE DEF Goes, MainPC, WorkerPC
<1>0. /\ pc \in [Threads -> MainPC \cup WorkerPC]
      /\ w \in Threads /\ w # Main
  BY DEF TypeInv, TypeOK
<1>1. CASE PrefetchPop(w)
  <2>1. ASSUME NEW j \in PrefetchJobs, PS!PopItem(j), Goes(w, "pop", "process"),
               clientStack' = clientStack
        PROVE  Sync'
    <3>1. /\ Len(pp) \in Nat \ {0}
          /\ Len(pp') = Len(pp) - 1
          /\ prefetchStack'.notEmpty = prefetchStack.notEmpty
          /\ prefetchStack'.finished = prefetchStack.finished
          /\ prefetchStack'.notFull \subseteq prefetchStack.notFull
          /\ prefetchStack.notFull # {} =>
               \E u \in prefetchStack.notFull :
                 prefetchStack'.notFull = prefetchStack.notFull \ {u}
      BY <2>1, PrefetchStackOperations, PSP!PopItemEffect DEF TypeInv, TypeOK, pp
    <3>2. Waiters'
      BY <1>0, <2>1, <3>1 DEF Sync, Waiters
    <3>3. Phases'
      BY <1>0, <2>1, <3>1 DEF Sync, Phases
    <3>4. NoLostWakeup'
      BY <1>0, <2>1, <3>1, <3>2 DEF Sync, NoLostWakeup, Waiters
    <3>5. prefetchStack'.notFull # {} =>
            /\ Cardinality(prefetchStack.notFull) \in Nat
            /\ Cardinality(prefetchStack'.notFull) = Cardinality(prefetchStack.notFull) - 1
      BY <3>1, WaitersFinite, FS_RemoveElement DEF Sync
    <3>6. Room'
      BY <2>1, <3>1, <3>5, HoldersFinite DEF Sync, Room, ReserveSlots, cc
    <3>. QED  BY <3>2, <3>3, <3>4, <3>6 DEF Sync
  <2>2. ASSUME PS!PopWait(w), Goes(w, "pop", "popWait"), clientStack' = clientStack
        PROVE  Sync'
    <3>1. /\ pp = <<>> /\ pp' = pp
          /\ prefetchStack'.notEmpty = prefetchStack.notEmpty \cup {w}
          /\ prefetchStack'.finished = prefetchStack.finished
          /\ prefetchStack'.notFull = prefetchStack.notFull
      BY <2>2, PrefetchStackOperations, PSP!PopWaitEffect DEF TypeInv, TypeOK, pp
    <3>2. Waiters'
      BY <1>0, <2>2, <3>1 DEF Sync, Waiters
    <3>3. Phases'
      BY <1>0, <2>2, <3>1 DEF Sync, Phases
    <3>4. NoLostWakeup'
      BY <1>0, <2>2, <3>1 DEF Sync, NoLostWakeup, pp
    <3>5. Room'
      BY <2>2, <3>1 DEF Sync, Room, ReserveSlots, cc
    <3>. QED  BY <3>2, <3>3, <3>4, <3>5 DEF Sync
  <2>3. ASSUME PS!PopFinished, Goes(w, "pop", "exited"), clientStack' = clientStack
        PROVE  Sync'
    <3>1. pp = <<>> /\ prefetchStack.finished /\ prefetchStack' = prefetchStack
      BY <2>3 DEF PS!PopFinished, pp
    <3>2. Waiters'
      BY <1>0, <2>3, <3>1 DEF Sync, Waiters
    <3>3. Phases'
      BY <1>0, <2>3, <3>1 DEF Sync, Phases
    <3>4. NoLostWakeup'
      BY <1>0, <2>3, <3>1 DEF Sync, NoLostWakeup, pp
    <3>5. Room'
      BY <2>3, <3>1 DEF Sync, Room, ReserveSlots, cc, pp
    <3>. QED  BY <3>2, <3>3, <3>4, <3>5 DEF Sync
  <2>4. ASSUME PS!Reacquire(w), Goes(w, "popWait", "pop"), clientStack' = clientStack
        PROVE  Sync'
    <3>1. Untouched(w)
      BY <1>0, <2>4 DEF PS!Reacquire, Untouched, Sync, Waiters
    <3>. QED  BY <1>0, <3>1, SyncUntouched
  <2>. QED  BY <1>1, <2>1, <2>2, <2>3, <2>4 DEF PrefetchPop
<1>2. CASE Prefetched(w) \/ Destruct(w)
  <2>1. Untouched(w)
    BY <1>0, <1>2 DEF Prefetched, Destruct, Untouched
  <2>. QED  BY <1>0, <2>1, SyncUntouched
<1>. QED  BY <1>1, <1>2 DEF PrefetchStep

\* Sync is inductive, given the types.
LEMMA SyncNext == TypeInv /\ Sync /\ [Next]_vars => Sync'
<1>. SUFFICES ASSUME TypeInv, Sync, [Next]_vars PROVE Sync'
  OBVIOUS
<1>1. CASE SpuriousWakeups
  <2>1. /\ cc' = cc /\ pp' = pp
        /\ clientStack'.finished = clientStack.finished
        /\ prefetchStack'.finished = prefetchStack.finished
        /\ clientStack'.notEmpty \subseteq clientStack.notEmpty
        /\ prefetchStack'.notEmpty \subseteq prefetchStack.notEmpty
        /\ clientStack'.notFull \subseteq clientStack.notFull
        /\ prefetchStack'.notFull \subseteq prefetchStack.notFull
        /\ pc' = pc
    BY <1>1, ClientStackOperations, PrefetchStackOperations, CSP!SpuriousWakeupEffect,
       PSP!SpuriousWakeupEffect DEF SpuriousWakeups, TypeInv, TypeOK, cc, pp
  <2>2. Waiters' /\ Phases'
    BY <2>1 DEF Sync, Waiters, Phases
  <2>3. NoLostWakeup'
    BY <2>1 DEF Sync, NoLostWakeup, cc, pp
  <2>4. Room'
    <3>1. /\ Cardinality(prefetchStack'.notFull) \in Nat
          /\ Cardinality(prefetchStack.notFull) \in Nat
          /\ Cardinality(prefetchStack'.notFull) <= Cardinality(prefetchStack.notFull)
      BY <2>1, WaitersFinite, FS_Subset, FS_CardinalityType DEF Sync
    <3>. QED  BY <2>1, <3>1, StackFacts, HoldersFinite DEF Sync, Room, ReserveSlots
  <2>. QED  BY <2>2, <2>3, <2>4 DEF Sync
<1>2. CASE UNCHANGED vars
  BY <1>2 DEF vars, Sync, Waiters, Phases, NoLostWakeup, Room, ReserveSlots, cc, pp
<1>. QED
  BY <1>1, <1>2, SyncMain, SyncClient, SyncPrefetch DEF Next, Exited

\* A producer that waits, waits for a stack with jobs on it.
LEMMA RoomSuffices == TypeInv /\ Sync => NoStrandedProducer
<1>. SUFFICES ASSUME TypeInv, Sync PROVE NoStrandedProducer
  OBVIOUS
<1>1. ASSUME cc = <<>> PROVE clientStack.notFull = {}
  BY <1>1, StackFacts DEF Sync, Room
<1>2. ASSUME pp = <<>>, prefetchStack.notFull # {} PROVE FALSE
  <2>1. Cardinality(prefetchStack.notFull) \in Nat \ {0}
    BY <1>2, WaitersFinite, FS_EmptySet DEF Sync
  <2>2. Cardinality(prefetchStack.notFull) + PrefetchMax <= ReserveSlots
    BY <1>2, <2>1, StackFacts, HoldersFinite DEF Sync, Room
  <2>. QED  BY <2>1, <2>2, HoldersFinite DEF ReserveSlots
<1>. QED  BY <1>1, <1>2 DEF NoStrandedProducer, cc, pp

\* All workers have exited when main is done: nothing is queued or waiting.
LEMMA AllDoneIsClean == TypeInv /\ Sync /\ OneOwner => CleanShutdown
<1>. SUFFICES ASSUME TypeInv, Sync, OneOwner, pc[Main] = "done" PROVE
       /\ cc = <<>> /\ pp = <<>>
       /\ clientStack.notEmpty \cup clientStack.notFull = {}
       /\ prefetchStack.notEmpty \cup prefetchStack.notFull = {}
       /\ \A j \in ClientJobs : fate[j] \in {"unborn", "freed"}
  BY DEF CleanShutdown, cc, pp
<1>1. \A w \in Workers : pc[w] = "exited"
  BY DEF Sync, Phases
<1>2. cc = <<>> /\ pp = <<>>
  BY <1>1 DEF Sync, NoLostWakeup, cc, pp
<1>3. clientStack.notEmpty = {} /\ prefetchStack.notEmpty = {}
  BY <1>1 DEF Sync, Waiters
<1>4. clientStack.notFull = {} /\ prefetchStack.notFull = {}
  BY <1>2, RoomSuffices DEF NoStrandedProducer, cc, pp
<1>5. ASSUME NEW j \in ClientJobs PROVE fate[j] \in {"unborn", "freed"}
  <2>1. ~Held(j)
    BY <1>1, <1>5 DEF Held, TypeInv, Hands, Carrying
  <2>2. ~Queued(j)
    BY <1>2 DEF Queued, cc, pp
  <2>3. fate[j] # "live"
    BY <2>1, <2>2 DEF OneOwner
  <2>. QED  BY <2>3 DEF TypeInv, TypeOK, Hands
<1>. QED  BY <1>2, <1>3, <1>4, <1>5

\* Every state satisfies the inductive invariant.
LEMMA Synchronised == Spec => [](TypeInv /\ Sync)
BY TypeInvInit, TypeInvNext, SyncInit, SyncNext, PTL DEF Spec

\* Jobs on a stack always have a worker that is not asleep.
THEOREM WorkersAreWoken == Spec => []NoLostWakeup
<1>1. Sync => NoLostWakeup
  BY DEF Sync
<1>. QED  BY Synchronised, <1>1, PTL

\* Dispatchers and main wait only while there is something to be popped,
\* which will wake them.  This is where PrefetchMax >= |ClientWorkers| counts:
\* with fewer slots than dispatchers one of them could wait on an empty stack.
THEOREM ProducersAreWoken == Spec => []NoStrandedProducer
BY Synchronised, RoomSuffices, PTL

\* When main destroys the stacks nothing is on them, nobody waits on them and
\* every client's job has been freed.
THEOREM ShutdownIsClean == Spec => []CleanShutdown
BY Synchronised, JobsHaveOneOwner, AllDoneIsClean, PTL

=============================================================================
