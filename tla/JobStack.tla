------------------------------ MODULE JobStack ------------------------------
(***************************************************************************)
(* The monitor of thread-safe-job-stack.c: a bounded stack of jobs, one    *)
(* mutex and two condition variables.  The whole struct job_stack is one   *)
(* record variable, so that a module which owns several stacks takes one   *)
(* instance of this module per stack.                                      *)
(*                                                                         *)
(* Every operation below is one critical section of the C function it is   *)
(* named after: it needs the mutex free, and (with one exception) leaves   *)
(* it free.  pthread_cond_wait splits a call in two: the thread first      *)
(* joins a set of waiters and releases the mutex, and after a signal it    *)
(* takes the mutex again, releases it and returns FAIL (Reacquire).  The   *)
(* exception is push on a finished stack, which returns with the mutex     *)
(* held (PushFinished): the record keeps who holds it.                     *)
(***************************************************************************)
EXTENDS Integers, SequencesExt

CONSTANTS
  Threads,    \* the threads that may call the operations
  Jobs,       \* the job_t pointers that may be stored
  MaxJobs,    \* max_job_count: a push needs fewer jobs than this on the stack
  NoThread    \* the owner of a free mutex

VARIABLE stack

\* struct job_stack.  content[1] is the bottom, the last element the top.
StackType ==
  [ content  : Seq(Jobs),
    finished : BOOLEAN,
    mutex    : Threads \cup {NoThread},
    notEmpty : SUBSET Threads,     \* blocked in pthread_cond_wait(&not_empty)
    notFull  : SUBSET Threads ]    \* blocked in pthread_cond_wait(&not_full)

Empty ==
  [ content |-> <<>>, finished |-> FALSE, mutex |-> NoThread,
    notEmpty |-> {}, notFull |-> {} ]

Construct == stack = Empty

Free == stack.mutex = NoThread

\* pthread_cond_signal: one waiter, of the scheduler's choice, stops waiting;
\* with no waiter the signal is lost.
AfterSignal(waiters) ==
  IF waiters = {} THEN {{}} ELSE {waiters \ {t} : t \in waiters}

-----------------------------------------------------------------------------
(* job_stack_push *)

\* Mutation of PushItem: the bound compares with > where the code has >=.
PushItemOffByOne(t, j) ==
  /\ Free
  /\ ~stack.finished
  /\ Len(stack.content) <= MaxJobs
  /\ \E rest \in AfterSignal(stack.notEmpty) :
       stack' = [stack EXCEPT !.content = Append(@, j), !.notEmpty = rest]

\* Mutation of PushItem: the signal on not_empty is forgotten.
PushItemSilently(t, j) ==
  /\ Free
  /\ ~stack.finished
  /\ Len(stack.content) < MaxJobs
  /\ stack' = [stack EXCEPT !.content = Append(@, j)]

\* Room on the stack: store the job on top, signal a consumer, SUCCESS.
PushItem(t, j) ==
  /\ Free
  /\ ~stack.finished
  /\ Len(stack.content) < MaxJobs
  /\ \E rest \in AfterSignal(stack.notEmpty) :
       stack' = [stack EXCEPT !.content = Append(@, j), !.notEmpty = rest]

\* No room: wait on not_full; the call returns FAIL once woken.
PushFull(t) ==
  /\ Free
  /\ ~stack.finished
  /\ Len(stack.content) >= MaxJobs
  /\ stack' = [stack EXCEPT !.notFull = @ \cup {t}]

\* Finished stack: FINISHED is returned without unlocking the mutex.
PushFinished(t) ==
  /\ Free
  /\ stack.finished
  /\ stack' = [stack EXCEPT !.mutex = t]

-----------------------------------------------------------------------------
(* job_stack_push_back *)

\* The unlocked test of finished that comes before the critical section.
PushBackRefused == stack.finished

\* Mutation of PushBack: the job goes on top.
PushBackOnTop(j) ==
  /\ Free
  /\ \E rest \in AfterSignal(stack.notEmpty) :
       stack' = [stack EXCEPT !.content = Append(@, j), !.notEmpty = rest]

\* The critical section: everything moves up one slot, the job goes to the
\* bottom.  Neither finished nor the bound is looked at.
PushBack(j) ==
  /\ Free
  /\ \E rest \in AfterSignal(stack.notEmpty) :
       stack' = [stack EXCEPT !.content = Cons(j, @), !.notEmpty = rest]

-----------------------------------------------------------------------------
(* job_stack_pop *)

\* Mutation of PopItem: top is not decremented.
PopItemKeeping(j) ==
  /\ Free
  /\ stack.content # <<>>
  /\ j = Last(stack.content)
  /\ \E rest \in AfterSignal(stack.notFull) :
       stack' = [stack EXCEPT !.notFull = rest]

\* Mutation of PopItem: the signal on not_full is forgotten.
PopItemSilently(j) ==
  /\ Free
  /\ stack.content # <<>>
  /\ j = Last(stack.content)
  /\ stack' = [stack EXCEPT !.content = Front(@)]

\* Take the top job, signal a producer, SUCCESS.
PopItem(j) ==
  /\ Free
  /\ stack.content # <<>>
  /\ j = Last(stack.content)
  /\ \E rest \in AfterSignal(stack.notFull) :
       stack' = [stack EXCEPT !.content = Front(@), !.notFull = rest]

\* Nothing to take and not finished: wait on not_empty, then FAIL.
PopWait(t) ==
  /\ Free
  /\ stack.content = <<>>
  /\ ~stack.finished
  /\ stack' = [stack EXCEPT !.notEmpty = @ \cup {t}]

\* Mutation of PopFinished: FINISHED as soon as the stack is finished, even
\* when jobs are left on it.
PopFinishedEarly ==
  /\ Free
  /\ stack.finished
  /\ UNCHANGED stack

\* Nothing to take and finished: FINISHED.
PopFinished ==
  /\ Free
  /\ stack.content = <<>>
  /\ stack.finished
  /\ UNCHANGED stack

-----------------------------------------------------------------------------
(* job_stack_signal_finish *)

\* Mutation of SignalFinish: pthread_cond_signal in place of the broadcast.
SignalFinishOnlyOne ==
  /\ Free
  /\ \E rest \in AfterSignal(stack.notEmpty) :
       stack' = [stack EXCEPT !.finished = TRUE, !.notEmpty = rest]

\* Consumers are all woken; producers waiting on not_full are not.
SignalFinish ==
  /\ Free
  /\ stack' = [stack EXCEPT !.finished = TRUE, !.notEmpty = {}]

-----------------------------------------------------------------------------
(* pthread_cond_wait, the way out *)

\* A woken thread takes the mutex, releases it and returns FAIL.
Reacquire(t) ==
  /\ Free
  /\ t \notin stack.notEmpty \cup stack.notFull
  /\ UNCHANGED stack

\* POSIX lets a thread leave the wait without a signal.
SpuriousWakeup ==
  \E t \in stack.notEmpty \cup stack.notFull :
    stack' = [stack EXCEPT !.notEmpty = @ \ {t}, !.notFull = @ \ {t}]

=============================================================================
