---------------------------- MODULE JobLifecycle ----------------------------
(***************************************************************************)
(* What the job stacks, the main thread and the workers promise together   *)
(* about a job, with stacks, locks and threads abstracted away: a job is   *)
(* constructed once, is at any moment either queued or in the hands of     *)
(* exactly one thread, goes through one thread at a time however often it  *)
(* is queued again, and is destroyed at most once, by the thread that      *)
(* holds it.  Only a prefetch job may be dropped, and only when it is      *)
(* made: a client's job is never lost.                                     *)
(***************************************************************************)
CONSTANTS ClientJobs, PrefetchJobs

VARIABLE state

Jobs == ClientJobs \cup PrefetchJobs

Moves(j, from, to) ==
  /\ state[j] = from
  /\ state' = [state EXCEPT ![j] = to]

Init == state = [j \in Jobs |-> "unborn"]

Receive(j) == Moves(j, "unborn", "held")      \* a connection becomes a job
Queue(j)   == Moves(j, "held", "queued")
Take(j)    == Moves(j, "queued", "held")
Destroy(j) == Moves(j, "held", "freed")
Submit(j)  == Moves(j, "unborn", "queued")    \* a link becomes a job
Drop(j)    == Moves(j, "unborn", "lost")

Next ==
  \/ \E j \in ClientJobs : Receive(j) \/ Queue(j)
  \/ \E j \in PrefetchJobs : Submit(j) \/ Drop(j)
  \/ \E j \in Jobs : Take(j) \/ Destroy(j)

Spec == Init /\ [][Next]_state

=============================================================================
