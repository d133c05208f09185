----------------------------- MODULE PageFiles -----------------------------
(***************************************************************************)
(* What the cache promises, without its table: each page has a file, which *)
(* one thread writes while nobody else uses it, and which is read by       *)
(* anybody once it is whole.  (Relay keeps the promise only as long as     *)
(* nothing makes it take a part of a page for the page.)                   *)
(***************************************************************************)

CONSTANTS Users, Pages

VARIABLES
  content,  \* what is in the file of each page: "none", "part" or "whole"
  readers,  \* who reads it
  writers   \* who writes it

vars == <<content, readers, writers>>

Init ==
  /\ content = [p \in Pages |-> "none"]
  /\ readers = [p \in Pages |-> {}]
  /\ writers = [p \in Pages |-> {}]

\* A miss: whatever was in the file is gone.
Fetch(p, u) ==
  /\ writers[p] = {} /\ readers[p] = {}
  /\ content' = [content EXCEPT ![p] = "part"]
  /\ writers' = [writers EXCEPT ![p] = {u}]
  /\ UNCHANGED readers

Fetched(p, u) ==
  /\ writers[p] = {u}
  /\ content' = [content EXCEPT ![p] = "whole"]
  /\ writers' = [writers EXCEPT ![p] = {}]
  /\ UNCHANGED readers

Hit(p, u) ==
  /\ content[p] = "whole" /\ u \notin readers[p]
  /\ readers' = [readers EXCEPT ![p] = @ \cup {u}]
  /\ UNCHANGED <<content, writers>>

HitEnds(p, u) ==
  /\ u \in readers[p]
  /\ readers' = [readers EXCEPT ![p] = @ \ {u}]
  /\ UNCHANGED <<content, writers>>

Next ==
  \E p \in Pages, u \in Users : Fetch(p, u) \/ Fetched(p, u) \/ Hit(p, u) \/ HitEnds(p, u)

Spec == Init /\ [][Next]_vars

=============================================================================
