---------------------------- MODULE DocLifecycle ----------------------------
(***************************************************************************)
(* What the knowledge base promises an administrator about one uploaded    *)
(* document, whatever the queue, its workers and the restarts of the       *)
(* server do in between.                                                   *)
(*                                                                         *)
(* A submitted document is queued; the queue decides its fate once: it     *)
(* becomes ready with the text of its file, or failed.  Only an explicit   *)
(* retry queues a failed document again, nothing takes a ready document    *)
(* back, and a deleted identifier is never seen again.                     *)
(***************************************************************************)
EXTENDS Naturals

CONSTANT Doc             \* document identifiers

VARIABLES fate,          \* what the administrator sees of each document
          text           \* the text the knowledge base serves for it

vars == <<fate, text>>

Fates == {"absent", "queued", "ready", "failed", "deleted"}
Texts == {"none", "extracted", "entered"}

Init == /\ fate = [d \in Doc |-> "absent"]
        /\ text = [d \in Doc |-> "none"]

\* A file is accepted for asynchronous extraction.
Submit(d) == /\ fate[d] = "absent"
             /\ fate' = [fate EXCEPT ![d] = "queued"]
             /\ UNCHANGED text

\* A text entered in the browser is served at once.
Publish(d) == /\ fate[d] = "absent"
              /\ fate' = [fate EXCEPT ![d] = "ready"]
              /\ text' = [text EXCEPT ![d] = "entered"]

\* The queue's one verdict on a queued document.
Succeed(d) == /\ fate[d] = "queued"
              /\ fate' = [fate EXCEPT ![d] = "ready"]
              /\ text' = [text EXCEPT ![d] = "extracted"]

Fail(d) == /\ fate[d] = "queued"
           /\ fate' = [fate EXCEPT ![d] = "failed"]
           /\ UNCHANGED text

Requeue(d) == /\ fate[d] = "failed"
              /\ fate' = [fate EXCEPT ![d] = "queued"]
              /\ UNCHANGED text

Edit(d) == /\ fate[d] \notin {"absent", "deleted"}
           /\ text' = [text EXCEPT ![d] = "entered"]
           /\ UNCHANGED fate

Delete(d) == /\ fate[d] \notin {"absent", "deleted"}
             /\ fate' = [fate EXCEPT ![d] = "deleted"]
             /\ text' = [text EXCEPT ![d] = "none"]

Next == \E d \in Doc : \/ Submit(d) \/ Publish(d)
                       \/ Succeed(d) \/ Fail(d) \/ Requeue(d)
                       \/ Edit(d) \/ Delete(d)

Spec == Init /\ [][Next]_vars
=============================================================================
