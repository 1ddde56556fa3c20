---------------------------- MODULE PublicationLog ----------------------------
(***************************************************************************)
(* What a process definition promises the cases opened on it: a log of     *)
(* published contents that only grows, by one entry at a time, and never   *)
(* changes; every submission pins one entry of it, content and all, and    *)
(* takes a reference beyond all others.  Drafts, hashes, locks and roll    *)
(* backs cannot be seen.                                                   *)
(***************************************************************************)
EXTENDS Naturals

CONSTANTS Content, Case, Number, NotPublished, NotPinned

VARIABLES
  log,      \* the content of each version, or NotPublished
  issued,   \* the last reference handed out
  pins      \* what each case was submitted with

Init ==
  /\ log = [n \in Number |-> NotPublished]
  /\ issued = 0
  /\ pins = [k \in Case |-> NotPinned]

Publish(n, content) ==
  /\ log[n] = NotPublished
  /\ \A m \in Number : m < n => log[m] # NotPublished
  /\ log' = [log EXCEPT ![n] = content]
  /\ UNCHANGED <<issued, pins>>

Submit(k, n) ==
  /\ pins[k] = NotPinned
  /\ log[n] # NotPublished
  /\ issued' > issued
  /\ pins' = [pins EXCEPT ![k] =
                [number |-> n, content |-> log[n], reference |-> issued']]
  /\ UNCHANGED log

Next ==
  \/ \E n \in Number, content \in Content : Publish(n, content)
  \/ \E k \in Case, n \in Number : Submit(k, n)

Spec == Init /\ [][Next]_<<log, issued, pins>>
=============================================================================
