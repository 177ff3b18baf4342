----------------------------- MODULE OutputQueue -----------------------------
(***************************************************************************)
(* What the DualSense Link driver promises about output reports (rumble,   *)
(* lights): a bounded queue, first in first out.  A report is either       *)
(* refused with an overflow status or handed out exactly once, in the      *)
(* order accepted.  The queue is emptied only by the removal of the        *)
(* device.  VhfDevice.tla refines this module.                             *)
(***************************************************************************)
EXTENDS Naturals, Sequences

CONSTANTS
    Report,     \* the reports a client may push
    Capacity    \* how many accepted reports the queue can hold

VARIABLES
    queue,      \* accepted reports not yet handed out, oldest first
    answer      \* what the last request was told

vars == <<queue, answer>>

Accepted == [kind |-> "accepted"]
Overflow == [kind |-> "overflow"]
Empty    == [kind |-> "empty"]
Other    == [kind |-> "other"]
Handed(r) == [kind |-> "handed", report |-> r]

Answer == {Accepted, Overflow, Empty, Other} \cup {Handed(r) : r \in Report}

TypeOK == queue \in Seq(Report) /\ answer \in Answer

Init == queue = <<>> /\ answer = Other

Push(r) ==
    \/ /\ Len(queue) < Capacity
       /\ queue' = Append(queue, r)
       /\ answer' = Accepted
    \/ /\ Len(queue) = Capacity
       /\ answer' = Overflow
       /\ UNCHANGED queue

Pop ==
    \/ /\ queue # <<>>
       /\ answer' = Handed(Head(queue))
       /\ queue' = Tail(queue)
    \/ /\ queue = <<>>
       /\ answer' = Empty
       /\ UNCHANGED queue

\* Every request that is not about the queue, or is malformed.
Ignore == answer' = Other /\ UNCHANGED queue

\* The device goes away with what it still held.
Clear == queue' = <<>> /\ answer' = Other

Next == (\E r \in Report : Push(r)) \/ Pop \/ Ignore \/ Clear

Spec == Init /\ [][Next]_vars
=============================================================================
