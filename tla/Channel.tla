------------------------------- MODULE Channel -------------------------------
(***************************************************************************)
(* What the bridge promises about reports in one direction: it may lose    *)
(* them, and nothing else.  No report arrives twice, before an earlier     *)
(* one, after it was given up, or without having been sent.  Bridge.tla    *)
(* refines this module twice, for input and for output reports.            *)
(***************************************************************************)
EXTENDS Naturals, Sequences

VARIABLES
    sent,       \* reports sent so far; they are numbered
    underway,   \* the numbers of those that may yet arrive
    arrived     \* the numbers of those that have, in the order they did

vars == <<sent, underway, arrived>>

\* A report 0 was left over by an earlier user of the channel.
Init == sent = 0 /\ underway \subseteq {0} /\ arrived = <<>>

\* The report is lost at once, or pushes others out, or neither.
Send ==
    /\ sent' = sent + 1
    /\ underway' \subseteq underway \cup {sent + 1}
    /\ UNCHANGED arrived

Lose ==
    /\ underway' \subseteq underway
    /\ UNCHANGED <<sent, arrived>>

\* What is older than a report that arrives is lost.
Deliver(k) ==
    /\ arrived' = Append(arrived, k)
    /\ underway' \subseteq {j \in underway : j > k}
    /\ UNCHANGED sent

\* Sent and received in one step, by one that waits for nothing on its way.
HandOver ==
    /\ sent' = sent + 1
    /\ arrived' = Append(arrived, sent + 1)
    /\ underway' = {}

Next == Send \/ Lose \/ HandOver \/ \E k \in underway : Deliver(k)

Spec == Init /\ [][Next]_vars
=============================================================================
