------------------------------ MODULE AuditLog ------------------------------
(***************************************************************************)
(* What the audit subsystem promises: a durable log of events that only    *)
(* grows, and answers that are given only for events already in it.        *)
(***************************************************************************)
EXTENDS Naturals, Sequences, SequencesExt

VARIABLES
    durable,   \* events that survive a crash, in order
    acked      \* events whose request was answered without an audit failure

Init == durable = << >> /\ acked = {}

\* More events become durable.
Persist ==
    /\ IsPrefix(durable, durable')
    /\ UNCHANGED acked

\* A request is answered.
Acknowledge ==
    /\ acked \subseteq acked' /\ acked' \subseteq ToSet(durable)
    /\ UNCHANGED durable

Next == Persist \/ Acknowledge

Spec == Init /\ [][Next]_<< durable, acked >>
=============================================================================
