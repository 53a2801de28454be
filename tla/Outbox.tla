------------------------------ MODULE Outbox -------------------------------
(***************************************************************************)
(* What the usage outbox promises: events are accepted, and an accepted    *)
(* event is settled, with the control plane or as a counted refusal.  The  *)
(* one thing that keeps an accepted event from being settled is that the   *)
(* line of an earlier write swallowed it.                                  *)
(***************************************************************************)
CONSTANT Events

VARIABLES accepted, settled, swallowed

Init == accepted = {} /\ settled = {} /\ swallowed = {}

\* An event enters, whole or swallowed.
Accept(e) ==
    /\ e \in Events \ accepted
    /\ accepted' = accepted \cup {e}
    /\ swallowed' \in {swallowed, swallowed \cup {e}}
    /\ settled' = settled

\* A batch of accepted events is settled, some of them not for the first time.
Settle(S) ==
    /\ S \subseteq accepted \ swallowed
    /\ settled' = settled \cup S
    /\ UNCHANGED <<accepted, swallowed>>

Next == \/ \E e \in Events : Accept(e)
        \/ \E S \in SUBSET Events : Settle(S)

Spec == Init /\ [][Next]_<<accepted, settled, swallowed>>
=============================================================================
