-------------------------- MODULE ContractHandoff --------------------------
(***************************************************************************)
(* What the inbox/outbox handoff promises to one consumer role, with no    *)
(* worker, lease, crash or transaction in sight: a contract is sent, and   *)
(* its owner-state effect happens at most once and only after it was sent. *)
(* ADR 0001: "Delivery is at least once; unique event, job, revision, and  *)
(* domain keys make effects idempotent."                                   *)
(***************************************************************************)
EXTENDS Naturals

CONSTANT Messages

VARIABLES sent,     \* the contracts committed to the outbox
          effects   \* how many times each contract changed owner state

Init == /\ sent = {}
        /\ effects = [m \in Messages |-> 0]

Send(m) == /\ m \notin sent
           /\ sent' = sent \cup {m}
           /\ UNCHANGED effects

Apply(m) == /\ m \in sent
            /\ effects[m] = 0
            /\ effects' = [effects EXCEPT ![m] = 1]
            /\ UNCHANGED sent

Next == \E m \in Messages : Send(m) \/ Apply(m)

Spec == Init /\ [][Next]_<<sent, effects>>
=============================================================================
