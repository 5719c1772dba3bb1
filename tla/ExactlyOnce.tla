---------------------------- MODULE ExactlyOnce ----------------------------
(***************************************************************************)
(* What the webhook endpoint promises about the provider's events          *)
(* (payments/billing.py: "Every webhook event is processed exactly once"): *)
(* an event may take effect as soon as it has been sent, takes effect at   *)
(* most once whatever is delivered again, and does take effect eventually. *)
(* Deliveries, the ledger, database sessions and crashes are not part of   *)
(* the promise.                                                            *)
(***************************************************************************)
EXTENDS Naturals

CONSTANT Events

VARIABLES
    sent,      \* the events the provider has issued
    effects    \* how often each event has been applied

vars == <<sent, effects>>

Init ==
    /\ sent = {}
    /\ effects = [e \in Events |-> 0]

Send(e) ==
    /\ e \notin sent
    /\ sent' = sent \cup {e}
    /\ UNCHANGED effects

Process(e) ==
    /\ e \in sent
    /\ effects[e] = 0
    /\ effects' = [effects EXCEPT ![e] = 1]
    /\ UNCHANGED sent

Next == \E e \in Events : Send(e) \/ Process(e)

Fairness == \A e \in Events : WF_vars(Process(e))

\* The promise without "eventually".
SafetySpec == Init /\ [][Next]_vars

Spec == SafetySpec /\ Fairness

=============================================================================
