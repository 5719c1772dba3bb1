-------------------------------- MODULE Desk --------------------------------
(***************************************************************************)
(* The parts of the quoting desk that share no state: the rate limiter in  *)
(* front of it, the pricing engine, the legacy quotes from photos, and the *)
(* assistant.  A behaviour follows one of them and leaves the others at    *)
(* rest, which loses nothing, as none reads what another writes.           *)
(***************************************************************************)
EXTENDS RateLimiter, Pricing, LegacyQuote, Assistant

VARIABLE subject    \* the part that the behaviour follows

vars == <<subject, limiterVars, pricingVars, legacyVars, assistantVars>>

Init ==
    /\ subject \in {"limiter", "pricing", "legacy", "assistant"}
    /\ LimiterInit
    /\ PricingInit
    /\ LegacyInit
    /\ subject # "legacy" => trade = CHOOSE t \in Trades : TRUE
    /\ AssistantInit

Next ==
    /\ UNCHANGED subject
    /\ \/ /\ subject = "limiter" /\ LimiterNext
          /\ UNCHANGED <<pricingVars, legacyVars, assistantVars>>
       \/ /\ subject = "pricing" /\ PricingNext
          /\ UNCHANGED <<limiterVars, legacyVars, assistantVars>>
       \/ /\ subject = "legacy" /\ LegacyNext
          /\ UNCHANGED <<limiterVars, pricingVars, assistantVars>>
       \/ /\ subject = "assistant" /\ AssistantNext
          /\ UNCHANGED <<limiterVars, pricingVars, legacyVars>>

Spec == Init /\ [][Next]_vars

TypeOK ==
    /\ LimiterTypeOK
    /\ PricingTypeOK
    /\ LegacyTypeOK
    /\ AssistantTypeOK

=============================================================================
