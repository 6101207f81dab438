----------------------------- MODULE PlanOffers -----------------------------
(***************************************************************************)
(* What policy and planner hand to the action orchestrator: which strategy *)
(* at which moment goes with which decision and which cooldown.            *)
(* ActionOrchestrator takes any such plan, whatever the case is;           *)
(* RecoveryDecisions, which computes them, is shown to make no other.      *)
(***************************************************************************)
EXTENDS Naturals

WaitStrategies == {"WAIT_FOR_PAYDAY", "HONOUR_PROMISE_TO_PAY"}

RazorpayStrategies ==
    {"RETRY_PAYMENT", "RETRY_SILENTLY", "SEND_PAYMENT_LINK",
     "SWITCH_PAYMENT_METHOD", "REQUEST_NEW_MANDATE"}

Strategies ==
    WaitStrategies \cup RazorpayStrategies
        \cup {"ESCALATE_TO_HUMAN", "STOP_RECOVERY"}

Decisions == {"ALLOW", "WAIT", "STOP", "DENY", "ESCALATE"}

NoCooldown == 0

\* to stop is for now, to escalate or to contact waits for the contact window
Stops(p, now) == p.strategy = "STOP_RECOVERY" /\ p.slot = now
Escalates(p, now) == p.strategy = "ESCALATE_TO_HUMAN" /\ p.slot >= now
Contacts(p, now) == p.strategy \in RazorpayStrategies \ {"RETRY_SILENTLY"} /\ p.slot >= now

\* ALLOW carries no cooldown
AllowOffer(p, now) ==
    /\ p.decision = "ALLOW" /\ p.cooldown = NoCooldown
    /\ Contacts(p, now) \/ Escalates(p, now) \/ Stops(p, now)

\* WAIT: the slot respects the cooldown; a rail outage has none
CooldownOffer(p, now) ==
    /\ p.decision = "WAIT" /\ p.cooldown > now
    /\ p.strategy \in WaitStrategies \cup {"RETRY_SILENTLY", "RETRY_PAYMENT"}
    /\ p.slot >= p.cooldown

OutageOffer(p, now) ==
    /\ p.decision = "WAIT" /\ p.cooldown = NoCooldown
    /\ p.strategy = "RETRY_SILENTLY" /\ p.slot > now

BlockOffer(p, now) ==
    /\ p.cooldown = NoCooldown
    /\ \/ p.decision \in {"STOP", "DENY"} /\ Stops(p, now)
       \/ p.decision = "ESCALATE" /\ Escalates(p, now)

Offered(p, now) ==
    \/ AllowOffer(p, now) \/ CooldownOffer(p, now)
    \/ OutageOffer(p, now) \/ BlockOffer(p, now)
=============================================================================
