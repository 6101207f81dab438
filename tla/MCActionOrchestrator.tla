------------------------ MODULE MCActionOrchestrator ------------------------
(***************************************************************************)
(* ActionOrchestrator on small instances: which of the planner's           *)
(* strategies each run lets the environment choose.  One case is enough:   *)
(* rows of two cases share nothing but the tick's transaction, which the   *)
(* rows of one case share too.                                             *)
(***************************************************************************)
EXTENDS ActionOrchestrator

CONSTANT c1

OneCase == {c1}

\* waiting for payday, its fallback and the blocking decisions; escalation is
\* reached as the fallback of a payment link
PaydayMix == {"WAIT_FOR_PAYDAY", "SEND_PAYMENT_LINK", "STOP_RECOVERY"}

\* a payday wait next to the silent retry a cooldown postpones, and escalation
CooldownMix == {"WAIT_FOR_PAYDAY", "RETRY_SILENTLY", "ESCALATE_TO_HUMAN"}

LinksOnly == {"SEND_PAYMENT_LINK"}
=============================================================================
