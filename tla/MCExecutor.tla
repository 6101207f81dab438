----------------------------- MODULE MCExecutor -----------------------------
(***************************************************************************)
(* Executor with every type of execution, both strategies of a charge and  *)
(* of a link in one slot, and each bend of the outcome table.              *)
(***************************************************************************)
EXTENDS Executor

Plan(strategy, slot, probability, diagnosis) ==
    [case |-> "case", strategy |-> strategy, slot |-> slot, probability |-> probability,
     diagnosis |-> diagnosis]

MCPlans ==
    {Plan(s, slot, 60, "OTHER") :
        s \in {"RETRY_PAYMENT", "RETRY_SILENTLY", "SEND_PAYMENT_LINK", "SWITCH_PAYMENT_METHOD",
               "REQUEST_NEW_MANDATE", "WAIT_FOR_PAYDAY"},
        slot \in {1, Naive}}
    \cup {Plan(s, 1, 90, "OTHER") : s \in {"RETRY_PAYMENT", "RETRY_SILENTLY",
              "SEND_PAYMENT_LINK", "SWITCH_PAYMENT_METHOD"}}
    \cup {Plan(s, 1, 60, "OTHER") : s \in {"STOP_RECOVERY", "ESCALATE_TO_HUMAN", "LEGACY"}}
    \cup {Plan("RETRY_PAYMENT", 1, 5, "OTHER"),
          Plan("RETRY_PAYMENT", 1, 40, "INSUFFICIENT_FUNDS"),
          Plan("RETRY_SILENTLY", 1, 60, "BANK_TIMEOUT")}
=============================================================================
