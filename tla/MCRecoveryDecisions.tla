------------------------ MODULE MCRecoveryDecisions ------------------------
EXTENDS RecoveryDecisions

\* day 0 is Monday 22 June 2026; after 30 September the days begin again
MCMonthDay ==
    [d \in 0 .. 100 |-> IF d <= 8 THEN 22 + d ELSE IF d <= 39 THEN d - 8
                        ELSE IF d <= 70 THEN d - 39 ELSE d - 70]
MCFestivals == {4, 5, 37, 54, 65, 67, 74}

\* Thursday night, festival noon, Wednesday 1 July on payday, Friday 3 July night
MCInstants == {At(3, 21 * Hour), At(4, 12 * Hour), At(9, Morning), At(11, 20 * Hour)}

Failed ==
    [at |-> At(0, 20 * Hour), amount |-> 199900, method |-> "UPI", reason |-> "UNKNOWN",
     attempt |-> 1, segment |-> "ACTIVE", tier |-> "Pro", subscribed |-> TRUE, agedays |-> 100,
     mandate |-> "ACTIVE", cancelled |-> FALSE, consent |-> "GRANTED"]

CaseOf(failure, outages) ==
    [failure |-> failure, payments |-> {}, promises |-> {}, outages |-> outages, actions |-> <<>>,
     ahead |-> 0]

Unexplained == CaseOf(Failed, {})
NoFunds == CaseOf([Failed EXCEPT !.method = "CARD", !.reason = "INSUFFICIENT_FUNDS", !.segment = "AT_RISK"], {})
CardOutage ==
    CaseOf([Failed EXCEPT !.method = "CARD", !.reason = "BANK_TIMEOUT"],
           {[rail |-> "CARD", from |-> At(0, 0), to |-> At(1, 0)]})
\* three nights, three retries
RetryOf(t) == [strategy |-> "RETRY_SILENTLY", planned |-> t, status |-> "RAN", at |-> t]
Retried ==
    [CaseOf([Failed EXCEPT !.method = "CARD", !.mandate = "EXPIRED", !.segment = "HIGH_VALUE",
                           !.reason = "UNKNOWN", !.subscribed = FALSE], {})
     EXCEPT !.actions = <<RetryOf(At(1, 20 * Hour)), RetryOf(At(2, 20 * Hour)),
                          RetryOf(At(3, 20 * Hour))>>]

\* half past ten hours behind: at nine of the merchant's morning it is night for the policy
Overseas == -42
Abroad == [NoFunds EXCEPT !.ahead = Overseas]

MCInitialCases == {Unexplained, NoFunds, CardOutage, Retried, Abroad}
MCPromiseDays == {4, 11}
MCTimezones == {Overseas}
=============================================================================
