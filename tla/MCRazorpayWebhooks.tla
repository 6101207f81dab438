------------------------- MODULE MCRazorpayWebhooks -------------------------
(***************************************************************************)
(* RazorpayWebhooks on small instances: which bodies the events may have.  *)
(***************************************************************************)
EXTENDS RazorpayWebhooks

\* a capture, a failure and a stop that name the case, a link's payment that is
\* found by the resource of an action only, and one that is not supported; the
\* failure has no id of its own
MixedBodies ==
    [kind : {"payment.captured", "subscription.cancelled", "other"},
     names : {{"notes"}}, keyed : {TRUE}]
    \cup {[kind |-> "payment_link.paid", names |-> {"resource"}, keyed |-> TRUE],
          [kind |-> "payment.failed", names |-> {"payment"}, keyed |-> FALSE]}

Captures ==
    [kind : {"payment.captured"}, names : {{"notes"}}, keyed : {TRUE}]
=============================================================================
