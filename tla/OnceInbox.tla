------------------------------ MODULE OnceInbox ------------------------------
(***************************************************************************)
(* What the webhook inbox promises: of all deliveries of one event, one    *)
(* lands, and the event takes effect with it or never.                     *)
(***************************************************************************)
EXTENDS Naturals

CONSTANT Keys           \* provider event ids

VARIABLES
    seen,               \* ids that have landed
    effects             \* how often each id has taken effect

Init == seen = {} /\ effects = [k \in Keys |-> 0]

\* the delivery that lands applies the event, or records that it could not
Land(k) ==
    /\ k \notin seen
    /\ seen' = seen \cup {k}
    /\ effects' \in {effects, [effects EXCEPT ![k] = 1]}

Next == \E k \in Keys : Land(k)

Spec == Init /\ [][Next]_<<seen, effects>>
=============================================================================
