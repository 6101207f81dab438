------------------------------ MODULE OnceCalls ------------------------------
(***************************************************************************)
(* What the action orchestrator promises to the payment provider and to    *)
(* whoever reads its durable tables: an idempotency key is asked for again *)
(* only until it is settled, one call at a time, and is served once,       *)
(* unless a transaction that had called is lost.                           *)
(***************************************************************************)
EXTENDS Naturals

CONSTANT Payable        \* the keys whose action is a call

VARIABLES
    settled,            \* what is durable and final, of the keys that have such
    paid,               \* those of these keys that say: served
    calls,              \* calls heard of each key: how many, how many served
    lost                \* transactions lost so far

CallsOf(k) == IF k \in DOMAIN calls THEN calls[k] ELSE [tried |-> 0, ok |-> 0]

OneMore(k, served) ==
    [j \in DOMAIN calls \cup {k} |->
        IF j = k THEN [tried |-> CallsOf(k).tried + 1, ok |-> CallsOf(k).ok + served]
                 ELSE calls[j]]

Init == DOMAIN settled = {} /\ paid = {} /\ DOMAIN calls = {} /\ lost = 0

\* a key that is not settled is called; it is served again only after a loss
Call(k) ==
    /\ k \in Payable \ DOMAIN settled
    /\ \/ calls' = OneMore(k, 0)
       \/ CallsOf(k).ok <= lost' /\ calls' = OneMore(k, 1)

\* what is settled stays so; what is paid was served, and what is settled
\* otherwise was served by calls that were lost or not at all
Settle ==
    /\ \A k \in DOMAIN settled : k \in DOMAIN settled' /\ settled'[k] = settled[k]
    /\ paid \subseteq paid' /\ paid' \subseteq DOMAIN settled'
    /\ \A k \in paid' : CallsOf(k)'.ok > 0
    /\ \A k \in Payable \cap (DOMAIN settled' \ paid') : CallsOf(k)'.ok <= lost
    /\ lost' = lost

Lose == lost' = lost + 1 /\ UNCHANGED <<settled, paid>>

Next ==
    /\ calls' = calls \/ \E k \in DOMAIN calls' : Call(k)
    /\ Settle \/ Lose

Spec == Init /\ [][Next]_<<settled, paid, calls, lost>>
=============================================================================
