--------------------------- MODULE PlacementLedger ---------------------------
(***************************************************************************)
(* What durable idempotency promises of place_order, with no processes in  *)
(* it: an order key is claimed once; only under a claim that is still held *)
(* may a request be sent, a bounded number of times; the claim ends        *)
(* settled with one result, or abandoned; neither end is ever left; and    *)
(* the only answer a caller gets for a key is its settled result.          *)
(***************************************************************************)
EXTENDS Naturals

CONSTANTS
    Keys,             \* order keys
    Results,          \* the results a key may settle with
    MaxSubmissions    \* requests that may be sent under one claim

VARIABLES
    claim,        \* "free", "held", "abandoned" or the settled result
    submissions,  \* how many requests were sent under each key
    answers       \* <<key, result>> pairs given to callers

ledgerVars == <<claim, submissions, answers>>

Init ==
    /\ claim = [k \in Keys |-> "free"]
    /\ submissions = [k \in Keys |-> 0]
    /\ answers = {}

Claim(k) ==
    /\ claim[k] = "free"
    /\ \E c \in {"held", "abandoned"} : claim' = [claim EXCEPT ![k] = c]
    /\ UNCHANGED <<submissions, answers>>

Send(k) ==
    /\ claim[k] = "held"
    /\ submissions[k] < MaxSubmissions
    /\ submissions' = [submissions EXCEPT ![k] = @ + 1]
    /\ UNCHANGED <<claim, answers>>

Settle(k, r) ==
    /\ claim[k] = "held"
    /\ claim' = [claim EXCEPT ![k] = r]
    /\ answers' \in {answers, answers \union {<<k, r>>}}
    /\ UNCHANGED submissions

Abandon(k) ==
    /\ claim[k] = "held"
    /\ claim' = [claim EXCEPT ![k] = "abandoned"]
    /\ UNCHANGED <<submissions, answers>>

Answer(k) ==
    /\ claim[k] \in Results
    /\ answers' = answers \union {<<k, claim[k]>>}
    /\ UNCHANGED <<claim, submissions>>

Next ==
    \E k \in Keys :
        \/ Claim(k) \/ Send(k) \/ Abandon(k) \/ Answer(k)
        \/ \E r \in Results : Settle(k, r)

Spec == Init /\ [][Next]_ledgerVars
=============================================================================
