------------------------- MODULE OrderPlacementProps -------------------------
(***************************************************************************)
(* What OrderPlacement is checked and proved to satisfy.                   *)
(***************************************************************************)
EXTENDS OrderPlacement

(* The types of the variables. *)
TypeOK ==
    /\ attempts \in [Keys -> RowStatus]
    /\ pc \in [Procs -> Labels]
    /\ key \in [Procs -> Keys \union {NoKey}]
    /\ attempt \in [Procs -> 0 .. RETRY_ATTEMPTS]
    /\ result \in [Procs -> {"absent"} \union Terminal]
    /\ creds \in [Procs -> BOOLEAN]
    /\ wire \subseteq Requests
    /\ executed \subseteq Requests
    /\ posts \in [Keys -> 0 .. RETRY_ATTEMPTS]
    /\ answers \subseteq Keys \X Terminal

Owns(p, k) == pc[p] \in Owning /\ key[p] = k

(* A reservation has one owner: of all the processes that ever call        *)
(* place_order with a key, at most one is past reserve(), and as long as   *)
(* it is, the row is pending (polymarket.py:264-271).                      *)
SingleOwner ==
    /\ \A p \in Procs, k \in Keys : Owns(p, k) => attempts[k] = "pending"
    /\ \A p, q \in Procs, k \in Keys : Owns(p, k) /\ Owns(q, k) => p = q

(* Nothing reaches the wire under a key that has no row: the reservation   *)
(* is durable before the first POST (README.md:175), and no key is ever    *)
(* POSTed more often than _retry's limit, whoever calls and crashes.       *)
ReservedBeforePosted ==
    \A k \in Keys :
        /\ attempts[k] = "absent" =>
              posts[k] = 0 /\ \A req \in wire \union executed : req[1] # k
        /\ posts[k] <= RETRY_ATTEMPTS

(* The result a caller of place_order got is the row's, and no two callers *)
(* got different ones (test_polymarket.py:160-170, first == second).       *)
AnswersAgree ==
    \A a \in answers : attempts[a[1]] = a[2]

(* The table claims a fill only where the venue made one: whatever is      *)
(* lost, repeated or late, a filled or partial row has an execution.       *)
FillsAreReal ==
    \A k \in Keys :
        attempts[k] \in {"filled", "partial"} => \E req \in executed : req[1] = k

(* Once a row is finished it never changes and nothing more is sent under  *)
(* its key: a retry, a conflict or a restart cannot reopen it.             *)
FinishedIsFinal ==
    [][\A k \in Keys :
         attempts[k] \in Terminal =>
             attempts'[k] = attempts[k] /\ posts'[k] = posts[k]]_vars

(* A call of place_order ends: the retry loop cannot go round for ever.    *)
CallReturns == \A p \in Procs : pc[p] # "idle" ~> pc[p] = "idle"

(* The processes implement the ledger: a key whose row is pending is held  *)
(* while the process that reserved it lives in the call, abandoned after.  *)
ClaimOf(k) ==
    CASE attempts[k] = "absent"   -> "free"
      [] attempts[k] \in Terminal -> attempts[k]
      [] OTHER -> IF \E p \in Procs : Owns(p, k) THEN "held" ELSE "abandoned"

Ledger == INSTANCE PlacementLedger WITH
            claim <- [k \in Keys |-> ClaimOf(k)],
            submissions <- posts,
            Results <- Terminal,
            MaxSubmissions <- RETRY_ATTEMPTS

ImplementsLedger == Ledger!Spec
=============================================================================
