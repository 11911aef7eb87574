--------------------------- MODULE OrderPlacement ---------------------------
(***************************************************************************)
(* PolymarketAdapter.place_order on top of DbIdempotencyStore: a durable   *)
(* reserve / POST / put protocol between trading-cycle processes, the      *)
(* order_attempts table and the CLOB (external).  Each database call is a  *)
(* transaction of its own (shared/db.py commits when the session closes),  *)
(* so each is a step of its own, and a process may die between any two.    *)
(*                                                                         *)
(* A request is <<key, n>>: the n-th POST made under that key.  The venue  *)
(* has no client order id, so it executes every request it receives.       *)
(***************************************************************************)
EXTENDS Naturals

CONSTANTS
    Procs,           \* trading-cycle processes, one adapter object in each
    Keys,            \* idempotency keys "<cycle_id>:<decision_id>"
    NoKey,           \* the key of a process that is in no call
    RETRY_ATTEMPTS   \* calls _retry makes before it gives up (3 in the code)

ASSUME RetryAssumption == RETRY_ATTEMPTS \in Nat \ {0}
ASSUME NoKeyAssumption == NoKey \notin Keys

VARIABLES
    attempts,   \* order_attempts: the status column of each key's row
    pc,         \* where each process is inside place_order
    key,        \* the key of the order it is placing
    attempt,    \* how many times _retry has called _submit_order
    result,     \* the OrderResult.status it is about to put
    creds,      \* _api_creds_set of its adapter
    (* the venue and the network *)
    wire,       \* requests sent and not yet handled
    executed,   \* requests the venue executed
    (* history *)
    posts,      \* POSTs ever made for each key
    answers     \* <<key, status>> pairs place_order has returned

dbVars    == <<attempts>>
procVars  == <<pc, key, attempt, result, creds>>
venueVars == <<wire, executed, posts>>
vars      == <<attempts, pc, key, attempt, result, creds,
               wire, executed, posts, answers>>

(* OrderStatus; "pending" is the row's status while finished_at is NULL.   *)
Terminal == {"filled", "partial", "open", "cancelled", "rejected"}
RowStatus == {"absent", "pending"} \union Terminal

(* The program counter: which call of place_order comes next.  The two put *)
(* labels differ in what follows the put: a return, or a re-raise.         *)
Owning == {"creds", "submit", "reply", "put", "put_raise"}
Labels == {"idle", "get", "reserve"} \union Owning

Requests == Keys \X (1 .. RETRY_ATTEMPTS)

Init ==
    /\ attempts = [k \in Keys |-> "absent"]
    /\ pc = [p \in Procs |-> "idle"]
    /\ key = [p \in Procs |-> NoKey]
    /\ attempt = [p \in Procs |-> 0]
    /\ result = [p \in Procs |-> "absent"]
    /\ creds = [p \in Procs |-> FALSE]
    /\ wire = {}
    /\ executed = {}
    /\ posts = [k \in Keys |-> 0]
    /\ answers = {}

Goto(p, label) == pc' = [pc EXCEPT ![p] = label]

(* place_order ends, by a return or an exception; the loop that called it  *)
(* catches every exception and goes on with the next decision.             *)
Leave(p) ==
    /\ Goto(p, "idle")
    /\ key' = [key EXCEPT ![p] = NoKey]
    /\ attempt' = [attempt EXCEPT ![p] = 0]
    /\ result' = [result EXCEPT ![p] = "absent"]

-----------------------------------------------------------------------------
(* The dedup gate *)

PlaceOrder(p, k) ==
    /\ pc[p] = "idle"
    /\ Goto(p, "get")
    /\ key' = [key EXCEPT ![p] = k]
    /\ UNCHANGED <<attempts, attempt, result, creds, venueVars, answers>>

(* get(): a finished row short-circuits the call; a pending one does not.  *)
GetHit(p) ==
    /\ pc[p] = "get"
    /\ attempts[key[p]] \in Terminal
    /\ answers' = answers \union {<<key[p], attempts[key[p]]>>}
    /\ Leave(p)
    /\ UNCHANGED <<attempts, creds, venueVars>>

(* Slip: submitting after the get alone.                                   *)
GetMissSubmits(p) ==
    /\ pc[p] = "get"
    /\ attempts[key[p]] \notin Terminal
    /\ Goto(p, "creds")
    /\ UNCHANGED <<attempts, key, attempt, result, creds, venueVars, answers>>

GetMiss(p) ==
    /\ pc[p] = "get"
    /\ attempts[key[p]] \notin Terminal
    /\ Goto(p, "reserve")
    /\ UNCHANGED <<attempts, key, attempt, result, creds, venueVars, answers>>

(* Slips: an upsert that takes over a pending row, and one that takes over *)
(* any row.                                                                *)
ReserveTakesOver(p) ==
    /\ pc[p] = "reserve"
    /\ attempts[key[p]] \in {"absent", "pending"}
    /\ attempts' = [attempts EXCEPT ![key[p]] = "pending"]
    /\ Goto(p, "creds")
    /\ UNCHANGED <<key, attempt, result, creds, venueVars, answers>>

ReserveReopens(p) ==
    /\ pc[p] = "reserve"
    /\ attempts' = [attempts EXCEPT ![key[p]] = "pending"]
    /\ Goto(p, "creds")
    /\ UNCHANGED <<key, attempt, result, creds, venueVars, answers>>

(* reserve(): INSERT ... ON CONFLICT DO NOTHING.  The row that is already  *)
(* there, pending or finished since the get, is an IdempotencyConflict.    *)
Reserve(p) ==
    /\ pc[p] = "reserve"
    /\ attempts[key[p]] = "absent"
    /\ attempts' = [attempts EXCEPT ![key[p]] = "pending"]
    /\ Goto(p, "creds")
    /\ UNCHANGED <<key, attempt, result, creds, venueVars, answers>>

(* Slip: waiting for the other attempt to finish.                          *)
ReserveConflictWaits(p) ==
    /\ pc[p] = "reserve"
    /\ attempts[key[p]] # "absent"
    /\ Goto(p, "get")
    /\ UNCHANGED <<attempts, key, attempt, result, creds, venueVars, answers>>

ReserveConflict(p) ==
    /\ pc[p] = "reserve"
    /\ attempts[key[p]] # "absent"
    /\ Leave(p)
    /\ UNCHANGED <<attempts, creds, venueVars, answers>>

(* The INSERT commits and the connection drops before the acknowledgement: *)
(* the call raises and leaves a pending row behind.                        *)
ReserveAckLost(p) ==
    /\ pc[p] = "reserve"
    /\ attempts[key[p]] = "absent"
    /\ attempts' = [attempts EXCEPT ![key[p]] = "pending"]
    /\ Leave(p)
    /\ UNCHANGED <<creds, venueVars, answers>>

-----------------------------------------------------------------------------
(* The submission *)

(* _ensure_api_creds is called outside the try: when it fails the          *)
(* exception escapes place_order and the row stays pending.                *)
EnsureApiCreds(p) ==
    /\ pc[p] = "creds"
    /\ creds' = [creds EXCEPT ![p] = TRUE]
    /\ Goto(p, "submit")
    /\ UNCHANGED <<attempts, key, attempt, result, venueVars, answers>>

ApiCredsFail(p) ==
    /\ pc[p] = "creds"
    /\ ~creds[p]
    /\ Leave(p)
    /\ UNCHANGED <<attempts, creds, venueVars, answers>>

Count(p) == attempt' = [attempt EXCEPT ![p] = @ + 1]

(* One _submit_order of _retry: sign again, POST again.                    *)
Submit(p) ==
    /\ pc[p] = "submit"
    /\ LET k == key[p] IN
        /\ posts' = [posts EXCEPT ![k] = @ + 1]
        /\ wire' = wire \union {<<k, posts[k] + 1>>}
    /\ Count(p)
    /\ Goto(p, "reply")
    /\ UNCHANGED <<attempts, key, result, creds, executed, answers>>

(* A transient error, or an unknown one that _map_unknown reads as         *)
(* transient: another attempt while there is one, else put "rejected" and  *)
(* re-raise.  n is the number of attempts made, this one included.         *)
Transient(p, n) ==
    IF n < RETRY_ATTEMPTS
    THEN Goto(p, "submit") /\ UNCHANGED result
    ELSE Goto(p, "put_raise") /\ result' = [result EXCEPT ![p] = "rejected"]

(* A permanent error: put "rejected" and return it.                        *)
Permanent(p) ==
    /\ Goto(p, "put")
    /\ result' = [result EXCEPT ![p] = "rejected"]

(* create_order fails before anything is posted.                           *)
SignFail(p) ==
    /\ pc[p] = "submit"
    /\ Transient(p, attempt[p] + 1) \/ Permanent(p)
    /\ Count(p)
    /\ UNCHANGED <<attempts, key, creds, venueVars, answers>>

Request(p) == <<key[p], posts[key[p]]>>

(* A 5xx, a 429, a timeout or a reset: it says nothing of what the venue   *)
(* did, or will still do, with the request.                                *)
TransientReply(p) ==
    /\ pc[p] = "reply"
    /\ Transient(p, attempt[p])
    /\ UNCHANGED <<attempts, key, attempt, creds, venueVars, answers>>

(* A 4xx, or any other error with "400", "404" or "validation" somewhere   *)
(* in its text, which _map_unknown takes for one: it need not mean that    *)
(* the venue refused the request.                                          *)
PermanentReply(p) ==
    /\ pc[p] = "reply"
    /\ Permanent(p)
    /\ UNCHANGED <<attempts, key, attempt, creds, venueVars, answers>>

(* Slip: taking any match the venue reports for a fill.                    *)
ParsedAsMatched(req) == Terminal

(* _parse_order_result: a fill is reported only for an executed request;   *)
(* a status text the map does not know is "open", and a match without an   *)
(* amount is "rejected", whatever the venue did.                           *)
Parsed(req) == IF req \in executed THEN Terminal
                                   ELSE {"open", "cancelled", "rejected"}

OrderReply(p) ==
    /\ pc[p] = "reply"
    /\ Request(p) \notin wire
    /\ \E s \in Parsed(Request(p)) : result' = [result EXCEPT ![p] = s]
    /\ Goto(p, "put")
    /\ UNCHANGED <<attempts, key, attempt, creds, venueVars, answers>>

(* Slip: giving the reservation back when the reply does not parse.        *)
ParseFailReleases(p) ==
    /\ pc[p] = "reply"
    /\ Request(p) \notin wire
    /\ attempts' = [attempts EXCEPT ![key[p]] = "absent"]
    /\ Leave(p)
    /\ UNCHANGED <<creds, venueVars, answers>>

(* The reply does not parse: outside the try, so the row stays pending.    *)
ParseFail(p) ==
    /\ pc[p] = "reply"
    /\ Request(p) \notin wire
    /\ Leave(p)
    /\ UNCHANGED <<attempts, creds, venueVars, answers>>

-----------------------------------------------------------------------------
(* The terminal write *)

(* Slip: a put whose session is closed without the commit.                 *)
FinaliseUncommitted(p) == UNCHANGED attempts

Finalise(p) == attempts' = [attempts EXCEPT ![key[p]] = result[p]]

Put(p) ==
    /\ pc[p] = "put"
    /\ Finalise(p)
    /\ answers' = answers \union {<<key[p], result[p]>>}
    /\ Leave(p)
    /\ UNCHANGED <<creds, venueVars>>

(* The put after the last transient error, which is then raised again; or  *)
(* a put that commits and loses its acknowledgement.                       *)
PutRaise(p) ==
    /\ pc[p] \in {"put", "put_raise"}
    /\ Finalise(p)
    /\ Leave(p)
    /\ UNCHANGED <<creds, venueVars, answers>>

-----------------------------------------------------------------------------
(* A database call that raises without any effect: in get, reserve or put. *)
DbFail(p) ==
    /\ pc[p] \in {"get", "reserve", "put", "put_raise"}
    /\ Leave(p)
    /\ UNCHANGED <<attempts, creds, venueVars, answers>>

(* The process ends: killed anywhere, at the latest by `timeout 1800`, or  *)
(* done with its cycle.  The table, the venue and what is on the wire      *)
(* outlive it; the adapter and its credentials do not.                     *)
Crash(p) ==
    /\ pc[p] # "idle" \/ creds[p]
    /\ Leave(p)
    /\ creds' = [creds EXCEPT ![p] = FALSE]
    /\ UNCHANGED <<attempts, venueVars, answers>>

(* The venue, at its own pace: late requests included.                     *)
VenueExecute(req) ==
    /\ req \in wire
    /\ wire' = wire \ {req}
    /\ executed' = executed \union {req}
    /\ UNCHANGED <<dbVars, procVars, posts, answers>>

VenueRefuse(req) ==
    /\ req \in wire
    /\ wire' = wire \ {req}
    /\ UNCHANGED <<dbVars, procVars, executed, posts, answers>>

-----------------------------------------------------------------------------
(* A step of place_order itself, without the environment's failures.       *)
Step(p) ==
    \/ GetHit(p) \/ GetMiss(p)
    \/ Reserve(p) \/ ReserveConflict(p) \/ ReserveAckLost(p)
    \/ EnsureApiCreds(p) \/ ApiCredsFail(p)
    \/ Submit(p) \/ SignFail(p)
    \/ TransientReply(p) \/ PermanentReply(p) \/ OrderReply(p) \/ ParseFail(p)
    \/ Put(p) \/ PutRaise(p)
    \/ DbFail(p)

Venue == \E req \in Requests : VenueExecute(req) \/ VenueRefuse(req)

Next ==
    \/ \E p \in Procs, k \in Keys : PlaceOrder(p, k)
    \/ \E p \in Procs : Step(p) \/ Crash(p)
    \/ Venue

Spec == Init /\ [][Next]_vars

(* A running process keeps executing: the HTTP client's own timeout ends   *)
(* every wait for a reply.  Neither the venue nor a crash is fair.         *)
FairSpec == Spec /\ \A p \in Procs : WF_vars(Step(p))
=============================================================================
