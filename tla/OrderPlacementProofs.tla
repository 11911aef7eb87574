------------------------ MODULE OrderPlacementProofs ------------------------
(***************************************************************************)
(* Proofs, for any sets of processes and keys and any retry limit, of the  *)
(* invariants, the finality property and the ledger refinement.            *)
(***************************************************************************)
EXTENDS OrderPlacementProps, TLAPS

(* A process has a key exactly while it is in a call, and only a call that *)
(* has reached its submission has made attempts.                           *)
CallInv ==
    \A p \in Procs :
        /\ pc[p] = "idle" <=> key[p] = NoKey
        /\ pc[p] \in {"idle", "get", "reserve", "creds"} => attempt[p] = 0
        /\ pc[p] = "submit" => attempt[p] < RETRY_ATTEMPTS
        /\ pc[p] = "reply" => attempt[p] > 0

(* The owner of a key has made every POST there is under it.               *)
PostInv ==
    /\ \A p \in Procs, k \in Keys : Owns(p, k) => posts[k] <= attempt[p]
    /\ \A p \in Procs, k \in Keys : Owns(p, k) /\ pc[p] = "reply" => posts[k] > 0
    /\ \A req \in wire \union executed : req[2] <= posts[req[1]]

(* What is about to be put is a terminal status, and a fill is real.       *)
ResultInv ==
    /\ \A p \in Procs :
        pc[p] \in {"put", "put_raise"} => result[p] \in Terminal
    /\ \A p \in Procs, k \in Keys :
        /\ Owns(p, k)
        /\ pc[p] \in {"put", "put_raise"}
        /\ result[p] \in {"filled", "partial"}
        => \E req \in executed : req[1] = k

(* The inductive invariant.                                                *)
IInv ==
    /\ TypeOK
    /\ CallInv
    /\ SingleOwner
    /\ PostInv
    /\ ReservedBeforePosted
    /\ ResultInv
    /\ AnswersAgree
    /\ FillsAreReal

-----------------------------------------------------------------------------
(* The steps preserve the inductive invariant.                             *)

(* A call that ends without writing to the table leaves the rest as it was.*)
LEMMA LeaveStep ==
  ASSUME IInv, NEW p \in Procs, Leave(p),
         UNCHANGED <<attempts, venueVars, answers>>,
         creds' \in {creds, [creds EXCEPT ![p] = FALSE]}
  PROVE  IInv'
<1>1. TypeOK'
  <2>0. TypeOK
    BY DEF IInv
  <2>1. pc' \in [Procs -> Labels]
    BY <2>0 DEF TypeOK, Leave, Goto, Labels
  <2>2. key' \in [Procs -> Keys \union {NoKey}]
    BY <2>0 DEF TypeOK, Leave
  <2>3. attempt' \in [Procs -> 0 .. RETRY_ATTEMPTS]
    BY <2>0, RetryAssumption DEF TypeOK, Leave
  <2>4. result' \in [Procs -> {"absent"} \union Terminal]
    BY <2>0 DEF TypeOK, Leave
  <2>5. creds' \in [Procs -> BOOLEAN]
    BY <2>0 DEF TypeOK
  <2> QED
    BY <2>0, <2>1, <2>2, <2>3, <2>4, <2>5 DEF TypeOK, venueVars
<1>2. CallInv'
  BY DEF IInv, TypeOK, CallInv, Leave, Goto
<1>3. SingleOwner'
  BY DEF IInv, TypeOK, SingleOwner, venueVars, Leave, Goto, Owns, Owning
<1>4. PostInv'
  BY DEF IInv, TypeOK, PostInv, Leave, Goto, venueVars, Owns, Owning
<1>5. ResultInv'
  BY DEF IInv, TypeOK, ResultInv, Leave, Goto, venueVars, Owns
<1>6. ReservedBeforePosted' /\ AnswersAgree' /\ FillsAreReal'
  BY DEF IInv, ReservedBeforePosted, AnswersAgree, FillsAreReal, venueVars
<1> QED BY <1>1, <1>2, <1>3, <1>4, <1>5, <1>6 DEF IInv

(* A call begins: the process has a key and owns nothing yet.              *)
LEMMA PlaceOrderStep ==
  ASSUME IInv, NEW p \in Procs, NEW k \in Keys, PlaceOrder(p, k)
  PROVE  IInv'
<1>1. TypeOK'
  BY DEF IInv, TypeOK, PlaceOrder, Goto, venueVars, Labels
<1>2. CallInv'
  BY NoKeyAssumption DEF IInv, TypeOK, CallInv, PlaceOrder, Goto
<1>3. SingleOwner'
  BY DEF IInv, SingleOwner, PlaceOrder, Goto, Owns, Owning
<1>4. PostInv'
  BY DEF IInv, PostInv, PlaceOrder, Goto, venueVars, Owns, Owning
<1>5. ResultInv'
  BY DEF IInv, ResultInv, PlaceOrder, Goto, venueVars, Owns
<1>6. ReservedBeforePosted' /\ AnswersAgree' /\ FillsAreReal'
  BY DEF IInv, ReservedBeforePosted, AnswersAgree, FillsAreReal, PlaceOrder,
      venueVars
<1> QED BY <1>1, <1>2, <1>3, <1>4, <1>5, <1>6 DEF IInv

(* The answer get() gives is the finished row itself.                      *)
LEMMA GetHitStep ==
  ASSUME IInv, NEW p \in Procs, GetHit(p)
  PROVE  IInv'
<1>1. TypeOK'
  BY DEF IInv, TypeOK, CallInv, GetHit, Leave, Goto, venueVars, Labels
<1>2. CallInv'
  BY DEF IInv, TypeOK, CallInv, GetHit, Leave, Goto
<1>3. SingleOwner'
  BY DEF IInv, SingleOwner, GetHit, Leave, Goto, Owns, Owning
<1>4. PostInv'
  BY DEF IInv, PostInv, GetHit, Leave, Goto, venueVars, Owns, Owning
<1>5. ResultInv'
  BY DEF IInv, ResultInv, GetHit, Leave, Goto, venueVars, Owns
<1>6. ReservedBeforePosted'
  BY DEF IInv, ReservedBeforePosted, GetHit, venueVars
<1>7. AnswersAgree'
  BY DEF IInv, AnswersAgree, GetHit
<1>8. FillsAreReal'
  BY DEF IInv, FillsAreReal, GetHit, venueVars
<1> QED BY <1>1, <1>2, <1>3, <1>4, <1>5, <1>6, <1>7, <1>8 DEF IInv

(* Going on to reserve() makes nobody an owner.                            *)
LEMMA GetMissStep ==
  ASSUME IInv, NEW p \in Procs, GetMiss(p)
  PROVE  IInv'
<1>1. TypeOK'
  BY DEF IInv, TypeOK, GetMiss, Goto, venueVars, Labels
<1>2. CallInv'
  BY DEF IInv, CallInv, GetMiss, Goto
<1>3. SingleOwner'
  BY DEF IInv, SingleOwner, GetMiss, Goto, Owns, Owning
<1>4. PostInv'
  BY DEF IInv, PostInv, GetMiss, Goto, venueVars, Owns, Owning
<1>5. ResultInv'
  BY DEF IInv, ResultInv, GetMiss, Goto, venueVars, Owns
<1>6. ReservedBeforePosted' /\ AnswersAgree' /\ FillsAreReal'
  BY DEF IInv, ReservedBeforePosted, AnswersAgree, FillsAreReal, GetMiss,
      venueVars
<1> QED BY <1>1, <1>2, <1>3, <1>4, <1>5, <1>6 DEF IInv

(* The insert makes its process the only owner: the row was absent, so no  *)
(* other process owned the key and nothing had been posted under it.       *)
LEMMA ReserveStep ==
  ASSUME IInv, NEW p \in Procs, Reserve(p)
  PROVE  IInv'
<1>1. TypeOK'
  BY DEF IInv, TypeOK, Reserve, Goto, venueVars, Owning, Labels, RowStatus
<1>2. CallInv'
  BY DEF IInv, CallInv, Reserve, Goto
<1>3. SingleOwner'
  BY DEF IInv, TypeOK, SingleOwner, Reserve, Goto, Owns
<1>4. PostInv'
  BY DEF IInv, CallInv, PostInv, ReservedBeforePosted, Reserve, Goto,
      venueVars, Owns
<1>5. ResultInv'
  BY DEF IInv, ResultInv, Reserve, Goto, venueVars, Owns
<1>6. ReservedBeforePosted'
  BY DEF IInv, ReservedBeforePosted, Reserve, venueVars
<1>7. AnswersAgree'
  BY DEF IInv, TypeOK, AnswersAgree, Reserve, Terminal
<1>8. FillsAreReal'
  BY DEF IInv, FillsAreReal, Reserve, venueVars
<1> QED BY <1>1, <1>2, <1>3, <1>4, <1>5, <1>6, <1>7, <1>8 DEF IInv

(* A reservation nobody knows of: a pending row without an owner.          *)
LEMMA ReserveAckLostStep ==
  ASSUME IInv, NEW p \in Procs, ReserveAckLost(p)
  PROVE  IInv'
<1>1. TypeOK'
  BY DEF IInv, TypeOK, CallInv, ReserveAckLost, Leave, Goto, venueVars,
      Labels, RowStatus
<1>2. CallInv'
  BY DEF IInv, TypeOK, CallInv, ReserveAckLost, Leave, Goto
<1>3. SingleOwner'
  BY DEF IInv, SingleOwner, ReserveAckLost, Leave, Goto, Owns, Owning
<1>4. PostInv'
  BY DEF IInv, PostInv, ReserveAckLost, Leave, Goto, venueVars, Owns, Owning
<1>5. ResultInv'
  BY DEF IInv, ResultInv, ReserveAckLost, Leave, Goto, venueVars, Owns
<1>6. ReservedBeforePosted'
  BY DEF IInv, ReservedBeforePosted, ReserveAckLost, venueVars
<1>7. AnswersAgree'
  BY DEF IInv, TypeOK, AnswersAgree, ReserveAckLost, Terminal
<1>8. FillsAreReal'
  BY DEF IInv, FillsAreReal, ReserveAckLost, venueVars
<1> QED BY <1>1, <1>2, <1>3, <1>4, <1>5, <1>6, <1>7, <1>8 DEF IInv

(* The owner remains the owner.                                            *)
LEMMA EnsureApiCredsStep ==
  ASSUME IInv, NEW p \in Procs, EnsureApiCreds(p)
  PROVE  IInv'
<1>1. TypeOK'
  BY DEF IInv, TypeOK, EnsureApiCreds, Goto, venueVars, Owning, Labels
<1>2. CallInv'
  BY RetryAssumption DEF IInv, CallInv, EnsureApiCreds, Goto
<1>3. SingleOwner'
  BY DEF IInv, SingleOwner, EnsureApiCreds, Goto, Owns, Owning
<1>4. PostInv'
  BY DEF IInv, PostInv, EnsureApiCreds, Goto, venueVars, Owns, Owning
<1>5. ResultInv'
  BY DEF IInv, ResultInv, EnsureApiCreds, Goto, venueVars, Owns
<1>6. ReservedBeforePosted' /\ AnswersAgree' /\ FillsAreReal'
  BY DEF IInv, ReservedBeforePosted, AnswersAgree, FillsAreReal,
      EnsureApiCreds, venueVars
<1> QED BY <1>1, <1>2, <1>3, <1>4, <1>5, <1>6 DEF IInv

(* Only the owner POSTs, and it has POSTed no more often than it has       *)
(* attempted; so the number of POSTs stays within the limit.               *)
LEMMA SubmitStep ==
  ASSUME IInv, NEW p \in Procs, Submit(p)
  PROVE  IInv'
<1>1. TypeOK'
  BY RetryAssumption DEF IInv, TypeOK, CallInv, PostInv, Submit, Count, Goto,
      Owns, Owning, Labels, Requests
<1>2. CallInv'
  BY DEF IInv, TypeOK, CallInv, Submit, Count, Goto
<1>3. SingleOwner'
  BY DEF IInv, SingleOwner, Submit, Goto, Owns, Owning
<1>4. PostInv'
  BY DEF IInv, TypeOK, CallInv, SingleOwner, PostInv, Submit, Count, Goto,
      Owns, Labels, Requests
<1>5. ResultInv'
  BY DEF IInv, ResultInv, Submit, Goto, Owns
<1>6. ReservedBeforePosted'
  BY RetryAssumption DEF IInv, TypeOK, CallInv, SingleOwner, PostInv,
      ReservedBeforePosted, Submit, Owns, Labels
<1>7. AnswersAgree'
  BY DEF IInv, AnswersAgree, Submit
<1>8. FillsAreReal'
  BY DEF IInv, FillsAreReal, Submit
<1> QED BY <1>1, <1>2, <1>3, <1>4, <1>5, <1>6, <1>7, <1>8 DEF IInv

(* An attempt that posts nothing.                                          *)
LEMMA SignFailStep ==
  ASSUME IInv, NEW p \in Procs, SignFail(p)
  PROVE  IInv'
<1>1. TypeOK'
  BY RetryAssumption DEF IInv, TypeOK, CallInv, SignFail, Transient,
      Permanent, Count, Goto, venueVars, Owning, Labels, Terminal
<1>2. CallInv'
  BY RetryAssumption DEF IInv, TypeOK, CallInv, SignFail, Transient,
      Permanent, Count, Goto
<1>3. SingleOwner'
  BY DEF IInv, TypeOK, SingleOwner, SignFail, Transient, Permanent, Goto,
      Owns, Labels
<1>4. PostInv'
  BY DEF IInv, TypeOK, PostInv, SignFail, Transient, Permanent, Count, Goto,
      venueVars, Owns, Labels
<1>5. ResultInv'
  BY DEF IInv, TypeOK, ResultInv, SignFail, Transient, Permanent, Goto,
      venueVars, Owns, Terminal
<1>6. ReservedBeforePosted' /\ AnswersAgree' /\ FillsAreReal'
  BY DEF IInv, ReservedBeforePosted, AnswersAgree, FillsAreReal, SignFail,
      venueVars
<1> QED BY <1>1, <1>2, <1>3, <1>4, <1>5, <1>6 DEF IInv

(* Another attempt, only while there is one; else "rejected" is put.       *)
LEMMA TransientReplyStep ==
  ASSUME IInv, NEW p \in Procs, TransientReply(p)
  PROVE  IInv'
<1>1. TypeOK'
  BY DEF IInv, TypeOK, TransientReply, Transient, Goto, venueVars, Owning,
      Labels, Terminal
<1>2. CallInv'
  BY DEF IInv, TypeOK, CallInv, TransientReply, Transient, Goto
<1>3. SingleOwner'
  BY DEF IInv, TypeOK, SingleOwner, TransientReply, Transient, Goto, Owns,
      Labels
<1>4. PostInv'
  BY DEF IInv, TypeOK, PostInv, TransientReply, Transient, Goto, venueVars,
      Owns, Labels
<1>5. ResultInv'
  BY DEF IInv, TypeOK, ResultInv, TransientReply, Transient, Goto, venueVars,
      Owns, Terminal
<1>6. ReservedBeforePosted' /\ AnswersAgree' /\ FillsAreReal'
  BY DEF IInv, ReservedBeforePosted, AnswersAgree, FillsAreReal,
      TransientReply, venueVars
<1> QED BY <1>1, <1>2, <1>3, <1>4, <1>5, <1>6 DEF IInv

(* A refused request is put as "rejected".                                 *)
LEMMA PermanentReplyStep ==
  ASSUME IInv, NEW p \in Procs, PermanentReply(p)
  PROVE  IInv'
<1>1. TypeOK'
  BY DEF IInv, TypeOK, PermanentReply, Permanent, Goto, venueVars, Owning,
      Labels, Terminal
<1>2. CallInv'
  BY DEF IInv, CallInv, PermanentReply, Permanent, Goto
<1>3. SingleOwner'
  BY DEF IInv, SingleOwner, PermanentReply, Permanent, Goto, Owns, Owning
<1>4. PostInv'
  BY DEF IInv, PostInv, PermanentReply, Permanent, Goto, venueVars, Owns,
      Owning
<1>5. ResultInv'
  BY DEF IInv, TypeOK, ResultInv, PermanentReply, Permanent, Goto, venueVars,
      Owns, Terminal
<1>6. ReservedBeforePosted' /\ AnswersAgree' /\ FillsAreReal'
  BY DEF IInv, ReservedBeforePosted, AnswersAgree, FillsAreReal,
      PermanentReply, venueVars
<1> QED BY <1>1, <1>2, <1>3, <1>4, <1>5, <1>6 DEF IInv

(* A fill is about to be put only for an executed request.                 *)
LEMMA OrderReplyStep ==
  ASSUME IInv, NEW p \in Procs, OrderReply(p)
  PROVE  IInv'
<1>1. TypeOK'
  BY DEF IInv, TypeOK, OrderReply, Parsed, Goto, venueVars, Owning, Labels,
      Terminal
<1>2. CallInv'
  BY DEF IInv, CallInv, OrderReply, Goto
<1>3. SingleOwner'
  BY DEF IInv, SingleOwner, OrderReply, Goto, Owns, Owning
<1>4. PostInv'
  BY DEF IInv, PostInv, OrderReply, Goto, venueVars, Owns, Owning
<1>5. ResultInv'
  BY DEF IInv, TypeOK, ResultInv, OrderReply, Request, Parsed, Goto,
      venueVars, Owns, Terminal
<1>6. ReservedBeforePosted' /\ AnswersAgree' /\ FillsAreReal'
  BY DEF IInv, ReservedBeforePosted, AnswersAgree, FillsAreReal, OrderReply,
      venueVars
<1> QED BY <1>1, <1>2, <1>3, <1>4, <1>5, <1>6 DEF IInv

(* The put makes the row and the answer the same; the process was the only *)
(* owner, so no other owner is left with a finished row.                   *)
LEMMA PutStep ==
  ASSUME IInv, NEW p \in Procs, Put(p)
  PROVE  IInv'
<1>1. TypeOK'
  BY RetryAssumption DEF IInv, TypeOK, CallInv, ResultInv, Put, Finalise,
      Leave, Goto, venueVars, Labels, RowStatus
<1>2. CallInv'
  BY DEF IInv, TypeOK, CallInv, Put, Leave, Goto
<1>3. SingleOwner'
  BY DEF IInv, TypeOK, SingleOwner, Put, Finalise, Leave, Goto, Owns, Labels,
      CallInv, Owning
<1>4. PostInv'
  BY DEF IInv, TypeOK, PostInv, Put, Leave, Goto, venueVars, Owns, CallInv,
      Labels, Owning
<1>5. ResultInv'
  BY DEF IInv, TypeOK, ResultInv, Put, Leave, Goto, venueVars, Owns
<1>6. ReservedBeforePosted'
  BY DEF IInv, ReservedBeforePosted, ResultInv, Put, Finalise, venueVars,
      Terminal
<1>7. AnswersAgree'
  BY DEF IInv, TypeOK, CallInv, SingleOwner, AnswersAgree, Put, Finalise,
      Owns, Labels, Terminal
<1>8. FillsAreReal'
  BY DEF IInv, TypeOK, CallInv, ResultInv, FillsAreReal, Put, Finalise,
      venueVars, Owns, Owning, Labels
<1> QED BY <1>1, <1>2, <1>3, <1>4, <1>5, <1>6, <1>7, <1>8 DEF IInv

(* The put whose result nobody gets.                                       *)
LEMMA PutRaiseStep ==
  ASSUME IInv, NEW p \in Procs, PutRaise(p)
  PROVE  IInv'
<1>1. TypeOK'
  BY RetryAssumption DEF IInv, TypeOK, CallInv, PutRaise, Finalise, Leave,
      Goto, venueVars, Labels, RowStatus
<1>2. CallInv'
  BY DEF IInv, TypeOK, CallInv, PutRaise, Leave, Goto
<1>3. SingleOwner'
  BY DEF IInv, TypeOK, SingleOwner, PutRaise, Finalise, Leave, Goto, Owns,
      Labels, CallInv, Owning
<1>4. PostInv'
  BY DEF IInv, TypeOK, PostInv, PutRaise, Leave, Goto, venueVars, Owns,
      CallInv, Labels, Owning
<1>5. ResultInv'
  BY DEF IInv, TypeOK, ResultInv, PutRaise, Leave, Goto, venueVars, Owns
<1>6. ReservedBeforePosted'
  BY DEF IInv, ReservedBeforePosted, ResultInv, PutRaise, Finalise,
      venueVars, Terminal
<1>7. AnswersAgree'
  BY DEF IInv, TypeOK, SingleOwner, AnswersAgree, PutRaise, Finalise, Owns,
      Labels, Terminal
<1>8. FillsAreReal'
  BY DEF IInv, TypeOK, CallInv, ResultInv, FillsAreReal, PutRaise, Finalise,
      venueVars, Owns, Owning, Labels
<1> QED BY <1>1, <1>2, <1>3, <1>4, <1>5, <1>6, <1>7, <1>8 DEF IInv

(* The venue moves a request from the wire to the executed ones.           *)
LEMMA VenueExecuteStep ==
  ASSUME IInv, NEW req \in Requests, VenueExecute(req)
  PROVE  IInv'
<1>1. TypeOK'
  BY DEF IInv, TypeOK, VenueExecute, dbVars, procVars
<1>2. CallInv'
  BY DEF IInv, CallInv, VenueExecute, procVars
<1>3. SingleOwner'
  BY DEF IInv, SingleOwner, VenueExecute, dbVars, procVars, Owns
<1>4. PostInv'
  BY DEF IInv, PostInv, VenueExecute, procVars, Owns
<1>5. ResultInv'
  BY DEF IInv, ResultInv, VenueExecute, procVars, Owns
<1>6. ReservedBeforePosted'
  BY DEF IInv, ReservedBeforePosted, VenueExecute, dbVars
<1>7. AnswersAgree'
  BY DEF IInv, AnswersAgree, VenueExecute, dbVars
<1>8. FillsAreReal'
  BY DEF IInv, FillsAreReal, VenueExecute, dbVars, procVars
<1> QED BY <1>1, <1>2, <1>3, <1>4, <1>5, <1>6, <1>7, <1>8 DEF IInv

(* The venue drops a request.                                              *)
LEMMA VenueRefuseStep ==
  ASSUME IInv, NEW req \in Requests, VenueRefuse(req)
  PROVE  IInv'
<1>1. TypeOK'
  BY DEF IInv, TypeOK, VenueRefuse, dbVars, procVars
<1>2. CallInv'
  BY DEF IInv, CallInv, VenueRefuse, procVars
<1>3. SingleOwner'
  BY DEF IInv, SingleOwner, VenueRefuse, dbVars, procVars, Owns
<1>4. PostInv'
  BY DEF IInv, PostInv, VenueRefuse, procVars, Owns
<1>5. ResultInv'
  BY DEF IInv, ResultInv, VenueRefuse, procVars, Owns
<1>6. ReservedBeforePosted'
  BY DEF IInv, ReservedBeforePosted, VenueRefuse, dbVars
<1>7. AnswersAgree'
  BY DEF IInv, AnswersAgree, VenueRefuse, dbVars
<1>8. FillsAreReal'
  BY DEF IInv, FillsAreReal, VenueRefuse, dbVars, procVars
<1> QED BY <1>1, <1>2, <1>3, <1>4, <1>5, <1>6, <1>7, <1>8 DEF IInv

(* The initial state satisfies the inductive invariant.                    *)
LEMMA InitInv == Init => IInv
  BY RetryAssumption
  DEF Init, IInv, TypeOK, CallInv, SingleOwner, PostInv, ReservedBeforePosted,
      ResultInv, AnswersAgree, FillsAreReal, Owns, Owning, Labels, Terminal,
      RowStatus, Requests

(* Every step preserves it.                                                *)
LEMMA NextInv == IInv /\ [Next]_vars => IInv'
<1> SUFFICES ASSUME IInv, [Next]_vars PROVE IInv'
  OBVIOUS
<1>1. CASE UNCHANGED vars
  BY <1>1
  DEF vars, IInv, TypeOK, CallInv, SingleOwner, PostInv, ReservedBeforePosted,
      ResultInv, AnswersAgree, FillsAreReal, Owns
<1>2. ASSUME NEW p \in Procs, NEW k \in Keys, PlaceOrder(p, k) PROVE IInv'
  BY <1>2, PlaceOrderStep
<1>3. ASSUME NEW p \in Procs, Step(p) PROVE IInv'
  <2>1. CASE GetHit(p) \/ GetMiss(p) \/ Reserve(p) \/ ReserveAckLost(p)
    BY <2>1, GetHitStep, GetMissStep, ReserveStep, ReserveAckLostStep
  <2>2. CASE EnsureApiCreds(p) \/ Submit(p) \/ SignFail(p)
    BY <2>2, EnsureApiCredsStep, SubmitStep, SignFailStep
  <2>3. CASE TransientReply(p) \/ PermanentReply(p) \/ OrderReply(p)
    BY <2>3, TransientReplyStep, PermanentReplyStep, OrderReplyStep
  <2>4. CASE Put(p) \/ PutRaise(p)
    BY <2>4, PutStep, PutRaiseStep
  <2>5. CASE ReserveConflict(p) \/ ApiCredsFail(p) \/ ParseFail(p) \/ DbFail(p)
    BY <2>5, LeaveStep DEF ReserveConflict, ApiCredsFail, ParseFail, DbFail
  <2> QED
    BY <1>3, <2>1, <2>2, <2>3, <2>4, <2>5 DEF Step
<1>4. ASSUME NEW p \in Procs, Crash(p) PROVE IInv'
  BY <1>4, LeaveStep DEF Crash
<1>5. ASSUME NEW req \in Requests, VenueExecute(req) \/ VenueRefuse(req)
      PROVE  IInv'
  BY <1>5, VenueExecuteStep, VenueRefuseStep
<1> QED
  BY <1>1, <1>2, <1>3, <1>4, <1>5 DEF Next, Venue

(* The inductive invariant holds in every reachable state.                 *)
THEOREM Invariance == Spec => []IInv
  BY InitInv, NextInv, PTL DEF Spec

-----------------------------------------------------------------------------
(* The invariants that the runs check.                                     *)

(* The variables keep their types.                                         *)
THEOREM TypeCorrect == Spec => []TypeOK
<1>1. IInv => TypeOK
  BY DEF IInv
<1> QED
  BY <1>1, Invariance, PTL

(* However many processes call place_order with a key, at most one of them *)
(* is past the reservation, and the row stays pending while it is.         *)
THEOREM OneOwner == Spec => []SingleOwner
<1>1. IInv => SingleOwner
  BY DEF IInv
<1> QED
  BY <1>1, Invariance, PTL

(* Nothing is sent before the row is durable, and no key is POSTed more    *)
(* often than the retry limit, for any number of callers and crashes.      *)
THEOREM ReservedFirst == Spec => []ReservedBeforePosted
<1>1. IInv => ReservedBeforePosted
  BY DEF IInv
<1> QED
  BY <1>1, Invariance, PTL

(* All callers that get an answer for a key get the row's result.          *)
THEOREM OneAnswer == Spec => []AnswersAgree
<1>1. IInv => AnswersAgree
  BY DEF IInv
<1> QED
  BY <1>1, Invariance, PTL

(* A row that says filled or partial has an execution at the venue.        *)
THEOREM RealFills == Spec => []FillsAreReal
<1>1. IInv => FillsAreReal
  BY DEF IInv
<1> QED
  BY <1>1, Invariance, PTL

-----------------------------------------------------------------------------
(* A finished row is final.                                                *)

(* A step that changes a row, or POSTs, is taken by the row's owner or is  *)
(* the insert of a row that was absent.                                    *)
LEMMA OnlyTheOwnerWrites ==
  ASSUME IInv, [Next]_vars, NEW k \in Keys,
         attempts'[k] # attempts[k] \/ posts'[k] # posts[k]
  PROVE  attempts[k] \in {"absent", "pending"}
<1>1. TypeOK /\ SingleOwner
  BY DEF IInv
<1>2. ASSUME NEW p \in Procs, Reserve(p) \/ ReserveAckLost(p)
      PROVE  attempts[k] = "absent"
  BY <1>1, <1>2 DEF Reserve, ReserveAckLost, TypeOK, venueVars
<1>3. ASSUME NEW p \in Procs, Submit(p) \/ Put(p) \/ PutRaise(p)
      PROVE  attempts[k] = "pending"
  BY <1>1, <1>3
  DEF Submit, Put, PutRaise, Finalise, TypeOK, SingleOwner, Owns, Owning,
      venueVars
<1>4. ASSUME NEW p \in Procs, Step(p) \/ Crash(p)
      PROVE  Reserve(p) \/ ReserveAckLost(p) \/ Submit(p) \/ Put(p) \/ PutRaise(p)
  BY <1>4
  DEF Step, GetHit, GetMiss, ReserveConflict, EnsureApiCreds, ApiCredsFail,
      SignFail, TransientReply, PermanentReply, OrderReply, ParseFail, DbFail,
      Crash, venueVars
<1>5. ~UNCHANGED vars
  BY DEF vars
<1>6. ~Venue
  BY DEF Venue, VenueExecute, VenueRefuse, dbVars
<1>7. ~\E p \in Procs, c \in Keys : PlaceOrder(p, c)
  BY DEF PlaceOrder, venueVars
<1> QED
  BY <1>2, <1>3, <1>4, <1>5, <1>6, <1>7 DEF Next

(* No step, of any process or of the venue, changes a finished row or      *)
(* sends anything more under its key.                                      *)
THEOREM Finality == Spec => FinishedIsFinal
<1>1. ASSUME IInv, [Next]_vars
      PROVE  \A k \in Keys :
               attempts[k] \in Terminal =>
                 attempts'[k] = attempts[k] /\ posts'[k] = posts[k]
  BY <1>1, OnlyTheOwnerWrites DEF Terminal
<1> QED
  BY <1>1, Invariance, PTL DEF Spec, FinishedIsFinal

-----------------------------------------------------------------------------
(* The processes implement the ledger.                                     *)

(* A claim that was held has an owner who lives, and no other owner.       *)
LEMMA HeldByOwner ==
  ASSUME IInv, NEW p \in Procs, NEW k \in Keys, Owns(p, k)
  PROVE  ClaimOf(k) = "held" /\ \A q \in Procs : Owns(q, k) => q = p
  BY DEF IInv, SingleOwner, ClaimOf, Terminal

(* A row and an ownership that do not change leave the claim unchanged.    *)
LEMMA SameClaim ==
  ASSUME NEW k \in Keys, attempts'[k] = attempts[k],
         \A q \in Procs : Owns(q, k)' <=> Owns(q, k)
  PROVE  ClaimOf(k)' = ClaimOf(k)
  BY DEF ClaimOf

(* The abstract claim function is updated at one key.                      *)
LEMMA OneClaim ==
  ASSUME NEW k \in Keys, NEW c, ClaimOf(k)' = c,
         \A j \in Keys \ {k} : ClaimOf(j)' = ClaimOf(j)
  PROVE  [j \in Keys |-> ClaimOf(j)]' = [[j \in Keys |-> ClaimOf(j)] EXCEPT ![k] = c]
  OBVIOUS

(* A call that ends without a write: the claim it held is abandoned, or    *)
(* it held none and nothing changes.                                       *)
LEMMA LeaveAbandons ==
  ASSUME IInv, NEW p \in Procs, Leave(p), pc[p] # "idle",
         UNCHANGED <<attempts, venueVars, answers>>
  PROVE  [Ledger!Next]_(Ledger!ledgerVars)
<1>1. TypeOK /\ CallInv /\ SingleOwner
  BY DEF IInv
<1>2. PICK k \in Keys : key[p] = k
  BY <1>1 DEF TypeOK, CallInv
<1>3. \A q \in Procs, j \in Keys : Owns(q, j)' <=> Owns(q, j) /\ q # p
  BY <1>1 DEF Owns, Owning, Leave, Goto, TypeOK
<1>4. \A j \in Keys \ {k} : ClaimOf(j)' = ClaimOf(j)
  <2>1. \A q \in Procs, j \in Keys \ {k} : Owns(q, j)' <=> Owns(q, j)
    BY <1>2, <1>3 DEF Owns
  <2> QED
    BY <2>1, SameClaim
<1>5. CASE Owns(p, k)
  <2>1. ClaimOf(k) = "held"
    BY <1>5, HeldByOwner
  <2>2. attempts'[k] = "pending" /\ \A q \in Procs : ~Owns(q, k)'
    BY <1>1, <1>3, <1>5 DEF SingleOwner
  <2>3. ClaimOf(k)' = "abandoned"
    BY <2>2 DEF ClaimOf, Terminal
  <2>4. Ledger!Abandon(k)
    BY <1>4, <2>1, <2>3, OneClaim DEF Ledger!Abandon, venueVars
  <2> QED
    BY <2>4 DEF Ledger!Next
<1>6. CASE ~Owns(p, k)
  <2>1. \A j \in Keys : ClaimOf(j)' = ClaimOf(j)
    BY <1>2, <1>3, <1>4, <1>6, SameClaim
  <2> QED
    BY <2>1 DEF Ledger!ledgerVars, venueVars
<1> QED
  BY <1>5, <1>6

(* A put settles the claim with the row's new status.                      *)
LEMMA PutSettles ==
  ASSUME IInv, NEW p \in Procs, Put(p) \/ PutRaise(p)
  PROVE  Ledger!Next
<1>1. TypeOK /\ CallInv /\ ResultInv
  BY DEF IInv
<1>2. PICK k \in Keys : key[p] = k
  BY <1>1 DEF TypeOK, CallInv, Put, PutRaise
<1>3. PICK r \in Terminal : result[p] = r
  BY <1>1 DEF ResultInv, Put, PutRaise
<1>4. Owns(p, k)
  BY <1>2 DEF Put, PutRaise, Owns, Owning
<1>5. \A q \in Procs, j \in Keys : Owns(q, j)' <=> Owns(q, j) /\ q # p
  BY <1>1 DEF Put, PutRaise, Owns, Owning, Leave, Goto, TypeOK
<1>6. \A j \in Keys \ {k} : ClaimOf(j)' = ClaimOf(j)
  <2>1. \A q \in Procs, j \in Keys \ {k} : Owns(q, j)' <=> Owns(q, j)
    BY <1>2, <1>5 DEF Owns
  <2>2. \A j \in Keys \ {k} : attempts'[j] = attempts[j]
    BY <1>1, <1>2 DEF Put, PutRaise, Finalise, TypeOK
  <2> QED
    BY <2>1, <2>2, SameClaim
<1>7. attempts'[k] = r
  BY <1>1, <1>2, <1>3 DEF Put, PutRaise, Finalise, TypeOK
<1>8. ClaimOf(k) = "held" /\ ClaimOf(k)' = r
  BY <1>4, <1>7, HeldByOwner DEF ClaimOf, Terminal
<1>9. Ledger!Settle(k, r)
  BY <1>2, <1>3, <1>6, <1>8, OneClaim DEF Ledger!Settle, Put, PutRaise, venueVars
<1> QED
  BY <1>2, <1>9 DEF Ledger!Next

(* A reservation, known to its process or lost, takes a free claim.        *)
LEMMA ReserveClaims ==
  ASSUME IInv, NEW p \in Procs, Reserve(p) \/ ReserveAckLost(p)
  PROVE  Ledger!Next
<1>1. TypeOK /\ CallInv /\ SingleOwner
  BY DEF IInv
<1>2. PICK k \in Keys : key[p] = k
  BY <1>1 DEF TypeOK, CallInv, Reserve, ReserveAckLost
<1>3. \A q \in Procs, j \in Keys \ {k} : Owns(q, j)' <=> Owns(q, j)
  BY <1>1, <1>2 DEF Reserve, ReserveAckLost, Owns, Owning, Leave, Goto, TypeOK
<1>4. \A j \in Keys \ {k} : ClaimOf(j)' = ClaimOf(j)
  <2>1. \A j \in Keys \ {k} : attempts'[j] = attempts[j]
    BY <1>1, <1>2 DEF Reserve, ReserveAckLost, TypeOK
  <2> QED
    BY <1>3, <2>1, SameClaim
<1>5. attempts[k] = "absent" /\ attempts'[k] = "pending"
  BY <1>1, <1>2 DEF Reserve, ReserveAckLost, TypeOK
<1>6. ClaimOf(k) = "free" /\ ClaimOf(k)' \in {"held", "abandoned"}
  BY <1>5 DEF ClaimOf, Terminal
<1>7. Ledger!Claim(k)
  BY <1>2, <1>4, <1>6, OneClaim
  DEF Ledger!Claim, Reserve, ReserveAckLost, venueVars
<1> QED
  BY <1>2, <1>7 DEF Ledger!Next

(* A POST is a request sent under a held claim, within the limit.          *)
LEMMA SubmitSends ==
  ASSUME IInv, NEW p \in Procs, Submit(p)
  PROVE  Ledger!Next
<1>1. TypeOK /\ CallInv /\ PostInv
  BY DEF IInv
<1>2. PICK k \in Keys : key[p] = k
  BY <1>1 DEF TypeOK, CallInv, Submit
<1>3. Owns(p, k)
  BY <1>2 DEF Submit, Owns, Owning
<1>4. posts[k] < RETRY_ATTEMPTS
  BY <1>1, <1>3, RetryAssumption DEF TypeOK, CallInv, PostInv, Submit
<1>5. \A q \in Procs, j \in Keys : Owns(q, j)' <=> Owns(q, j)
  BY <1>1 DEF Submit, Owns, Owning, Goto, TypeOK
<1>6. \A j \in Keys : ClaimOf(j)' = ClaimOf(j)
  BY <1>5, SameClaim DEF Submit
<1>7. ClaimOf(k) = "held"
  BY <1>3, HeldByOwner
<1>8. Ledger!Send(k)
  BY <1>2, <1>4, <1>6, <1>7 DEF Ledger!Send, Submit
<1> QED
  BY <1>2, <1>8 DEF Ledger!Next

(* A hit answers with the result the key is settled with.                  *)
LEMMA GetHitAnswers ==
  ASSUME IInv, NEW p \in Procs, GetHit(p)
  PROVE  Ledger!Next
<1>1. TypeOK /\ CallInv
  BY DEF IInv
<1>2. PICK k \in Keys : key[p] = k
  BY <1>1 DEF TypeOK, CallInv, GetHit
<1>3. \A q \in Procs, j \in Keys : Owns(q, j)' <=> Owns(q, j)
  BY <1>1 DEF GetHit, Owns, Owning, Leave, Goto, TypeOK
<1>4. \A j \in Keys : ClaimOf(j)' = ClaimOf(j)
  BY <1>3, SameClaim DEF GetHit
<1>5. ClaimOf(k) = attempts[k] /\ attempts[k] \in Terminal
  BY <1>2 DEF GetHit, ClaimOf, Terminal
<1>6. Ledger!Answer(k)
  BY <1>2, <1>4, <1>5 DEF Ledger!Answer, GetHit, venueVars
<1> QED
  BY <1>2, <1>6 DEF Ledger!Next

(* The steps that neither write, nor POST, nor gain or lose an ownership.  *)
LEMMA Stutters ==
  ASSUME IInv, NEW p \in Procs,
         \/ \E k \in Keys : PlaceOrder(p, k)
         \/ GetMiss(p) \/ EnsureApiCreds(p) \/ SignFail(p)
         \/ TransientReply(p) \/ PermanentReply(p) \/ OrderReply(p)
  PROVE  UNCHANGED Ledger!ledgerVars
<1>1. TypeOK
  BY DEF IInv
<1>2. \A q \in Procs, j \in Keys : Owns(q, j)' <=> Owns(q, j)
  BY <1>1
  DEF PlaceOrder, GetMiss, EnsureApiCreds, SignFail, TransientReply,
      PermanentReply, OrderReply, Transient, Permanent, Owns, Owning, Goto,
      TypeOK
<1>3. UNCHANGED <<attempts, posts, answers>>
  BY DEF PlaceOrder, GetMiss, EnsureApiCreds, SignFail, TransientReply,
         PermanentReply, OrderReply, venueVars
<1>4. \A j \in Keys : ClaimOf(j)' = ClaimOf(j)
  BY <1>2, <1>3, SameClaim
<1> QED
  BY <1>3, <1>4 DEF Ledger!ledgerVars

(* Every step is a step of the ledger or leaves it unchanged.              *)
LEMMA StepRefines ==
  ASSUME IInv, [Next]_vars
  PROVE  [Ledger!Next]_(Ledger!ledgerVars)
<1>1. CASE UNCHANGED vars
  <2>1. \A j \in Keys : ClaimOf(j)' = ClaimOf(j)
    BY <1>1 DEF vars, ClaimOf, Owns
  <2> QED
    BY <1>1, <2>1 DEF vars, Ledger!ledgerVars
<1>2. CASE Venue
  <2>1. \A j \in Keys : ClaimOf(j)' = ClaimOf(j)
    BY <1>2 DEF Venue, VenueExecute, VenueRefuse, dbVars, procVars, ClaimOf, Owns
  <2> QED
    BY <1>2, <2>1
    DEF Venue, VenueExecute, VenueRefuse, Ledger!ledgerVars, dbVars, procVars
<1>3. ASSUME NEW p \in Procs, NEW k \in Keys, PlaceOrder(p, k)
      PROVE  [Ledger!Next]_(Ledger!ledgerVars)
  BY <1>3, Stutters
<1>4. ASSUME NEW p \in Procs, Crash(p), pc[p] = "idle"
      PROVE  UNCHANGED Ledger!ledgerVars
  <2>1. \A q \in Procs, j \in Keys : Owns(q, j)' <=> Owns(q, j)
    BY <1>4 DEF IInv, TypeOK, Crash, Leave, Goto, Owns, Owning
  <2>2. \A j \in Keys : ClaimOf(j)' = ClaimOf(j)
    BY <1>4, <2>1, SameClaim DEF Crash
  <2> QED
    BY <1>4, <2>2 DEF Crash, Ledger!ledgerVars, venueVars
<1>5. ASSUME NEW p \in Procs, Crash(p), pc[p] # "idle"
      PROVE  [Ledger!Next]_(Ledger!ledgerVars)
  BY <1>5, LeaveAbandons DEF Crash
<1>6. ASSUME NEW p \in Procs, Step(p)
      PROVE  [Ledger!Next]_(Ledger!ledgerVars)
  <2>1. CASE GetHit(p)
    BY <2>1, GetHitAnswers
  <2>2. CASE Reserve(p) \/ ReserveAckLost(p)
    BY <2>2, ReserveClaims
  <2>3. CASE Submit(p)
    BY <2>3, SubmitSends
  <2>4. CASE Put(p) \/ PutRaise(p)
    BY <2>4, PutSettles
  <2>5. CASE ReserveConflict(p) \/ ApiCredsFail(p) \/ ParseFail(p) \/ DbFail(p)
    BY <2>5, LeaveAbandons DEF ReserveConflict, ApiCredsFail, ParseFail, DbFail
  <2>6. CASE \/ GetMiss(p) \/ EnsureApiCreds(p) \/ SignFail(p)
             \/ TransientReply(p) \/ PermanentReply(p) \/ OrderReply(p)
    BY <2>6, Stutters
  <2> QED
    BY <1>6, <2>1, <2>2, <2>3, <2>4, <2>5, <2>6 DEF Step
<1> QED
  BY <1>1, <1>2, <1>3, <1>4, <1>5, <1>6 DEF Next

(* place_order on the idempotency store keeps the promises of the ledger,  *)
(* for any processes and keys and any retry limit.                         *)
THEOREM Refinement == Spec => ImplementsLedger
<1>1. Init => Ledger!Init
  BY DEF Init, Ledger!Init, ClaimOf, Terminal
<1>2. IInv /\ [Next]_vars => [Ledger!Next]_(Ledger!ledgerVars)
  BY StepRefines
<1> QED
  BY <1>1, <1>2, Invariance, PTL DEF Spec, ImplementsLedger, Ledger!Spec
=============================================================================
