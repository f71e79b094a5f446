---------------------------- MODULE InvokeProofs ----------------------------
(***************************************************************************)
(* Proofs about Invoke, for any number of requests, instances, attempts    *)
(* and errors, and any limits.                                             *)
(***************************************************************************)
EXTENDS Invoke, FiniteSetTheorems, TLAPS

-----------------------------------------------------------------------------
(* What a request is, wherever it is. *)

Trying == {"add", "call", "settle", "commit"}
AtInstance == Trying \cup {"fail", "delete", "release"}

\* A new request is as it began; an attempt has an instance, which was not tried
\* before and is from its failure on.
Shape(r) ==
    /\ req[r].pc = "new" => req[r] = New
    /\ req[r].pc \in AtInstance => req[r].target \in Instances
    /\ req[r].pc \in Trying => req[r].tried[req[r].target] = "untried"
    /\ req[r].pc \in {"fail", "delete"} => req[r].tried[req[r].target] \in Faults

Shaped == TypeOK /\ \A r \in Requests : Shape(r)

LEMMA NewIsRequest == New \in Request
  BY InvokeAssumption DEF New, Request, Pcs

LEMMA ShapedStart == Init => Shaped
  <1> SUFFICES ASSUME Init PROVE Shaped
    OBVIOUS
  <1>1. req \in [Requests -> Request]
    BY NewIsRequest DEF Init
  <1>2. TypeOK
    <2>1. errors \in 0 .. MaxErrors /\ quota \in Nat /\ posted \in Nat
      <3>1. MaxErrors \in Nat /\ errors = 0 /\ quota = 0 /\ posted = 0
        BY InvokeAssumption DEF Init
      <3>2. QED
        BY <3>1
    <2>2. /\ conns \in [Instances -> SUBSET Attempts]
          /\ failures \in [Instances -> Nat]
          /\ removed \in [Instances -> {"no", "failures", "key_exchange"}]
      BY DEF Init
    <2>3. QED
      BY <1>1, <2>1, <2>2 DEF Init, TypeOK
  <1>3. QED
    BY <1>2 DEF Init, Shaped, Shape, New, Trying, AtInstance

\* One request moves on, the others stay.
LEMMA Putting ==
  ASSUME req \in [Requests -> Request], NEW r \in Requests, NEW new \in Request, Put(r, new)
  PROVE  /\ req' \in [Requests -> Request] /\ req'[r] = new
         /\ \A s \in Requests \ {r} : req'[s] = req[s]
  BY DEF Put

\* What comes back from an instance: a fault, or the whole result.
LEMMA OutcomeKinds ==
  \A o \in Outcomes : /\ o.fault \in Faults \cup {"none"}
                      /\ o.fault = "none" => o.whole = TRUE
  <1> SUFFICES ASSUME NEW a \in Replies
               PROVE  /\ Outcome(a).fault \in Faults \cup {"none"}
                      /\ Outcome(a).fault = "none" => Outcome(a).whole = TRUE
    BY DEF Outcomes
  <1>1. /\ StreamOutcome(a).fault \in {"other", "none"}
        /\ StreamOutcome(a).fault = "none" => StreamOutcome(a).whole = TRUE
    BY DEF StreamOutcome, Raises
  <1>2. /\ BodyOutcome(a).fault \in {"other", "none"}
        /\ BodyOutcome(a).fault = "none" => BodyOutcome(a).whole = TRUE
    BY DEF BodyOutcome, Raises
  <1>3. a.status # "ok" => StatusFault[a.status] \in Faults
    BY DEF StatusFault, Faults, Replies
  <1>4. QED
    BY <1>1, <1>2, <1>3 DEF Outcome, Raises, Faults

\* The records that the actions make of a request.
LEMMA Records ==
  ASSUME req \in [Requests -> Request], NEW r \in Requests
  PROVE  /\ req[r] \in Request
         /\ Ended(r) \in Request /\ Raised(r) \in Request
         /\ req[r].target \in Instances =>
                \A kind \in Faults : FailedAs(r, kind) \in Request
  <1>1. req[r] \in Request /\ 1 \in 1 .. MaxAttempts
    BY InvokeAssumption
  <1>2. Ended(r) \in Request
    BY <1>1 DEF Request, Ended, Pcs
  <1>3. Raised(r) \in Request
    BY <1>1 DEF Request, Raised, Pcs
  <1>4. ASSUME NEW kind \in Faults, req[r].target \in Instances PROVE FailedAs(r, kind) \in Request
    <2> DEFINE tried == [req[r].tried EXCEPT ![req[r].target] = kind]
    <2>1. tried \in [Instances -> Faults \cup {"untried"}]
      BY <1>1, <1>4 DEF Request
    <2>2. FailedAs(r, kind) = [req[r] EXCEPT !.pc = "fail", !.bounty = "none", !.tried = tried]
      BY DEF FailedAs
    <2> HIDE DEF tried
    <2>3. QED
      BY ZenonT(60), <1>1, <2>1, <2>2 DEF Request, Pcs
  <1>5. QED
    BY <1>1, <1>2, <1>3, <1>4

-----------------------------------------------------------------------------
(* What each action does to its request. *)

Moved(r, from, to) == /\ req' \in [Requests -> Request]
                      /\ \A s \in Requests \ {r} : req'[s] = req[s]
                      /\ req[r].pc \in from /\ req'[r].pc \in to

KeepsAttempt(r) == /\ req'[r].attempt = req[r].attempt /\ req'[r].target = req[r].target
                   /\ req'[r].tracked = req[r].tracked
KeepsAccount(r) == req'[r].delivered = req[r].delivered /\ req'[r].charged = req[r].charged
KeepsTried(r) == req'[r].tried = req[r].tried
KeepsFree(r) == req'[r].free = req[r].free
KeepsBounty(r) == req'[r].bounty = req[r].bounty

Fails(r, kind) ==
    /\ req'[r].pc = "fail" /\ req'[r].bounty = "none"
    /\ req'[r].tried = [req[r].tried EXCEPT ![req[r].target] = kind]
    /\ kind \in Faults

LEMMA FailedAsFails ==
  ASSUME Shaped, NEW r \in Requests, NEW kind \in Faults, req[r].pc \in Trying,
         Put(r, FailedAs(r, kind))
  PROVE  /\ Moved(r, Trying, {"fail"}) /\ Fails(r, kind)
         /\ KeepsAttempt(r) /\ KeepsAccount(r) /\ KeepsFree(r)
  <1>1. req \in [Requests -> Request] /\ req[r] \in Request /\ req[r].target \in Instances
    BY DEF Shaped, TypeOK, Shape, Trying, AtInstance
  <1>2. FailedAs(r, kind) \in Request
    BY <1>1, Records
  <1>3. /\ FailedAs(r, kind).pc = "fail" /\ FailedAs(r, kind).bounty = "none"
        /\ FailedAs(r, kind).tried = [req[r].tried EXCEPT ![req[r].target] = kind]
        /\ FailedAs(r, kind).attempt = req[r].attempt /\ FailedAs(r, kind).target = req[r].target
        /\ FailedAs(r, kind).tracked = req[r].tracked /\ FailedAs(r, kind).free = req[r].free
        /\ FailedAs(r, kind).delivered = req[r].delivered
        /\ FailedAs(r, kind).charged = req[r].charged
    BY <1>1 DEF FailedAs, Request
  <1>4. QED
    BY <1>1, <1>2, <1>3, Putting
       DEF Moved, Fails, KeepsAttempt, KeepsAccount, KeepsFree

LEMMA RaisedMoves ==
  ASSUME Shaped, NEW r \in Requests, Put(r, Raised(r))
  PROVE  /\ Moved(r, Pcs, {"release"}) /\ req'[r].bounty = "none"
         /\ KeepsAttempt(r) /\ KeepsAccount(r) /\ KeepsFree(r) /\ KeepsTried(r)
  <1>1. req \in [Requests -> Request] /\ req[r] \in Request
    BY DEF Shaped, TypeOK
  <1>2. Raised(r) \in Request
    BY <1>1, Records
  <1>3. /\ Raised(r).pc = "release" /\ Raised(r).bounty = "none" /\ req[r].pc \in Pcs
        /\ Raised(r).attempt = req[r].attempt /\ Raised(r).target = req[r].target
        /\ Raised(r).tracked = req[r].tracked /\ Raised(r).free = req[r].free
        /\ Raised(r).delivered = req[r].delivered /\ Raised(r).charged = req[r].charged
        /\ Raised(r).tried = req[r].tried
    BY <1>1 DEF Raised, Request
  <1>4. QED
    BY <1>1, <1>2, <1>3, Putting
       DEF Moved, KeepsAttempt, KeepsAccount, KeepsFree, KeepsTried

LEMMA EndedMoves ==
  ASSUME Shaped, NEW r \in Requests, Put(r, Ended(r))
  PROVE  /\ Moved(r, Pcs, {"ended"}) /\ KeepsAccount(r) /\ KeepsTried(r) /\ KeepsBounty(r)
  <1>1. req \in [Requests -> Request] /\ req[r] \in Request
    BY DEF Shaped, TypeOK
  <1>2. Ended(r) \in Request
    BY <1>1, Records
  <1>3. /\ Ended(r).pc = "ended" /\ Ended(r).bounty = req[r].bounty /\ req[r].pc \in Pcs
        /\ Ended(r).delivered = req[r].delivered /\ Ended(r).charged = req[r].charged
        /\ Ended(r).tried = req[r].tried
    BY <1>1 DEF Ended, Request
  <1>4. QED
    BY <1>1, <1>2, <1>3, Putting DEF Moved, KeepsAccount, KeepsTried, KeepsBounty

LEMMA StartMoves ==
  ASSUME Shaped, NEW r \in Requests, Start(r)
  PROVE  /\ Moved(r, {"new"}, {"pick"}) /\ req'[r].free = WithinQuota
         /\ KeepsAccount(r) /\ KeepsTried(r) /\ KeepsBounty(r)
  <1>1. req \in [Requests -> Request] /\ req[r] \in Request /\ req[r].pc = "new" /\ req[r] = New
    BY DEF Shaped, TypeOK, Shape, Start
  <1>2. WithinQuota \in BOOLEAN
    BY DEF WithinQuota
  <1> DEFINE new == [req[r] EXCEPT !.pc = "pick", !.free = WithinQuota]
  <1>3. new \in Request
    BY <1>1, <1>2 DEF Request, Pcs
  <1>4. Put(r, new)
    BY <1>1, Zenon DEF Start
  <1>5. /\ new.pc = "pick" /\ new.free = WithinQuota
        /\ new.delivered = req[r].delivered /\ new.charged = req[r].charged
        /\ new.tried = req[r].tried /\ new.bounty = req[r].bounty
    BY <1>1 DEF Request
  <1> HIDE DEF new
  <1>6. QED
    BY <1>1, <1>3, <1>4, <1>5, Putting DEF Moved, KeepsAccount, KeepsTried, KeepsBounty

LEMMA StartNothingMoves ==
  ASSUME Shaped, NEW r \in Requests, StartNothing(r)
  PROVE  \/ UNCHANGED req
         \/ /\ Moved(r, {"new"}, {"ended"})
            /\ KeepsAccount(r) /\ KeepsTried(r) /\ KeepsBounty(r)
  <1>1. req \in [Requests -> Request] /\ req[r] \in Request /\ req[r].pc = "new" /\ req[r] = New
    BY DEF Shaped, TypeOK, Shape, StartNothing
  <1> DEFINE new == [req[r] EXCEPT !.pc = "ended"]
  <1>2. new \in Request
    BY <1>1 DEF Request, Pcs
  <1>3. UNCHANGED req \/ Put(r, new)
    BY <1>1, Zenon DEF StartNothing
  <1>4. /\ new.pc = "ended" /\ new.delivered = req[r].delivered /\ new.charged = req[r].charged
        /\ new.tried = req[r].tried /\ new.bounty = req[r].bounty
    BY <1>1 DEF Request
  <1> HIDE DEF new
  <1>5. QED
    BY <1>1, <1>2, <1>3, <1>4, Putting DEF Moved, KeepsAccount, KeepsTried, KeepsBounty

LEMMA PickMoves ==
  ASSUME Shaped, NEW r \in Requests, NEW i \in Instances, NEW known \in BOOLEAN,
         Pick(r, i) \/ PickBlind(r, i, known)
  PROVE  /\ Moved(r, {"pick"}, {"add", "call"})
         /\ req'[r].target = i /\ req[r].tried[i] = "untried"
         /\ req'[r].pc = "add" => req'[r].tracked = TRUE
         /\ KeepsAccount(r) /\ KeepsTried(r) /\ KeepsBounty(r) /\ KeepsFree(r)
  <1>1. req \in [Requests -> Request] /\ req[r] \in Request
    BY DEF Shaped, TypeOK
  <1>2. req[r].pc = "pick" /\ req[r].tried[i] = "untried"
    BY DEF Pick, PickBlind, Eligible, Available
  <1>3. PICK pc \in {"add", "call"}, tracked \in BOOLEAN :
            /\ Put(r, [req[r] EXCEPT !.pc = pc, !.target = i, !.tracked = tracked])
            /\ pc = "add" => tracked = TRUE
    BY DEF Pick, PickBlind
  <1> DEFINE new == [req[r] EXCEPT !.pc = pc, !.target = i, !.tracked = tracked]
  <1>4. new \in Request
    BY <1>1 DEF Request, Pcs
  <1>5. /\ new.pc \in {"add", "call"} /\ new.target = i /\ new.free = req[r].free
        /\ new.pc = "add" => new.tracked = TRUE
        /\ new.delivered = req[r].delivered /\ new.charged = req[r].charged
        /\ new.tried = req[r].tried /\ new.bounty = req[r].bounty
    BY <1>1, <1>3 DEF Request
  <1>6. Put(r, new)
    BY <1>3
  <1> HIDE DEF new
  <1>7. QED
    BY <1>1, <1>2, <1>4, <1>5, <1>6, Putting
       DEF Moved, KeepsAccount, KeepsTried, KeepsBounty, KeepsFree

LEMMA AddConnMoves ==
  ASSUME Shaped, NEW r \in Requests, AddConn(r)
  PROVE  /\ Moved(r, {"add"}, {"call"}) /\ KeepsAttempt(r)
         /\ KeepsAccount(r) /\ KeepsTried(r) /\ KeepsBounty(r) /\ KeepsFree(r)
  <1>1. req \in [Requests -> Request] /\ req[r] \in Request /\ req[r].pc = "add"
    BY DEF Shaped, TypeOK, AddConn
  <1> DEFINE new == [req[r] EXCEPT !.pc = "call"]
  <1>2. new \in Request
    BY <1>1 DEF Request, Pcs
  <1>3. Put(r, new)
    BY DEF AddConn
  <1>4. QED
    BY <1>1, <1>2, <1>3, Putting
       DEF Request, Moved, KeepsAttempt, KeepsAccount, KeepsTried, KeepsBounty, KeepsFree

LEMMA CallMoves ==
  ASSUME Shaped, NEW r \in Requests, Call(r)
  PROVE  /\ req[r].pc = "call" /\ Moved(r, Trying, {"settle", "fail", "release"})
         /\ KeepsAttempt(r) /\ KeepsFree(r)
         /\ req'[r].charged = req[r].charged
         /\ req'[r].bounty \in {req[r].bounty, "none"}
         /\ \/ KeepsTried(r) /\ req'[r].pc \in {"settle", "release"}
            \/ \E kind \in Faults : Fails(r, kind)
         /\ req'[r].delivered \in {req[r].delivered, req[r].delivered + 1}
         /\ req'[r].pc = "settle" => req'[r].delivered = req[r].delivered + 1
  <1>1. /\ req \in [Requests -> Request] /\ req[r] \in Request
        /\ req[r].pc = "call" /\ req[r].target \in Instances
        /\ req[r].delivered \in Nat
    BY DEF Shaped, TypeOK, Shape, Call, AtInstance, Trying, Request
  <1>2. CASE Put(r, Raised(r))
    BY <1>1, <1>2, RaisedMoves DEF Moved, KeepsAccount, Trying
  <1>3. ASSUME NEW o \in Outcomes, NEW n \in Nat,
               n = req[r].delivered + (IF o.whole THEN 1 ELSE 0),
               Put(r, IF o.fault = "none"
                        THEN [req[r] EXCEPT !.pc = "settle", !.delivered = n]
                        ELSE [FailedAs(r, o.fault) EXCEPT !.delivered = n])
        PROVE  /\ Moved(r, Trying, {"settle", "fail"})
               /\ KeepsAttempt(r) /\ KeepsFree(r)
               /\ req'[r].charged = req[r].charged
               /\ req'[r].bounty \in {req[r].bounty, "none"}
               /\ \/ KeepsTried(r) /\ req'[r].pc = "settle"
                  \/ \E kind \in Faults : Fails(r, kind)
               /\ req'[r].delivered = n
               /\ req'[r].pc = "settle" => o.whole = TRUE
    <2>1. CASE o.fault = "none"
      <3> DEFINE new == [req[r] EXCEPT !.pc = "settle", !.delivered = n]
      <3>1. new \in Request
        BY <1>1 DEF Request, Pcs
      <3>2. Put(r, new) /\ o.whole = TRUE
        BY <1>3, <2>1, OutcomeKinds
      <3>3. /\ new.pc = "settle" /\ new.delivered = n /\ new.bounty = req[r].bounty
            /\ new.tried = req[r].tried /\ new.attempt = req[r].attempt
            /\ new.target = req[r].target /\ new.tracked = req[r].tracked
            /\ new.free = req[r].free /\ new.charged = req[r].charged
        BY <1>1 DEF Request
      <3> HIDE DEF new
      <3>4. QED
        BY <1>1, <3>1, <3>2, <3>3, Putting
           DEF Moved, KeepsAttempt, KeepsFree, KeepsTried, Trying
    <2>2. CASE o.fault # "none"
      <3> DEFINE failed == FailedAs(r, o.fault)
                 new == [failed EXCEPT !.delivered = n]
      <3>1. o.fault \in Faults
        BY <2>2, OutcomeKinds
      <3>2. failed \in Request
        BY <1>1, <3>1, Records
      <3>3. /\ failed.pc = "fail" /\ failed.bounty = "none"
            /\ failed.tried = [req[r].tried EXCEPT ![req[r].target] = o.fault]
            /\ failed.attempt = req[r].attempt /\ failed.target = req[r].target
            /\ failed.tracked = req[r].tracked /\ failed.free = req[r].free
            /\ failed.charged = req[r].charged
        BY <1>1 DEF FailedAs, Request
      <3>4. Put(r, new)
        BY <1>3, <2>2
      <3> HIDE DEF failed
      <3>5. new \in Request
        BY <3>2 DEF Request
      <3>6. /\ new.pc = "fail" /\ new.bounty = "none" /\ new.delivered = n
            /\ new.tried = failed.tried /\ new.attempt = failed.attempt
            /\ new.target = failed.target /\ new.tracked = failed.tracked
            /\ new.free = failed.free /\ new.charged = failed.charged
        BY <3>2, <3>3 DEF Request
      <3> HIDE DEF new
      <3>7. Fails(r, o.fault)
        BY <1>1, <3>1, <3>3, <3>4, <3>5, <3>6, Putting DEF Fails
      <3>8. QED
        BY <1>1, <3>1, <3>3, <3>4, <3>5, <3>6, <3>7, Putting
           DEF Moved, KeepsAttempt, KeepsFree, Trying
    <2>3. QED
      BY <2>1, <2>2
  <1>4. CASE \E o \in Outcomes :
                 LET yielded == req[r].delivered + (IF o.whole THEN 1 ELSE 0)
                 IN  Put(r, IF o.fault = "none"
                            THEN [req[r] EXCEPT !.pc = "settle", !.delivered = yielded]
                            ELSE [FailedAs(r, o.fault) EXCEPT !.delivered = yielded])
    <2>1. PICK o \in Outcomes :
              Put(r, IF o.fault = "none"
                       THEN [req[r] EXCEPT !.pc = "settle",
                                           !.delivered = req[r].delivered + (IF o.whole THEN 1 ELSE 0)]
                       ELSE [FailedAs(r, o.fault) EXCEPT
                                           !.delivered = req[r].delivered + (IF o.whole THEN 1 ELSE 0)])
      BY <1>4
    <2> DEFINE n == req[r].delivered + (IF o.whole THEN 1 ELSE 0)
    <2>2. n \in Nat /\ n \in {req[r].delivered, req[r].delivered + 1}
          /\ (o.whole = TRUE => n = req[r].delivered + 1)
      BY <1>1
    <2>3. Put(r, IF o.fault = "none"
                   THEN [req[r] EXCEPT !.pc = "settle", !.delivered = n]
                   ELSE [FailedAs(r, o.fault) EXCEPT !.delivered = n])
      BY <2>1
    <2> HIDE DEF n
    <2>4. /\ Moved(r, Trying, {"settle", "fail"})
          /\ KeepsAttempt(r) /\ KeepsFree(r)
          /\ req'[r].charged = req[r].charged
          /\ req'[r].bounty \in {req[r].bounty, "none"}
          /\ \/ KeepsTried(r) /\ req'[r].pc = "settle"
             \/ \E kind \in Faults : Fails(r, kind)
          /\ req'[r].delivered = n
          /\ req'[r].pc = "settle" => o.whole = TRUE
      BY <1>3, <2>2, <2>3 DEF n
    <2>5. QED
      BY <1>1, <2>2, <2>4 DEF Moved
  <1>5. QED
    BY <1>2, <1>4 DEF Call

LEMMA SettleMoves ==
  ASSUME Shaped, NEW r \in Requests, Settle(r)
  PROVE  /\ Moved(r, {"settle"}, {"commit"})
         /\ KeepsAttempt(r) /\ KeepsFree(r) /\ KeepsTried(r)
         /\ req'[r].delivered = req[r].delivered
         /\ \/ req'[r].charged = req[r].charged
            \/ req'[r].charged = req[r].charged + 1 /\ ~req[r].free
         /\ \/ req'[r].bounty = "none" /\ bounty' = bounty
            \/ bounty = TRUE /\ bounty' = FALSE
  <1>1. /\ req \in [Requests -> Request] /\ req[r] \in Request /\ req[r].pc = "settle"
        /\ req[r].charged \in Nat /\ bounty \in BOOLEAN /\ req[r].free \in BOOLEAN
    BY DEF Shaped, TypeOK, Settle, Request
  <1>2. PICK claims \in {bounty, FALSE}, bills \in BOOLEAN :
            /\ bounty' = IF claims THEN Claimed ELSE bounty
            /\ Put(r, [req[r] EXCEPT !.pc = "commit",
                                     !.bounty = IF claims THEN "claimed" ELSE "none",
                                     !.charged = IF bills /\ ~req[r].free THEN @ + 1 ELSE @])
    BY DEF Settle
  <1> DEFINE b == IF claims THEN "claimed" ELSE "none"
             c == IF bills /\ ~req[r].free THEN req[r].charged + 1 ELSE req[r].charged
             new == [req[r] EXCEPT !.pc = "commit", !.bounty = b, !.charged = c]
  <1>3. c \in Nat /\ (c = req[r].charged \/ (c = req[r].charged + 1 /\ ~req[r].free))
    BY <1>1
  <1>4. /\ b \in {"none", "claimed"}
        /\ \/ b = "none" /\ bounty' = bounty
           \/ bounty = TRUE /\ bounty' = FALSE
    <2>1. CASE claims = TRUE
      BY <1>1, <1>2, <2>1 DEF Claimed
    <2>2. CASE claims = FALSE
      BY <1>1, <1>2, <2>2
    <2>3. QED
      BY <1>1, <2>1, <2>2
  <1>5. Put(r, new)
    BY <1>2
  <1> HIDE DEF b, c
  <1>6. new \in Request
    BY <1>1, <1>3, <1>4 DEF Request, Pcs
  <1>7. /\ new.pc = "commit" /\ new.bounty = b /\ new.charged = c
        /\ new.attempt = req[r].attempt /\ new.target = req[r].target
        /\ new.tracked = req[r].tracked /\ new.free = req[r].free
        /\ new.delivered = req[r].delivered /\ new.tried = req[r].tried
    BY <1>1 DEF Request
  <1> HIDE DEF new
  <1>8. QED
    BY <1>1, <1>3, <1>4, <1>5, <1>6, <1>7, Putting
       DEF Moved, KeepsAttempt, KeepsFree, KeepsTried

LEMMA SettleFailsMoves ==
  ASSUME Shaped, NEW r \in Requests, SettleFails(r)
  PROVE  /\ req[r].pc = "settle" /\ Moved(r, Trying, {"fail"}) /\ Fails(r, "other")
         /\ KeepsAttempt(r) /\ KeepsAccount(r) /\ KeepsFree(r)
  BY FailedAsFails DEF SettleFails, Trying, Faults

LEMMA CommitMoves ==
  ASSUME Shaped, NEW r \in Requests, Commit(r)
  PROVE  /\ req[r].pc = "commit" /\ Moved(r, Trying, {"release", "fail"})
         /\ KeepsAttempt(r) /\ KeepsAccount(r) /\ KeepsFree(r)
         /\ \/ KeepsTried(r) /\ req'[r].pc = "release"
            \/ Fails(r, "other")
         /\ req[r].bounty = "none" => req'[r].bounty = "none"
  <1>1. req \in [Requests -> Request] /\ req[r] \in Request /\ req[r].pc = "commit"
    BY DEF Shaped, TypeOK, Commit
  <1> DEFINE b == IF req[r].bounty = "claimed" THEN "paid" ELSE req[r].bounty
             new == [req[r] EXCEPT !.pc = "release", !.over = TRUE, !.bounty = b]
  <1>2. CASE Put(r, new)
    <2>1. b \in {"none", "claimed", "paid"} /\ (req[r].bounty = "none" => b = "none")
      BY <1>1 DEF Request
    <2> HIDE DEF b
    <2>2. new \in Request
      BY <1>1, <2>1 DEF Request, Pcs
    <2>3. /\ new.pc = "release" /\ new.bounty = b
          /\ new.attempt = req[r].attempt /\ new.target = req[r].target
          /\ new.tracked = req[r].tracked /\ new.free = req[r].free
          /\ new.delivered = req[r].delivered /\ new.charged = req[r].charged
          /\ new.tried = req[r].tried
      BY <1>1 DEF Request
    <2> HIDE DEF new
    <2>4. QED
      BY <1>1, <1>2, <2>1, <2>2, <2>3, Putting
         DEF Moved, KeepsAttempt, KeepsAccount, KeepsFree, KeepsTried, Trying
  <1>3. CASE Put(r, FailedAs(r, "other"))
    BY <1>1, <1>3, FailedAsFails DEF Trying, Faults, Moved, Fails
  <1>4. Put(r, new) \/ Put(r, FailedAs(r, "other"))
    BY DEF Commit
  <1>5. QED
    BY <1>2, <1>3, <1>4

LEMMA FailMoves ==
  ASSUME Shaped, NEW r \in Requests, Fail(r)
  PROVE  /\ Moved(r, {"fail"}, {"delete", "release"})
         /\ KeepsAttempt(r) /\ KeepsAccount(r) /\ KeepsFree(r) /\ KeepsTried(r)
         /\ req'[r].bounty \in {req[r].bounty, "none"}
  <1>1. req \in [Requests -> Request] /\ req[r] \in Request /\ req[r].pc = "fail"
    BY DEF Shaped, TypeOK, Fail
  <1>2. CASE Put(r, Raised(r))
    BY <1>1, <1>2, RaisedMoves DEF Moved
  <1>3. ASSUME NEW pc \in {"delete", "release"}, NEW over \in BOOLEAN,
               Put(r, [req[r] EXCEPT !.pc = pc, !.over = over])
        PROVE  /\ Moved(r, {"fail"}, {"delete", "release"})
               /\ KeepsAttempt(r) /\ KeepsAccount(r) /\ KeepsFree(r) /\ KeepsTried(r)
               /\ KeepsBounty(r)
    <2> DEFINE new == [req[r] EXCEPT !.pc = pc, !.over = over]
    <2>1. new \in Request
      BY <1>1 DEF Request, Pcs
    <2>2. /\ new.pc = pc /\ new.bounty = req[r].bounty
          /\ new.attempt = req[r].attempt /\ new.target = req[r].target
          /\ new.tracked = req[r].tracked /\ new.free = req[r].free
          /\ new.delivered = req[r].delivered /\ new.charged = req[r].charged
          /\ new.tried = req[r].tried
      BY <1>1 DEF Request
    <2>3. Put(r, new)
      BY <1>3
    <2> HIDE DEF new
    <2>4. QED
      BY <1>1, <2>1, <2>2, <2>3, Putting
         DEF Moved, KeepsAttempt, KeepsAccount, KeepsFree, KeepsTried, KeepsBounty
  <1>4. Put(r, Raised(r)) \/
        \E pc \in {"delete", "release"}, over \in BOOLEAN :
            Put(r, [req[r] EXCEPT !.pc = pc, !.over = over])
    BY DEF Fail
  <1>5. QED
    BY <1>2, <1>3, <1>4 DEF KeepsBounty

LEMMA DeleteRowMoves ==
  ASSUME Shaped, NEW r \in Requests, DeleteRow(r)
  PROVE  /\ Moved(r, {"delete"}, {"release"})
         /\ KeepsAttempt(r) /\ KeepsAccount(r) /\ KeepsFree(r) /\ KeepsTried(r)
         /\ req'[r].bounty \in {req[r].bounty, "none"}
  <1>1. req \in [Requests -> Request] /\ req[r] \in Request /\ req[r].pc = "delete"
    BY DEF Shaped, TypeOK, DeleteRow
  <1>2. CASE Put(r, Raised(r))
    BY <1>1, <1>2, RaisedMoves DEF Moved
  <1> DEFINE new == [req[r] EXCEPT !.pc = "release"]
  <1>3. CASE Put(r, new)
    <2>1. new \in Request
      BY <1>1 DEF Request, Pcs
    <2>2. /\ new.pc = "release" /\ new.bounty = req[r].bounty
          /\ new.attempt = req[r].attempt /\ new.target = req[r].target
          /\ new.tracked = req[r].tracked /\ new.free = req[r].free
          /\ new.delivered = req[r].delivered /\ new.charged = req[r].charged
          /\ new.tried = req[r].tried
      BY <1>1 DEF Request
    <2> HIDE DEF new
    <2>3. QED
      BY <1>1, <1>3, <2>1, <2>2, Putting
         DEF Moved, KeepsAttempt, KeepsAccount, KeepsFree, KeepsTried
  <1>4. Put(r, Raised(r)) \/ Put(r, new)
    BY DEF DeleteRow
  <1>5. QED
    BY <1>2, <1>3, <1>4

LEMMA ReleaseMoves ==
  ASSUME Shaped, NEW r \in Requests, Release(r)
  PROVE  /\ Moved(r, {"release"}, {"pick", "ended"})
         /\ KeepsAccount(r) /\ KeepsTried(r) /\ KeepsBounty(r)
         /\ req'[r].pc = "pick" => KeepsFree(r)
  <1>1. /\ req \in [Requests -> Request] /\ req[r] \in Request /\ req[r].pc = "release"
        /\ req[r].attempt \in 1 .. MaxAttempts
    BY DEF Shaped, TypeOK, Release, Request
  <1>2. CASE Put(r, Ended(r))
    BY <1>1, <1>2, EndedMoves DEF Moved
  <1> DEFINE new == [req[r] EXCEPT !.pc = "pick", !.attempt = @ + 1,
                                   !.target = NoInstance, !.tracked = FALSE]
  <1>3. CASE Put(r, new) /\ ~Last(r)
    <2>1. req[r].attempt + 1 \in 1 .. MaxAttempts
      BY <1>1, <1>3, InvokeAssumption DEF Last
    <2>2. new \in Request
      BY <1>1, <2>1 DEF Request, Pcs
    <2>3. /\ new.pc = "pick" /\ new.bounty = req[r].bounty /\ new.free = req[r].free
          /\ new.delivered = req[r].delivered /\ new.charged = req[r].charged
          /\ new.tried = req[r].tried
      BY <1>1 DEF Request
    <2> HIDE DEF new
    <2>4. QED
      BY <1>1, <1>3, <2>2, <2>3, Putting
         DEF Moved, KeepsAccount, KeepsFree, KeepsTried, KeepsBounty
  <1>4. Put(r, Ended(r)) \/ (Put(r, new) /\ ~Last(r))
    BY DEF Release
  <1>5. QED
    BY <1>2, <1>3, <1>4

LEMMA HangUpMoves ==
  ASSUME Shaped, NEW r \in Requests, HangUp(r)
  PROVE  /\ Moved(r, {"call", "settle", "commit", "fail", "delete"}, {"release"})
         /\ req'[r].bounty = "none"
         /\ KeepsAttempt(r) /\ KeepsAccount(r) /\ KeepsFree(r) /\ KeepsTried(r)
  BY RaisedMoves DEF HangUp, Moved

-----------------------------------------------------------------------------
(* Types, and the shape of requests. *)

\* TypeOK, of all but the requests.
SetsTyped == /\ rows \subseteq Instances /\ cached \subseteq Instances /\ manager \subseteq Instances
             /\ conns \in [Instances -> SUBSET Attempts]
             /\ late \subseteq Instances \X Attempts
             /\ orphans \subseteq Attempts
             /\ removed \in [Instances -> {"no", "failures", "key_exchange"}]
NumbersTyped == /\ failures \in [Instances -> Nat]
                /\ quota \in Nat /\ bounty \in BOOLEAN /\ posted \in Nat /\ errors \in 0..MaxErrors

LEMMA TypeParts == TypeOK <=> SetsTyped /\ NumbersTyped /\ req \in [Requests -> Request]
  BY DEF TypeOK, SetsTyped, NumbersTyped

LEMMA ErrorTyped == errors \in 0..MaxErrors /\ Error => errors' \in 0..MaxErrors
  BY InvokeAssumption DEF Error

LEMMA SetsStep == Shaped /\ [Next]_vars => SetsTyped'
  <1> SUFFICES ASSUME Shaped, [Next]_vars PROVE SetsTyped'
    OBVIOUS
  <1>1. SetsTyped /\ req \in [Requests -> Request]
    BY TypeParts DEF Shaped
  <1>2. ASSUME NEW r \in Requests
        PROVE  /\ Conn(r) \in Attempts
               /\ req[r].pc \in AtInstance => req[r].target \in Instances
    BY <1>1 DEF Shaped, Shape, Conn, Attempts, Request
  <1>3. CASE UNCHANGED vars
    BY <1>1, <1>3 DEF vars, SetsTyped
  <1>4. ASSUME NEW r \in Requests, Start(r) \/ StartNothing(r) PROVE SetsTyped'
    BY <1>1, <1>4 DEF Start, StartNothing, Loadable, SetsTyped, redis, aux
  <1>5. ASSUME NEW r \in Requests,
               \/ PickNothing(r) \/ Call(r) \/ Settle(r) \/ SettleFails(r) \/ Commit(r)
               \/ Fail(r) \/ HangUp(r)
               \/ \E i \in Instances : Pick(r, i) \/ \E known \in BOOLEAN : PickBlind(r, i, known)
        PROVE  SetsTyped'
    <2>1. UNCHANGED <<rows, cached, manager, conns, late, orphans, removed>>
      BY <1>5 DEF PickNothing, Call, Settle, SettleFails, Commit, Fail, HangUp, Pick, PickBlind,
                  redis, aux
    <2>2. QED
      BY <1>1, <2>1 DEF SetsTyped
  <1>6. ASSUME NEW r \in Requests, AddConn(r) PROVE SetsTyped'
    <2>1. Conn(r) \in Attempts /\ req[r].target \in Instances
      BY <1>2, <1>6 DEF AddConn, AtInstance, Trying
    <2>2. UNCHANGED <<rows, cached, manager, removed>>
      BY <1>6 DEF AddConn
    <2>3. \/ conns' = [conns EXCEPT ![req[r].target] = @ \cup {Conn(r)}] /\ UNCHANGED <<late, orphans>>
          \/ /\ late' = late \cup {<<req[r].target, Conn(r)>>}
             /\ orphans' = orphans \cup {Conn(r)} /\ UNCHANGED conns
          \/ UNCHANGED <<conns, late, orphans>>
      BY <1>6 DEF AddConn
    <2>4. QED
      BY <1>1, <2>1, <2>2, <2>3 DEF SetsTyped
  <1>7. ASSUME NEW r \in Requests, DeleteRow(r) PROVE SetsTyped'
    <2>1. UNCHANGED <<cached, manager, conns, late, orphans>>
      BY <1>7 DEF DeleteRow, redis
    <2>2. req[r].target \in Instances
      BY <1>2, <1>7 DEF DeleteRow, AtInstance
    <2>3. PICK why \in {"key_exchange", "failures"} :
              \/ /\ rows' = rows \ {req[r].target}
                 /\ removed' = IF req[r].target \in rows THEN [removed EXCEPT ![req[r].target] = why]
                               ELSE removed
              \/ UNCHANGED <<rows, removed>>
      BY <1>7 DEF DeleteRow
    <2>4. QED
      BY <1>1, <2>1, <2>2, <2>3 DEF SetsTyped
  <1>8. ASSUME NEW r \in Requests, Release(r) PROVE SetsTyped'
    <2>1. UNCHANGED <<rows, cached, manager, late, removed>>
      BY <1>8 DEF Release
    <2>2. Conn(r) \in Attempts /\ req[r].target \in Instances
      BY <1>2, <1>8 DEF Release, AtInstance
    <2>3. \/ conns' = [conns EXCEPT ![req[r].target] = @ \ {Conn(r)}] /\ UNCHANGED orphans
          \/ orphans' = orphans \cup {Conn(r)} /\ UNCHANGED conns
          \/ UNCHANGED <<conns, orphans>>
      BY <1>8 DEF Release, RemovedConn
    <2>4. QED
      BY <1>1, <2>1, <2>2, <2>3 DEF SetsTyped
  <1>9. ASSUME NEW i \in Instances, NEW c \in Attempts, LateAdd(i, c) \/ Expire(i, c)
        PROVE  SetsTyped'
    BY <1>1, <1>9 DEF LateAdd, Expire, SetsTyped, aux
  <1>10. CASE (\E i \in Instances : Appear(i)) \/ WithdrawBounty
    BY <1>1, <1>10 DEF Appear, WithdrawBounty, SetsTyped, redis, aux
  <1>11. QED
    BY <1>3, <1>4, <1>5, <1>6, <1>7, <1>8, <1>9, <1>10 DEF Next, Step

LEMMA NumbersStep == Shaped /\ [Next]_vars => NumbersTyped'
  <1> SUFFICES ASSUME Shaped, [Next]_vars PROVE NumbersTyped'
    OBVIOUS
  <1>1. NumbersTyped /\ req \in [Requests -> Request]
    BY TypeParts DEF Shaped
  <1>2. ASSUME NEW r \in Requests, req[r].pc \in AtInstance PROVE req[r].target \in Instances
    BY <1>2 DEF Shaped, Shape
  <1>3. UNCHANGED errors \/ Error => errors' \in 0..MaxErrors
    BY <1>1, ErrorTyped DEF NumbersTyped
  <1>4. CASE UNCHANGED vars
    BY <1>1, <1>4 DEF vars, NumbersTyped
  <1>5. ASSUME NEW r \in Requests,
               \/ Start(r) \/ PickNothing(r) \/ AddConn(r) \/ Call(r) \/ Commit(r) \/ DeleteRow(r)
               \/ Release(r) \/ HangUp(r)
               \/ \E i \in Instances : Pick(r, i) \/ \E known \in BOOLEAN : PickBlind(r, i, known)
        PROVE  NumbersTyped'
    <2>1. UNCHANGED <<failures, quota, bounty, posted>>
      BY <1>5 DEF Start, PickNothing, AddConn, Call, Commit, DeleteRow, Release, HangUp, Pick,
                  PickBlind, redis, aux
    <2>2. UNCHANGED errors \/ Error
      BY <1>5 DEF Start, PickNothing, AddConn, Call, Commit, DeleteRow, Release, HangUp, Pick, PickBlind
    <2>3. QED
      BY <1>1, <1>3, <2>1, <2>2 DEF NumbersTyped
  <1>6. ASSUME NEW r \in Requests, StartNothing(r) PROVE NumbersTyped'
    <2>1. UNCHANGED <<errors, failures, quota>>
      BY <1>6 DEF StartNothing
    <2>2. \/ bounty' = TRUE /\ posted' = posted + (IF bounty THEN 0 ELSE 1)
          \/ UNCHANGED <<bounty, posted>>
      BY <1>6 DEF StartNothing
    <2>3. posted \in Nat /\ bounty \in BOOLEAN /\ (IF bounty THEN 0 ELSE 1) \in Nat
      BY <1>1 DEF NumbersTyped
    <2>4. posted' \in Nat
      BY <2>2, <2>3
    <2>5. bounty' \in BOOLEAN
      BY <2>2, <2>3
    <2>6. QED
      BY <1>1, <2>1, <2>4, <2>5 DEF NumbersTyped
  <1>7. ASSUME NEW r \in Requests, Settle(r) PROVE NumbersTyped'
    <2>1. /\ UNCHANGED posted /\ (UNCHANGED errors \/ Error)
          /\ quota' \in {quota, quota + 1}
          /\ failures' = failures \/ failures' = [failures EXCEPT ![req[r].target] = 0]
          /\ bounty' \in {bounty, FALSE}
      BY <1>7 DEF Settle, aux, Claimed
    <2>2. failures' \in [Instances -> Nat]
      BY <1>1, <2>1 DEF NumbersTyped
    <2>3. bounty' \in BOOLEAN
      BY <1>1, <2>1 DEF NumbersTyped
    <2>4. quota' \in Nat /\ posted' \in Nat /\ errors' \in 0..MaxErrors
      BY <1>1, <1>3, <2>1 DEF NumbersTyped
    <2>5. QED
      BY <2>2, <2>3, <2>4 DEF NumbersTyped
  <1>8. ASSUME NEW r \in Requests, SettleFails(r) PROVE NumbersTyped'
    <2>1. UNCHANGED <<posted, failures, quota>> /\ Error /\ bounty' \in {bounty, FALSE}
      BY <1>8 DEF SettleFails, aux
    <2>2. QED
      BY <1>1, <1>3, <2>1 DEF NumbersTyped
  <1>9. ASSUME NEW r \in Requests, Fail(r) PROVE NumbersTyped'
    <2>1. /\ UNCHANGED <<posted, quota, bounty>> /\ (UNCHANGED errors \/ Error)
          /\ \/ UNCHANGED failures
             \/ failures' = [failures EXCEPT ![req[r].target] = failures[req[r].target] + 1]
      BY <1>9 DEF Fail, aux
    <2>2. req[r].target \in Instances
      BY <1>9 DEF Fail, Shaped, Shape, AtInstance
    <2>3. QED
      BY <1>1, <1>3, <2>1, <2>2 DEF NumbersTyped
  <1>10. CASE \/ \E i \in Instances, c \in Attempts : LateAdd(i, c) \/ Expire(i, c)
              \/ \E i \in Instances : Appear(i)
              \/ WithdrawBounty
    BY <1>1, <1>10 DEF LateAdd, Expire, Appear, WithdrawBounty, NumbersTyped, redis, aux
  <1>11. QED
    BY <1>4, <1>5, <1>6, <1>7, <1>8, <1>9, <1>10 DEF Next, Step

LEMMA ShapedStep == Shaped /\ [Next]_vars => Shaped'
  <1> SUFFICES ASSUME Shaped, [Next]_vars PROVE Shaped'
    OBVIOUS
  <1>1. SetsTyped' /\ NumbersTyped'
    BY SetsStep, NumbersStep
  <1>2. req \in [Requests -> Request] /\ \A s \in Requests : Shape(s)
    BY DEF Shaped, TypeOK
  <1>3. CASE UNCHANGED req
    <2>1. TypeOK'
      BY <1>1, <1>2, <1>3 DEF TypeOK, SetsTyped, NumbersTyped
    <2>2. QED
      BY <1>2, <1>3, <2>1 DEF Shaped, Shape
  <1>4. \* A request moves.
        ASSUME NEW r \in Requests, Moved(r, Pcs, Pcs \ {"new"}), Shape(r)' PROVE Shaped'
    <2>1. TypeOK'
      BY <1>1, <1>4 DEF Moved, TypeOK, SetsTyped, NumbersTyped
    <2>2. \A s \in Requests \ {r} : Shape(s)'
      BY <1>2, <1>4 DEF Moved, Shape
    <2>3. QED
      BY <1>4, <2>1, <2>2 DEF Shaped
  <1>5. \* It comes from an instance that it did try, or leaves it.
        ASSUME NEW r \in Requests,
               \/ Moved(r, Pcs, {"pick", "ended"})
               \/ Moved(r, Trying, Trying) /\ KeepsAttempt(r) /\ KeepsTried(r)
               \/ Moved(r, AtInstance, {"release"}) /\ KeepsAttempt(r)
               \/ Moved(r, {"fail"}, {"delete"}) /\ KeepsAttempt(r) /\ KeepsTried(r)
               \/ Moved(r, Trying, {"fail"}) /\ KeepsAttempt(r) /\ \E kind \in Faults : Fails(r, kind)
        PROVE  Shaped'
    <2>1. Moved(r, Pcs, Pcs \ {"new"})
      BY <1>2, <1>5 DEF Moved, Pcs, Trying, AtInstance, Request
    <2>2. CASE Moved(r, Pcs, {"pick", "ended"})
      BY <1>4, <2>1, <2>2 DEF Moved, Shape, AtInstance, Trying
    <2>3. CASE Moved(r, Trying, Trying) /\ KeepsAttempt(r) /\ KeepsTried(r)
      BY <1>2, <1>4, <2>1, <2>3 DEF Moved, Shape, AtInstance, Trying, KeepsAttempt, KeepsTried
    <2>4. CASE Moved(r, AtInstance, {"release"}) /\ KeepsAttempt(r)
      BY <1>2, <1>4, <2>1, <2>4 DEF Moved, Shape, AtInstance, Trying, KeepsAttempt
    <2>5. CASE Moved(r, {"fail"}, {"delete"}) /\ KeepsAttempt(r) /\ KeepsTried(r)
      BY <1>2, <1>4, <2>1, <2>5 DEF Moved, Shape, AtInstance, Trying, KeepsAttempt, KeepsTried
    <2>6. ASSUME Moved(r, Trying, {"fail"}), KeepsAttempt(r), NEW kind \in Faults, Fails(r, kind)
          PROVE  Shaped'
      <3>1. req[r].target \in Instances /\ req[r].tried \in [Instances -> Faults \cup {"untried"}]
        BY <1>2, <2>6 DEF Moved, Shape, AtInstance, Request
      <3>2. req'[r].tried[req'[r].target] = kind
        BY <2>6, <3>1 DEF Fails, KeepsAttempt
      <3>3. Shape(r)'
        BY <2>6, <3>1, <3>2 DEF Moved, Shape, AtInstance, Trying, KeepsAttempt
      <3>4. QED
        BY <1>4, <2>1, <3>3
    <2>7. QED
      BY <1>5, <2>2, <2>3, <2>4, <2>5, <2>6
  <1>6. ASSUME NEW r \in Requests, Step(r) \/ StartNothing(r) \/ HangUp(r) PROVE Shaped'
    <2> USE <1>5 DEF Moved, Pcs, Trying, AtInstance
    <2>1. CASE Start(r)
      BY <2>1, StartMoves
    <2>2. CASE StartNothing(r)
      BY <1>3, <2>2, StartNothingMoves
    <2>3. CASE PickNothing(r)
      BY <2>3, EndedMoves DEF PickNothing
    <2>4. ASSUME NEW i \in Instances, NEW known \in BOOLEAN, Pick(r, i) \/ PickBlind(r, i, known)
          PROVE  Shaped'
      <3>1. /\ Moved(r, {"pick"}, {"add", "call"}) /\ req'[r].target = i
            /\ req[r].tried[i] = "untried" /\ KeepsTried(r)
        BY ZenonT(60), <2>4, PickMoves
      <3>2. Shape(r)'
        BY <3>1 DEF Shape, KeepsTried
      <3>3. QED
        BY <1>4, <3>1, <3>2
    <2>5. CASE AddConn(r)
      BY <2>5, AddConnMoves
    <2>6. CASE Call(r)
      BY <2>6, CallMoves DEF Fails
    <2>7. CASE Settle(r)
      BY <2>7, SettleMoves
    <2>8. CASE SettleFails(r)
      BY <2>8, SettleFailsMoves DEF Faults
    <2>9. CASE Commit(r)
      BY <2>9, CommitMoves DEF Fails, Faults
    <2>10. CASE Fail(r)
      BY <2>10, FailMoves
    <2>11. CASE DeleteRow(r)
      BY <2>11, DeleteRowMoves
    <2>12. CASE Release(r)
      BY <2>12, ReleaseMoves
    <2>13. CASE HangUp(r)
      BY <2>13, HangUpMoves
    <2>14. QED
      BY <1>6, <2>1, <2>2, <2>3, <2>4, <2>5, <2>6, <2>7, <2>8, <2>9, <2>10, <2>11, <2>12, <2>13
         DEF Step
  <1>7. CASE \/ \E i \in Instances, c \in Attempts : LateAdd(i, c) \/ Expire(i, c)
             \/ \E i \in Instances : Appear(i)
             \/ WithdrawBounty
    BY <1>3, <1>7 DEF LateAdd, Expire, Appear, WithdrawBounty
  <1>8. CASE UNCHANGED vars
    BY <1>3, <1>8 DEF vars
  <1>9. QED
    BY <1>6, <1>7, <1>8 DEF Next


\* Every variable keeps its type: an attempt is one of MaxAttempts, a connection
\* is that of an attempt, and a count of failures is a natural number.
THEOREM TypeCorrect == Spec => []TypeOK
  <1>1. Init => Shaped
    BY ShapedStart
  <1>2. Shaped /\ [Next]_vars => Shaped'
    BY ShapedStep
  <1>3. Shaped => TypeOK
    BY DEF Shaped
  <1>4. QED
    BY <1>1, <1>2, <1>3, PTL DEF Spec

LEMMA AlwaysShaped == Spec => []Shaped
  BY ShapedStart, ShapedStep, PTL DEF Spec

-----------------------------------------------------------------------------
(* The bounty. *)

Holders == {r \in Requests : req[r].bounty # "none"}
Offered == IF bounty THEN 1 ELSE 0

\* Whoever holds the bounty took it from redis, in its own settlement.
LEMMA BountyMoves ==
  ASSUME Shaped, [Next]_vars
  PROVE  \/ /\ Holders' \subseteq Holders /\ posted' = posted
            /\ bounty' \in {bounty, FALSE}
         \/ /\ Holders' \subseteq Holders /\ bounty' = TRUE /\ posted' = posted + 1 - Offered
         \/ /\ \E r \in Requests : Holders' \subseteq Holders \cup {r}
            /\ posted' = posted /\ bounty = TRUE /\ bounty' = FALSE
  <1>1. ASSUME UNCHANGED req PROVE Holders' \subseteq Holders
    BY <1>1 DEF Holders
  <1>2. ASSUME NEW r \in Requests, \A s \in Requests \ {r} : req'[s] = req[s],
               req[r].bounty = "none" => req'[r].bounty = "none"
        PROVE  Holders' \subseteq Holders
    BY <1>2 DEF Holders
  <1>3. ASSUME NEW r \in Requests,
               \/ Start(r) \/ PickNothing(r) \/ AddConn(r) \/ Call(r) \/ Commit(r) \/ Fail(r)
               \/ DeleteRow(r) \/ Release(r) \/ HangUp(r)
               \/ \E i \in Instances : Pick(r, i) \/ \E known \in BOOLEAN : PickBlind(r, i, known)
        PROVE  Holders' \subseteq Holders /\ UNCHANGED <<bounty, posted>>
    <2>1. UNCHANGED <<bounty, posted>>
      BY <1>3 DEF Start, PickNothing, AddConn, Call, Commit, Fail, DeleteRow, Release, HangUp, Pick,
                  PickBlind, redis, aux
    <2> SUFFICES Holders' \subseteq Holders
      BY <2>1
    <2>2. CASE Start(r)
      BY <1>2, <2>2, StartMoves DEF KeepsBounty, Moved
    <2>3. CASE PickNothing(r)
      BY <1>2, <2>3, EndedMoves DEF PickNothing, KeepsBounty, Moved
    <2>4. CASE AddConn(r)
      BY <1>2, <2>4, AddConnMoves DEF KeepsBounty, Moved
    <2>5. CASE Call(r)
      BY <1>2, <2>5, CallMoves DEF Moved
    <2>6. CASE Commit(r)
      BY <1>2, <2>6, CommitMoves DEF Moved
    <2>7. CASE Fail(r)
      BY <1>2, <2>7, FailMoves DEF Moved
    <2>8. CASE DeleteRow(r)
      BY <1>2, <2>8, DeleteRowMoves DEF Moved
    <2>9. CASE Release(r)
      BY <1>2, <2>9, ReleaseMoves DEF KeepsBounty, Moved
    <2>10. CASE HangUp(r)
      BY <1>2, <2>10, HangUpMoves DEF Moved
    <2>11. ASSUME NEW i \in Instances, NEW known \in BOOLEAN, Pick(r, i) \/ PickBlind(r, i, known)
           PROVE  Holders' \subseteq Holders
      BY ZenonT(60), <1>2, <2>11, PickMoves DEF KeepsBounty, Moved
    <2>12. QED
      BY <1>3, <2>1, <2>2, <2>3, <2>4, <2>5, <2>6, <2>7, <2>8, <2>9, <2>10, <2>11
  <1>4. ASSUME NEW r \in Requests, StartNothing(r)
        PROVE  /\ Holders' \subseteq Holders
               /\ \/ bounty' = TRUE /\ posted' = posted + 1 - Offered
                  \/ UNCHANGED <<bounty, posted>>
    <2>1. Holders' \subseteq Holders
      BY <1>1, <1>2, <1>4, StartNothingMoves DEF KeepsBounty, Moved
    <2>2. posted \in Nat
      BY DEF Shaped, TypeOK
    <2>3. posted + (IF bounty THEN 0 ELSE 1) = posted + 1 - Offered
      BY <2>2 DEF Offered
    <2>4. QED
      BY <1>4, <2>1, <2>3 DEF StartNothing
  <1>5. ASSUME NEW r \in Requests, Settle(r)
        PROVE  /\ posted' = posted
               /\ \/ Holders' \subseteq Holders /\ bounty' = bounty
                  \/ Holders' \subseteq Holders \cup {r} /\ bounty = TRUE /\ bounty' = FALSE
    BY <1>5, SettleMoves DEF Settle, aux, Moved, Holders
  <1>6. ASSUME NEW r \in Requests, SettleFails(r)
        PROVE  Holders' \subseteq Holders /\ posted' = posted /\ bounty' \in {bounty, FALSE}
    BY <1>2, <1>6, SettleFailsMoves DEF SettleFails, aux, Fails, Moved
  <1>7. ASSUME \/ \E i \in Instances, c \in Attempts : LateAdd(i, c) \/ Expire(i, c)
               \/ \E i \in Instances : Appear(i)
               \/ WithdrawBounty
               \/ UNCHANGED vars
        PROVE  Holders' \subseteq Holders /\ posted' = posted /\ bounty' \in {bounty, FALSE}
    <2>1. posted' = posted /\ bounty' \in {bounty, FALSE} /\ UNCHANGED req
      BY <1>7 DEF LateAdd, Expire, Appear, WithdrawBounty, vars, redis, aux
    <2>2. QED
      BY <1>1, <2>1
  <1>8. QED
    BY <1>3, <1>4, <1>5, <1>6, <1>7 DEF Next, Step

LEMMA BountyStep == Shaped /\ BountyOnce /\ [Next]_vars => BountyOnce'
  <1> SUFFICES ASSUME Shaped, BountyOnce, [Next]_vars PROVE BountyOnce'
    OBVIOUS
  <1>1. /\ IsFiniteSet(Holders) /\ Cardinality(Holders) \in Nat
        /\ posted \in Nat /\ bounty \in BOOLEAN
    BY InvokeAssumption, FS_Subset, FS_CardinalityType DEF Holders, Shaped, TypeOK
  <1>2. Cardinality(Holders) + Offered <= posted
    BY DEF BountyOnce, Holders, Offered
  <1>3. ASSUME Holders' \subseteq Holders
        PROVE  Cardinality(Holders') \in Nat /\ Cardinality(Holders') <= Cardinality(Holders)
    BY <1>1, <1>3, FS_Subset, FS_CardinalityType
  <1>4. ASSUME NEW r \in Requests, Holders' \subseteq Holders \cup {r}
        PROVE  /\ Cardinality(Holders') \in Nat
               /\ Cardinality(Holders') <= Cardinality(Holders) + 1
    <2>1. /\ IsFiniteSet(Holders \cup {r})
          /\ \/ Cardinality(Holders \cup {r}) = Cardinality(Holders)
             \/ Cardinality(Holders \cup {r}) = Cardinality(Holders) + 1
      BY <1>1, FS_AddElement, Zenon
    <2>2. /\ IsFiniteSet(Holders')
          /\ Cardinality(Holders') <= Cardinality(Holders \cup {r})
      BY <1>4, <2>1, FS_Subset, Zenon
    <2>3. Cardinality(Holders') \in Nat
      BY <2>2, FS_CardinalityType
    <2>4. QED
      BY <1>1, <2>1, <2>2, <2>3
  <1>5. Cardinality(Holders') + Offered' <= posted'
    <2>1. Offered = (IF bounty THEN 1 ELSE 0) /\ Offered' = (IF bounty' THEN 1 ELSE 0)
      BY DEF Offered
    <2>2. CASE Holders' \subseteq Holders /\ posted' = posted /\ bounty' \in {bounty, FALSE}
      <3>1. Offered \in Nat
        BY <2>1
      <3>2. CASE bounty' = bounty
        <4>1. Offered' = Offered
          BY <2>1, <3>2
        <4>2. QED
          BY <1>1, <1>2, <1>3, <2>2, <3>1, <4>1
      <3>3. CASE bounty' = FALSE
        <4>1. Offered' = 0
          BY <2>1, <3>3
        <4>2. QED
          BY <1>1, <1>2, <1>3, <2>2, <3>1, <4>1
      <3>4. QED
        BY <2>2, <3>2, <3>3
    <2>3. CASE Holders' \subseteq Holders /\ bounty' = TRUE /\ posted' = posted + 1 - Offered
      <3>1. Offered' = 1 /\ Offered \in Nat
        BY <2>1, <2>3
      <3>2. QED
        BY <1>1, <1>2, <1>3, <2>3, <3>1
    <2>4. CASE /\ \E r \in Requests : Holders' \subseteq Holders \cup {r}
               /\ posted' = posted /\ bounty = TRUE /\ bounty' = FALSE
      <3>1. Offered = 1 /\ Offered' = 0
        BY <2>1, <2>4
      <3>2. QED
        BY <1>1, <1>2, <1>4, <2>4, <3>1
    <2>5. QED
      BY <2>2, <2>3, <2>4, BountyMoves
  <1>6. QED
    BY <1>5 DEF BountyOnce, Holders, Offered

\* A bounty is deleted from redis by the settlement that claims it, so that it is
\* paid to one invocation, however many finish at the same time.
THEOREM BountyIsPaidOnce == Spec => []BountyOnce
  <1>1. Init => BountyOnce
    <2> SUFFICES ASSUME Init PROVE BountyOnce
      OBVIOUS
    <2>1. {r \in Requests : req[r].bounty # "none"} = {}
      BY DEF Init, New
    <2>2. QED
      BY <2>1, FS_EmptySet DEF BountyOnce, Init
  <1>2. QED
    BY <1>1, AlwaysShaped, BountyStep, PTL DEF Spec

-----------------------------------------------------------------------------
(* What is paid for. *)

\* A request that pays found the free invocations used up, and an attempt that is
\* settled has delivered a result that was not paid for yet.
Paying(r) ==
    /\ req[r].charged <= req[r].delivered
    /\ req[r].pc = "settle" => req[r].charged + 1 <= req[r].delivered
    /\ req[r].pc \notin {"new", "ended"} /\ ~req[r].free => quota >= Quota
    /\ req[r].charged > 0 => quota >= Quota

PaidInv == \A r \in Requests : Paying(r)

LEMMA QuotaGrows == Shaped /\ [Next]_vars => quota' >= quota
  <1> SUFFICES ASSUME Shaped, [Next]_vars PROVE quota' \in {quota, quota + 1}
    BY DEF Shaped, TypeOK
  <1>1. ASSUME NEW r \in Requests,
               \/ Start(r) \/ StartNothing(r) \/ PickNothing(r) \/ AddConn(r) \/ Call(r)
               \/ SettleFails(r) \/ Commit(r) \/ Fail(r) \/ DeleteRow(r) \/ Release(r) \/ HangUp(r)
               \/ \E i \in Instances : Pick(r, i) \/ \E known \in BOOLEAN : PickBlind(r, i, known)
        PROVE  quota' = quota
    BY <1>1 DEF Start, StartNothing, PickNothing, AddConn, Call, SettleFails, Commit, Fail, DeleteRow,
                Release, HangUp, Pick, PickBlind, redis, aux
  <1>2. ASSUME NEW r \in Requests, Settle(r) PROVE quota' \in {quota, quota + 1}
    BY <1>2 DEF Settle
  <1>3. CASE \/ \E i \in Instances, c \in Attempts : LateAdd(i, c) \/ Expire(i, c)
             \/ \E i \in Instances : Appear(i)
             \/ WithdrawBounty
             \/ UNCHANGED vars
    BY <1>3 DEF LateAdd, Expire, Appear, WithdrawBounty, vars, redis, aux
  <1>4. QED
    BY <1>1, <1>2, <1>3 DEF Next, Step

LEMMA PayingMoves ==
  ASSUME Shaped, PaidInv, [Next]_vars, NEW r \in Requests,
         Step(r) \/ StartNothing(r) \/ HangUp(r)
  PROVE  /\ Paying(r)'
         /\ \A s \in Requests \ {r} : req'[s] = req[s]
  <1>1. /\ quota \in Nat /\ quota' \in Nat /\ quota' >= quota /\ Quota \in Nat
        /\ req[r].charged \in Nat /\ req[r].delivered \in Nat /\ req[r].free \in BOOLEAN
        /\ req[r].pc \in Pcs
    <2>1. quota \in Nat /\ req[r] \in Request
      BY DEF Shaped, TypeOK
    <2>2. quota' \in Nat
      BY ShapedStep DEF Shaped, TypeOK
    <2>3. QED
      BY <2>1, <2>2, QuotaGrows, InvokeAssumption DEF Request
  <1>2. Paying(r)
    BY DEF PaidInv
  <1>3. CASE UNCHANGED req
    BY <1>1, <1>2, <1>3 DEF Paying
  <1>4. \* A request that goes on and neither delivers nor pays.
        ASSUME NEW from, NEW to, Moved(r, from, to), KeepsAccount(r), "settle" \notin to,
               \/ to = {"ended"}
               \/ req'[r].pc = "ended"
               \/ from \cap {"new", "ended"} = {} /\ KeepsFree(r)
        PROVE  Paying(r)' /\ \A s \in Requests \ {r} : req'[s] = req[s]
    BY <1>1, <1>2, <1>4 DEF Moved, KeepsAccount, KeepsFree, Paying
  <1>5. CASE Start(r)
    <2>1. /\ Moved(r, {"new"}, {"pick"}) /\ req'[r].free = WithinQuota /\ KeepsAccount(r)
      BY <1>5, StartMoves
    <2>2. req[r].charged = 0 /\ req[r].delivered = 0
      BY <1>5 DEF Start, Shaped, Shape, New
    <2>3. ~req'[r].free => quota' >= Quota
      <3>1. ~WithinQuota => quota' >= Quota
        BY <1>1 DEF WithinQuota
      <3>2. QED
        BY <2>1, <3>1, Zenon
    <2>4. QED
      BY <1>1, <2>1, <2>2, <2>3 DEF Moved, KeepsAccount, Paying
  <1>6. CASE StartNothing(r)
    BY <1>3, <1>4, <1>6, StartNothingMoves
  <1>7. CASE PickNothing(r)
    BY <1>4, <1>7, EndedMoves DEF PickNothing
  <1>8. ASSUME NEW i \in Instances, NEW known \in BOOLEAN, Pick(r, i) \/ PickBlind(r, i, known)
        PROVE  Paying(r)' /\ \A s \in Requests \ {r} : req'[s] = req[s]
    BY <1>4, <1>8, PickMoves
  <1>9. CASE AddConn(r)
    BY <1>4, <1>9, AddConnMoves
  <1>10. CASE Call(r)
    BY <1>1, <1>2, <1>10, CallMoves DEF Moved, KeepsFree, Paying, Trying
  <1>11. CASE Settle(r)
    <2>1. /\ Moved(r, {"settle"}, {"commit"}) /\ KeepsFree(r)
          /\ req'[r].delivered = req[r].delivered
      BY <1>11, SettleMoves
    <2>2. \/ req'[r].charged = req[r].charged
          \/ req'[r].charged = req[r].charged + 1 /\ ~req[r].free
      BY <1>11, SettleMoves
    <2>3. req[r].charged + 1 <= req[r].delivered /\ (~req[r].free => quota >= Quota)
      BY <1>2, <2>1 DEF Moved, Paying
    <2>4. req[r].charged > 0 => quota >= Quota
      BY <1>2 DEF Paying
    <2>5. /\ req'[r].charged <= req'[r].delivered
          /\ req'[r].charged > 0 => quota' >= Quota
      BY <1>1, <2>1, <2>2, <2>3, <2>4
    <2>6. ~req'[r].free => quota' >= Quota
      BY <1>1, <2>1, <2>3 DEF KeepsFree
    <2>7. QED
      BY <2>1, <2>5, <2>6 DEF Moved, Paying
  <1>12. CASE SettleFails(r)
    BY <1>4, <1>12, SettleFailsMoves DEF Trying
  <1>13. CASE Commit(r)
    BY <1>4, <1>13, CommitMoves DEF Trying
  <1>14. CASE Fail(r)
    BY <1>4, <1>14, FailMoves
  <1>15. CASE DeleteRow(r)
    BY <1>4, <1>15, DeleteRowMoves
  <1>16. CASE Release(r)
    <2>1. /\ Moved(r, {"release"}, {"pick", "ended"}) /\ KeepsAccount(r)
          /\ req'[r].pc = "pick" => KeepsFree(r)
      BY <1>16, ReleaseMoves
    <2>2. QED
      BY <1>1, <1>2, <2>1 DEF Moved, KeepsAccount, KeepsFree, Paying
  <1>17. CASE HangUp(r)
    BY <1>4, <1>17, HangUpMoves
  <1>18. QED
    BY <1>5, <1>6, <1>7, <1>8, <1>9, <1>10, <1>11, <1>12, <1>13, <1>14, <1>15, <1>16, <1>17 DEF Step

LEMMA PaidStep == Shaped /\ PaidInv /\ [Next]_vars => PaidInv'
  <1> SUFFICES ASSUME Shaped, PaidInv, [Next]_vars PROVE PaidInv'
    OBVIOUS
  <1>1. ASSUME NEW s \in Requests, req'[s] = req[s] PROVE Paying(s)'
    <2>1. quota \in Nat /\ quota' \in Nat /\ quota' >= quota /\ Quota \in Nat
      BY ShapedStep, QuotaGrows, InvokeAssumption DEF Shaped, TypeOK
    <2>2. QED
      BY <1>1, <2>1 DEF PaidInv, Paying
  <1>2. ASSUME NEW r \in Requests, Step(r) \/ StartNothing(r) \/ HangUp(r) PROVE PaidInv'
    BY <1>1, <1>2, PayingMoves DEF PaidInv
  <1>3. CASE UNCHANGED req
    BY <1>1, <1>3 DEF PaidInv
  <1>4. CASE \/ \E i \in Instances, c \in Attempts : LateAdd(i, c) \/ Expire(i, c)
             \/ \E i \in Instances : Appear(i)
             \/ WithdrawBounty
             \/ UNCHANGED vars
    BY <1>3, <1>4 DEF LateAdd, Expire, Appear, WithdrawBounty, vars
  <1>5. QED
    BY <1>2, <1>4 DEF Next

\* The price of an invocation goes to the usage tracker only when the free
\* invocations of the day were counted up to the quota, and each time for a
\* result that was delivered since the last time.
THEOREM PaymentIsDue == Spec => []PaidForResults
  <1>1. Init => PaidInv
    BY InvokeAssumption DEF Init, New, PaidInv, Paying
  <1>2. PaidInv => PaidForResults
    BY DEF PaidInv, Paying, PaidForResults
  <1>3. QED
    BY <1>1, <1>2, AlwaysShaped, PaidStep, PTL DEF Spec

-----------------------------------------------------------------------------
(* The connections in redis. *)

Idle == {"new", "pick", "add", "ended"}

\* The attempt that the connection c, counted for i, belongs to is in progress and
\* will remove it.
Using(i, c) == /\ req[c[1]].attempt = c[2] /\ req[c[1]].target = i
               /\ req[c[1]].tracked = TRUE /\ req[c[1]].pc \notin Idle

\* A connection that is added late belongs to an attempt that gave it up.
ConnsInv ==
    /\ \A r \in Requests : req[r].pc = "add" => req[r].tracked = TRUE
    /\ \A i \in Instances : \A c \in conns[i] \ orphans : Using(i, c)
    /\ \A e \in late : e[2] \in orphans

\* Nothing is in use of a request that is idle.
LEMMA IdleHasNone ==
  ASSUME ConnsInv, NEW r \in Requests, req[r].pc \in Idle
  PROVE  \A i \in Instances : \A c \in conns[i] \ orphans : c[1] # r
  BY DEF ConnsInv, Using

\* A step that leaves redis alone, and in which no attempt in progress ends.
LEMMA ConnsStay ==
  ASSUME Shaped, ConnsInv, NEW r \in Requests, NEW from, NEW to, Moved(r, from, to),
         UNCHANGED <<conns, late, orphans>>,
         req'[r].pc = "add" => req'[r].tracked = TRUE,
         from \subseteq Idle \/ (KeepsAttempt(r) /\ to \cap Idle = {})
  PROVE  ConnsInv'
  <1>1. \A s \in Requests : req'[s].pc = "add" => req'[s].tracked = TRUE
    BY DEF ConnsInv, Moved
  <1>2. ASSUME NEW i \in Instances, NEW c \in conns[i] \ orphans PROVE Using(i, c)'
    <2>1. c[1] \in Requests /\ Using(i, c)
      BY DEF ConnsInv, Shaped, TypeOK, Attempts
    <2>2. CASE c[1] = r
      BY <2>1, <2>2, IdleHasNone DEF Moved, KeepsAttempt, Using
    <2>3. CASE c[1] # r
      BY <2>1, <2>3 DEF Moved, Using
    <2>4. QED
      BY <2>2, <2>3
  <1>3. QED
    BY <1>1, <1>2 DEF ConnsInv

LEMMA ConnsAdded ==
  ASSUME Shaped, ConnsInv, NEW r \in Requests, AddConn(r)
  PROVE  ConnsInv'
  <1>1. /\ Moved(r, {"add"}, {"call"}) /\ KeepsAttempt(r)
        /\ req[r].pc = "add" /\ req[r].tracked = TRUE
    BY AddConnMoves DEF AddConn, ConnsInv
  <1>2. /\ req[r].target \in Instances /\ conns \in [Instances -> SUBSET Attempts]
        /\ \A i \in Instances : \A c \in conns[i] \ orphans : c[1] \in Requests \ {r}
    BY <1>1, IdleHasNone DEF Shaped, Shape, TypeOK, AtInstance, Trying, Idle, Attempts
  <1>3. Using(req[r].target, Conn(r))'
    BY <1>1 DEF Moved, KeepsAttempt, Using, Conn, Idle
  <1>4. \A i \in Instances : \A c \in conns[i] \ orphans : Using(i, c)'
    BY <1>1, <1>2 DEF ConnsInv, Moved, Using
  <1>5. \A s \in Requests : req'[s].pc = "add" => req'[s].tracked = TRUE
    BY <1>1 DEF ConnsInv, Moved
  <1>6. CASE /\ conns' = [conns EXCEPT ![req[r].target] = @ \cup {Conn(r)}]
             /\ UNCHANGED <<late, orphans>>
    <2>1. ASSUME NEW i \in Instances, NEW c \in conns'[i] \ orphans'
          PROVE  Using(i, c)'
      <3>1. c \in conns[i] \ orphans \/ (i = req[r].target /\ c = Conn(r))
        BY <1>2, <1>6, <2>1
      <3>2. KeepsAttempt(r) /\ Conn(r)' = Conn(r) /\ req'[r].target = req[r].target
        BY <1>1 DEF KeepsAttempt, Conn
      <3>3. QED
        BY <1>3, <1>4, <3>1, <3>2
    <2>2. QED
      BY <1>5, <1>6, <2>1 DEF ConnsInv
  <1>7. CASE /\ late' \subseteq late \cup {<<req[r].target, Conn(r)>>}
             /\ orphans' = orphans \cup {Conn(r)} /\ UNCHANGED conns
    BY <1>4, <1>5, <1>7 DEF ConnsInv
  <1>8. CASE UNCHANGED <<conns, late, orphans>>
    BY <1>4, <1>5, <1>8 DEF ConnsInv
  <1>9. QED
    BY <1>6, <1>7, <1>8 DEF AddConn

LEMMA ConnsReleased ==
  ASSUME Shaped, ConnsInv, NEW r \in Requests, Release(r)
  PROVE  ConnsInv'
  <1>1. Moved(r, {"release"}, {"pick", "ended"}) /\ UNCHANGED late
    BY ReleaseMoves DEF Release
  <1>2. \A s \in Requests : req'[s].pc = "add" => req'[s].tracked = TRUE
    BY <1>1 DEF ConnsInv, Moved
  <1>3. conns \in [Instances -> SUBSET Attempts] /\ req[r].target \in Instances
    BY DEF Shaped, Shape, TypeOK, AtInstance, Release
  <1>4. ASSUME NEW i \in Instances, NEW c \in conns[i] \ orphans, c[1] # r
        PROVE  Using(i, c)'
    BY <1>1, <1>3, <1>4 DEF ConnsInv, Moved, Using, Attempts
  <1>5. ASSUME NEW i \in Instances, NEW c \in conns[i] \ orphans, c[1] = r
        PROVE  c = Conn(r) /\ i = req[r].target /\ req[r].tracked = TRUE
    BY <1>3, <1>5 DEF ConnsInv, Using, Attempts, Conn
  <1>6. CASE conns' = RemovedConn(r) /\ UNCHANGED orphans
    <2>1. ASSUME NEW i \in Instances, NEW c \in conns'[i] \ orphans' PROVE Using(i, c)'
      <3>1. c \in conns[i] \ orphans /\ ~(i = req[r].target /\ c = Conn(r))
        BY <1>3, <1>6, <2>1 DEF RemovedConn
      <3>2. QED
        BY <1>4, <1>5, <3>1
    <2>2. QED
      BY <1>1, <1>2, <1>6, <2>1 DEF ConnsInv
  <1>7. CASE orphans' = orphans \cup {Conn(r)} /\ UNCHANGED conns
    BY <1>1, <1>2, <1>4, <1>5, <1>7 DEF ConnsInv
  <1>8. CASE req[r].tracked # TRUE /\ UNCHANGED <<conns, orphans>>
    BY <1>1, <1>2, <1>4, <1>5, <1>8 DEF ConnsInv
  <1>9. QED
    BY <1>6, <1>7, <1>8 DEF Release

LEMMA ConnsStep == Shaped /\ ConnsInv /\ [Next]_vars => ConnsInv'
  <1> SUFFICES ASSUME Shaped, ConnsInv, [Next]_vars PROVE ConnsInv'
    OBVIOUS
  <1>1. ASSUME UNCHANGED req, late' \subseteq late, UNCHANGED orphans,
               \A i \in Instances : conns'[i] \ orphans' \subseteq conns[i] \ orphans
        PROVE  ConnsInv'
    BY <1>1 DEF ConnsInv, Using
  <1>2. CASE UNCHANGED <<req, conns, late, orphans>>
    BY <1>1, <1>2
  <1>3. ASSUME NEW r \in Requests, Step(r) \/ StartNothing(r) \/ HangUp(r) PROVE ConnsInv'
    <2> USE DEF Moved, Idle, redis, aux
    <2>1. CASE Start(r)
      BY <2>1, ConnsStay, StartMoves DEF Start
    <2>2. CASE StartNothing(r)
      BY <1>2, <2>2, ConnsStay, StartNothingMoves DEF StartNothing
    <2>3. CASE PickNothing(r)
      <3>1. Moved(r, {"pick"}, {"ended"}) /\ UNCHANGED <<conns, late, orphans>>
        BY <2>3, EndedMoves DEF PickNothing
      <3>2. QED
        BY <3>1, ConnsStay
    <2>4. ASSUME NEW i \in Instances, NEW known \in BOOLEAN, Pick(r, i) \/ PickBlind(r, i, known)
          PROVE  ConnsInv'
      BY <2>4, ConnsStay, PickMoves DEF Pick, PickBlind
    <2>5. CASE AddConn(r)
      BY <2>5, ConnsAdded
    <2>6. CASE Call(r)
      <3>1. /\ Moved(r, Trying, {"settle", "fail", "release"}) /\ KeepsAttempt(r)
            /\ UNCHANGED <<conns, late, orphans>>
        BY <2>6, CallMoves DEF Call
      <3>2. QED
        BY <3>1, ConnsStay
    <2>7. CASE Settle(r)
      <3>1. /\ Moved(r, {"settle"}, {"commit"}) /\ KeepsAttempt(r)
            /\ UNCHANGED <<conns, late, orphans>>
        BY <2>7, SettleMoves DEF Settle
      <3>2. QED
        BY <3>1, ConnsStay
    <2>8. CASE SettleFails(r)
      <3>1. /\ Moved(r, Trying, {"fail"}) /\ KeepsAttempt(r)
            /\ UNCHANGED <<conns, late, orphans>>
        BY <2>8, SettleFailsMoves DEF SettleFails
      <3>2. QED
        BY <3>1, ConnsStay
    <2>9. CASE Commit(r)
      <3>1. /\ Moved(r, Trying, {"release", "fail"}) /\ KeepsAttempt(r)
            /\ UNCHANGED <<conns, late, orphans>>
        BY <2>9, CommitMoves DEF Commit
      <3>2. QED
        BY <3>1, ConnsStay
    <2>10. CASE Fail(r)
      <3>1. /\ Moved(r, {"fail"}, {"delete", "release"}) /\ KeepsAttempt(r)
            /\ UNCHANGED <<conns, late, orphans>>
        BY <2>10, FailMoves DEF Fail
      <3>2. QED
        BY <3>1, ConnsStay
    <2>11. CASE DeleteRow(r)
      <3>1. /\ Moved(r, {"delete"}, {"release"}) /\ KeepsAttempt(r)
            /\ UNCHANGED <<conns, late, orphans>>
        BY <2>11, DeleteRowMoves DEF DeleteRow
      <3>2. QED
        BY <3>1, ConnsStay
    <2>12. CASE Release(r)
      BY <2>12, ConnsReleased
    <2>13. CASE HangUp(r)
      <3>1. /\ Moved(r, {"call", "settle", "commit", "fail", "delete"}, {"release"})
            /\ KeepsAttempt(r) /\ UNCHANGED <<conns, late, orphans>>
        BY <2>13, HangUpMoves DEF HangUp
      <3>2. QED
        BY <3>1, ConnsStay
    <2>14. QED
      BY <1>3, <2>1, <2>2, <2>3, <2>4, <2>5, <2>6, <2>7, <2>8, <2>9, <2>10, <2>11, <2>12, <2>13
         DEF Step
  <1>4. ASSUME NEW i \in Instances, NEW c \in Attempts, LateAdd(i, c) \/ Expire(i, c)
        PROVE  ConnsInv'
    <2>1. conns \in [Instances -> SUBSET Attempts]
      BY DEF Shaped, TypeOK
    <2>2. UNCHANGED <<req, orphans>> /\ late' \subseteq late
      BY <1>4 DEF LateAdd, Expire, aux
    <2>3. CASE LateAdd(i, c)
      <3>1. c \in orphans
        BY <2>3 DEF LateAdd, ConnsInv
      <3>2. \A j \in Instances : conns'[j] \ orphans' \subseteq conns[j] \ orphans
        BY <2>1, <2>2, <2>3, <3>1 DEF LateAdd
      <3>3. QED
        BY <1>1, <2>2, <3>2
    <2>4. CASE Expire(i, c)
      <3>1. \A j \in Instances : conns'[j] \ orphans' \subseteq conns[j] \ orphans
        BY <2>1, <2>2, <2>4 DEF Expire
      <3>2. QED
        BY <1>1, <2>2, <3>1
    <2>5. QED
      BY <1>4, <2>3, <2>4
  <1>5. CASE (\E i \in Instances : Appear(i)) \/ WithdrawBounty \/ UNCHANGED vars
    BY <1>2, <1>5 DEF Appear, WithdrawBounty, vars, redis, aux
  <1>6. QED
    BY <1>3, <1>4, <1>5 DEF Next

\* Whatever ends an attempt - a result, an exception, a client that hangs up - the
\* attempt's connection leaves redis before its request goes on to another instance
\* or ends; only errors of redis leave one behind.
THEOREM ConnectionsAreInUse == Spec => []ConnsAreInUse
  <1>1. Init => ConnsInv
    BY DEF Init, New, ConnsInv
  <1>2. Shaped /\ ConnsInv => ConnsAreInUse
    BY DEF ConnsInv, ConnsAreInUse, Using, Idle
  <1>3. QED
    BY <1>1, <1>2, AlwaysShaped, ConnsStep, PTL DEF Spec

-----------------------------------------------------------------------------
(* The failures of an instance. *)

\* The requests that failed at i, and those whose failure was handled.
Failing(i) == {r \in Requests : req[r].tried[i] = "other"}
Handled(i) == {r \in Failing(i) : ~(req[r].pc = "fail" /\ req[r].target = i)}

\* A request that is to delete an instance has a reason.
Due(r) ==
    \A i \in Instances :
        req[r].pc = "delete" /\ req[r].target = i =>
            /\ req[r].tried[i] \in {"key_exchange", "other"}
            /\ req[r].tried[i] = "other" => Cardinality(Failing(i)) >= FailureLimit

\* A request comes back to no instance that it failed at, so that an instance's
\* count of failures in a row is one of requests.
FailuresInv ==
    /\ \A i \in Instances : failures[i] <= Cardinality(Handled(i))
    /\ \A r \in Requests : Due(r)
    /\ DeletedForFailures

LEMMA FailuresFinite ==
  ASSUME NEW i \in Instances
  PROVE  /\ IsFiniteSet(Failing(i)) /\ Cardinality(Failing(i)) \in Nat
         /\ IsFiniteSet(Handled(i)) /\ Cardinality(Handled(i)) \in Nat
         /\ Cardinality(Handled(i)) <= Cardinality(Failing(i))
  <1>1. Failing(i) \subseteq Requests /\ Handled(i) \subseteq Failing(i)
    BY DEF Failing, Handled
  <1>2. QED
    BY <1>1, InvokeAssumption, FS_Subset, FS_CardinalityType

\* What was tried stays tried, and a request fails only where it was trying.
LEMMA TriedMoves ==
  ASSUME Shaped, NEW r \in Requests, Step(r) \/ StartNothing(r) \/ HangUp(r)
  PROVE  \/ UNCHANGED req
         \/ Moved(r, Pcs, Pcs \ {"fail"}) /\ KeepsTried(r)
         \/ /\ Moved(r, Trying, {"fail"}) /\ KeepsAttempt(r)
            /\ \E kind \in Faults : Fails(r, kind)
  <1> DEFINE Goal == \/ UNCHANGED req
                     \/ Moved(r, Pcs, Pcs \ {"fail"}) /\ KeepsTried(r)
                     \/ /\ Moved(r, Trying, {"fail"}) /\ KeepsAttempt(r)
                        /\ \E kind \in Faults : Fails(r, kind)
  <1>1. ASSUME NEW from, NEW to, Moved(r, from, to), KeepsTried(r), req'[r].pc # "fail"
        PROVE  Goal
    <2>1. req[r].pc \in Pcs /\ req'[r].pc \in Pcs
      BY <1>1 DEF Shaped, TypeOK, Moved, Request
    <2>2. QED
      BY <1>1, <2>1 DEF Moved
  <1>2. ASSUME NEW to, Moved(r, Trying, to), KeepsAttempt(r), NEW kind \in Faults, Fails(r, kind)
        PROVE  Goal
    BY <1>2 DEF Moved, Fails
  <1>3. CASE Start(r)
    BY <1>1, <1>3, StartMoves DEF Moved
  <1>4. CASE StartNothing(r)
    BY <1>1, <1>4, StartNothingMoves DEF Moved
  <1>5. CASE PickNothing(r)
    BY <1>1, <1>5, EndedMoves DEF PickNothing, Moved
  <1>6. ASSUME NEW i \in Instances, NEW known \in BOOLEAN, Pick(r, i) \/ PickBlind(r, i, known)
        PROVE  Goal
    BY ZenonT(60), <1>1, <1>6, PickMoves DEF Moved
  <1>7. CASE AddConn(r)
    BY <1>1, <1>7, AddConnMoves DEF Moved
  <1>8. CASE Call(r)
    BY <1>1, <1>2, <1>8, CallMoves DEF Moved
  <1>9. CASE Settle(r)
    BY <1>1, <1>9, SettleMoves DEF Moved
  <1>10. CASE SettleFails(r)
    BY <1>2, <1>10, SettleFailsMoves DEF Faults
  <1>11. CASE Commit(r)
    BY <1>1, <1>2, <1>11, CommitMoves DEF Faults
  <1>12. CASE Fail(r)
    BY <1>1, <1>12, FailMoves DEF Moved
  <1>13. CASE DeleteRow(r)
    BY <1>1, <1>13, DeleteRowMoves DEF Moved
  <1>14. CASE Release(r)
    BY <1>1, <1>14, ReleaseMoves DEF Moved
  <1>15. CASE HangUp(r)
    BY <1>1, <1>15, HangUpMoves DEF Moved
  <1>16. QED
    BY <1>3, <1>4, <1>5, <1>6, <1>7, <1>8, <1>9, <1>10, <1>11, <1>12, <1>13, <1>14, <1>15 DEF Step

\* Nobody is taken off the list of those who failed.
LEMMA FailuresGrow ==
  ASSUME Shaped, [Next]_vars, NEW i \in Instances
  PROVE  /\ Failing(i) \subseteq Failing(i)' /\ Handled(i) \subseteq Handled(i)'
         /\ Cardinality(Failing(i)) <= Cardinality(Failing(i)')
         /\ Cardinality(Handled(i)) <= Cardinality(Handled(i)')
  <1>1. ASSUME UNCHANGED req
        PROVE  Failing(i) \subseteq Failing(i)' /\ Handled(i) \subseteq Handled(i)'
    BY <1>1 DEF Failing, Handled
  <1>2. ASSUME NEW r \in Requests, Moved(r, Pcs, Pcs \ {"fail"}), KeepsTried(r)
        PROVE  Failing(i) \subseteq Failing(i)' /\ Handled(i) \subseteq Handled(i)'
    BY <1>2 DEF Failing, Handled, Moved, KeepsTried
  <1>3. ASSUME NEW r \in Requests, Moved(r, Trying, {"fail"}), KeepsAttempt(r),
               NEW kind \in Faults, Fails(r, kind)
        PROVE  Failing(i) \subseteq Failing(i)' /\ Handled(i) \subseteq Handled(i)'
    <2>1. /\ req[r].target \in Instances /\ req[r].tried[req[r].target] = "untried"
          /\ req[r].tried \in [Instances -> Faults \cup {"untried"}]
      BY <1>3 DEF Moved, Shaped, Shape, TypeOK, Request, AtInstance
    <2>2. req[r].tried[i] = "other" => req'[r].tried[i] = "other" /\ req'[r].target # i
      BY <1>3, <2>1 DEF Fails, KeepsAttempt
    <2>3. QED
      BY <1>3, <2>2 DEF Failing, Handled, Moved
  <1>4. ASSUME \/ \E j \in Instances, c \in Attempts : LateAdd(j, c) \/ Expire(j, c)
               \/ \E j \in Instances : Appear(j)
               \/ WithdrawBounty
               \/ UNCHANGED vars
        PROVE  Failing(i) \subseteq Failing(i)' /\ Handled(i) \subseteq Handled(i)'
    BY <1>1, <1>4 DEF LateAdd, Expire, Appear, WithdrawBounty, vars
  <1>5. Failing(i) \subseteq Failing(i)' /\ Handled(i) \subseteq Handled(i)'
    <2>1. ASSUME NEW r \in Requests, Step(r) \/ StartNothing(r) \/ HangUp(r)
          PROVE  Failing(i) \subseteq Failing(i)' /\ Handled(i) \subseteq Handled(i)'
      BY <1>1, <1>2, <1>3, <2>1, TriedMoves
    <2>2. QED
      BY <1>4, <2>1 DEF Next
  <1>6. IsFiniteSet(Failing(i)') /\ IsFiniteSet(Handled(i)')
    <2>1. Failing(i)' \subseteq Requests /\ Handled(i)' \subseteq Requests
      BY DEF Failing, Handled
    <2>2. QED
      BY <2>1, InvokeAssumption, FS_Subset
  <1>7. QED
    BY <1>5, <1>6, FS_Subset

\* A failure that counts is that of the request that just failed, and is handled.
LEMMA FailCounts ==
  ASSUME Shaped, NEW r \in Requests, Fail(r), NEW i \in Instances, i = req[r].target
  PROVE  /\ req'[r].target = i /\ KeepsTried(r)
         /\ \/ UNCHANGED failures
            \/ /\ req[r].tried[i] = "other" /\ r \in Handled(i)' \ Handled(i)
               /\ failures' = [failures EXCEPT ![i] = failures[i] + 1]
         /\ req'[r].pc = "delete" =>
               \/ req[r].tried[i] = "key_exchange"
               \/ /\ req[r].tried[i] = "other" /\ failures'[i] >= FailureLimit
                  /\ failures' # failures
  <1> DEFINE kind == req[r].tried[i]
             count == IF kind \in Counted THEN failures[i] + 1 ELSE 0
  <1>1. /\ req \in [Requests -> Request] /\ req[r] \in Request
        /\ req[r].pc = "fail" /\ kind \in Faults
        /\ failures \in [Instances -> Nat] /\ FailureLimit \in Nat \ {0}
    BY InvokeAssumption DEF Shaped, TypeOK, Shape, AtInstance, Fail
  <1>2. Moved(r, {"fail"}, {"delete", "release"}) /\ KeepsAttempt(r) /\ KeepsTried(r)
    BY FailMoves
  <1>3. kind \in Counted <=> kind = "other"
    BY <1>1 DEF Counted, Faults
  <1>4. CASE Put(r, Raised(r)) /\ UNCHANGED failures
    <2>1. req'[r].pc = "release"
      BY <1>4, RaisedMoves DEF Moved
    <2>2. QED
      BY <1>1, <1>2, <1>4, <2>1 DEF KeepsAttempt
  <1> DEFINE pc == IF kind = "key_exchange" \/ count >= FailureLimit THEN "delete" ELSE "release"
             over == kind = "bad_request"
             new == [req[r] EXCEPT !.pc = pc, !.over = over]
  <1>5. CASE /\ failures' = IF kind \in Counted THEN [failures EXCEPT ![i] = count] ELSE failures
             /\ Put(r, new)
    <2>1. pc \in {"delete", "release"} /\ over \in BOOLEAN
      OBVIOUS
    <2>2. req'[r].pc = pc
      <3> HIDE DEF pc, over
      <3>1. new \in Request /\ new.pc = pc
        BY <1>1, <2>1 DEF Request, Pcs
      <3> HIDE DEF new
      <3>2. QED
        BY <1>1, <1>5, <3>1, Putting
    <2>3. CASE kind = "other"
      <3>1. count = failures[i] + 1 /\ failures' = [failures EXCEPT ![i] = failures[i] + 1]
        BY <1>3, <1>5, <2>3
      <3>2. failures'[i] = count /\ failures' # failures
        BY <1>1, <3>1
      <3>3. r \in Handled(i)' \ Handled(i)
        <4>1. req'[r].tried[i] = "other" /\ req'[r].pc # "fail"
          BY <1>2, <2>3 DEF Moved, KeepsTried
        <4>2. QED
          BY <1>1, <4>1 DEF Handled, Failing
      <3>4. QED
        BY <1>1, <1>2, <2>2, <2>3, <3>1, <3>2, <3>3 DEF KeepsAttempt
    <2>4. CASE kind # "other"
      <3>1. failures' = failures /\ count = 0
        BY <1>3, <1>5, <2>4
      <3>2. pc = "delete" => kind = "key_exchange"
        BY <1>1, <3>1
      <3>3. QED
        BY <1>1, <1>2, <2>2, <3>1, <3>2 DEF KeepsAttempt
    <2>5. QED
      BY <2>3, <2>4
  <1>6. QED
    BY <1>4, <1>5 DEF Fail

\* A request is about to delete an instance only once it handled a failure there.
LEMMA DueStep ==
  ASSUME Shaped, [Next]_vars, NEW r \in Requests, req'[r].pc = "delete"
  PROVE  Fail(r) \/ req'[r] = req[r]
  <1>1. ASSUME NEW s \in Requests, Step(s) \/ StartNothing(s) \/ HangUp(s)
        PROVE  Fail(r) \/ req'[r] = req[r]
    <2>1. CASE s # r
      <3>1. req'[r] = req[r]
        BY <1>1, <2>1, TriedMoves DEF Moved
      <3>2. QED
        BY <3>1
    <2>2. CASE s = r
      <3>1. ASSUME \/ Start(r) \/ StartNothing(r) \/ PickNothing(r) \/ AddConn(r) \/ Call(r)
                   \/ Settle(r) \/ SettleFails(r) \/ Commit(r) \/ DeleteRow(r) \/ Release(r)
                   \/ HangUp(r)
                   \/ \E i \in Instances : Pick(r, i) \/ \E known \in BOOLEAN : PickBlind(r, i, known)
            PROVE  req'[r].pc # "delete" \/ req'[r] = req[r]
        BY <3>1, StartMoves, StartNothingMoves, EndedMoves, AddConnMoves, CallMoves, SettleMoves,
           SettleFailsMoves, CommitMoves, DeleteRowMoves, ReleaseMoves, HangUpMoves, PickMoves
           DEF Moved, Fails, PickNothing
      <3>2. QED
        BY <1>1, <2>2, <3>1 DEF Step
    <2>3. QED
      BY <2>1, <2>2
  <1>2. CASE \/ \E j \in Instances, c \in Attempts : LateAdd(j, c) \/ Expire(j, c)
             \/ \E j \in Instances : Appear(j)
             \/ WithdrawBounty
             \/ UNCHANGED vars
    BY <1>2 DEF LateAdd, Expire, Appear, WithdrawBounty, vars
  <1>3. QED
    BY <1>1, <1>2 DEF Next

\* The count of failures changes when a failure is handled, and is cleared when a
\* call succeeds.
LEMMA CountStep ==
  ASSUME Shaped, [Next]_vars
  PROVE  \/ UNCHANGED failures
         \/ \E i \in Instances : failures' = [failures EXCEPT ![i] = 0]
         \/ \E r \in Requests : Fail(r)
  <1>1. ASSUME NEW r \in Requests,
               \/ Start(r) \/ StartNothing(r) \/ PickNothing(r) \/ AddConn(r) \/ Call(r)
               \/ SettleFails(r) \/ Commit(r) \/ DeleteRow(r) \/ Release(r) \/ HangUp(r)
               \/ \E i \in Instances : Pick(r, i) \/ \E known \in BOOLEAN : PickBlind(r, i, known)
        PROVE  UNCHANGED failures
    BY <1>1 DEF Start, StartNothing, PickNothing, AddConn, Call, SettleFails, Commit, DeleteRow,
                Release, HangUp, Pick, PickBlind, redis, aux
  <1>2. ASSUME NEW r \in Requests, Settle(r)
        PROVE  \/ UNCHANGED failures
               \/ \E i \in Instances : failures' = [failures EXCEPT ![i] = 0]
    <2>1. req[r].target \in Instances
      BY <1>2 DEF Settle, Shaped, Shape, AtInstance, Trying
    <2>2. QED
      BY <1>2, <2>1 DEF Settle
  <1>3. CASE \/ \E i \in Instances, c \in Attempts : LateAdd(i, c) \/ Expire(i, c)
             \/ \E i \in Instances : Appear(i)
             \/ WithdrawBounty
             \/ UNCHANGED vars
    BY <1>3 DEF LateAdd, Expire, Appear, WithdrawBounty, vars, redis, aux
  <1>4. QED
    BY <1>1, <1>2, <1>3 DEF Next, Step

LEMMA RemovedStep ==
  ASSUME Shaped, FailuresInv, [Next]_vars, NEW i \in Instances,
         removed'[i] = "failures", removed[i] # "failures"
  PROVE  Cardinality(Failing(i)) >= FailureLimit
  <1>1. ASSUME UNCHANGED removed PROVE FALSE
    BY <1>1
  <1>2. PICK r \in Requests : DeleteRow(r)
    <2>1. ASSUME NEW r \in Requests,
                 \/ Start(r) \/ StartNothing(r) \/ PickNothing(r) \/ AddConn(r) \/ Call(r)
                 \/ Settle(r) \/ SettleFails(r) \/ Commit(r) \/ Fail(r) \/ Release(r) \/ HangUp(r)
                 \/ \E j \in Instances : Pick(r, j) \/ \E known \in BOOLEAN : PickBlind(r, j, known)
          PROVE  UNCHANGED removed
      BY <2>1 DEF Start, StartNothing, PickNothing, AddConn, Call, Settle, SettleFails, Commit, Fail,
                  Release, HangUp, Pick, PickBlind, redis, aux
    <2>2. ASSUME \/ \E j \in Instances, c \in Attempts : LateAdd(j, c) \/ Expire(j, c)
                 \/ \E j \in Instances : Appear(j)
                 \/ WithdrawBounty
                 \/ UNCHANGED vars
          PROVE  UNCHANGED removed
      BY <2>2 DEF LateAdd, Expire, Appear, WithdrawBounty, vars, redis, aux
    <2>3. QED
      BY <1>1, <2>1, <2>2 DEF Next, Step
  <1> DEFINE t == req[r].target
             why == IF req[r].tried[t] = "key_exchange" THEN "key_exchange" ELSE "failures"
  <1>3. removed' = [removed EXCEPT ![t] = why] \/ UNCHANGED removed
    BY <1>2 DEF DeleteRow
  <1>4. t = i /\ why = "failures"
    BY <1>1, <1>3 DEF Shaped, TypeOK
  <1>5. req[r].tried[t] = "other" /\ req[r].pc = "delete"
    BY <1>2, <1>4 DEF FailuresInv, Due, DeleteRow
  <1>6. QED
    BY <1>4, <1>5 DEF FailuresInv, Due

LEMMA FailuresStep == Shaped /\ FailuresInv /\ [Next]_vars => FailuresInv'
  <1> SUFFICES ASSUME Shaped, FailuresInv, [Next]_vars PROVE FailuresInv'
    OBVIOUS
  <1>1. ASSUME NEW i \in Instances
        PROVE  /\ Cardinality(Failing(i)) <= Cardinality(Failing(i)')
               /\ Cardinality(Handled(i)) <= Cardinality(Handled(i)')
               /\ Cardinality(Failing(i)) \in Nat /\ Cardinality(Failing(i)') \in Nat
               /\ Cardinality(Handled(i)) \in Nat /\ Cardinality(Handled(i)') \in Nat
               /\ Cardinality(Handled(i)') <= Cardinality(Failing(i)')
               /\ IsFiniteSet(Handled(i)) /\ IsFiniteSet(Handled(i)')
    <2>1. Failing(i)' \subseteq Requests /\ Handled(i)' \subseteq Failing(i)'
      BY DEF Failing, Handled
    <2>2. IsFiniteSet(Failing(i)') /\ IsFiniteSet(Handled(i)')
      BY <2>1, InvokeAssumption, FS_Subset
    <2>3. QED
      BY <2>1, <2>2, FailuresGrow, FailuresFinite, FS_Subset, FS_CardinalityType
  <1>2. failures \in [Instances -> Nat] /\ failures' \in [Instances -> Nat]
    BY ShapedStep DEF Shaped, TypeOK
  <1>3. ASSUME NEW i \in Instances PROVE failures'[i] <= Cardinality(Handled(i)')
    <2>1. failures[i] <= Cardinality(Handled(i))
      BY DEF FailuresInv
    <2>2. CASE failures'[i] = failures[i] \/ failures'[i] = 0
      BY <1>1, <1>2, <2>1, <2>2
    <2>3. ASSUME NEW r \in Requests, r \in Handled(i)' \ Handled(i), failures'[i] = failures[i] + 1
          PROVE  failures'[i] <= Cardinality(Handled(i)')
      <3>1. Cardinality(Handled(i) \cup {r}) = Cardinality(Handled(i)) + 1
        BY <1>1, <2>3, FS_AddElement, Zenon
      <3>2. Handled(i) \cup {r} \subseteq Handled(i)'
        BY <2>3, FailuresGrow
      <3>3. /\ Cardinality(Handled(i) \cup {r}) <= Cardinality(Handled(i)')
        BY <1>1, <3>2, FS_Subset
      <3>4. QED
        BY <1>1, <1>2, <2>1, <2>3, <3>1, <3>3
    <2>4. ASSUME NEW r \in Requests, Fail(r)
          PROVE  \/ failures'[i] = failures[i]
                 \/ r \in Handled(i)' \ Handled(i) /\ failures'[i] = failures[i] + 1
      <3>1. req[r].target \in Instances
        BY <2>4 DEF Fail, Shaped, Shape, AtInstance
      <3>2. QED
        BY <1>2, <2>4, <3>1, FailCounts
    <2>5. QED
      BY <1>2, <2>2, <2>3, <2>4, CountStep
  <1>4. ASSUME NEW r \in Requests PROVE Due(r)'
    <2> SUFFICES ASSUME NEW i \in Instances, req'[r].pc = "delete", req'[r].target = i
                 PROVE  /\ req'[r].tried[i] \in {"key_exchange", "other"}
                        /\ req'[r].tried[i] = "other" => Cardinality(Failing(i)') >= FailureLimit
      BY DEF Due
    <2>1. CASE Fail(r)
      <3>1. req[r].target = i
        BY <2>1, FailMoves DEF KeepsAttempt
      <3>2. /\ req'[r].tried = req[r].tried
            /\ \/ req[r].tried[i] = "key_exchange"
               \/ req[r].tried[i] = "other" /\ failures'[i] >= FailureLimit
        BY <2>1, <3>1, FailCounts DEF KeepsTried
      <3>3. failures'[i] >= FailureLimit => Cardinality(Failing(i)') >= FailureLimit
        BY <1>1, <1>2, <1>3, InvokeAssumption
      <3>4. QED
        BY <3>2, <3>3
    <2>2. CASE req'[r] = req[r]
      <3>1. /\ req[r].tried[i] \in {"key_exchange", "other"}
            /\ req[r].tried[i] = "other" => Cardinality(Failing(i)) >= FailureLimit
        BY <2>2 DEF FailuresInv, Due
      <3>2. Cardinality(Failing(i)) >= FailureLimit => Cardinality(Failing(i)') >= FailureLimit
        BY <1>1, InvokeAssumption
      <3>3. QED
        BY <2>2, <3>1, <3>2
    <2>3. QED
      BY <2>1, <2>2, DueStep
  <1>5. ASSUME NEW i \in Instances, removed'[i] = "failures"
        PROVE  Cardinality(Failing(i)') >= FailureLimit
    <2>1. Cardinality(Failing(i)) >= FailureLimit
      BY <1>5, RemovedStep DEF FailuresInv, DeletedForFailures, Failing
    <2>2. QED
      BY <1>1, <2>1, InvokeAssumption
  <1>6. DeletedForFailures'
    BY <1>5 DEF DeletedForFailures, Failing
  <1>7. QED
    BY <1>3, <1>4, <1>6 DEF FailuresInv

\* An instance is deleted for its failures only when as many requests failed there,
\* through no fault of their clients or of its load, as the limit says: a request
\* avoids an instance where it failed, and a count is cleared but never raised twice.
THEOREM DeletionIsDue == Spec => []DeletedForFailures
  <1>1. Init => FailuresInv
    <2> SUFFICES ASSUME Init PROVE FailuresInv
      OBVIOUS
    <2>1. ASSUME NEW i \in Instances PROVE failures[i] <= Cardinality(Handled(i))
      BY <2>1, FailuresFinite DEF Init
    <2>2. QED
      BY <2>1 DEF Init, New, FailuresInv, Due, DeletedForFailures
  <1>2. FailuresInv => DeletedForFailures
    BY DEF FailuresInv
  <1>3. QED
    BY <1>1, <1>2, AlwaysShaped, FailuresStep, PTL DEF Spec

=============================================================================
