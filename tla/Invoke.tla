------------------------------- MODULE Invoke -------------------------------
(***************************************************************************)
(* Invocations of one chute by one user: up to five attempts, each at the  *)
(* instance with the fewest connections; the connection counts kept in     *)
(* redis; what a finished call pays, counts and clears; and what a failing *)
(* instance loses.                                                         *)
(*                                                                         *)
(* Redis answers one command at a time, so a command is a step.  The       *)
(* requests share a process: one LeastConnManager, one cache of targets.   *)
(***************************************************************************)
EXTENDS Naturals, FiniteSets

CONSTANTS Requests,
          Instances,
          MaxAttempts,   \* 5
          Concurrency,   \* chute.concurrency
          FailureLimit,  \* settings.consecutive_failure_limit
          Quota,         \* free invocations a day
          MaxBounties,   \* bound: bounties created
          MaxErrors,     \* bound: errors and time-outs of redis and PostgreSQL, hang-ups
          NoInstance

ASSUME InvokeAssumption ==
    /\ MaxAttempts \in Nat \ {0} /\ Concurrency \in Nat \ {0} /\ FailureLimit \in Nat \ {0}
    /\ Quota \in Nat /\ MaxBounties \in Nat /\ MaxErrors \in Nat
    /\ NoInstance \notin Instances
    /\ IsFiniteSet(Requests)

VARIABLES rows,      \* active rows of instances
          cached,    \* the result of load_chute_targets that is cached
          manager,   \* LeastConnManager.instances
          conns,     \* redis: conn:{chute}:{instance}, a set of connections
          late,      \* ZADDs that nobody waits for any more
          failures,  \* redis: consecutive_failures:{instance}
          quota,     \* redis: free invocations counted today
          bounty,    \* redis: bounty:{chute} exists
          req,       \* the requests
          errors,    \* how many errors there were
          posted,    \* auxiliary: bounties created
          orphans,   \* auxiliary: connections that nobody will remove
          removed    \* auxiliary: why a row was deleted

vars == <<rows, cached, manager, conns, late, failures, quota, bounty, req, errors,
          posted, orphans, removed>>

Faults == {"rate_limit", "bad_request", "key_exchange", "other"}
Pcs == {"new", "pick", "add", "call", "settle", "commit", "fail", "delete", "release", "ended"}
Attempts == Requests \X (1..MaxAttempts)

Request == [pc : Pcs, attempt : 1..MaxAttempts, free : BOOLEAN, over : BOOLEAN,
            target : Instances \cup {NoInstance}, tracked : BOOLEAN,
            tried : [Instances -> Faults \cup {"untried"}],
            delivered : Nat, charged : Nat, bounty : {"none", "claimed", "paid"}]

TypeOK ==
    /\ rows \subseteq Instances /\ cached \subseteq Instances /\ manager \subseteq Instances
    /\ conns \in [Instances -> SUBSET Attempts]
    /\ late \subseteq Instances \X Attempts
    /\ failures \in [Instances -> Nat]
    /\ quota \in Nat /\ bounty \in BOOLEAN /\ posted \in Nat /\ errors \in 0..MaxErrors
    /\ req \in [Requests -> Request]
    /\ orphans \subseteq Attempts
    /\ removed \in [Instances -> {"no", "failures", "key_exchange"}]

New == [pc |-> "new", attempt |-> 1, free |-> FALSE, over |-> FALSE, target |-> NoInstance,
        tracked |-> FALSE, tried |-> [i \in Instances |-> "untried"],
        delivered |-> 0, charged |-> 0, bounty |-> "none"]

Init == /\ rows \in SUBSET Instances
        /\ cached = rows /\ manager = {}
        /\ conns = [i \in Instances |-> {}] /\ late = {} /\ orphans = {}
        /\ failures = [i \in Instances |-> 0] /\ removed = [i \in Instances |-> "no"]
        /\ quota = 0 /\ bounty = FALSE /\ posted = 0 /\ errors = 0
        /\ req = [r \in Requests |-> New]

redis == <<conns, late, failures, quota, bounty>>
aux == <<posted, orphans, removed>>

Put(r, new) == req' = [req EXCEPT ![r] = new]
Conn(r) == <<r, req[r].attempt>>
Error == errors < MaxErrors /\ errors' = errors + 1

-----------------------------------------------------------------------------
(* Before the first attempt. *)

\* Mutant: the last free invocation is paid for.
FreeButOne == quota + 1 < Quota

WithinQuota == quota < Quota

\* The targets are those of a load less than a minute old, or of a fresh one.
Loadable == {cached, rows}

\* _invoke: the quota decides who pays; the shared manager is given the targets.
Start(r) ==
    /\ req[r].pc = "new"
    /\ \E loaded \in Loadable \ {{}} : cached' = loaded /\ manager' = loaded
    /\ Put(r, [New EXCEPT !.pc = "pick", !.free = WithinQuota])
    /\ UNCHANGED <<errors, rows, redis, aux>>

\* No target: a bounty is offered if there is none (and no rolling update);
\* the request waits, or ends.
StartNothing(r) ==
    /\ req[r].pc = "new"
    /\ {} \in Loadable
    /\ cached' = {}
    /\ \/ /\ bounty \/ posted < MaxBounties
          /\ bounty' = TRUE /\ posted' = posted + (IF bounty THEN 0 ELSE 1)
       \/ UNCHANGED <<bounty, posted>>
    /\ UNCHANGED req \/ Put(r, [New EXCEPT !.pc = "ended"])
    /\ UNCHANGED <<errors, rows, manager, conns, late, failures, quota, orphans, removed>>

-----------------------------------------------------------------------------
(* get_target. *)

Available(r) == {i \in manager : req[r].tried[i] = "untried"}

Count(i) == Cardinality(conns[i])

\* The least loaded instances, or one that has a prefix of the prompt cached and
\* at most two connections more; it is not asked whether that one is full.
Eligible(r) == {i \in Available(r) : \A j \in Available(r) : Count(i) <= Count(j) + 2}
Least(r) == {i \in Available(r) : \A j \in Available(r) : Count(i) <= Count(j)}

\* What remains of a request.
Ended(r) == [req[r] EXCEPT !.pc = "ended", !.attempt = 1, !.free = FALSE, !.over = FALSE,
                           !.target = NoInstance, !.tracked = FALSE]

\* Everything was tried, or everything is full.
PickNothing(r) ==
    /\ req[r].pc = "pick"
    /\ \A i \in Available(r) : Count(i) >= Concurrency
    /\ Put(r, Ended(r))
    /\ UNCHANGED <<errors, rows, cached, manager, redis, aux>>

Pick(r, i) ==
    /\ req[r].pc = "pick"
    /\ i \in Eligible(r)
    /\ \E j \in Least(r) : Count(j) < Concurrency
    /\ Put(r, [req[r] EXCEPT !.pc = "add", !.target = i, !.tracked = TRUE])
    /\ UNCHANGED <<errors, rows, cached, manager, redis, aux>>

\* The counts could not be read (they are all taken for 0), or took too long: then
\* the instance is any one, and its connection is not tracked.
PickBlind(r, i, known) ==
    /\ req[r].pc = "pick"
    /\ i \in Available(r)
    /\ Error
    /\ Put(r, [req[r] EXCEPT !.pc = IF known THEN "add" ELSE "call", !.target = i, !.tracked = known])
    /\ UNCHANGED <<rows, cached, manager, redis, aux>>

\* ZADD, which is given up after three seconds and may be executed later ...
AddConn(r) ==
    /\ req[r].pc = "add"
    /\ \/ /\ conns' = [conns EXCEPT ![req[r].target] = @ \cup {Conn(r)}]
          /\ UNCHANGED <<late, orphans, errors>>
       \/ /\ Error
          /\ late' = late \cup {<<req[r].target, Conn(r)>>}
          /\ orphans' = orphans \cup {Conn(r)}
          /\ UNCHANGED conns
       \/ Error /\ UNCHANGED <<conns, late, orphans>>
    /\ Put(r, [req[r] EXCEPT !.pc = "call"])
    /\ UNCHANGED <<rows, cached, manager, failures, quota, bounty, posted, removed>>

LateAdd(i, c) ==
    /\ <<i, c>> \in late
    /\ conns' = [conns EXCEPT ![i] = @ \cup {c}]
    /\ late' = late \ {<<i, c>>}
    /\ UNCHANGED <<errors, rows, cached, manager, failures, quota, bounty, req, aux>>

\* The entry is older than 600 seconds.
Expire(i, c) ==
    /\ c \in conns[i]
    /\ conns' = [conns EXCEPT ![i] = @ \ {c}]
    /\ UNCHANGED <<errors, rows, cached, manager, late, failures, quota, bounty, req, aux>>

-----------------------------------------------------------------------------
(* One attempt. *)

\* The failed instance is avoided from now on.
FailedAs(r, kind) == [req[r] EXCEPT !.pc = "fail", !.bounty = "none",
                                    !.tried = [@ EXCEPT ![req[r].target] = kind]]

\* The exception leaves invoke, through get_target.
Raised(r) == [req[r] EXCEPT !.pc = "release", !.over = TRUE, !.bounty = "none"]

\* What is sent, and what comes back: whether the instance's version encrypts, and
\* its key is known; the status, or no answer at all; whether the answer is
\* streamed, is that of a language model, and its prompt was counted; and the body.
Replies == [v2 : BOOLEAN, key : BOOLEAN,
            status : {"ok", "upgrade_required", "too_many", "bad_request", "failed"},
            stream : BOOLEAN, llm : BOOLEAN, counted : BOOLEAN,
            body : {"whole", "empty", "invalid", "no_input_ids", "broken"}]

NeedsKey(a) == a.v2 /\ (~a.key \/ a.status = "upgrade_required")

StatusFault == [upgrade_required |-> "other", too_many |-> "rate_limit",
                bad_request |-> "bad_request", failed |-> "other"]

\* fault: the exception, if there is one.  whole: the client got the whole result.
Raises(fault) == [fault |-> fault, whole |-> FALSE]

\* Chunks are yielded as they arrive.  The tokens of a prompt that was not counted
\* are guessed by the length of a number, which raises after the last chunk.
StreamOutcome(a) ==
    IF a.body = "broken" \/ (a.llm /\ a.body \in {"empty", "invalid", "no_input_ids"})
    THEN Raises("other")
    ELSE [fault |-> IF a.llm /\ ~a.counted THEN "other" ELSE "none", whole |-> TRUE]

\* The body is decrypted, parsed and measured before it is yielded.
BodyOutcome(a) ==
    IF \/ a.body = "broken"
       \/ a.llm /\ a.v2 /\ a.body = "no_input_ids"
       \/ a.llm /\ a.body # "empty" /\ ~a.counted
    THEN Raises("other")
    ELSE [fault |-> "none", whole |-> TRUE]

Outcome(a) == IF NeedsKey(a) THEN Raises("key_exchange")
              ELSE IF a.status # "ok" THEN Raises(StatusFault[a.status])
              ELSE IF a.stream THEN StreamOutcome(a)
              ELSE BodyOutcome(a)

Outcomes == {Outcome(a) : a \in Replies}

\* The row of the invocation is inserted, or that raises; then _invoke_one.
Call(r) ==
    /\ req[r].pc = "call"
    /\ \/ Error /\ Put(r, Raised(r))
       \/ /\ UNCHANGED errors
          /\ \E o \in Outcomes :
                LET yielded == req[r].delivered + (IF o.whole THEN 1 ELSE 0)
                IN  Put(r, IF o.fault = "none"
                           THEN [req[r] EXCEPT !.pc = "settle", !.delivered = yielded]
                           ELSE [FailedAs(r, o.fault) EXCEPT !.delivered = yielded])
    /\ UNCHANGED <<rows, cached, manager, redis, aux>>

\* Mutant: the bounty is read and not deleted.
StillOffered == bounty

Claimed == FALSE

\* In one session: the bounty is claimed, the row completed but not committed,
\* the failures of the instance forgotten, and the amount given to the usage
\* tracker or the quota's counter incremented.  Errors of redis are logged and
\* forgotten.
Settle(r) ==
    /\ req[r].pc = "settle"
    /\ \E claims \in {bounty, FALSE}, clears, bills \in BOOLEAN :
         /\ (claims = bounty /\ clears /\ bills /\ UNCHANGED errors) \/ Error
         /\ bounty' = IF claims THEN Claimed ELSE bounty
         /\ failures' = IF clears THEN [failures EXCEPT ![req[r].target] = 0] ELSE failures
         /\ quota' = IF bills /\ req[r].free THEN quota + 1 ELSE quota
         /\ Put(r, [req[r] EXCEPT !.pc = "commit", !.bounty = IF claims THEN "claimed" ELSE "none",
                                  !.charged = IF bills /\ ~req[r].free THEN @ + 1 ELSE @])
    /\ UNCHANGED <<rows, cached, manager, conns, late, aux>>

\* The row could not be updated: the bounty is gone all the same.
SettleFails(r) ==
    /\ req[r].pc = "settle"
    /\ Error
    /\ bounty' \in {bounty, FALSE}
    /\ Put(r, FailedAs(r, "other"))
    /\ UNCHANGED <<rows, cached, manager, conns, late, failures, quota, aux>>

\* The commit of the session: when it fails, the attempt counts as failed.
Commit(r) ==
    /\ req[r].pc = "commit"
    /\ \/ /\ UNCHANGED errors
          /\ Put(r, [req[r] EXCEPT !.pc = "release", !.over = TRUE,
                                   !.bounty = IF @ = "claimed" THEN "paid" ELSE @])
       \/ Error /\ Put(r, FailedAs(r, "other"))
    /\ UNCHANGED <<rows, cached, manager, redis, aux>>

\* Mutant: only rate limits are not the instance's fault.
AllButRateLimit == Faults \ {"rate_limit"}

\* What counts as a failure of the instance.
Counted == Faults \ {"rate_limit", "bad_request", "key_exchange"}

\* The error is recorded on the invocation; then it depends on the error.
Fail(r) ==
    LET i == req[r].target
        kind == req[r].tried[i]
        count == IF kind \in Counted THEN failures[i] + 1 ELSE 0 IN
    /\ req[r].pc = "fail"
    /\ \/ /\ failures' = IF kind \in Counted THEN [failures EXCEPT ![i] = count] ELSE failures
          /\ UNCHANGED errors
          /\ Put(r, [req[r] EXCEPT
                !.pc = IF kind = "key_exchange" \/ count >= FailureLimit THEN "delete" ELSE "release",
                !.over = (kind = "bad_request")])
       \/ Error /\ Put(r, Raised(r)) /\ UNCHANGED failures
    /\ UNCHANGED <<rows, cached, manager, conns, late, quota, bounty, aux>>

\* The instance is deleted, if it is still there.
DeleteRow(r) ==
    LET i == req[r].target
        why == IF req[r].tried[i] = "key_exchange" THEN "key_exchange" ELSE "failures" IN
    /\ req[r].pc = "delete"
    /\ \/ /\ rows' = rows \ {i}
          /\ removed' = IF i \in rows THEN [removed EXCEPT ![i] = why] ELSE removed
          /\ UNCHANGED errors
          /\ Put(r, [req[r] EXCEPT !.pc = "release"])
       \/ Error /\ Put(r, Raised(r)) /\ UNCHANGED <<rows, removed>>
    /\ UNCHANGED <<cached, manager, redis, posted, orphans>>

\* Mutant: an attempt that ends the request early keeps its connection.
RemovedIfGoingOn(r) == IF req[r].over THEN conns ELSE [conns EXCEPT ![req[r].target] = @ \ {Conn(r)}]

RemovedConn(r) == [conns EXCEPT ![req[r].target] = @ \ {Conn(r)}]

\* Mutant: the attempts are not counted.
OnlyWhenOver(r) == req[r].over

Last(r) == req[r].over \/ req[r].attempt = MaxAttempts

\* get_target's finally clause: ZREM, whose failure is logged; then the next
\* attempt, if one is left.
Release(r) ==
    /\ req[r].pc = "release"
    /\ IF req[r].tracked
       THEN \/ conns' = RemovedConn(r) /\ UNCHANGED <<orphans, errors>>
            \/ Error /\ orphans' = orphans \cup {Conn(r)} /\ UNCHANGED conns
       ELSE UNCHANGED <<conns, orphans, errors>>
    /\ Put(r, IF Last(r) THEN Ended(r)
              ELSE [req[r] EXCEPT !.pc = "pick", !.attempt = @ + 1,
                                  !.target = NoInstance, !.tracked = FALSE])
    /\ UNCHANGED <<rows, cached, manager, late, failures, quota, bounty, posted, removed>>

\* The client goes away, so that the generator is closed wherever it is; or the
\* process dies, and then nothing is released either.
HangUp(r) ==
    /\ req[r].pc \in {"call", "settle", "commit", "fail", "delete"}
    /\ Error
    /\ Put(r, Raised(r))
    /\ UNCHANGED <<rows, cached, manager, redis, aux>>

-----------------------------------------------------------------------------
(* The rest of the system. *)

\* A miner activates an instance; a deleted one does not come back.
Appear(i) ==
    /\ i \notin rows /\ removed[i] = "no"
    /\ rows' = rows \cup {i}
    /\ UNCHANGED <<errors, cached, manager, redis, req, aux>>

\* The bounty expires, or is deleted when a private instance is activated.
WithdrawBounty ==
    /\ bounty
    /\ bounty' = FALSE
    /\ UNCHANGED <<errors, rows, cached, manager, conns, late, failures, quota, req, aux>>

Step(r) == \/ Start(r) \/ PickNothing(r) \/ AddConn(r) \/ Call(r) \/ Settle(r) \/ SettleFails(r)
           \/ Commit(r) \/ Fail(r) \/ DeleteRow(r) \/ Release(r)
           \/ \E i \in Instances : Pick(r, i) \/ \E known \in BOOLEAN : PickBlind(r, i, known)

Next == \/ \E r \in Requests : Step(r) \/ StartNothing(r) \/ HangUp(r)
        \/ \E i \in Instances, c \in Attempts : LateAdd(i, c) \/ Expire(i, c)
        \/ \E i \in Instances : Appear(i)
        \/ WithdrawBounty

Spec == Init /\ [][Next]_vars

-----------------------------------------------------------------------------
\* A connection in redis is that of an attempt in progress, at the instance it
\* is counted for, unless its ZADD was given up or its ZREM failed: every other
\* way out of an attempt, through an exception, a closed generator or a return,
\* passes get_target's finally clause.
ConnsAreInUse ==
    \A i \in Instances : \A c \in conns[i] \ orphans :
        /\ req[c[1]].attempt = c[2] /\ req[c[1]].target = i
        /\ req[c[1]].pc \notin {"new", "pick", "add", "ended"}

\* Nobody pays before the free invocations of the day are used up, and nobody
\* pays for more results than were delivered.
PaidForResults ==
    \A r \in Requests : /\ req[r].charged > 0 => quota >= Quota
                        /\ req[r].charged <= req[r].delivered

\* A bounty that was offered once is paid at most once, to one invocation,
\* whichever requests finish together.
BountyOnce ==
    Cardinality({r \in Requests : req[r].bounty # "none"}) + (IF bounty THEN 1 ELSE 0) <= posted

\* An instance is deleted for its failures only after as many attempts failed
\* there as the limit says, through no fault of the client or of its load.
DeletedForFailures ==
    \A i \in Instances :
        removed[i] = "failures" =>
            Cardinality({r \in Requests : req[r].tried[i] = "other"}) >= FailureLimit
=============================================================================
