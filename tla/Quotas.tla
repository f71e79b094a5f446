------------------------------- MODULE Quotas -------------------------------
(***************************************************************************)
(* The daily quota of one user for one chute: the rows an administrator    *)
(* replaces, the two memcache entries they are read through, and the       *)
(* counters of requests in Redis, one of the chute's own and one shared.   *)
(***************************************************************************)
EXTENDS Naturals, FiniteSets

CONSTANTS Callers,       \* requests that may be in progress at once
          QuotaRows,     \* what the user's rows may be
          DefaultQuota,  \* default_quotas["*"]
          MaxChanges,    \* bound: changes by administrators
          None

ASSUME QuotaAssumption ==
    /\ IsFiniteSet(Callers) /\ None \notin Nat
    /\ DefaultQuota \in Nat /\ MaxChanges \in Nat
    /\ QuotaRows \subseteq [{"chute", "*"} -> Nat \cup {None}]

Counters == {"chute", "default"}

VARIABLES quotaRow,    \* invocation_quotas of the user for the chute and for "*"
          quotaCache,  \* qta:{user}:{chute}, for 60 s
          typeCache,   \* quota_type:{user}:{chute}, for an hour: the counter
          used,        \* the counters of the day
          caller,      \* the requests
          changes      \* changes so far

quotaVars == <<quotaRow, quotaCache, typeCache, used, caller, changes>>

\* The row of the chute, else of "*", else the default.
Quota == IF quotaRow["chute"] # None THEN quotaRow["chute"]
         ELSE IF quotaRow["*"] # None THEN quotaRow["*"] ELSE DefaultQuota
CounterOf == IF quotaRow["chute"] # None THEN "chute" ELSE "default"

NoCaller == [pc |-> "idle", quota |-> 0, counter |-> "default", free |-> FALSE]

QuotasInit == /\ quotaRow \in QuotaRows
              /\ quotaCache = None
              /\ typeCache = None
              /\ used = [k \in Counters |-> 0]
              /\ caller = [c \in Callers |-> NoCaller]
              /\ changes = 0

\* admin_quotas_change purges entries of another name, and so none of these.
ChangesQuotas == /\ changes < MaxChanges
                 /\ quotaRow' \in QuotaRows \ {quotaRow}
                 /\ changes' = changes + 1
                 /\ UNCHANGED <<quotaCache, typeCache, used, caller>>

CacheExpires == /\ quotaCache' = None
                /\ UNCHANGED <<quotaRow, typeCache, used, caller, changes>>
TypeStays == UNCHANGED quotaVars   \* an entry without expiry
TypeExpires == /\ typeCache' = None
               /\ UNCHANGED <<quotaRow, quotaCache, used, caller, changes>>

\* The counters are named after the day.
NewDay == /\ used' = [k \in Counters |-> 0]
          /\ UNCHANGED <<quotaRow, quotaCache, typeCache, caller, changes>>

-----------------------------------------------------------------------------
(* InvocationQuota.get, on behalf of a request. *)

FindsQuota(c) ==
    /\ caller[c].pc = "idle"
    /\ caller' = [caller EXCEPT ![c] =
           [NoCaller EXCEPT !.quota = IF quotaCache # None THEN quotaCache ELSE Quota,
                            !.pc = IF quotaCache # None THEN "counter" ELSE "cache quota"]]
    /\ UNCHANGED <<quotaRow, quotaCache, typeCache, used, changes>>

CachesQuota(c) ==
    /\ caller[c].pc = "cache quota"
    /\ quotaCache' = caller[c].quota
    /\ caller' = [caller EXCEPT ![c].pc = "counter"]
    /\ UNCHANGED <<quotaRow, typeCache, used, changes>>

(* InvocationQuota.quota_key, before a request and again after one. *)

FindsCounter(c) ==
    /\ caller[c].pc = "counter"
    /\ caller' = [caller EXCEPT ![c].counter = IF typeCache # None THEN typeCache ELSE CounterOf,
                                ![c].pc = IF typeCache # None THEN "count" ELSE "cache counter"]
    /\ UNCHANGED <<quotaRow, quotaCache, typeCache, used, changes>>

CachesCounter(c) ==
    /\ caller[c].pc = "cache counter"
    /\ typeCache' = caller[c].counter
    /\ caller' = [caller EXCEPT ![c].pc = "count"]
    /\ UNCHANGED <<quotaRow, quotaCache, used, changes>>

\* Beyond the quota a request is paid for, or refused.
AtMost(count, quota) == count <= quota   \* the last request allowed once more
Below(count, quota) == count < quota

Judges(c) ==
    /\ caller[c].pc = "count" /\ ~caller[c].free
    /\ caller' = [caller EXCEPT ![c] = IF Below(used[@.counter], @.quota)
                                         THEN [@ EXCEPT !.pc = "free", !.free = TRUE] ELSE NoCaller]
    /\ UNCHANGED <<quotaRow, quotaCache, typeCache, used, changes>>

\* The invocation, which is counted if it succeeds.
Served(c) ==
    /\ caller[c].pc = "free"
    /\ \E then \in {[caller[c] EXCEPT !.pc = "counter"], NoCaller} :
           caller' = [caller EXCEPT ![c] = then]
    /\ UNCHANGED <<quotaRow, quotaCache, typeCache, used, changes>>

CountsUse(c) ==
    /\ caller[c].pc = "count" /\ caller[c].free
    /\ used' = [used EXCEPT ![caller[c].counter] = @ + 1]
    /\ caller' = [caller EXCEPT ![c] = NoCaller]
    /\ UNCHANGED <<quotaRow, quotaCache, typeCache, changes>>

CallerNext(c) == \/ CachesQuota(c) \/ FindsCounter(c) \/ CachesCounter(c)
                 \/ Judges(c) \/ Served(c) \/ CountsUse(c)
QuotasNext == \/ ChangesQuotas \/ CacheExpires \/ TypeExpires \/ NewDay
              \/ \E c \in Callers : FindsQuota(c) \/ CallerNext(c)

\* Entries expire, and requests once begun are answered.
QuotasFairness == /\ WF_quotaVars(CacheExpires) /\ WF_quotaVars(TypeExpires)
                  /\ \A c \in Callers : WF_quotaVars(CallerNext(c))
QuotasSpec == QuotasInit /\ [][QuotasNext]_quotaVars /\ QuotasFairness

-----------------------------------------------------------------------------
QuotasTypeOK ==
    /\ quotaRow \in QuotaRows
    /\ quotaCache \in Nat \cup {None}
    /\ typeCache \in Counters \cup {None}
    /\ used \in [Counters -> Nat]
    /\ caller \in [Callers -> [pc : {"idle", "cache quota", "counter", "cache counter", "count", "free"},
                               quota : Nat, counter : Counters, free : BOOLEAN]]
    /\ changes \in 0 .. MaxChanges

\* _invoke ("within the quota", invocation/router.py:359): while the rows stay
\* as they are, the free requests of a day exceed the quota by less than the
\* requests in progress at once, the check being far ahead of the count.
OverrunBounded ==
    changes = 0 => \A k \in Counters : used[k] = 0 \/ used[k] <= Quota + Cardinality(Callers) - 1

\* admin_quotas_change ("Purge the cache", user/router.py:259): in the end the
\* entries are those of the rows, though the purge misses them and a request
\* may write what it read before the change.
CachesFollow == <>[](quotaCache \in {None, Quota} /\ typeCache \in {None, CounterOf})
=============================================================================
