--------------------------- MODULE SettlingProofs ---------------------------
(***************************************************************************)
(* Proofs about Quotas, Images, Staking and Prices, for any number of      *)
(* requests, forge workers, tasks and invocations.                         *)
(***************************************************************************)
EXTENDS MCSettling, FiniteSetTheorems, SequenceTheorems, TLAPS

-----------------------------------------------------------------------------
(* Quotas. *)

CallerRecord == [pc : {"idle", "cache quota", "counter", "cache counter", "count", "free"},
                 quota : Nat, counter : Counters, free : BOOLEAN]

LEMMA QuotaTyped ==
  ASSUME quotaRow \in QuotaRows
  PROVE  Quota \in Nat /\ CounterOf \in Counters
  <1>1. quotaRow \in [{"chute", "*"} -> Nat \cup {None}]
    BY QuotaAssumption
  <1>2. QED
    BY <1>1, QuotaAssumption DEF Quota, CounterOf, Counters

\* What a request found, while the rows are as they were at first.
Informed(c) ==
    /\ caller[c].free => caller[c].pc # "idle"
    /\ caller[c].pc # "idle" => caller[c].quota = Quota
    /\ caller[c].pc \in {"cache counter", "count"} => caller[c].counter = CounterOf
    /\ caller[c].free => Quota > 0

\* The requests that passed the check and are not counted yet.
Admitted == {c \in Callers : caller[c].free}

\* A counter that has reached the quota admits nobody: from there on, each request
\* that is counted is one of those that were admitted before.
Within(k) == /\ k # CounterOf => used[k] = 0
             /\ \/ used[k] = 0
                \/ used[k] < Quota
                \/ used[k] + Cardinality(Admitted) <= Quota + Cardinality(Callers) - 1

QuotasInv ==
    /\ QuotasTypeOK
    /\ changes = 0 =>
           /\ quotaCache \in {None, Quota} /\ typeCache \in {None, CounterOf}
           /\ \A c \in Callers : Informed(c)
           /\ \A k \in Counters : Within(k)

LEMMA QuotasStart == QuotasInit => QuotasInv
  <1> SUFFICES ASSUME QuotasInit PROVE QuotasInv
    OBVIOUS
  <1>1. NoCaller \in CallerRecord
    BY DEF NoCaller, CallerRecord, Counters
  <1>2. QuotasTypeOK
    <2>1. changes \in 0 .. MaxChanges
      BY QuotaAssumption DEF QuotasInit
    <2>2. used \in [Counters -> Nat]
      BY DEF QuotasInit
    <2>3. QED
      BY <1>1, <2>1, <2>2 DEF QuotasInit, QuotasTypeOK, CallerRecord
  <1>3. QED
    BY <1>2 DEF QuotasInit, QuotasInv, Informed, Within, NoCaller
\* One request moves on, the others stay.
LEMMA CallerMoves ==
  ASSUME QuotasTypeOK, NEW c \in Callers, NEW new \in CallerRecord,
         caller' = [caller EXCEPT ![c] = new]
  PROVE  /\ caller' \in [Callers -> CallerRecord]
         /\ caller'[c] = new
         /\ \A d \in Callers \ {c} : caller'[d] = caller[d]
         /\ ~new.free \/ caller[c].free => Admitted' \subseteq Admitted
         /\ Admitted' \subseteq Admitted \cup {c}
         /\ ~new.free => c \notin Admitted'
  <1>1. caller \in [Callers -> CallerRecord]
    BY DEF QuotasTypeOK, CallerRecord
  <1>2. /\ caller' \in [Callers -> CallerRecord] /\ caller'[c] = new
        /\ \A d \in Callers \ {c} : caller'[d] = caller[d]
    BY <1>1
  <1>3. QED
    BY <1>2 DEF Admitted

\* What a step of a request makes of its record.
CallerTo(c) ==
    {r \in CallerRecord : caller' = [caller EXCEPT ![c] = r]}

LEMMA FindsQuotaMoves ==
  ASSUME QuotasTypeOK, NEW c \in Callers, FindsQuota(c)
  PROVE  \E r \in CallerTo(c) :
             /\ r.pc \in {"counter", "cache quota"} /\ ~r.free
             /\ r.quota \in {quotaCache, Quota}
             /\ quotaCache = None => r.quota = Quota
  <1> DEFINE q == IF quotaCache # None THEN quotaCache ELSE Quota
             pc == IF quotaCache # None THEN "counter" ELSE "cache quota"
             new == [NoCaller EXCEPT !.quota = q, !.pc = pc]
  <1>1. q \in Nat /\ pc \in {"counter", "cache quota"}
    BY QuotaTyped DEF QuotasTypeOK
  <1>2. caller' = [caller EXCEPT ![c] = new]
    BY DEF FindsQuota
  <1>3. q \in {quotaCache, Quota} /\ (quotaCache = None => q = Quota)
    OBVIOUS
  <1> HIDE DEF q, pc
  <1>4. new \in CallerRecord /\ new.pc = pc /\ new.quota = q /\ new.free = FALSE
    BY <1>1 DEF NoCaller, CallerRecord, Counters
  <1> HIDE DEF new
  <1>5. QED
    BY <1>1, <1>2, <1>3, <1>4 DEF CallerTo

LEMMA FindsCounterMoves ==
  ASSUME QuotasTypeOK, NEW c \in Callers, FindsCounter(c)
  PROVE  \E r \in CallerTo(c) :
             /\ r.pc \in {"count", "cache counter"} /\ r.free = caller[c].free
             /\ r.quota = caller[c].quota
             /\ r.counter \in {typeCache, CounterOf}
             /\ typeCache = None => r.counter = CounterOf
  <1> DEFINE k == IF typeCache # None THEN typeCache ELSE CounterOf
             pc == IF typeCache # None THEN "count" ELSE "cache counter"
             new == [caller[c] EXCEPT !.counter = k, !.pc = pc]
  <1>1. caller[c] \in CallerRecord
    BY DEF QuotasTypeOK, CallerRecord
  <1>2. k \in Counters /\ pc \in {"count", "cache counter"} /\ k \in {typeCache, CounterOf}
        /\ (typeCache = None => k = CounterOf)
    BY QuotaTyped DEF QuotasTypeOK
  <1>3. caller' = [caller EXCEPT ![c] = new]
    BY DEF FindsCounter
  <1> HIDE DEF k, pc
  <1>4. /\ new \in CallerRecord /\ new.pc = pc /\ new.counter = k
        /\ new.quota = caller[c].quota /\ new.free = caller[c].free
    BY <1>1, <1>2 DEF CallerRecord
  <1> HIDE DEF new
  <1>5. QED
    BY <1>2, <1>3, <1>4 DEF CallerTo

LEMMA CallerSteps ==
  ASSUME QuotasTypeOK, NEW c \in Callers,
         CachesQuota(c) \/ CachesCounter(c) \/ Judges(c) \/ Served(c) \/ CountsUse(c)
  PROVE  \E r \in CallerTo(c) :
             \/ CachesQuota(c) /\ r = [caller[c] EXCEPT !.pc = "counter"]
             \/ CachesCounter(c) /\ r = [caller[c] EXCEPT !.pc = "count"]
             \/ Judges(c) /\ r = [caller[c] EXCEPT !.pc = "free", !.free = TRUE]
                /\ used[caller[c].counter] < caller[c].quota
             \/ Judges(c) /\ r = NoCaller
             \/ Served(c) /\ r = [caller[c] EXCEPT !.pc = "counter"]
             \/ Served(c) /\ r = NoCaller
             \/ CountsUse(c) /\ r = NoCaller
  <1>1. caller[c] \in CallerRecord /\ caller \in [Callers -> CallerRecord]
    BY DEF QuotasTypeOK, CallerRecord
  <1>2. /\ [caller[c] EXCEPT !.pc = "counter"] \in CallerRecord
        /\ [caller[c] EXCEPT !.pc = "count"] \in CallerRecord
        /\ [caller[c] EXCEPT !.pc = "free", !.free = TRUE] \in CallerRecord
    BY <1>1 DEF CallerRecord
  <1>3. NoCaller \in CallerRecord
    BY DEF NoCaller, CallerRecord, Counters
  <1>4. CASE CachesQuota(c)
    BY <1>2, <1>4 DEF CachesQuota, CallerTo
  <1>5. CASE CachesCounter(c)
    BY <1>2, <1>5 DEF CachesCounter, CallerTo
  <1>6. CASE Judges(c)
    BY <1>2, <1>3, <1>6 DEF Judges, CallerTo, Below
  <1>7. CASE Served(c)
    BY <1>2, <1>3, <1>7 DEF Served, CallerTo
  <1>8. CASE CountsUse(c)
    BY <1>3, <1>8 DEF CountsUse, CallerTo
  <1>9. QED
    BY <1>4, <1>5, <1>6, <1>7, <1>8

LEMMA QuotasTypes == QuotasTypeOK /\ [QuotasNext]_quotaVars => QuotasTypeOK'
  <1> SUFFICES ASSUME QuotasTypeOK, [QuotasNext]_quotaVars PROVE QuotasTypeOK'
    OBVIOUS
  <1>1. CASE UNCHANGED quotaVars
    BY <1>1 DEF quotaVars, QuotasTypeOK
  <1>2. CASE ChangesQuotas
    <2>1. changes' \in 0 .. MaxChanges
      <3>1. MaxChanges \in Nat /\ changes \in 0 .. MaxChanges
        BY QuotaAssumption DEF QuotasTypeOK
      <3>2. changes < MaxChanges /\ changes' = changes + 1
        BY <1>2 DEF ChangesQuotas
      <3>3. QED
        BY <3>1, <3>2
    <2>2. QED
      BY <1>2, <2>1 DEF ChangesQuotas, QuotasTypeOK
  <1>3. CASE CacheExpires \/ TypeExpires \/ NewDay
    <2>1. NewDay => used' \in [Counters -> Nat]
      BY DEF NewDay
    <2>2. QED
      BY <1>3, <2>1 DEF CacheExpires, TypeExpires, NewDay, QuotasTypeOK
  <1>4. ASSUME NEW c \in Callers, FindsQuota(c) \/ CallerNext(c) PROVE QuotasTypeOK'
    <2>1. caller \in [Callers -> CallerRecord] /\ caller[c] \in CallerRecord
      BY DEF QuotasTypeOK, CallerRecord
    <2>2. \E r \in CallerRecord : caller' = [caller EXCEPT ![c] = r]
      BY <1>4, FindsQuotaMoves, FindsCounterMoves, CallerSteps DEF CallerNext, CallerTo
    <2>3. caller' \in [Callers -> CallerRecord]
      BY <2>1, <2>2
    <2>4. CASE FindsQuota(c) \/ FindsCounter(c) \/ Judges(c) \/ Served(c)
      BY <2>3, <2>4 DEF FindsQuota, FindsCounter, Judges, Served, QuotasTypeOK, CallerRecord
    <2>5. CASE CachesQuota(c) \/ CachesCounter(c)
      BY <2>1, <2>3, <2>5 DEF CachesQuota, CachesCounter, QuotasTypeOK, CallerRecord
    <2>6. CASE CountsUse(c)
      <3>1. used \in [Counters -> Nat] /\ caller[c].counter \in Counters
        BY <2>1 DEF QuotasTypeOK, CallerRecord
      <3>2. used' \in [Counters -> Nat]
        BY <2>6, <3>1 DEF CountsUse
      <3>3. QED
        BY <2>3, <2>6, <3>2 DEF CountsUse, QuotasTypeOK, CallerRecord
    <2>7. QED
      BY <1>4, <2>4, <2>5, <2>6 DEF CallerNext
  <1>5. QED
    BY <1>1, <1>2, <1>3, <1>4 DEF QuotasNext

LEMMA AdmittedFinite ==
  /\ IsFiniteSet(Admitted) /\ Cardinality(Admitted) \in Nat
  /\ Cardinality(Admitted) <= Cardinality(Callers)
  /\ Cardinality(Callers) \in Nat
  BY QuotaAssumption, FS_Subset, FS_CardinalityType DEF Admitted

LEMMA AdmittedFiniteThen ==
  /\ IsFiniteSet(Admitted') /\ Cardinality(Admitted') \in Nat
  /\ Cardinality(Admitted') <= Cardinality(Callers)
  BY QuotaAssumption, FS_Subset, FS_CardinalityType DEF Admitted

\* A step that admits nobody and counts nothing.
LEMMA WithinStays ==
  ASSUME QuotasTypeOK, NEW k \in Counters, Within(k), UNCHANGED quotaRow,
         Admitted' \subseteq Admitted, used'[k] = used[k] \/ used'[k] = 0
  PROVE  Within(k)'
  <1>1. Quota' = Quota /\ CounterOf' = CounterOf /\ Quota \in Nat /\ used[k] \in Nat
    BY QuotaTyped DEF Quota, CounterOf, QuotasTypeOK
  <1>2. Cardinality(Admitted') <= Cardinality(Admitted)
    BY AdmittedFinite, FS_Subset
  <1>3. QED
    BY <1>1, <1>2, AdmittedFinite, AdmittedFiniteThen DEF Within

\* A request that is admitted found the counter below the quota.
LEMMA WithinAdmits ==
  ASSUME NEW k \in Counters, Within(k), UNCHANGED <<quotaRow, used>>, used[CounterOf] < Quota
  PROVE  Within(k)'
  <1>1. Quota' = Quota /\ CounterOf' = CounterOf
    BY DEF Quota, CounterOf
  <1>2. QED
    BY <1>1 DEF Within

\* A request that is counted was admitted.
LEMMA WithinCounts ==
  ASSUME QuotasTypeOK, NEW k \in Counters, Within(k), UNCHANGED quotaRow, Quota > 0,
         k = CounterOf, used'[k] = used[k] + 1, NEW c \in Admitted, Admitted' \subseteq Admitted \ {c}
  PROVE  Within(k)'
  <1>1. Quota' = Quota /\ CounterOf' = CounterOf /\ Quota \in Nat /\ used[k] \in Nat
    BY QuotaTyped DEF Quota, CounterOf, QuotasTypeOK
  <1>2. /\ IsFiniteSet(Admitted \ {c})
        /\ Cardinality(Admitted \ {c}) = Cardinality(Admitted) - 1
    BY AdmittedFinite, FS_RemoveElement, Zenon
  <1>3. Cardinality(Admitted') <= Cardinality(Admitted) - 1
    BY <1>2, FS_Subset
  <1>4. QED
    BY <1>1, <1>3, AdmittedFinite, AdmittedFiniteThen DEF Within

LEMMA QuotasStep == QuotasInv /\ [QuotasNext]_quotaVars => QuotasInv'
  <1> SUFFICES ASSUME QuotasInv, [QuotasNext]_quotaVars PROVE QuotasInv'
    OBVIOUS
  <1>1. QuotasTypeOK /\ QuotasTypeOK'
    BY QuotasTypes DEF QuotasInv
  <1>2. caller \in [Callers -> CallerRecord] /\ changes \in Nat
    <2>1. changes \in 0 .. MaxChanges /\ MaxChanges \in Nat
      BY <1>1, QuotaAssumption DEF QuotasTypeOK
    <2>2. changes \in Nat
      BY <2>1
    <2>3. QED
      BY <1>1, <2>2 DEF QuotasTypeOK, CallerRecord
  <1> DEFINE Rest == /\ quotaCache \in {None, Quota} /\ typeCache \in {None, CounterOf}
                     /\ \A c \in Callers : Informed(c)
                     /\ \A k \in Counters : Within(k)
  <1>3. CASE UNCHANGED quotaVars
    BY <1>1, <1>3 DEF quotaVars, QuotasInv, Informed, Within, Admitted, Quota, CounterOf
  <1>4. CASE ChangesQuotas
    BY <1>1, <1>2, <1>4 DEF ChangesQuotas, QuotasInv
  <1>5. ASSUME changes = 0 => Rest', ~ChangesQuotas PROVE QuotasInv'
    <2>1. changes' = changes
      BY <1>5 DEF QuotasNext, CacheExpires, TypeExpires, NewDay, FindsQuota, CallerNext, CachesQuota,
                  FindsCounter, CachesCounter, Judges, Served, CountsUse, quotaVars
    <2>2. QED
      BY <1>1, <1>5, <2>1 DEF QuotasInv
  <1>6. CASE changes = 0 /\ (CacheExpires \/ TypeExpires \/ NewDay)
    <2>1. Rest /\ UNCHANGED <<quotaRow, caller>>
      BY <1>6 DEF QuotasInv, CacheExpires, TypeExpires, NewDay
    <2>2. UNCHANGED used \/ \A k \in Counters : used'[k] = 0
      BY <1>6 DEF CacheExpires, TypeExpires, NewDay
    <2>3. \A k \in Counters : Within(k)'
      BY <1>1, <2>1, <2>2, WithinStays DEF Admitted
    <2>4. Quota' = Quota /\ CounterOf' = CounterOf
      BY <2>1 DEF Quota, CounterOf
    <2>5. \A c \in Callers : Informed(c)'
      BY <2>1, <2>4 DEF Informed
    <2>6. quotaCache' \in {quotaCache, None} /\ typeCache' \in {typeCache, None}
      BY <1>6 DEF CacheExpires, TypeExpires, NewDay
    <2>7. Rest'
      BY <2>1, <2>3, <2>4, <2>5, <2>6
    <2>8. ~ChangesQuotas
      BY <1>2, <1>6 DEF ChangesQuotas, CacheExpires, TypeExpires, NewDay
    <2>9. QED
      BY <1>5, <2>7, <2>8
  <1>7. ASSUME changes = 0, NEW c \in Callers, FindsQuota(c) \/ CallerNext(c) PROVE QuotasInv'
    <2>1. Rest /\ UNCHANGED quotaRow /\ UNCHANGED changes
      BY <1>7 DEF QuotasInv, FindsQuota, CallerNext, CachesQuota, FindsCounter, CachesCounter, Judges,
                  Served, CountsUse
    <2>2. Quota' = Quota /\ CounterOf' = CounterOf /\ Quota \in Nat
      BY <1>1, <2>1, QuotaTyped DEF Quota, CounterOf, QuotasTypeOK
    <2>3. ASSUME NEW r \in CallerRecord, caller' = [caller EXCEPT ![c] = r],
                 r.free => r.pc # "idle" /\ Quota > 0,
                 r.pc # "idle" => r.quota = Quota,
                 r.pc \in {"cache counter", "count"} => r.counter = CounterOf,
                 quotaCache' \in {None, Quota}, typeCache' \in {None, CounterOf},
                 \A k \in Counters : Within(k)'
          PROVE  QuotasInv'
      <3>1. caller'[c] = r /\ \A d \in Callers \ {c} : caller'[d] = caller[d]
        BY <1>1, <2>3, CallerMoves
      <3>2. Informed(c)'
        BY <2>2, <2>3, <3>1 DEF Informed
      <3>3. \A d \in Callers \ {c} : Informed(d)'
        BY <2>1, <2>2, <3>1 DEF Informed
      <3>4. Rest'
        BY <2>2, <2>3, <3>2, <3>3
      <3>5. ~ChangesQuotas
        BY <1>2, <2>1 DEF ChangesQuotas
      <3>6. QED
        BY <1>5, <3>4, <3>5
    <2>4. ASSUME NEW r \in CallerRecord, caller' = [caller EXCEPT ![c] = r],
                 ~r.free \/ caller[c].free, UNCHANGED used
          PROVE  \A k \in Counters : Within(k)'
      <3>1. Admitted' \subseteq Admitted
        BY <1>1, <2>4, CallerMoves
      <3>2. QED
        BY <1>1, <2>1, <2>4, <3>1, WithinStays
    <2>5. caller[c] \in CallerRecord /\ Informed(c)
      BY <1>2, <2>1
    <2>6. CASE FindsQuota(c)
      <3>1. PICK r \in CallerTo(c) :
                r.pc \in {"counter", "cache quota"} /\ ~r.free /\ r.quota = Quota
        BY <1>1, <2>1, <2>6, FindsQuotaMoves
      <3>2. UNCHANGED <<quotaCache, typeCache, used>>
        BY <2>6 DEF FindsQuota
      <3>3. QED
        BY <2>1, <2>3, <2>4, <3>1, <3>2 DEF CallerTo
    <2>7. CASE FindsCounter(c)
      <3>1. PICK r \in CallerTo(c) :
                /\ r.pc \in {"count", "cache counter"} /\ r.free = caller[c].free
                /\ r.quota = caller[c].quota /\ r.counter = CounterOf
        BY <1>1, <2>1, <2>7, FindsCounterMoves
      <3>2. UNCHANGED <<quotaCache, typeCache, used>> /\ caller[c].pc = "counter"
        BY <2>7 DEF FindsCounter
      <3>3. QED
        BY <2>1, <2>3, <2>4, <2>5, <3>1, <3>2 DEF CallerTo, Informed
    <2>8. CASE CachesQuota(c)
      <3>1. PICK r \in CallerTo(c) : r = [caller[c] EXCEPT !.pc = "counter"]
        BY <1>1, <2>8, CallerSteps DEF CachesQuota, CachesCounter, Judges, Served, CountsUse
      <3>2. /\ caller[c].pc = "cache quota" /\ quotaCache' = caller[c].quota
            /\ UNCHANGED <<typeCache, used>>
        BY <2>8 DEF CachesQuota
      <3>3. /\ r.pc = "counter" /\ r.free = caller[c].free /\ r.quota = caller[c].quota
        BY <2>5, <3>1 DEF CallerRecord
      <3>4. QED
        BY <2>1, <2>3, <2>4, <2>5, <3>1, <3>2, <3>3 DEF CallerTo, Informed
    <2>9. CASE CachesCounter(c)
      <3>1. PICK r \in CallerTo(c) : r = [caller[c] EXCEPT !.pc = "count"]
        BY <1>1, <2>9, CallerSteps DEF CachesQuota, CachesCounter, Judges, Served, CountsUse
      <3>2. /\ caller[c].pc = "cache counter" /\ typeCache' = caller[c].counter
            /\ UNCHANGED <<quotaCache, used>>
        BY <2>9 DEF CachesCounter
      <3>3. /\ r.pc = "count" /\ r.free = caller[c].free /\ r.quota = caller[c].quota
            /\ r.counter = caller[c].counter
        BY <2>5, <3>1 DEF CallerRecord
      <3>4. QED
        BY <2>1, <2>3, <2>4, <2>5, <3>1, <3>2, <3>3 DEF CallerTo, Informed
    <2>10. ASSUME NoCaller \in CallerTo(c), UNCHANGED <<quotaCache, typeCache, used>>
           PROVE  QuotasInv'
      <3>1. NoCaller.pc = "idle" /\ ~NoCaller.free
        BY DEF NoCaller
      <3>2. QED
        BY <2>1, <2>3, <2>4, <2>10, <3>1 DEF CallerTo
    <2>11. CASE Judges(c)
      <3>1. /\ caller[c].pc = "count" /\ ~caller[c].free
            /\ UNCHANGED <<quotaCache, typeCache, used, quotaRow>>
        BY <2>11 DEF Judges
      <3>2. PICK r \in CallerTo(c) :
                \/ r = NoCaller
                \/ /\ r = [caller[c] EXCEPT !.pc = "free", !.free = TRUE]
                   /\ used[caller[c].counter] < caller[c].quota
        BY <1>1, <2>11, <3>1, CallerSteps DEF CachesQuota, CachesCounter, Served, CountsUse
      <3>3. CASE r = NoCaller
        BY <2>10, <3>1, <3>2, <3>3
      <3>4. CASE /\ r = [caller[c] EXCEPT !.pc = "free", !.free = TRUE]
                 /\ used[caller[c].counter] < caller[c].quota
        <4>1. r.pc = "free" /\ r.free = TRUE /\ r.quota = caller[c].quota
          BY <2>5, <3>4 DEF CallerRecord
        <4>2. used[CounterOf] < Quota /\ caller[c].quota = Quota /\ CounterOf \in Counters
          BY <1>1, <2>5, <3>1, <3>4, QuotaTyped DEF Informed, QuotasTypeOK
        <4>3. used[CounterOf] \in Nat
          BY <1>1, <4>2 DEF QuotasTypeOK
        <4>4. Quota > 0
          BY <2>2, <4>2, <4>3
        <4>5. \A k \in Counters : Within(k)'
          BY <2>1, <3>1, <4>2, WithinAdmits
        <4>6. QED
          BY <2>1, <2>3, <3>1, <4>1, <4>2, <4>4, <4>5 DEF CallerTo
      <3>5. QED
        BY <3>2, <3>3, <3>4
    <2>12. CASE Served(c)
      <3>1. caller[c].pc = "free" /\ UNCHANGED <<quotaCache, typeCache, used>>
        BY <2>12 DEF Served
      <3>2. PICK r \in CallerTo(c) : r = NoCaller \/ r = [caller[c] EXCEPT !.pc = "counter"]
        BY <1>1, <2>12, <3>1, CallerSteps DEF CachesQuota, CachesCounter, Judges, CountsUse
      <3>3. CASE r = NoCaller
        BY <2>10, <3>1, <3>2, <3>3
      <3>4. CASE r = [caller[c] EXCEPT !.pc = "counter"]
        <4>1. r.pc = "counter" /\ r.free = caller[c].free /\ r.quota = caller[c].quota
          BY <2>5, <3>4 DEF CallerRecord
        <4>2. QED
          BY <2>1, <2>3, <2>4, <2>5, <3>1, <4>1 DEF CallerTo, Informed
      <3>5. QED
        BY <3>2, <3>3, <3>4
    <2>13. CASE CountsUse(c)
      <3>1. /\ caller[c].pc = "count" /\ caller[c].free /\ NoCaller.pc = "idle" /\ ~NoCaller.free
            /\ UNCHANGED <<quotaCache, typeCache>>
            /\ used' = [used EXCEPT ![caller[c].counter] = @ + 1]
            /\ caller' = [caller EXCEPT ![c] = NoCaller]
        BY <2>13 DEF CountsUse, NoCaller
      <3>2. NoCaller \in CallerRecord
        BY DEF NoCaller, CallerRecord, Counters
      <3>3. Admitted' \subseteq Admitted \ {c} /\ c \in Admitted
        BY <1>1, <3>1, <3>2, CallerMoves DEF Admitted
      <3>4. caller[c].counter = CounterOf /\ CounterOf \in Counters /\ Quota > 0
        BY <1>1, <2>5, <3>1, QuotaTyped DEF Informed, QuotasTypeOK
      <3>5. ASSUME NEW k \in Counters PROVE Within(k)'
        <4>1. k = CounterOf => used'[k] = used[k] + 1
          BY <1>1, <3>1, <3>4 DEF QuotasTypeOK
        <4>2. k # CounterOf => used'[k] = used[k]
          BY <1>1, <3>1, <3>4 DEF QuotasTypeOK
        <4>3. QED
          BY <1>1, <2>1, <3>3, <3>4, <4>1, <4>2, WithinStays, WithinCounts
      <3>6. QED
        BY <2>1, <2>3, <3>1, <3>2, <3>5
    <2>14. QED
      BY <1>7, <2>6, <2>7, <2>8, <2>9, <2>11, <2>12, <2>13 DEF CallerNext
  <1>8. changes # 0 /\ ~ChangesQuotas => QuotasInv'
    BY <1>5
  <1>9. QED
    BY <1>3, <1>4, <1>6, <1>7, <1>8 DEF QuotasNext

LEMMA QuotasInvImplies == QuotasInv => QuotasTypeOK /\ OverrunBounded
  <1> SUFFICES ASSUME QuotasInv, changes = 0, NEW k \in Counters
               PROVE  used[k] = 0 \/ used[k] <= Quota + Cardinality(Callers) - 1
    BY DEF QuotasInv, OverrunBounded
  <1>1. Within(k) /\ used[k] \in Nat /\ Quota \in Nat
    BY QuotaTyped DEF QuotasInv, QuotasTypeOK
  <1>2. CASE Callers = {}
    <2>1. Cardinality(Admitted) = 0 /\ Cardinality(Callers) = 0
      BY <1>2, FS_EmptySet DEF Admitted
    <2>2. QED
      BY <1>1, <2>1 DEF Within
  <1>3. CASE Callers # {}
    <2>1. Cardinality(Callers) >= 1
      BY <1>3, AdmittedFinite, QuotaAssumption, FS_EmptySet
    <2>2. QED
      BY <1>1, <2>1, AdmittedFinite DEF Within
  <1>4. QED
    BY <1>2, <1>3

-----------------------------------------------------------------------------
(* Images. *)

Own(r) == [zip |-> r, dockerfile |-> r]
Full(r) == [build |-> r, blob |-> r, signed |-> TRUE, got |-> Own(r)]

\* A build that is to be done is of a row that is flushed or waits for it.
Pending(r) == \/ request[r].pc = "flushed"
              \/ image.stage = "pending build" /\ image.of = r

\* A request that was not disturbed has stored what it was given, and its row
\* comes after its context.
RequestCalm(r) ==
    /\ request[r].pc = "zip" => context.zip = r
    /\ request[r].pc \in {"stored", "flushed"} => context = Own(r)
    /\ request[r].pc \in {"checked", "zip", "stored", "flushed"} => image.stage = "absent"
    /\ request[r].pc = "committed" => image.stage # "absent" /\ image.of = r
    /\ request[r].queued => request[r].pc \in {"flushed", "committed", "made"}
    /\ r \in Waiting => Pending(r)

ImageCalm == image.stage # "absent" => /\ image.of \in Requests
                                       /\ context = Own(image.of)
                                       /\ request[image.of].pc \in {"committed", "made"}

TaskCalm(k) ==
    tasks[k] # Upgrade =>
        /\ Pending(tasks[k]) /\ request[tasks[k]].queued
        /\ \A j \in DOMAIN tasks : tasks[j] = tasks[k] => j = k

Working(f) == forge[f].pc \notin {"idle", "upgrade", "sign upgrade"}

\* A build is that of the row, by one worker, from what the row's request stored.
ForgeCalm(f) ==
    Working(f) =>
        /\ image.stage = "building" /\ image.of = forge[f].task
        /\ \A g \in Forges : Working(g) => g = f
        /\ forge[f].pc # "zip" => forge[f].got.zip = image.of
        /\ forge[f].pc \notin {"zip", "dockerfile"} => forge[f].got = Own(image.of)
        /\ forge[f].pc \in {"scan", "push", "sign"} => registry.blob = image.of
        /\ forge[f].pc = "sign" => registry.build = image.of /\ registry.got = Own(image.of)
        /\ forge[f].ok => forge[f].pc \in {"log", "report"} /\ registry = Full(image.of)

Calm == /\ \A q, r \in Creating : q = r
        /\ \A r \in Requests : RequestCalm(r)
        /\ ImageCalm
        /\ \A k \in DOMAIN tasks : TaskCalm(k)
        /\ \A f \in Forges : ForgeCalm(f)
        /\ image.stage = "built and pushed" => registry = Full(image.of)

\* What a worker builds is a request's image.
BuildsTyped == \A f \in Forges : Working(f) => forge[f].task \in Requests

ImagesInv == ImagesTypeOK /\ BuildsTyped /\ (~trouble => Calm)

RequestPcs == {"new", "checked", "zip", "stored", "flushed", "committed", "made", "refused"}
RequestRecord == [pc : RequestPcs, queued : BOOLEAN]
ForgePcs == {"idle", "zip", "dockerfile", "build", "index", "scan", "push", "sign", "log", "report",
             "upgrade", "sign upgrade"}
ForgeRecord == [pc : ForgePcs, task : Sources \cup {Upgrade}, got : Context, ok : BOOLEAN]

LEMMA ImagesStart == ImagesInit => ImagesInv
  <1> SUFFICES ASSUME ImagesInit PROVE ImagesInv
    OBVIOUS
  <1>1. NoContext \in Context /\ NoRequest \in Sources
    BY DEF NoContext, Context, Sources
  <1>2. NoForge \in ForgeRecord
    BY <1>1 DEF NoForge, ForgeRecord, ForgePcs
  <1>3. forge \in [Forges -> ForgeRecord] /\ tasks \in Seq(Requests \cup {Upgrade})
    BY <1>2 DEF ImagesInit
  <1>4. registry \in [build : Sources, blob : Sources, got : Context, signed : BOOLEAN]
    BY <1>1 DEF ImagesInit
  <1>5. ImagesTypeOK
    BY <1>1, <1>3, <1>4 DEF ImagesInit, ImagesTypeOK, ForgeRecord, ForgePcs, Stages
  <1>6. Calm
    <2>1. \A r \in Requests : request[r].pc = "new" /\ ~request[r].queued
      BY DEF ImagesInit
    <2>2. \A f \in Forges : forge[f].pc = "idle"
      BY DEF ImagesInit, NoForge
    <2>3. image.stage = "absent" /\ DOMAIN tasks = {}
      BY DEF ImagesInit
    <2>4. QED
      BY <2>1, <2>2, <2>3
         DEF Calm, Creating, Waiting, RequestCalm, ImageCalm, TaskCalm, ForgeCalm, Working
  <1>7. BuildsTyped
    BY DEF ImagesInit, NoForge, BuildsTyped, Working
  <1>8. QED
    BY <1>5, <1>6, <1>7 DEF ImagesInv

\* One request, or one worker, moves on and the others stay.
OthersRest(r) == /\ request' \in [Requests -> RequestRecord]
                 /\ \A q \in Requests \ {r} : request'[q] = request[q]
OthersWork(f) == /\ forge' \in [Forges -> ForgeRecord]
                 /\ \A g \in Forges \ {f} : forge'[g] = forge[g]

LEMMA RequestMoves ==
  ASSUME ImagesTypeOK, NEW r \in Requests, NEW pc \in RequestPcs,
         request' = [request EXCEPT ![r].pc = pc]
  PROVE  OthersRest(r) /\ request'[r].pc = pc /\ request'[r].queued = request[r].queued
  <1>1. request \in [Requests -> RequestRecord] /\ request[r] \in RequestRecord
    BY DEF ImagesTypeOK, RequestRecord, RequestPcs
  <1> DEFINE new == [request[r] EXCEPT !.pc = pc]
  <1>2. new \in RequestRecord /\ new.pc = pc /\ new.queued = request[r].queued
    BY <1>1 DEF RequestRecord
  <1>3. request' = [request EXCEPT ![r] = new]
    OBVIOUS
  <1> HIDE DEF new
  <1>4. QED
    BY <1>1, <1>2, <1>3 DEF OthersRest

LEMMA KicksMoves ==
  ASSUME ImagesTypeOK, NEW r \in Requests, Kicks(r)
  PROVE  OthersRest(r) /\ request'[r].pc = request[r].pc /\ request'[r].queued = TRUE
  <1>1. request \in [Requests -> RequestRecord] /\ request[r] \in RequestRecord
    BY DEF ImagesTypeOK, RequestRecord, RequestPcs
  <1> DEFINE new == [request[r] EXCEPT !.queued = TRUE]
  <1>2. new \in RequestRecord /\ new.pc = request[r].pc /\ new.queued = TRUE
    BY <1>1 DEF RequestRecord
  <1>3. request' = [request EXCEPT ![r] = new]
    BY DEF Kicks
  <1> HIDE DEF new
  <1>4. QED
    BY <1>1, <1>2, <1>3 DEF OthersRest

LEMMA ForgeMoves ==
  ASSUME ImagesTypeOK, NEW f \in Forges, NEW new \in ForgeRecord, forge' = [forge EXCEPT ![f] = new]
  PROVE  OthersWork(f) /\ forge'[f] = new
  <1>1. forge \in [Forges -> ForgeRecord]
    BY DEF ImagesTypeOK, ForgeRecord, ForgePcs
  <1>2. QED
    BY <1>1 DEF OthersWork

LEMMA ForgeTyped ==
  ASSUME ImagesTypeOK, NEW f \in Forges PROVE forge[f] \in ForgeRecord
  BY DEF ImagesTypeOK, ForgeRecord, ForgePcs

LEMMA ForgeSteps ==
  ASSUME ImagesTypeOK, NEW f \in Forges, NEW pc \in ForgePcs, ForgeStep(f, pc)
  PROVE  /\ OthersWork(f) /\ forge'[f].pc = pc /\ forge'[f].task = forge[f].task
         /\ forge'[f].got = forge[f].got /\ forge'[f].ok = forge[f].ok
  <1> DEFINE new == [forge[f] EXCEPT !.pc = pc]
  <1>1. /\ new \in ForgeRecord /\ new.pc = pc /\ new.task = forge[f].task
        /\ new.got = forge[f].got /\ new.ok = forge[f].ok
    BY ForgeTyped DEF ForgeRecord
  <1>2. forge' = [forge EXCEPT ![f] = new]
    BY DEF ForgeStep
  <1> HIDE DEF new
  <1>3. QED
    BY <1>1, <1>2, ForgeMoves

LEMMA ForgeResults ==
  ASSUME ImagesTypeOK, NEW f \in Forges, NEW ok \in BOOLEAN, Result(f, ok)
  PROVE  /\ OthersWork(f) /\ forge'[f].pc = "log" /\ forge'[f].task = forge[f].task
         /\ forge'[f].got = forge[f].got /\ forge'[f].ok = ok
  <1> DEFINE new == [forge[f] EXCEPT !.pc = "log", !.ok = ok]
  <1>1. /\ new \in ForgeRecord /\ new.pc = "log" /\ new.task = forge[f].task
        /\ new.got = forge[f].got /\ new.ok = ok
    BY ForgeTyped DEF ForgeRecord, ForgePcs
  <1>2. forge' = [forge EXCEPT ![f] = new]
    BY ForgeTyped DEF Result, ImagesTypeOK
  <1> HIDE DEF new
  <1>3. QED
    BY <1>1, <1>2, ForgeMoves

LEMMA ForgeRests ==
  ASSUME ImagesTypeOK, NEW f \in Forges, ForgeEnds(f)
  PROVE  OthersWork(f) /\ forge'[f].pc = "idle"
  <1>1. NoContext \in Context /\ NoRequest \in Sources
    BY DEF NoContext, Context, Sources
  <1>2. NoForge \in ForgeRecord /\ NoForge.pc = "idle"
    BY <1>1 DEF NoForge, ForgeRecord, ForgePcs
  <1>3. QED
    BY <1>2, ForgeMoves DEF ForgeEnds

LEMMA ForgeDownloads ==
  ASSUME ImagesTypeOK, NEW f \in Forges, Downloads(f)
  PROVE  /\ OthersWork(f) /\ forge'[f].task = forge[f].task /\ forge'[f].ok = forge[f].ok
         /\ \/ /\ forge[f].pc = "zip" /\ forge'[f].pc = "dockerfile"
               /\ forge'[f].got.zip = context.zip
            \/ /\ forge[f].pc = "dockerfile" /\ forge'[f].pc = "build"
               /\ forge'[f].got = [zip |-> forge[f].got.zip, dockerfile |-> context.dockerfile]
  <1>1. forge[f] \in ForgeRecord /\ forge[f].got \in Context /\ context \in Context
    BY ForgeTyped DEF ImagesTypeOK, ForgeRecord
  <1>2. CASE forge[f].pc = "zip"
    <2> DEFINE got == [forge[f].got EXCEPT !.zip = context.zip]
               new == [forge[f] EXCEPT !.got = got, !.pc = "dockerfile"]
    <2>1. got \in Context /\ got.zip = context.zip
      BY <1>1 DEF Context
    <2>2. forge' = [forge EXCEPT ![f] = new]
      BY <1>1, <1>2 DEF Downloads, ImagesTypeOK
    <2> HIDE DEF got
    <2>3. /\ new \in ForgeRecord /\ new.pc = "dockerfile" /\ new.task = forge[f].task
          /\ new.got = got /\ new.ok = forge[f].ok
      BY <1>1, <2>1 DEF ForgeRecord, ForgePcs
    <2> HIDE DEF new
    <2>4. QED
      BY <1>2, <2>1, <2>2, <2>3, ForgeMoves
  <1>3. CASE forge[f].pc = "dockerfile"
    <2> DEFINE got == [forge[f].got EXCEPT !.dockerfile = context.dockerfile]
               new == [forge[f] EXCEPT !.got = got, !.pc = "build"]
    <2>1. got \in Context /\ got = [zip |-> forge[f].got.zip, dockerfile |-> context.dockerfile]
      BY <1>1 DEF Context
    <2>2. forge' = [forge EXCEPT ![f] = new]
      BY <1>1, <1>3 DEF Downloads, ImagesTypeOK
    <2> HIDE DEF got
    <2>3. /\ new \in ForgeRecord /\ new.pc = "build" /\ new.task = forge[f].task
          /\ new.got = got /\ new.ok = forge[f].ok
      BY <1>1, <2>1 DEF ForgeRecord, ForgePcs
    <2> HIDE DEF new
    <2>4. QED
      BY <1>3, <2>1, <2>2, <2>3, ForgeMoves
  <1>4. QED
    BY <1>2, <1>3 DEF Downloads

LEMMA ForgeTakes ==
  ASSUME ImagesTypeOK, NEW f \in Forges, Takes(f), image.stage # "absent"
  PROVE  /\ OthersWork(f) /\ forge'[f].pc = "zip" /\ forge'[f].task = Head(tasks)
         /\ forge'[f].ok = FALSE
  <1>1. NoContext \in Context /\ NoRequest \in Sources
    BY DEF NoContext, Context, Sources
  <1>2. Head(tasks) \in Requests
    <2>1. /\ tasks \in Seq(Requests \cup {Upgrade}) /\ tasks # <<>>
          /\ Head(tasks) # Upgrade
      BY DEF Takes, ImagesTypeOK
    <2>2. QED
      BY <2>1, HeadTailProperties
  <1> DEFINE new == [NoForge EXCEPT !.pc = "zip", !.task = Head(tasks)]
  <1>3. /\ new \in ForgeRecord /\ new.pc = "zip" /\ new.task = Head(tasks) /\ new.ok = FALSE
    BY <1>1, <1>2 DEF NoForge, ForgeRecord, ForgePcs, Sources
  <1>4. forge' = [forge EXCEPT ![f] = new]
    BY DEF Takes
  <1> HIDE DEF new
  <1>5. QED
    BY <1>3, <1>4, ForgeMoves

LEMMA UpgradeMoves ==
  ASSUME ImagesTypeOK, NEW f \in Forges, TakesUpgrade(f) \/ BuildsUpgrade(f) \/ SignsUpgrade(f)
  PROVE  \/ UNCHANGED forge
         \/ /\ OthersWork(f)
            /\ forge[f].pc \in {"idle", "upgrade", "sign upgrade"}
            /\ forge'[f].pc \in {"idle", "upgrade", "sign upgrade"}
  <1>1. NoContext \in Context /\ forge[f] \in ForgeRecord
    BY ForgeTyped DEF NoContext, Context, Sources
  <1>2. CASE TakesUpgrade(f)
    <2> DEFINE new == [NoForge EXCEPT !.pc = "upgrade", !.task = Upgrade]
    <2>1. new \in ForgeRecord /\ new.pc = "upgrade"
      BY <1>1 DEF NoForge, ForgeRecord, ForgePcs
    <2>2. UNCHANGED forge \/ forge' = [forge EXCEPT ![f] = new]
      BY <1>2 DEF TakesUpgrade
    <2> HIDE DEF new
    <2>3. QED
      BY <1>2, <2>1, <2>2, ForgeMoves DEF TakesUpgrade
  <1>3. CASE BuildsUpgrade(f)
    <2>1. ASSUME NEW ok \in BOOLEAN,
                 forge' = [forge EXCEPT ![f].pc = "sign upgrade", ![f].ok = ok]
          PROVE  OthersWork(f) /\ forge'[f].pc = "sign upgrade"
      <3> DEFINE new == [forge[f] EXCEPT !.pc = "sign upgrade", !.ok = ok]
      <3>1. new \in ForgeRecord /\ new.pc = "sign upgrade"
        BY <1>1 DEF ForgeRecord, ForgePcs
      <3>2. forge' = [forge EXCEPT ![f] = new]
        BY <2>1 DEF ImagesTypeOK
      <3> HIDE DEF new
      <3>3. QED
        BY <3>1, <3>2, ForgeMoves
    <2>2. QED
      BY <1>3, <2>1, ForgeRests DEF BuildsUpgrade
  <1>4. CASE SignsUpgrade(f)
    BY <1>4, ForgeRests DEF SignsUpgrade
  <1>5. QED
    BY <1>2, <1>3, <1>4

LEMMA TaskTyped == ImagesTypeOK => \A k \in DOMAIN tasks : tasks[k] \in Requests \cup {Upgrade}
  <1> SUFFICES ASSUME ImagesTypeOK
               PROVE  \A k \in DOMAIN tasks : tasks[k] \in Requests \cup {Upgrade}
    OBVIOUS
  <1>1. tasks \in Seq(Requests \cup {Upgrade})
    BY DEF ImagesTypeOK
  <1>2. QED
    BY <1>1, LenProperties

LEMMA TasksQueued ==
  ASSUME ImagesTypeOK, NEW t \in Requests \cup {Upgrade}, tasks' = Append(tasks, t)
  PROVE  /\ tasks' \in Seq(Requests \cup {Upgrade})
         /\ \A k \in DOMAIN tasks' :
                \/ k \in DOMAIN tasks /\ tasks'[k] = tasks[k]
                \/ k = Len(tasks) + 1 /\ tasks'[k] = t
  <1>1. tasks \in Seq(Requests \cup {Upgrade})
    BY DEF ImagesTypeOK
  <1>2. DOMAIN tasks = 1 .. Len(tasks) /\ Len(tasks) \in Nat
    BY <1>1, LenProperties
  <1>3. /\ tasks' \in Seq(Requests \cup {Upgrade}) /\ Len(tasks') = Len(tasks) + 1
        /\ \A i \in 1 .. Len(tasks) : tasks'[i] = tasks[i]
        /\ tasks'[Len(tasks) + 1] = t
    BY <1>1, AppendProperties
  <1>4. DOMAIN tasks' = 1 .. Len(tasks')
    BY <1>3, LenProperties
  <1>5. QED
    BY <1>2, <1>3, <1>4

LEMMA TasksTaken ==
  ASSUME ImagesTypeOK, tasks # <<>>, tasks' = Tail(tasks)
  PROVE  /\ tasks' \in Seq(Requests \cup {Upgrade})
         /\ 1 \in DOMAIN tasks /\ Head(tasks) = tasks[1]
         /\ \A k \in DOMAIN tasks' :
                k + 1 \in DOMAIN tasks /\ k + 1 # 1 /\ k \in Nat /\ tasks'[k] = tasks[k + 1]
  <1>1. tasks \in Seq(Requests \cup {Upgrade})
    BY DEF ImagesTypeOK
  <1>2. /\ DOMAIN tasks = 1 .. Len(tasks) /\ Len(tasks) \in Nat \ {0}
    BY <1>1, LenProperties, EmptySeq
  <1>3. /\ tasks' \in Seq(Requests \cup {Upgrade}) /\ Len(tasks') = Len(tasks) - 1
        /\ \A i \in 1 .. Len(tasks') : tasks'[i] = tasks[i + 1]
    BY <1>1, HeadTailProperties
  <1>4. DOMAIN tasks' = 1 .. Len(tasks')
    BY <1>3, LenProperties
  <1>5. Head(tasks) = tasks[1]
    BY <1>1, <1>2
  <1>6. QED
    BY <1>2, <1>3, <1>4, <1>5

LEMMA RequestsTypes ==
  ASSUME ImagesTypeOK, NEW r \in Requests, Checks(r) \/ RequestNext(r)
  PROVE  ImagesTypeOK'
  <1> USE DEF ImagesTypeOK
  <1>1. ASSUME OthersRest(r) PROVE request' \in [Requests -> RequestRecord]
    BY <1>1 DEF OthersRest
  <1>2. CASE Checks(r)
    BY <1>1, <1>2, RequestMoves DEF Checks, RequestPcs, RequestRecord
  <1>3. CASE Uploads(r)
    <2>1. context' \in Context
      BY <1>3 DEF Uploads, Context, Sources
    <2>2. QED
      BY <1>1, <1>3, <2>1, RequestMoves DEF Uploads, RequestPcs, RequestRecord
  <1>4. CASE Flushes(r)
    <2>1. PICK pc \in {"flushed", "refused"} : request' = [request EXCEPT ![r].pc = pc]
      BY <1>4 DEF Flushes
    <2>2. request' \in [Requests -> RequestRecord]
      BY <1>1, <2>1, RequestMoves DEF RequestPcs
    <2>3. QED
      BY <1>4, <2>2 DEF Flushes, RequestPcs, RequestRecord
  <1>5. CASE Commits(r)
    BY ZenonT(60), <1>1, <1>5, RequestMoves DEF Commits, RequestPcs, RequestRecord, Stages, Sources
  <1>6. CASE Kicks(r)
    <2>1. tasks' \in Seq(Requests \cup {Upgrade})
      BY <1>6, TasksQueued DEF Kicks
    <2>2. QED
      BY <1>1, <1>6, <2>1, KicksMoves DEF Kicks, RequestPcs, RequestRecord
  <1>7. CASE SweepsStream(r)
    BY <1>1, <1>7, RequestMoves DEF SweepsStream, RequestPcs, RequestRecord
  <1>8. QED
    BY <1>2, <1>3, <1>4, <1>5, <1>6, <1>7 DEF RequestNext

LEMMA LineTyped == ImagesTypeOK => Line \in {"none", "lines", Done} /\ Signed = Done
  BY DEF ImagesTypeOK, Line, Signed

LEMMA ForgesTypes ==
  ASSUME ImagesTypeOK, BuildsTyped, NEW f \in Forges, ForgeNext(f) \/ ForgeDies(f)
  PROVE  ImagesTypeOK'
  <1>1. ASSUME forge' \in [Forges -> ForgeRecord], tasks' \in Seq(Requests \cup {Upgrade}),
               image' \in [stage : Stages, of : Sources],
               registry' \in [build : Sources, blob : Sources, got : Context, signed : BOOLEAN],
               stream' \in {"none", "lines", Done}, trouble' \in BOOLEAN,
               upgrade' \in {"none", "ordered", "running", "refused", "failed", "raised", "applied"},
               UNCHANGED <<context, request, reader>>
        PROVE  ImagesTypeOK'
    BY <1>1 DEF ImagesTypeOK, ForgeRecord, ForgePcs
  <1>2. /\ forge \in [Forges -> ForgeRecord] /\ tasks \in Seq(Requests \cup {Upgrade})
        /\ image \in [stage : Stages, of : Sources]
        /\ registry \in [build : Sources, blob : Sources, got : Context, signed : BOOLEAN]
        /\ stream \in {"none", "lines", Done} /\ trouble \in BOOLEAN
        /\ upgrade \in {"none", "ordered", "running", "refused", "failed", "raised", "applied"}
        /\ forge[f] \in ForgeRecord
    BY DEF ImagesTypeOK, ForgeRecord, ForgePcs
  <1>3. OthersWork(f) => forge' \in [Forges -> ForgeRecord]
    BY DEF OthersWork
  <1>4. CASE Takes(f)
    <2>1. tasks' \in Seq(Requests \cup {Upgrade})
      BY <1>4, TasksTaken DEF Takes
    <2>2. image' \in [stage : Stages, of : Sources]
      BY <1>2, <1>4 DEF Takes, Building, Stages
    <2>3. forge' \in [Forges -> ForgeRecord]
      BY <1>2, <1>3, <1>4, ForgeTakes DEF Takes
    <2>4. trouble' \in BOOLEAN
      BY <1>2, <1>4 DEF Takes
    <2>5. UNCHANGED <<context, request, registry, stream, reader, upgrade>>
      BY <1>4 DEF Takes
    <2>6. QED
      BY <1>1, <1>2, <2>1, <2>2, <2>3, <2>4, <2>5
  <1>5. CASE Downloads(f)
    BY <1>1, <1>2, <1>3, <1>5, ForgeDownloads DEF Downloads
  <1>6. CASE Builds(f) \/ Scans(f)
    BY <1>1, <1>2, <1>3, <1>6, ForgeSteps, LineTyped DEF Builds, Scans, ForgePcs
  <1>7. CASE UploadsBlob(f) \/ UploadsLog(f)
    <2>1. forge' \in [Forges -> ForgeRecord]
      BY <1>3, <1>7, ForgeSteps DEF UploadsBlob, UploadsLog, ForgePcs
    <2>2. registry' \in [build : Sources, blob : Sources, got : Context, signed : BOOLEAN]
      <3>1. CASE UploadsBlob(f)
        <4>1. forge[f].task \in Sources
          BY <3>1 DEF BuildsTyped, UploadsBlob, Working, Sources
        <4>2. QED
          BY <1>2, <3>1, <4>1 DEF UploadsBlob
      <3>2. QED
        BY <1>2, <1>7, <3>1 DEF UploadsLog
    <2>3. QED
      BY <1>1, <1>2, <1>7, <2>1, <2>2 DEF UploadsBlob, UploadsLog
  <1>8. CASE Pushes(f)
    <2>1. forge[f].task \in Sources /\ forge[f].got \in Context
      BY <1>2, <1>8 DEF BuildsTyped, Pushes, Working, Sources, ForgeRecord
    <2>2. registry' \in [build : Sources, blob : Sources, got : Context, signed : BOOLEAN]
      BY <1>2, <1>8, <2>1 DEF Pushes
    <2>3. forge' \in [Forges -> ForgeRecord] /\ stream' \in {"none", "lines", Done}
      BY <1>3, <1>8, ForgeSteps, LineTyped DEF Pushes, ForgePcs
    <2>4. QED
      BY <1>1, <1>2, <1>8, <2>2, <2>3 DEF Pushes
  <1>9. CASE Signs(f)
    <2>1. registry' \in [build : Sources, blob : Sources, got : Context, signed : BOOLEAN]
      BY <1>2, <1>9 DEF Signs
    <2>2. forge' \in [Forges -> ForgeRecord] /\ stream' \in {"none", "lines", Done}
      BY <1>3, <1>9, ForgeResults, LineTyped DEF Signs
    <2>3. QED
      BY <1>1, <1>2, <1>9, <2>1, <2>2 DEF Signs
  <1>10. CASE BuildFails(f)
    <2>1. forge' \in [Forges -> ForgeRecord]
      BY <1>3, <1>10, ForgeResults DEF BuildFails, Caught
    <2>2. stream' \in {"none", "lines", Done}
      BY <1>10, LineTyped DEF BuildFails
    <2>3. QED
      BY <1>1, <1>2, <1>10, <2>1, <2>2 DEF BuildFails
  <1>11. CASE Reports(f)
    <2>1. image' \in [stage : Stages, of : Sources]
      BY <1>2, <1>11 DEF Reports, Stages
    <2>2. forge' \in [Forges -> ForgeRecord]
      BY <1>3, <1>11, ForgeRests DEF Reports
    <2>3. QED
      BY <1>1, <1>2, <1>11, <2>1, <2>2 DEF Reports
  <1>12. CASE ForgeDies(f)
    <2>1. forge' \in [Forges -> ForgeRecord]
      BY <1>3, <1>12, ForgeRests DEF ForgeDies
    <2>2. QED
      BY <1>1, <1>2, <1>12, <2>1 DEF ForgeDies
  <1>13. CASE TakesUpgrade(f) \/ BuildsUpgrade(f) \/ SignsUpgrade(f)
    <2>1. forge' \in [Forges -> ForgeRecord]
      BY <1>2, <1>3, <1>13, UpgradeMoves
    <2>2. tasks' \in Seq(Requests \cup {Upgrade})
      BY <1>2, <1>13, TasksTaken DEF TakesUpgrade, BuildsUpgrade, SignsUpgrade
    <2>3. upgrade' \in {"none", "ordered", "running", "refused", "failed", "raised", "applied"}
      BY <1>2, <1>13 DEF TakesUpgrade, BuildsUpgrade, SignsUpgrade
    <2>4. stream' \in {"none", "lines", Done}
      BY <1>2, <1>13 DEF TakesUpgrade, BuildsUpgrade, SignsUpgrade, Done
    <2>5. UNCHANGED <<image, context, request, registry, reader, trouble>>
      BY <1>13 DEF TakesUpgrade, BuildsUpgrade, SignsUpgrade
    <2>6. QED
      BY <1>1, <1>2, <2>1, <2>2, <2>3, <2>4, <2>5
  <1>14. QED
    BY <1>4, <1>5, <1>6, <1>7, <1>8, <1>9, <1>10, <1>11, <1>12, <1>13 DEF ForgeNext

\* A call of stream_build_logs moves.
Streams(l) == Subscribes(l) \/ ReadsDone(l) \/ DeletesStream(l) \/ Leaves(l)

\* It changes nothing but the calls and the stream.
LEMMA StreamsAside ==
  ASSUME ImagesTypeOK, NEW l \in Readers, Streams(l)
  PROVE  /\ UNCHANGED <<image, context, request, tasks, forge, registry, upgrade, trouble>>
         /\ stream' \in {stream, "none"}
         /\ reader' \in [calls : [Readers -> {"out", "polling", "found", "left"}], told : BOOLEAN]
  <1>1. reader.calls \in [Readers -> {"out", "polling", "found", "left"}] /\ reader.told \in BOOLEAN
    BY DEF ImagesTypeOK
  <1>2. /\ UNCHANGED <<image, context, request, tasks, forge, registry, upgrade, trouble>>
        /\ stream' \in {stream, "none"}
        /\ \E pc \in {"polling", "found", "left"} :
              reader'.calls = [reader.calls EXCEPT ![l] = pc]
        /\ reader' = [calls |-> reader'.calls, told |-> reader'.told] /\ reader'.told \in BOOLEAN
    BY <1>1 DEF Streams, Subscribes, ReadsDone, DeletesStream, Leaves, Reads, ImagesTypeOK
  <1>3. reader'.calls \in [Readers -> {"out", "polling", "found", "left"}]
    BY <1>1, <1>2
  <1>4. QED
    BY <1>2, <1>3

LEMMA OtherTypes ==
  ASSUME ImagesTypeOK, DeletesImage \/ OrdersUpgrade \/ \E l \in Readers : Streams(l)
  PROVE  ImagesTypeOK'
  <1>1. CASE OrdersUpgrade
    <2>1. tasks' \in Seq(Requests \cup {Upgrade})
      BY <1>1, TasksQueued DEF OrdersUpgrade
    <2>2. QED
      BY <1>1, <2>1 DEF OrdersUpgrade, ImagesTypeOK
  <1>2. CASE DeletesImage
    BY <1>2 DEF DeletesImage, ImagesTypeOK, Stages, Sources
  <1>3. CASE \E l \in Readers : Streams(l)
    BY <1>3, StreamsAside DEF ImagesTypeOK
  <1>4. QED
    BY <1>1, <1>2, <1>3

LEMMA BuildsStep ==
  ASSUME ImagesTypeOK, BuildsTyped, [ImagesNext]_imageVars
  PROVE  BuildsTyped'
  <1>1. CASE UNCHANGED forge
    BY <1>1 DEF BuildsTyped, Working
  <1>2. ASSUME NEW f \in Forges, OthersWork(f),
               \/ forge'[f].pc \in {"idle", "upgrade", "sign upgrade"}
               \/ forge'[f].task \in Requests
               \/ Working(f) /\ forge'[f].task = forge[f].task
        PROVE  BuildsTyped'
    BY <1>2 DEF OthersWork, BuildsTyped, Working
  <1>3. ASSUME NEW f \in Forges, ForgeNext(f) \/ ForgeDies(f) PROVE BuildsTyped'
    <2>1. CASE Takes(f)
      <3>1. CASE image.stage = "absent"
        BY <1>1, <2>1, <3>1 DEF Takes
      <3>2. CASE image.stage # "absent"
        <4>1. tasks \in Seq(Requests \cup {Upgrade}) /\ tasks # <<>> /\ Head(tasks) # Upgrade
          BY <2>1 DEF Takes, ImagesTypeOK
        <4>2. Head(tasks) \in Requests
          BY <4>1, HeadTailProperties
        <4>3. QED
          BY <1>2, <2>1, <3>2, <4>2, ForgeTakes
      <3>3. QED
        BY <3>1, <3>2
    <2>2. CASE Downloads(f)
      BY <1>2, <2>2, ForgeDownloads DEF Working
    <2>3. CASE Builds(f) \/ UploadsBlob(f) \/ Scans(f) \/ Pushes(f) \/ UploadsLog(f)
      BY <1>2, <2>3, ForgeSteps
         DEF Builds, UploadsBlob, Scans, Pushes, UploadsLog, ForgePcs, Working
    <2>4. CASE Signs(f) \/ BuildFails(f)
      BY <1>2, <2>4, ForgeResults DEF Signs, BuildFails, Caught, Working, FailsTold, FailsSilently
    <2>5. CASE Reports(f) \/ ForgeDies(f)
      BY <1>2, <2>5, ForgeRests DEF Reports, ForgeDies
    <2>6. CASE TakesUpgrade(f) \/ BuildsUpgrade(f) \/ SignsUpgrade(f)
      BY <1>1, <1>2, <2>6, UpgradeMoves
    <2>7. QED
      BY <1>3, <2>1, <2>2, <2>3, <2>4, <2>5, <2>6 DEF ForgeNext
  <1>4. CASE \/ \E r \in Requests : Checks(r) \/ RequestNext(r)
             \/ DeletesImage \/ OrdersUpgrade \/ UNCHANGED imageVars
    BY <1>1, <1>4 DEF Checks, RequestNext, Uploads, Flushes, Commits, Kicks, SweepsStream, DeletesImage,
                      OrdersUpgrade, imageVars
  <1>5. CASE \E l \in Readers : Streams(l)
    BY <1>1, <1>5, StreamsAside
  <1>6. QED
    BY <1>3, <1>4, <1>5 DEF ImagesNext, Streams

LEMMA ImagesTypes ==
  ASSUME ImagesTypeOK, BuildsTyped, [ImagesNext]_imageVars
  PROVE  ImagesTypeOK'
  <1>1. CASE UNCHANGED imageVars
    BY <1>1 DEF imageVars, ImagesTypeOK
  <1>2. QED
    BY <1>1, RequestsTypes, ForgesTypes, OtherTypes DEF ImagesNext, Streams

LEMMA TroubleStays ==
  ASSUME ImagesTypeOK, [ImagesNext]_imageVars, ~trouble'
  PROVE  ~trouble
  BY DEF ImagesNext, RequestNext, ForgeNext, Checks, Uploads, Flushes, Commits, Kicks, SweepsStream,
         DeletesImage, Subscribes, ReadsDone, DeletesStream, Leaves, OrdersUpgrade, Takes, Downloads, Builds, UploadsBlob,
         Scans, Pushes, Signs, BuildFails, UploadsLog, Reports, ForgeDies, TakesUpgrade,
         BuildsUpgrade, SignsUpgrade, imageVars

\* What the workers do is not disturbed by what leaves the row and them alone.
LEMMA WorkersCalm ==
  ASSUME Calm, UNCHANGED <<image, forge, registry>>
  PROVE  /\ \A f \in Forges : ForgeCalm(f)'
         /\ image'.stage = "built and pushed" => registry' = Full(image'.of)
  BY DEF Calm, ForgeCalm, Working

\* A step of one request that leaves the row, the tasks and the workers alone, and
\* does not take back what it has flushed.
LEMMA RequestStepsCalm ==
  ASSUME ImagesTypeOK, Calm, NEW r \in Requests, OthersRest(r),
         UNCHANGED <<image, tasks, forge, registry>>,
         request'[r].queued = request[r].queued,
         r \in Creating \/ Creating = {},
         RequestCalm(r)', ImageCalm',
         \A q \in Requests \ {r} : RequestCalm(q)',
         \A k \in DOMAIN tasks : tasks[k] = r => Pending(r)'
  PROVE  Calm'
  <1>1. \A q, s \in Creating' : q = s
    BY DEF Calm, Creating, OthersRest
  <1>2. ASSUME NEW k \in DOMAIN tasks' PROVE TaskCalm(k)'
    <2>1. TaskCalm(k) /\ k \in DOMAIN tasks
      BY <1>2 DEF Calm
    <2>2. tasks[k] # Upgrade => tasks[k] \in Requests
      BY <2>1, TaskTyped
    <2>3. CASE tasks[k] # Upgrade /\ tasks[k] = r
      BY <2>1, <2>3 DEF TaskCalm
    <2>4. CASE tasks[k] # Upgrade /\ tasks[k] # r
      BY <2>1, <2>2, <2>4 DEF TaskCalm, Pending, OthersRest
    <2>5. CASE tasks[k] = Upgrade
      BY <2>5 DEF TaskCalm
    <2>6. QED
      BY <2>3, <2>4, <2>5
  <1>3. QED
    BY <1>1, <1>2, WorkersCalm DEF Calm

LEMMA ChecksCalm ==
  ASSUME ImagesTypeOK, Calm, NEW r \in Requests, Checks(r), ~trouble'
  PROVE  Calm'
  <1>1. OthersRest(r) /\ request'[r].pc = "checked" /\ request'[r].queued = request[r].queued
    BY RequestMoves DEF Checks, RequestPcs
  <1>2. /\ request[r].pc = "new" /\ image.stage = "absent" /\ Creating = {}
        /\ UNCHANGED <<image, context, tasks, forge, registry>>
    BY DEF Checks
  <1>3. RequestCalm(r) /\ ~request[r].queued
    BY <1>2 DEF Calm, RequestCalm
  <1>4. RequestCalm(r)'
    BY <1>1, <1>2, <1>3 DEF RequestCalm, Waiting
  <1>5. ASSUME NEW q \in Requests \ {r} PROVE RequestCalm(q)'
    BY <1>1, <1>2, <1>5 DEF Calm, RequestCalm, Waiting, OthersRest, Pending
  <1>6. ImageCalm'
    BY <1>2 DEF ImageCalm
  <1>7. \A k \in DOMAIN tasks : tasks[k] # r
    BY <1>3, ImageTaskAssumption DEF Calm, TaskCalm
  <1>8. QED
    BY <1>1, <1>2, <1>4, <1>5, <1>6, <1>7, RequestStepsCalm

LEMMA UploadsCalm ==
  ASSUME ImagesTypeOK, Calm, NEW r \in Requests, Uploads(r)
  PROVE  Calm'
  <1>1. /\ OthersRest(r) /\ request'[r].queued = request[r].queued
        /\ \/ /\ request[r].pc = "checked" /\ request'[r].pc = "zip"
              /\ context' = [context EXCEPT !.zip = r]
           \/ /\ request[r].pc = "zip" /\ request'[r].pc = "stored"
              /\ context' = [context EXCEPT !.dockerfile = r]
        /\ UNCHANGED <<image, tasks, forge, registry>>
    BY RequestMoves DEF Uploads, RequestPcs
  <1>2. RequestCalm(r) /\ context \in Context
    BY DEF Calm, ImagesTypeOK
  <1>3. image.stage = "absent" /\ r \in Creating /\ ~request[r].queued
    BY <1>1, <1>2 DEF RequestCalm, Creating
  <1>4. RequestCalm(r)'
    BY <1>1, <1>2, <1>3 DEF RequestCalm, Waiting, Context, Own
  <1>5. ASSUME NEW q \in Requests \ {r} PROVE RequestCalm(q)'
    <2>1. q \notin Creating
      BY <1>3, <1>5 DEF Calm
    <2>2. QED
      BY <1>1, <1>5, <2>1 DEF Calm, RequestCalm, Waiting, OthersRest, Pending, Creating
  <1>6. ImageCalm'
    BY <1>1, <1>3 DEF ImageCalm
  <1>7. \A k \in DOMAIN tasks : tasks[k] # r
    BY <1>3, ImageTaskAssumption DEF Calm, TaskCalm
  <1>8. QED
    BY <1>1, <1>3, <1>4, <1>5, <1>6, <1>7, RequestStepsCalm

LEMMA FlushesCalm ==
  ASSUME ImagesTypeOK, Calm, NEW r \in Requests, Flushes(r)
  PROVE  Calm'
  <1>1. /\ request[r].pc = "stored" /\ UNCHANGED <<image, context, tasks, forge, registry>>
    BY DEF Flushes, Flushable
  <1>2. RequestCalm(r)
    BY DEF Calm
  <1>3. image.stage = "absent" /\ r \in Creating /\ ~request[r].queued /\ context = Own(r)
    BY <1>1, <1>2 DEF RequestCalm, Creating
  <1>4. OthersRest(r) /\ request'[r].pc = "flushed" /\ request'[r].queued = request[r].queued
    BY <1>3, RequestMoves DEF Flushes, RequestPcs
  <1>5. RequestCalm(r)'
    BY <1>1, <1>3, <1>4 DEF RequestCalm, Waiting, Pending
  <1>6. ASSUME NEW q \in Requests \ {r} PROVE RequestCalm(q)'
    BY <1>1, <1>4, <1>6 DEF Calm, RequestCalm, Waiting, OthersRest, Pending
  <1>7. ImageCalm'
    BY <1>1, <1>3 DEF ImageCalm
  <1>8. \A k \in DOMAIN tasks : tasks[k] # r
    BY <1>3, ImageTaskAssumption DEF Calm, TaskCalm
  <1>9. QED
    BY <1>1, <1>3, <1>4, <1>5, <1>6, <1>7, <1>8, RequestStepsCalm

LEMMA SweepsCalm ==
  ASSUME ImagesTypeOK, Calm, NEW r \in Requests, SweepsStream(r)
  PROVE  Calm'
  <1>1. /\ request[r].pc = "committed" /\ UNCHANGED <<image, context, tasks, forge, registry>>
    BY DEF SweepsStream
  <1>2. OthersRest(r) /\ request'[r].pc = "made" /\ request'[r].queued = request[r].queued
    BY RequestMoves DEF SweepsStream, RequestPcs
  <1>3. RequestCalm(r) /\ r \in Creating
    BY <1>1 DEF Calm, Creating
  <1>4. RequestCalm(r)'
    BY <1>1, <1>2, <1>3 DEF RequestCalm, Waiting, Pending
  <1>5. ASSUME NEW q \in Requests \ {r} PROVE RequestCalm(q)'
    BY <1>1, <1>2, <1>5 DEF Calm, RequestCalm, Waiting, OthersRest, Pending
  <1>6. ImageCalm'
    BY <1>1, <1>2 DEF Calm, ImageCalm, OthersRest
  <1>7. \A k \in DOMAIN tasks : tasks[k] = r => Pending(r)'
    BY <1>1, <1>2, ImageTaskAssumption DEF Calm, TaskCalm, Pending
  <1>8. QED
    BY <1>1, <1>2, <1>3, <1>4, <1>5, <1>6, <1>7, RequestStepsCalm

LEMMA CommitsCalm ==
  ASSUME ImagesTypeOK, Calm, NEW r \in Requests, Commits(r)
  PROVE  Calm'
  <1>1. /\ request[r].pc = "flushed" /\ UNCHANGED <<context, tasks, forge, registry>>
        /\ image' = [stage |-> "pending build", of |-> r]
    BY DEF Commits
  <1>2. OthersRest(r) /\ request'[r].pc = "committed" /\ request'[r].queued = request[r].queued
    BY RequestMoves DEF Commits, RequestPcs
  <1>3. /\ RequestCalm(r) /\ r \in Creating /\ image.stage = "absent" /\ context = Own(r)
        /\ Pending(r)'
    BY <1>1 DEF Calm, RequestCalm, Creating, Pending
  <1>4. \A q \in Requests \ {r} : q \notin Creating /\ ~Pending(q)
    BY <1>3 DEF Calm, Pending, Creating
  <1>5. RequestCalm(r)'
    BY <1>1, <1>2, <1>3 DEF RequestCalm
  <1>6. ASSUME NEW q \in Requests \ {r} PROVE RequestCalm(q)'
    BY <1>1, <1>2, <1>4, <1>6 DEF Calm, RequestCalm, Waiting, OthersRest, Creating
  <1>7. ImageCalm'
    BY <1>1, <1>2, <1>3 DEF ImageCalm
  <1>8. ASSUME NEW k \in DOMAIN tasks' PROVE TaskCalm(k)'
    <2>1. TaskCalm(k) /\ (tasks[k] # Upgrade => tasks[k] \in Requests)
      BY <1>1, <1>8, TaskTyped DEF Calm
    <2>2. tasks[k] # Upgrade => tasks[k] = r
      BY <1>4, <2>1 DEF TaskCalm
    <2>3. QED
      BY <1>1, <1>2, <1>3, <2>1, <2>2 DEF TaskCalm
  <1>9. \A f \in Forges : ~Working(f) /\ ~Working(f)'
    BY <1>1, <1>3 DEF Calm, ForgeCalm, Working
  <1>10. \A q, s \in Creating' : q = s
    BY <1>2, <1>3 DEF Calm, Creating, OthersRest
  <1>11. QED
    BY <1>1, <1>5, <1>6, <1>7, <1>8, <1>9, <1>10 DEF Calm, ForgeCalm

LEMMA KicksCalm ==
  ASSUME ImagesTypeOK, Calm, NEW r \in Requests, Kicks(r)
  PROVE  Calm'
  <1>1. /\ OthersRest(r) /\ request'[r].pc = request[r].pc /\ request'[r].queued = TRUE
        /\ UNCHANGED <<image, context, forge, registry>> /\ tasks' = Append(tasks, r)
    BY KicksMoves DEF Kicks
  <1>2. /\ RequestCalm(r) /\ Pending(r) /\ ~request[r].queued
        /\ request[r].pc \in {"flushed", "committed", "made"}
    BY DEF Calm, RequestCalm, Kicks, Waiting
  <1>3. \A k \in DOMAIN tasks' :
            \/ k \in DOMAIN tasks /\ tasks'[k] = tasks[k]
            \/ k = Len(tasks) + 1 /\ tasks'[k] = r
    BY <1>1, TasksQueued
  <1>4. \A k \in DOMAIN tasks : tasks[k] # r
    BY <1>2, ImageTaskAssumption DEF Calm, TaskCalm
  <1>5. \A q \in Requests : Pending(q) => Pending(q)'
    BY <1>1 DEF Pending, OthersRest
  <1>6. RequestCalm(r)'
    BY <1>1, <1>2, <1>5 DEF RequestCalm
  <1>7. ASSUME NEW q \in Requests \ {r} PROVE RequestCalm(q)'
    BY <1>1, <1>5, <1>7 DEF Calm, RequestCalm, Waiting, OthersRest
  <1>8. ImageCalm'
    BY <1>1 DEF Calm, ImageCalm, OthersRest
  <1>9. ASSUME NEW k \in DOMAIN tasks' PROVE TaskCalm(k)'
    <2>1. CASE tasks'[k] = r
      <3>1. \A j \in DOMAIN tasks' : tasks'[j] = r => j = Len(tasks) + 1
        BY <1>3, <1>4
      <3>2. QED
        BY <1>1, <1>2, <1>5, <1>9, <2>1, <3>1 DEF TaskCalm
    <2>2. CASE tasks'[k] # r
      <3>1. k \in DOMAIN tasks /\ tasks'[k] = tasks[k] /\ TaskCalm(k)
        BY <1>3, <1>9, <2>2 DEF Calm
      <3>2. tasks[k] # Upgrade => tasks[k] \in Requests \ {r}
        BY <2>2, <3>1, TaskTyped
      <3>3. \A j \in DOMAIN tasks' : tasks'[j] = tasks[k] => j \in DOMAIN tasks /\ tasks[j] = tasks[k]
        BY <1>3, <2>2, <3>1
      <3>4. QED
        BY <1>1, <1>5, <3>1, <3>2, <3>3 DEF TaskCalm, OthersRest
    <2>3. QED
      BY <2>1, <2>2
  <1>10. \A q, s \in Creating' : q = s
    BY <1>1 DEF Calm, Creating, OthersRest
  <1>11. QED
    BY <1>1, <1>6, <1>7, <1>8, <1>9, <1>10, WorkersCalm DEF Calm

\* The tasks and the requests, when neither they nor the row change.
LEMMA WaitingCalm ==
  ASSUME Calm, UNCHANGED <<image, context, request, tasks>>
  PROVE  /\ \A q, r \in Creating' : q = r
         /\ \A r \in Requests : RequestCalm(r)'
         /\ ImageCalm'
         /\ \A k \in DOMAIN tasks' : TaskCalm(k)'
  <1>1. Creating' = Creating /\ Waiting' = Waiting
    BY DEF Creating, Waiting
  <1>2. \A r \in Requests : Pending(r)' = Pending(r)
    BY DEF Pending
  <1>3. \A r \in Requests : RequestCalm(r)'
    BY <1>1, <1>2 DEF Calm, RequestCalm
  <1>4. \A k \in DOMAIN tasks' : TaskCalm(k)'
    BY DEF Calm, TaskCalm, Pending
  <1>5. QED
    BY <1>1, <1>3, <1>4 DEF Calm, ImageCalm

\* Nobody else works while f does.
LEMMA OthersCalm ==
  ASSUME Calm, NEW f \in Forges, Working(f), OthersWork(f)
  PROVE  \A g \in Forges \ {f} : ~Working(g) /\ ~Working(g)'
  BY DEF Calm, ForgeCalm, OthersWork, Working

\* A step of the worker that builds, which leaves the row alone.
LEMMA WorkCalm ==
  ASSUME Calm, NEW f \in Forges, Working(f), OthersWork(f), ForgeCalm(f)',
         UNCHANGED <<image, context, request, tasks>>
  PROVE  Calm'
  <1>1. \A g \in Forges : ForgeCalm(g)'
    BY OthersCalm DEF ForgeCalm
  <1>2. image.stage = "building"
    BY DEF Calm, ForgeCalm
  <1>3. QED
    BY <1>1, <1>2, WaitingCalm DEF Calm

LEMMA BuildsCalm ==
  ASSUME ImagesTypeOK, Calm, NEW f \in Forges,
         \/ Downloads(f) \/ Builds(f) \/ UploadsBlob(f) \/ Scans(f) \/ Pushes(f) \/ Signs(f)
         \/ BuildFails(f) \/ UploadsLog(f)
  PROVE  Calm'
  <1>1. /\ Working(f) /\ ForgeCalm(f) /\ forge[f] \in ForgeRecord
        /\ UNCHANGED <<image, context, request, tasks>>
        /\ context \in Context /\ registry \in [build : Sources, blob : Sources, got : Context,
                                                signed : BOOLEAN]
    BY ForgeTyped DEF Calm, ImagesTypeOK, Working, Downloads, Builds, UploadsBlob, Scans, Pushes,
          Signs, BuildFails, UploadsLog, FailsTold, FailsSilently
  <1>2. /\ image.stage = "building" /\ image.of = forge[f].task /\ context = Own(image.of)
        /\ \A g \in Forges : Working(g) => g = f
    BY <1>1 DEF Calm, ImageCalm, ForgeCalm
  <1>3. ASSUME OthersWork(f), Working(f)', ForgeCalm(f)' PROVE Calm'
    BY <1>1, <1>3, WorkCalm
  <1>4. ASSUME OthersWork(f) PROVE \A g \in Forges : Working(g)' => g = f
    BY <1>2, <1>4 DEF OthersWork, Working
  <1>5. CASE Downloads(f)
    <2>1. /\ OthersWork(f) /\ forge'[f].task = forge[f].task /\ forge'[f].ok = forge[f].ok
          /\ \/ /\ forge[f].pc = "zip" /\ forge'[f].pc = "dockerfile"
                /\ forge'[f].got.zip = context.zip
             \/ /\ forge[f].pc = "dockerfile" /\ forge'[f].pc = "build"
                /\ forge'[f].got = [zip |-> forge[f].got.zip, dockerfile |-> context.dockerfile]
      BY <1>5, ForgeDownloads
    <2>2. context.zip = image.of /\ context.dockerfile = image.of
      BY <1>2 DEF Own
    <2>3. Working(f)'
      BY <2>1 DEF Working
    <2>4. \A g \in Forges : Working(g)' => g = f
      BY <1>4, <2>1
    <2>5. CASE forge'[f].pc = "dockerfile"
      BY <1>1, <1>2, <1>3, <2>1, <2>2, <2>3, <2>4, <2>5 DEF ForgeCalm
    <2>6. CASE forge'[f].pc = "build"
      <3>1. forge'[f].got = Own(image.of)
        BY <1>1, <2>1, <2>2, <2>6 DEF ForgeCalm, Own
      <3>2. QED
        BY <1>1, <1>2, <1>3, <2>1, <2>3, <2>4, <2>6, <3>1 DEF ForgeCalm
    <2>7. QED
      BY <2>1, <2>5, <2>6
  <1>6. CASE Builds(f)
    BY <1>1, <1>2, <1>3, <1>4, <1>6, ForgeSteps DEF Builds, ForgeCalm, Working, ForgePcs
  <1>7. CASE UploadsBlob(f)
    BY <1>1, <1>2, <1>3, <1>4, <1>7, ForgeSteps DEF UploadsBlob, ForgeCalm, Working, ForgePcs
  <1>8. CASE Scans(f)
    BY <1>1, <1>2, <1>3, <1>4, <1>8, ForgeSteps DEF Scans, ForgeCalm, Working, ForgePcs
  <1>9. CASE Pushes(f)
    BY <1>1, <1>2, <1>3, <1>4, <1>9, ForgeSteps DEF Pushes, ForgeCalm, Working, ForgePcs
  <1>10. CASE Signs(f)
    BY <1>1, <1>2, <1>3, <1>4, <1>10, ForgeResults DEF Signs, ForgeCalm, Working, Full
  <1>11. CASE BuildFails(f)
    BY <1>1, <1>2, <1>3, <1>4, <1>11, ForgeResults
       DEF BuildFails, Caught, ForgeCalm, Working, FailsTold, FailsSilently
  <1>12. CASE UploadsLog(f)
    BY <1>1, <1>2, <1>3, <1>4, <1>12, ForgeSteps DEF UploadsLog, ForgeCalm, Working, ForgePcs
  <1>13. QED
    BY <1>5, <1>6, <1>7, <1>8, <1>9, <1>10, <1>11, <1>12

LEMMA ReportsCalm ==
  ASSUME ImagesTypeOK, Calm, NEW f \in Forges, Reports(f)
  PROVE  Calm'
  <1>1. /\ Working(f) /\ ForgeCalm(f) /\ UNCHANGED <<context, request, tasks, registry>>
        /\ OthersWork(f) /\ ~Working(f)'
    BY ForgeRests DEF Reports, Calm, Working
  <1>2. /\ image.stage = "building" /\ image.of \in Requests
        /\ image' = [image EXCEPT !.stage = IF forge[f].ok THEN "built and pushed" ELSE "error"]
        /\ image'.of = image.of /\ image'.stage \in {"built and pushed", "error"}
        /\ image'.stage = "built and pushed" => registry = Full(image.of)
    BY <1>1 DEF Calm, ImageCalm, ForgeCalm, Reports, ImagesTypeOK
  <1>3. \A g \in Forges : ForgeCalm(g)'
    BY <1>1, OthersCalm DEF ForgeCalm
  <1>4. \A r \in Requests : request[r].pc # "flushed" /\ ~Pending(r)
    BY <1>2 DEF Calm, RequestCalm, Pending
  <1>5. ASSUME NEW r \in Requests PROVE RequestCalm(r)'
    BY <1>1, <1>2, <1>4, <1>5 DEF Calm, RequestCalm, Waiting
  <1>6. ASSUME NEW k \in DOMAIN tasks' PROVE TaskCalm(k)'
    BY <1>1, <1>4, <1>6, TaskTyped DEF Calm, TaskCalm
  <1>7. ImageCalm'
    BY <1>1, <1>2 DEF Calm, ImageCalm
  <1>8. \A q, r \in Creating' : q = r
    BY <1>1 DEF Calm, Creating
  <1>9. QED
    BY <1>1, <1>2, <1>3, <1>5, <1>6, <1>7, <1>8 DEF Calm

LEMMA TakesCalm ==
  ASSUME ImagesTypeOK, Calm, NEW f \in Forges, Takes(f), ~trouble'
  PROVE  Calm'
  <1>1. /\ image.stage # "absent" /\ forge[f].pc = "idle" /\ tasks # <<>> /\ Head(tasks) # Upgrade
        /\ tasks' = Tail(tasks) /\ UNCHANGED <<context, request, registry>>
        /\ image' = [image EXCEPT !.stage = "building"]
    BY DEF Takes, Building
  <1>2. /\ OthersWork(f) /\ forge'[f].pc = "zip" /\ forge'[f].task = Head(tasks)
        /\ forge'[f].ok = FALSE
    BY <1>1, ForgeTakes
  <1>3. /\ 1 \in DOMAIN tasks /\ Head(tasks) = tasks[1]
        /\ \A k \in DOMAIN tasks' : k + 1 \in DOMAIN tasks /\ k + 1 # 1 /\ tasks'[k] = tasks[k + 1]
    BY <1>1, TasksTaken
  <1>4. /\ Head(tasks) \in Requests /\ request[Head(tasks)].queued /\ Pending(Head(tasks))
        /\ \A j \in DOMAIN tasks : tasks[j] = Head(tasks) => j = 1
    BY <1>1, <1>3, TaskTyped DEF Calm, TaskCalm
  <1>5. \A r \in Requests : Pending(r) => image.stage = "pending build" /\ image.of = r
    BY <1>1 DEF Calm, RequestCalm, Pending
  <1>6. image.stage = "pending build" /\ image.of = Head(tasks)
    BY <1>4, <1>5
  <1>7. image'.stage = "building" /\ image'.of = Head(tasks)
    BY <1>1, <1>6 DEF ImagesTypeOK
  <1>8. \A g \in Forges : ~Working(g)
    BY <1>6 DEF Calm, ForgeCalm
  <1>9. \A g \in Forges : ForgeCalm(g)'
    BY <1>2, <1>7, <1>8 DEF ForgeCalm, Working, OthersWork
  <1>10. ASSUME NEW r \in Requests PROVE RequestCalm(r)'
    <2>1. r \notin Waiting
      BY <1>4, <1>5, <1>6 DEF Calm, RequestCalm, Waiting
    <2>2. QED
      BY ZenonT(60), <1>1, <1>6, <1>7, <1>10, <2>1 DEF Calm, RequestCalm, Waiting
  <1>11. ASSUME NEW k \in DOMAIN tasks' PROVE TaskCalm(k)'
    <2>1. k + 1 \in DOMAIN tasks /\ k + 1 # 1 /\ tasks'[k] = tasks[k + 1] /\ TaskCalm(k + 1)
      BY <1>3, <1>11 DEF Calm
    <2>2. tasks[k + 1] # Head(tasks)
      BY <1>4, <2>1
    <2>3. tasks[k + 1] # Upgrade => tasks[k + 1] = Head(tasks)
      BY <1>5, <1>6, <2>1, TaskTyped DEF TaskCalm
    <2>4. QED
      BY <2>1, <2>2, <2>3 DEF TaskCalm
  <1>12. ImageCalm'
    BY <1>1, <1>6, <1>7 DEF Calm, ImageCalm
  <1>13. \A q, r \in Creating' : q = r
    BY <1>1 DEF Calm, Creating
  <1>14. QED
    BY <1>7, <1>9, <1>10, <1>11, <1>12, <1>13 DEF Calm

LEMMA UpgradesCalm ==
  ASSUME ImagesTypeOK, Calm, NEW f \in Forges,
         TakesUpgrade(f) \/ BuildsUpgrade(f) \/ SignsUpgrade(f)
  PROVE  Calm'
  <1>1. /\ UNCHANGED <<image, context, request, registry>>
        /\ UNCHANGED tasks \/ (TakesUpgrade(f) /\ tasks # <<>> /\ tasks' = Tail(tasks))
    BY DEF TakesUpgrade, BuildsUpgrade, SignsUpgrade
  <1>2. \A g \in Forges : /\ Working(g)' <=> Working(g)
                          /\ Working(g) => forge'[g] = forge[g]
    BY UpgradeMoves DEF OthersWork, Working
  <1>3. \A g \in Forges : ForgeCalm(g)'
    BY ZenonT(60), <1>1, <1>2 DEF Calm, ForgeCalm
  <1>4. \A r \in Requests : RequestCalm(r)' /\ Pending(r)' = Pending(r)
    BY <1>1 DEF Calm, RequestCalm, Waiting, Pending
  <1>5. ASSUME NEW k \in DOMAIN tasks' PROVE TaskCalm(k)'
    <2>1. CASE UNCHANGED tasks
      BY <1>1, <1>5, <2>1, WaitingCalm
    <2>2. CASE tasks # <<>> /\ tasks' = Tail(tasks)
      <3>1. \A j \in DOMAIN tasks' : j + 1 \in DOMAIN tasks /\ j \in Nat /\ tasks'[j] = tasks[j + 1]
        BY <2>2, TasksTaken
      <3>2. TaskCalm(k + 1) /\ (tasks[k + 1] # Upgrade => tasks[k + 1] \in Requests)
        BY <1>5, <3>1, TaskTyped DEF Calm
      <3>3. ASSUME NEW j \in DOMAIN tasks', tasks[k + 1] # Upgrade, tasks'[j] = tasks'[k]
            PROVE  j = k
        BY <1>5, <3>1, <3>2, <3>3 DEF TaskCalm
      <3>4. QED
        BY <1>1, <1>4, <1>5, <3>1, <3>2, <3>3 DEF TaskCalm
    <2>3. QED
      BY <1>1, <2>1, <2>2
  <1>6. ImageCalm' /\ \A q, r \in Creating' : q = r
    BY <1>1 DEF Calm, ImageCalm, Creating
  <1>7. QED
    BY <1>1, <1>3, <1>4, <1>5, <1>6 DEF Calm

LEMMA OthersTakeCare ==
  ASSUME ImagesTypeOK, Calm, ~trouble',
         DeletesImage \/ OrdersUpgrade \/ \E l \in Readers : Streams(l)
  PROVE  Calm'
  <1>1. CASE DeletesImage
    <2>1. ~Busy /\ Creating = {} /\ image'.stage = "absent" /\ UNCHANGED <<request, tasks, forge>>
      BY <1>1 DEF DeletesImage
    <2>2. tasks = <<>> /\ Waiting = {} /\ \A f \in Forges : ~Working(f)
      BY <2>1 DEF Busy, Working
    <2>3. \A r \in Requests : RequestCalm(r)'
      BY <2>1, <2>2 DEF Calm, RequestCalm, Creating, Waiting
    <2>4. DOMAIN tasks' = {}
      BY <2>1, <2>2
    <2>5. \A f \in Forges : ForgeCalm(f)'
      BY <2>1, <2>2 DEF ForgeCalm, Working
    <2>6. Creating' = {}
      BY <2>1 DEF Creating
    <2>7. QED
      BY <2>1, <2>3, <2>4, <2>5, <2>6 DEF Calm, ImageCalm
  <1>2. CASE \E l \in Readers : Streams(l)
    BY <1>2, StreamsAside, WaitingCalm, WorkersCalm DEF Calm
  <1>3. CASE OrdersUpgrade
    <2>1. /\ UNCHANGED <<image, context, request, forge, registry>> /\ tasks' = Append(tasks, Upgrade)
      BY <1>3 DEF OrdersUpgrade
    <2>2. \A k \in DOMAIN tasks' : \/ k \in DOMAIN tasks /\ tasks'[k] = tasks[k]
                                   \/ tasks'[k] = Upgrade
      BY <2>1, TasksQueued
    <2>3. ASSUME NEW k \in DOMAIN tasks' PROVE TaskCalm(k)'
      <3>1. CASE tasks'[k] = Upgrade
        BY <3>1 DEF TaskCalm
      <3>2. CASE tasks'[k] # Upgrade
        <4>1. k \in DOMAIN tasks /\ tasks'[k] = tasks[k] /\ TaskCalm(k)
          BY <2>2, <2>3, <3>2 DEF Calm
        <4>2. \A j \in DOMAIN tasks' : tasks'[j] = tasks'[k] =>
                                          j \in DOMAIN tasks /\ tasks[j] = tasks[k]
          BY <2>2, <3>2, <4>1
        <4>3. QED
          BY <2>1, <3>2, <4>1, <4>2 DEF TaskCalm, Pending
      <3>3. QED
        BY <3>1, <3>2
    <2>4. \A r \in Requests : RequestCalm(r)'
      BY <2>1 DEF Calm, RequestCalm, Waiting, Pending
    <2>5. QED
      BY <2>1, <2>3, <2>4, WorkersCalm DEF Calm, Creating, ImageCalm
  <1>4. QED
    BY <1>1, <1>2, <1>3

LEMMA ImagesStep == ImagesInv /\ [ImagesNext]_imageVars => ImagesInv'
  <1> SUFFICES ASSUME ImagesInv, [ImagesNext]_imageVars PROVE ImagesInv'
    OBVIOUS
  <1>1. ImagesTypeOK /\ BuildsTyped /\ ImagesTypeOK' /\ BuildsTyped'
    BY ImagesTypes, BuildsStep DEF ImagesInv
  <1>2. ASSUME ~trouble' PROVE Calm'
    <2>1. Calm
      BY <1>1, <1>2, TroubleStays DEF ImagesInv
    <2>2. CASE UNCHANGED imageVars
      BY <2>1, <2>2, WaitingCalm, WorkersCalm DEF imageVars, Calm
    <2>3. ASSUME NEW r \in Requests, Checks(r) \/ RequestNext(r) PROVE Calm'
      BY <1>1, <1>2, <2>1, <2>3, ChecksCalm, UploadsCalm, FlushesCalm, CommitsCalm, KicksCalm,
         SweepsCalm DEF RequestNext
    <2>4. ASSUME NEW f \in Forges, ForgeNext(f) \/ ForgeDies(f) PROVE Calm'
      BY <1>1, <1>2, <2>1, <2>4, TakesCalm, BuildsCalm, ReportsCalm, UpgradesCalm
         DEF ForgeNext, ForgeDies
    <2>5. QED
      BY <1>1, <1>2, <2>1, <2>2, <2>3, <2>4, OthersTakeCare DEF ImagesNext, Streams
  <1>3. QED
    BY <1>1, <1>2 DEF ImagesInv

LEMMA ImagesInvImplies == ImagesInv => ImagesTypeOK /\ BuiltFromOwn
  BY DEF ImagesInv, Calm, BuiltFromOwn, Full, Own


-----------------------------------------------------------------------------
(* Staking. *)

StakerRecord == [pc : {"idle", "stake", "empty"}, failures : 0 .. MaxFailures - 1]

\* A payment is noticed, and its task taken, once.
StakingInv == StakingTypeOK /\ stakeTasks + notices <= paid

LEMMA StakingStart == StakingInit => StakingInv
  <1> SUFFICES ASSUME StakingInit PROVE StakingInv
    OBVIOUS
  <1>1. NoStaker \in StakerRecord
    BY StakingAssumption DEF NoStaker, StakerRecord
  <1>2. staker \in [Stakers -> StakerRecord]
    BY <1>1 DEF StakingInit
  <1>3. /\ paid \in 0 .. MaxFunds /\ free \in 0 .. paid /\ notices \in 0 .. paid
        /\ stakeTasks \in 0 .. paid /\ stakeTasks + notices <= paid
    BY StakingAssumption DEF StakingInit
  <1>4. QED
    BY <1>2, <1>3 DEF StakingInit, StakingInv, StakingTypeOK, StakerRecord

LEMMA StakerMoves ==
  ASSUME StakingTypeOK, NEW s \in Stakers, NEW new \in StakerRecord,
         staker' = [staker EXCEPT ![s] = new]
  PROVE  staker' \in [Stakers -> StakerRecord]
  BY DEF StakingTypeOK, StakerRecord

LEMMA StakerMovesOn ==
  ASSUME StakingTypeOK, NEW s \in Stakers, NEW pc \in {"idle", "stake", "empty"},
         staker' = [staker EXCEPT ![s].pc = pc]
  PROVE  staker' \in [Stakers -> StakerRecord]
  <1> DEFINE new == [staker[s] EXCEPT !.pc = pc]
  <1>1. staker[s] \in StakerRecord
    BY DEF StakingTypeOK, StakerRecord
  <1>2. new \in StakerRecord
    BY <1>1 DEF StakerRecord
  <1>3. staker' = [staker EXCEPT ![s] = new]
    BY DEF StakingTypeOK
  <1> HIDE DEF new
  <1>4. QED
    BY <1>2, <1>3, StakerMoves

LEMMA StakingStep == StakingInv /\ [StakingNext]_stakeVars => StakingInv'
  <1> SUFFICES ASSUME StakingInv, [StakingNext]_stakeVars PROVE StakingInv'
    OBVIOUS
  <1>1. /\ StakingTypeOK /\ stakeTasks + notices <= paid
        /\ paid \in 0 .. MaxFunds /\ free \in 0 .. paid /\ notices \in 0 .. paid
        /\ stakeTasks \in 0 .. paid /\ lock \in BOOLEAN /\ excused \in BOOLEAN
        /\ staker \in [Stakers -> StakerRecord]
        /\ MaxFunds \in Nat /\ MaxFailures \in Nat \ {0}
    BY StakingAssumption DEF StakingInv, StakingTypeOK, StakerRecord
  <1>2. ASSUME staker' \in [Stakers -> StakerRecord], lock' \in BOOLEAN, excused' \in BOOLEAN,
               paid' \in 0 .. MaxFunds, free' \in 0 .. paid', notices' \in 0 .. paid',
               stakeTasks' \in 0 .. paid', stakeTasks' + notices' <= paid'
        PROVE  StakingInv'
    BY <1>2 DEF StakingInv, StakingTypeOK, StakerRecord
  <1>3. NoStaker \in StakerRecord
    BY <1>1 DEF NoStaker, StakerRecord
  <1>4. CASE UNCHANGED stakeVars
    BY <1>1, <1>2, <1>4 DEF stakeVars
  <1>5. CASE Pays \/ Notices
    BY <1>1, <1>2, <1>5 DEF Pays, Notices
  <1>6. CASE LockExpires
    BY <1>1, <1>2, <1>6 DEF LockExpires
  <1>7. ASSUME NEW s \in Stakers, StakerNext(s) PROVE StakingInv'
    <2>1. CASE StartsStake(s)
      <3>1. staker' \in [Stakers -> StakerRecord]
        BY <1>1, <2>1, StakerMovesOn DEF StartsStake
      <3>2. /\ stakeTasks' = stakeTasks - 1 /\ stakeTasks > 0 /\ UNCHANGED <<paid, free, notices>>
        BY <2>1 DEF StartsStake
      <3>3. lock' \in BOOLEAN /\ excused' \in BOOLEAN
        BY <1>1, <2>1 DEF StartsStake
      <3>4. QED
        BY <1>1, <1>2, <3>1, <3>2, <3>3
    <2>2. CASE AddsStake(s)
      <3>1. staker' \in [Stakers -> StakerRecord]
        BY <1>1, <2>2, StakerMovesOn DEF AddsStake
      <3>2. free' \in 0 .. paid' /\ UNCHANGED <<paid, notices, stakeTasks, lock, excused>>
        BY <1>1, <2>2 DEF AddsStake
      <3>3. QED
        BY <1>1, <1>2, <3>1, <3>2
    <2>3. CASE ReleasesStake(s)
      <3>1. staker' \in [Stakers -> StakerRecord]
        BY <1>1, <1>3, <2>3, StakerMoves DEF ReleasesStake
      <3>2. QED
        BY <1>1, <1>2, <2>3, <3>1 DEF ReleasesStake, Unlocked
    <2>4. CASE FailsStake(s)
      <3>1. PICK n \in {staker[s].failures + 1, MaxFailures} :
                IF GivesUp(n)
                  THEN staker' = [staker EXCEPT ![s] = NoStaker] /\ excused' = TRUE
                  ELSE staker' = [staker EXCEPT ![s].failures = n] /\ UNCHANGED excused
        BY <2>4 DEF FailsStake
      <3>2. CASE GivesUp(n)
        BY <1>1, <1>2, <1>3, <2>4, <3>1, <3>2, StakerMoves DEF FailsStake
      <3>3. CASE ~GivesUp(n)
        <4> DEFINE new == [staker[s] EXCEPT !.failures = n]
        <4>1. staker[s] \in StakerRecord
          BY <1>1
        <4>2. n \in 0 .. MaxFailures - 1
          BY <1>1, <3>3, <4>1 DEF GivesUp, StakerRecord
        <4>3. new \in StakerRecord
          BY <4>1, <4>2 DEF StakerRecord
        <4>4. staker' = [staker EXCEPT ![s] = new] /\ UNCHANGED excused
          BY <1>1, <3>1, <3>3
        <4> HIDE DEF new
        <4>5. staker' \in [Stakers -> StakerRecord]
          BY <1>1, <4>3, <4>4, StakerMoves
        <4>6. QED
          BY <1>1, <1>2, <2>4, <4>4, <4>5 DEF FailsStake
      <3>4. QED
        BY <3>2, <3>3
    <2>5. QED
      BY <1>7, <2>1, <2>2, <2>3, <2>4 DEF StakerNext
  <1>8. QED
    BY <1>4, <1>5, <1>6, <1>7 DEF StakingNext


-----------------------------------------------------------------------------
(* Prices. *)

ChargePcs == {"idle", "read override", "cache override", "discount", "read discount",
              "cache discount", "priced"}
ChargeRecord == [pc : ChargePcs, found : (0 .. 100) \cup {NoValue}, price : Nat \cup {NoValue}]

\* What is about to be cached was read.
Read(c) == /\ charge[c].pc = "cache override" => override # NoValue
           /\ charge[c].pc = "cache discount" => charge[c].found \in 0 .. 100

PricesInv == /\ PricesTypeOK
             /\ \A c \in Charges : Read(c)
             /\ revising => revisions < MaxRevisions

LEMMA PricesStart == PricesInit => PricesInv
  <1> SUFFICES ASSUME PricesInit PROVE PricesInv
    OBVIOUS
  <1>1. NoCharge \in ChargeRecord /\ NoCharge.pc = "idle"
    BY DEF NoCharge, ChargeRecord, ChargePcs
  <1>2. charge \in [Charges -> ChargeRecord] /\ \A c \in Charges : charge[c].pc = "idle"
    BY <1>1 DEF PricesInit
  <1>3. priceCache \in Entries
    BY DEF PricesInit, NoEntry, Entry, Entries
  <1>4. revisions \in 0 .. MaxRevisions
    BY PriceAssumption DEF PricesInit
  <1>5. PricesTypeOK
    BY <1>2, <1>3, <1>4 DEF PricesInit, PricesTypeOK, ChargeRecord, ChargePcs
  <1>6. QED
    BY <1>2, <1>5 DEF PricesInit, PricesInv, Read

LEMMA DiscountTyped ==
  ASSUME PricesTypeOK
  PROVE  Discount \in 0 .. 100
  <1>1. discountRow \in [{"chute", "*"} -> (1 .. 100) \cup {NoValue}]
    BY PriceAssumption DEF PricesTypeOK
  <1>2. QED
    BY <1>1 DEF Discount

LEMMA PriceTyped ==
  ASSUME NEW o \in Overrides \cup {NoValue}, NEW d \in 0 .. 100
  PROVE  Price(o, d) \in Nat
  <1>1. CASE o # NoValue /\ o.applies
    BY <1>1, PriceAssumption DEF Price
  <1>2. CASE ~(o # NoValue /\ o.applies)
    <2>1. Quoted \in Nat /\ 100 - d \in Nat
      BY PriceAssumption
    <2>2. Quoted * (100 - d) \in Nat
      BY <2>1
    <2>3. (Quoted * (100 - d)) \div 100 \in Nat
      BY <2>2
    <2>4. QED
      BY <1>2, <2>3 DEF Price
  <1>3. QED
    BY <1>1, <1>2

\* One charge moves on, the others stay.
LEMMA ChargeMoves ==
  ASSUME PricesInv, NEW c \in Charges, NEW new \in ChargeRecord,
         charge' = [charge EXCEPT ![c] = new], UNCHANGED <<discountRow, override, revising, revisions>>,
         priceCache' \in Entries,
         new.pc = "cache override" => override # NoValue,
         new.pc = "cache discount" => new.found \in 0 .. 100
  PROVE  PricesInv'
  <1>1. /\ charge' \in [Charges -> ChargeRecord] /\ charge'[c] = new
        /\ \A d \in Charges \ {c} : charge'[d] = charge[d]
    BY DEF PricesInv, PricesTypeOK, ChargeRecord, ChargePcs
  <1>2. PricesTypeOK'
    BY <1>1 DEF PricesInv, PricesTypeOK, ChargeRecord, ChargePcs
  <1>3. \A d \in Charges : Read(d)'
    BY <1>1 DEF PricesInv, Read
  <1>4. QED
    BY <1>2, <1>3 DEF PricesInv

LEMMA OverriddenMoves ==
  ASSUME PricesInv, NEW c \in Charges, NEW o \in Overrides \cup {NoValue}, Overridden(c, o),
         UNCHANGED <<discountRow, override, revising, revisions>>, priceCache' \in Entries
  PROVE  PricesInv'
  <1>1. CASE o # NoValue /\ o.applies
    <2> DEFINE price == Price(o, 0)
    <2>1. price \in Nat
      BY PriceTyped
    <2> HIDE DEF price
    <2> DEFINE new == [NoCharge EXCEPT !.pc = "priced", !.price = price]
    <2>2. new \in ChargeRecord /\ new.pc = "priced"
      BY <2>1 DEF NoCharge, ChargeRecord, ChargePcs
    <2>3. charge' = [charge EXCEPT ![c] = new]
      BY <1>1 DEF Overridden, price
    <2> HIDE DEF new
    <2>4. QED
      BY <2>2, <2>3, ChargeMoves
  <1>2. CASE ~(o # NoValue /\ o.applies)
    <2> DEFINE new == [NoCharge EXCEPT !.pc = "discount"]
    <2>1. new \in ChargeRecord /\ new.pc = "discount"
      BY DEF NoCharge, ChargeRecord, ChargePcs
    <2>2. charge' = [charge EXCEPT ![c] = new]
      BY <1>2 DEF Overridden
    <2> HIDE DEF new
    <2>3. QED
      BY <2>1, <2>2, ChargeMoves
  <1>3. QED
    BY <1>1, <1>2

LEMMA DiscountedMoves ==
  ASSUME PricesInv, NEW c \in Charges, NEW d \in 0 .. 100, Discounted(c, d),
         UNCHANGED <<discountRow, override, revising, revisions>>, priceCache' \in Entries
  PROVE  PricesInv'
  <1> DEFINE price == Price(NoValue, d)
  <1>1. price \in Nat
    BY PriceTyped
  <1> HIDE DEF price
  <1> DEFINE new == [NoCharge EXCEPT !.pc = "priced", !.price = price]
  <1>2. new \in ChargeRecord /\ new.pc = "priced"
    BY <1>1 DEF NoCharge, ChargeRecord, ChargePcs
  <1>3. charge' = [charge EXCEPT ![c] = new]
    BY DEF Discounted, price
  <1> HIDE DEF new
  <1>4. QED
    BY <1>2, <1>3, ChargeMoves

\* A charge that goes on to another step of its own.
LEMMA ChargeSteps ==
  ASSUME PricesInv, NEW c \in Charges, NEW pc \in ChargePcs \ {"cache override", "cache discount"},
         \/ charge' = [charge EXCEPT ![c].pc = pc]
         \/ charge' = [charge EXCEPT ![c] = [NoCharge EXCEPT !.pc = pc]]
         \/ charge' = [charge EXCEPT ![c] = NoCharge],
         UNCHANGED <<discountRow, override, revising, revisions>>, priceCache' \in Entries
  PROVE  PricesInv'
  <1>1. charge[c] \in ChargeRecord /\ NoCharge \in ChargeRecord /\ NoCharge.pc = "idle"
    BY DEF PricesInv, PricesTypeOK, NoCharge, ChargeRecord, ChargePcs
  <1>2. CASE charge' = [charge EXCEPT ![c].pc = pc]
    <2> DEFINE new == [charge[c] EXCEPT !.pc = pc]
    <2>1. new \in ChargeRecord /\ new.pc = pc
      BY <1>1 DEF ChargeRecord
    <2>2. charge' = [charge EXCEPT ![c] = new]
      BY <1>2 DEF PricesInv, PricesTypeOK
    <2> HIDE DEF new
    <2>3. QED
      BY <2>1, <2>2, ChargeMoves
  <1>3. CASE charge' = [charge EXCEPT ![c] = [NoCharge EXCEPT !.pc = pc]]
    <2> DEFINE new == [NoCharge EXCEPT !.pc = pc]
    <2>1. new \in ChargeRecord /\ new.pc = pc
      BY <1>1 DEF ChargeRecord
    <2>2. charge' = [charge EXCEPT ![c] = new]
      BY <1>3
    <2> HIDE DEF new
    <2>3. QED
      BY <2>1, <2>2, ChargeMoves
  <1>4. CASE charge' = [charge EXCEPT ![c] = NoCharge]
    BY <1>1, <1>4, ChargeMoves
  <1>5. QED
    BY <1>2, <1>3, <1>4

LEMMA EntriesTyped ==
  /\ NoEntry \in Entries
  /\ \A d \in 0 .. 100 : Entry("discount", d) \in Entries
  /\ \A o \in Overrides \ {NoValue} : Entry("override", o) \in Entries
  BY DEF NoEntry, Entry, Entries

LEMMA ParsedTyped ==
  ASSUME PricesTypeOK
  PROVE  /\ Parses("override") => priceCache.value \in Overrides
         /\ Parses("discount") => priceCache.value \in 0 .. 100
  BY DEF PricesTypeOK, Entries, Parses

LEMMA PricesStep == PricesInv /\ [PricesNext]_priceVars => PricesInv'
  <1> SUFFICES ASSUME PricesInv, [PricesNext]_priceVars PROVE PricesInv'
    OBVIOUS
  <1>1. /\ PricesTypeOK /\ priceCache \in Entries /\ override \in Overrides
        /\ discountRow \in DiscountRows /\ revising \in BOOLEAN
        /\ revisions \in 0 .. MaxRevisions /\ MaxRevisions \in Nat
    BY PriceAssumption DEF PricesInv, PricesTypeOK
  <1>2. ASSUME UNCHANGED <<charge, override>>, priceCache' \in Entries,
               discountRow' \in DiscountRows, revising' \in BOOLEAN,
               revisions' \in 0 .. MaxRevisions, revising' => revisions' < MaxRevisions
        PROVE  PricesInv'
    BY <1>2 DEF PricesInv, PricesTypeOK, Read
  <1>3. CASE UNCHANGED priceVars
    BY <1>1, <1>2, <1>3 DEF priceVars, PricesInv
  <1>4. CASE PurgesDiscounts
    BY <1>1, <1>2, <1>4, EntriesTyped DEF PurgesDiscounts
  <1>5. CASE CommitsDiscounts
    <2>1. revisions < MaxRevisions
      BY <1>5 DEF CommitsDiscounts, PricesInv
    <2>2. revisions' \in 0 .. MaxRevisions
      BY <1>1, <1>5, <2>1 DEF CommitsDiscounts
    <2>3. QED
      BY <1>1, <1>2, <1>5, <2>2 DEF CommitsDiscounts
  <1>6. CASE PriceExpires
    BY <1>1, <1>2, <1>6, EntriesTyped DEF PriceExpires, PricesInv
  <1>7. ASSUME NEW c \in Charges, LooksForOverride(c) \/ ChargeNext(c) PROVE PricesInv'
    <2>1. CASE LooksForOverride(c)
      <3>1. CASE Parses("override")
        <4>1. /\ Overridden(c, priceCache.value) /\ priceCache.value \in Overrides
              /\ UNCHANGED <<discountRow, override, revising, revisions, priceCache>>
          BY <1>1, <2>1, <3>1, ParsedTyped DEF LooksForOverride
        <4>2. QED
          BY <1>1, <4>1, OverriddenMoves
      <3>2. CASE ~Parses("override")
        <4>1. /\ charge' = [charge EXCEPT ![c] = [NoCharge EXCEPT !.pc = "read override"]]
              /\ priceCache' = NoEntry /\ UNCHANGED <<discountRow, override, revising, revisions>>
          BY <2>1, <3>2 DEF LooksForOverride
        <4>2. "read override" \in ChargePcs \ {"cache override", "cache discount"}
          BY DEF ChargePcs
        <4>3. priceCache' \in Entries
          BY <4>1, EntriesTyped
        <4>4. QED
          BY <4>1, <4>2, <4>3, ChargeSteps
      <3>3. QED
        BY <3>1, <3>2
    <2>2. CASE ReadsOverride(c)
      <3>1. CASE override = NoValue
        BY <1>1, <2>2, <3>1, OverriddenMoves DEF ReadsOverride
      <3>2. CASE override # NoValue
        <4> DEFINE new == [charge[c] EXCEPT !.pc = "cache override"]
        <4>1. new \in ChargeRecord /\ new.pc = "cache override"
          BY ZenonT(60), <1>1 DEF PricesTypeOK, ChargeRecord, ChargePcs
        <4>2. charge' = [charge EXCEPT ![c] = new]
          BY <1>1, <2>2, <3>2 DEF ReadsOverride, PricesTypeOK
        <4> HIDE DEF new
        <4>3. QED
          BY <1>1, <2>2, <3>2, <4>1, <4>2, ChargeMoves DEF ReadsOverride
      <3>3. QED
        BY <3>1, <3>2
    <2>3. CASE CachesOverride(c)
      <3>1. override \in Overrides \ {NoValue}
        BY <1>1, <2>3 DEF CachesOverride, PricesInv, Read
      <3>2. QED
        BY <2>3, <3>1, EntriesTyped, OverriddenMoves DEF CachesOverride
    <2>4. CASE LooksForDiscount(c)
      <3>1. CASE Parses("discount")
        <4>1. /\ Discounted(c, priceCache.value) /\ priceCache.value \in 0 .. 100
              /\ UNCHANGED <<discountRow, override, revising, revisions, priceCache>>
          BY <1>1, <2>4, <3>1, ParsedTyped DEF LooksForDiscount
        <4>2. QED
          BY <1>1, <4>1, DiscountedMoves
      <3>2. CASE ~Parses("discount")
        <4>1. /\ charge' = [charge EXCEPT ![c].pc = "read discount"]
              /\ priceCache' = NoEntry /\ UNCHANGED <<discountRow, override, revising, revisions>>
          BY <2>4, <3>2 DEF LooksForDiscount
        <4>2. "read discount" \in ChargePcs \ {"cache override", "cache discount"}
          BY DEF ChargePcs
        <4>3. priceCache' \in Entries
          BY <4>1, EntriesTyped
        <4>4. QED
          BY <4>1, <4>2, <4>3, ChargeSteps
      <3>3. QED
        BY <3>1, <3>2
    <2>5. CASE ReadsDiscount(c)
      <3> DEFINE found == Discount
      <3>1. found \in 0 .. 100
        BY <1>1, DiscountTyped
      <3> HIDE DEF found
      <3> DEFINE new == [charge[c] EXCEPT !.found = found, !.pc = "cache discount"]
      <3>2. new \in ChargeRecord /\ new.pc = "cache discount" /\ new.found = found
        BY ZenonT(60), <1>1, <3>1 DEF PricesTypeOK, ChargeRecord, ChargePcs
      <3>3. charge' = [charge EXCEPT ![c] = new]
        BY <1>1, <2>5 DEF ReadsDiscount, PricesTypeOK, found
      <3> HIDE DEF new
      <3>4. QED
        BY <1>1, <2>5, <3>1, <3>2, <3>3, ChargeMoves DEF ReadsDiscount
    <2>6. CASE CachesDiscount(c)
      <3>1. charge[c].found \in 0 .. 100
        BY <2>6 DEF CachesDiscount, PricesInv, Read
      <3>2. QED
        BY <2>6, <3>1, EntriesTyped, DiscountedMoves DEF CachesDiscount
    <2>7. CASE QueuesCharge(c)
      BY <1>1, <2>7, ChargeSteps DEF QueuesCharge, ChargePcs
    <2>8. QED
      BY <1>7, <2>1, <2>2, <2>3, <2>4, <2>5, <2>6, <2>7 DEF ChargeNext
  <1>8. QED
    BY <1>3, <1>4, <1>5, <1>6, <1>7 DEF PricesNext


-----------------------------------------------------------------------------
(* The theorems.  The module of the runs takes steps of one component; each  *)
(* is a step of the component's own specification, or changes nothing of it. *)

\* create_image and forge, the autostaker, QuotaManager, and the discounts share no
\* state: what any of them does, seen through the variables of one, is a behaviour
\* of that one or nothing.
THEOREM SettlingPartsBehave ==
  SettlingSpec => ImagesFairSpec /\ StakingSpec /\ QuotasSpec /\ PricesSpec
  <1>1. SettlingInit => ImagesInit /\ StakingInit /\ QuotasInit /\ PricesInit
    BY DEF SettlingInit
  <1>2. [SettlingNext]_<<part, imageVars, stakeVars, quotaVars, priceVars>> =>
            /\ [ImagesNext]_imageVars
            /\ [StakingNext]_stakeVars
            /\ [QuotasNext]_quotaVars
            /\ [PricesNext]_priceVars
    BY DEF SettlingNext, Stays
  <1>3. QED
    BY <1>1, <1>2, PTL
       DEF SettlingSpec, ImagesFairSpec, ImagesSpec, StakingSpec, QuotasSpec, PricesSpec

\* Every state of any of the four components is of its types.
THEOREM SettlingTypeCorrect == SettlingSpec => []SettlingTypeOK
  <1>1. ImagesSpec => []ImagesInv
    BY ImagesStart, ImagesStep, PTL DEF ImagesSpec
  <1>2. StakingSpec => []StakingInv
    BY StakingStart, StakingStep, PTL DEF StakingSpec
  <1>3. QuotasSpec => []QuotasInv
    BY QuotasStart, QuotasStep, PTL DEF QuotasSpec
  <1>4. PricesSpec => []PricesInv
    BY PricesStart, PricesStep, PTL DEF PricesSpec
  <1>5. ImagesInv /\ StakingInv /\ QuotasInv /\ PricesInv => SettlingTypeOK
    BY ImagesInvImplies, QuotasInvImplies DEF StakingInv, PricesInv, SettlingTypeOK
  <1>6. QED
    BY <1>1, <1>2, <1>3, <1>4, <1>5, SettlingPartsBehave, PTL DEF ImagesFairSpec

\* create_image, forge: what is under the tag of an image that is built is signed and
\* was built, like its hash blob, from the context of the request that made its row,
\* unless creations overlapped, the image was deleted during a build, or one died.
THEOREM ImagesAreOfTheirContext == ImagesSpec => []BuiltFromOwn
  BY ImagesStart, ImagesStep, ImagesInvImplies, PTL DEF ImagesSpec

\* QuotaManager.get, get_subscription_type and the count after an invocation: while
\* the quotas do not change, requests at once exceed one by at most all of them but
\* the one that found room.
THEOREM OverrunIsBounded == QuotasSpec => []OverrunBounded
  BY QuotasStart, QuotasStep, QuotasInvImplies, PTL DEF QuotasSpec

=============================================================================
