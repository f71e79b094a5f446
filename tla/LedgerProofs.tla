---------------------------- MODULE LedgerProofs ----------------------------
(***************************************************************************)
(* Proofs about the ledger, for any number of users, invocations,          *)
(* transfers, administrators' requests, watchers and blocks.               *)
(***************************************************************************)
EXTENDS Ledger, TLAPS

-----------------------------------------------------------------------------
(* Types. *)

WatchRecord == [pc : WatchPcs, block : 0..MaxBlock + 1, latest : 0..MaxBlock,
                known : SUBSET Users, todo : SUBSET Transfers,
                paying : Transfers \cup {NoTransfer}, loaded : Account]
TrackRecord == [pc : TrackPcs, keys : SUBSET Keys, todo : SUBSET Keys, users : SUBSET Users,
                got : [Keys -> SUBSET Charges], loaded : [Users -> Account]]
AdjustRecord == [pc : {"new", "loaded", "done"}, loaded : Account]

\* Where a watcher stands: it works below the head it has seen, and holds a
\* user's balance only while it pays a transfer that is not dust.
Standing(r) ==
    /\ r.pc \notin {"idle", "state"} => r.block \in 1..Tip
    /\ r.pc \in {"refresh", "fetch", "events", "paying", "next"} => r.block <= r.latest /\ r.latest <= Tip
    /\ r.pc \in {"fetch", "events", "paying"} => r.block < r.latest
    /\ r.pc = "paying" => r.paying \in Transfers \ Dust
    /\ r.pc # "paying" => r.loaded = Empty

Bounds == /\ Tip \in 1..MaxBlock /\ monitor.block <= Tip
          /\ \A w \in Watchers : Standing(watch[w])

LEMMA EmptyAccount == Empty \in Account
  BY DEF Empty, Account

LEMMA BookedAccount == ASSUME NEW b \in Account, NEW es PROVE Booked(b, es) \in Account
  BY DEF Booked, Account

LEMMA DownRecord == Down \in WatchRecord
  BY EmptyAccount, WatcherAssumption DEF Down, WatchRecord, WatchPcs

\* One watcher's record is replaced.
LEMMA WatchSet ==
  ASSUME WatcherTypeOK, NEW w \in Watchers, NEW r \in WatchRecord, SetWatch(w, r)
  PROVE  /\ watch' \in [Watchers -> WatchRecord]
         /\ watch'[w] = r
         /\ \A v \in Watchers \ {w} : watch'[v] = watch[v]
  BY DEF WatcherTypeOK, WatchRecord, SetWatch

\* A step of a watcher that leaves the cursor and the payments alone.
LEMMA QuietWatch ==
  ASSUME WatcherTypeOK, Bounds, NEW w \in Watchers, NEW r \in WatchRecord, SetWatch(w, r),
         Standing(r), UNCHANGED <<chain, monitor, payments>>, skipped' \subseteq 1..MaxBlock
  PROVE  WatcherTypeOK' /\ Bounds'
  <1>1. /\ watch' \in [Watchers -> WatchRecord]
        /\ watch'[w] = r
        /\ \A v \in Watchers \ {w} : watch'[v] = watch[v]
    BY WatchSet
  <1>2. WatcherTypeOK'
    BY <1>1 DEF WatcherTypeOK, WatchRecord
  <1>3. Bounds'
    BY <1>1 DEF Bounds, Standing, Tip
  <1>4. QED
    BY <1>2, <1>3

LEMMA WatchTypes ==
  ASSUME AccountsTypeOK, WatcherTypeOK, Bounds, NEW w \in Watchers, WatchStep(w)
  PROVE  WatcherTypeOK' /\ Bounds'
  <1> DEFINE x == watch[w]
  <1>0. x \in WatchRecord /\ Standing(x)
    BY DEF WatcherTypeOK, WatchRecord, Bounds
  <1> HIDE DEF x
  <1>d. Down \in WatchRecord
    BY DownRecord
  <1>t. Tip \in 1..MaxBlock /\ MaxBlock \in Nat /\ monitor.block \in 1..Tip /\ MaxRecovery \in Nat \ {0}
    BY WatcherAssumption DEF Bounds, WatcherTypeOK
  <1>h. Tip \in 0..MaxBlock
    BY <1>t
  <1>1. CASE Lock(w)
    <2> DEFINE r == [Down EXCEPT !.pc = "state"]
    <2>1. r \in WatchRecord /\ Standing(r)
      BY <1>d DEF WatchRecord, WatchPcs, Standing, Down
    <2>2. SetWatch(w, r)
      BY <1>1 DEF Lock
    <2> HIDE DEF r
    <2>3. /\ watch' \in [Watchers -> WatchRecord]
          /\ watch'[w] = r
          /\ \A v \in Watchers \ {w} : watch'[v] = watch[v]
      BY <2>1, <2>2, WatchSet
    <2>4. UNCHANGED <<chain, payments, skipped>> /\ monitor' = [monitor EXCEPT !.locked = TRUE, !.stale = FALSE]
      BY <1>1 DEF Lock
    <2>5. WatcherTypeOK'
      BY <2>3, <2>4 DEF WatcherTypeOK, WatchRecord
    <2>6. Bounds'
      BY <2>1, <2>3, <2>4 DEF Bounds, Standing, Tip, WatcherTypeOK
    <2>7. QED
      BY <2>5, <2>6
  <1>2. CASE GetState(w)
    <2> DEFINE from == IF Tip - monitor.block > MaxRecovery THEN Tip - MaxRecovery ELSE monitor.block
               r == [x EXCEPT !.pc = "latest", !.block = from]
    <2>1. from \in 1..Tip /\ from \in 0..MaxBlock + 1
      BY <1>t
    <2> HIDE DEF from
    <2>2. r \in WatchRecord /\ Standing(r)
      <3>1. x.pc = "state" /\ x.loaded = Empty /\ x.latest \in 0..MaxBlock
        BY <1>0, <1>2 DEF GetState, Standing, WatchRecord, x
      <3>2. r \in WatchRecord
        BY <1>0, <2>1, <3>1 DEF WatchRecord, WatchPcs
      <3>3. /\ r.pc = "latest" /\ r.block = from
            /\ r.loaded = Empty
        BY <1>0, <3>1 DEF WatchRecord
      <3> HIDE DEF r
      <3>4. QED
        BY <1>0, <1>2, <1>t, <2>1, <3>1, <3>2, <3>3 DEF Standing
    <2>3. SetWatch(w, r) /\ UNCHANGED <<chain, monitor, payments>> /\ skipped' \subseteq 1..MaxBlock
      BY <1>2 DEF GetState, x, from, WatcherTypeOK
    <2> HIDE DEF r
    <2>4. QED
      BY <2>2, <2>3, QuietWatch
  <1>3. CASE GetLatest(w)
    <2> DEFINE r == [x EXCEPT !.pc = "refresh", !.latest = Tip]
    <2>1. r \in WatchRecord /\ Standing(r)
      <3>1. x.pc = "latest" /\ x.loaded = Empty /\ x.latest \in 0..MaxBlock /\ x.block \in 1..Tip
        BY <1>0, <1>3 DEF GetLatest, Standing, WatchRecord, x
      <3>2. r \in WatchRecord
        BY <1>0, <1>h, <3>1 DEF WatchRecord, WatchPcs
      <3>3. /\ r.pc = "refresh" /\ r.block = x.block /\ r.latest = Tip
            /\ r.loaded = Empty
        BY <1>0, <3>1 DEF WatchRecord
      <3> HIDE DEF r
      <3>4. QED
        BY <1>0, <1>3, <1>t, <3>1, <3>2, <3>3 DEF Standing
    <2>2. SetWatch(w, r) /\ UNCHANGED <<chain, monitor, payments, skipped>>
      BY <1>3 DEF GetLatest, x
    <2> HIDE DEF r
    <2>3. QED
      BY <2>1, <2>2, QuietWatch DEF WatcherTypeOK
  <1>4. CASE Refresh(w)
    <2> DEFINE r == [x EXCEPT !.known = @ \cup registered,
                              !.pc = IF x.block = x.latest THEN "next" ELSE "fetch"]
    <2>1. r \in WatchRecord /\ Standing(r)
      <3>1. x.pc = "refresh" /\ x.loaded = Empty /\ x.latest \in 0..MaxBlock /\ x.block \in 1..Tip /\ x.block <= x.latest /\ x.latest <= Tip
        BY <1>0, <1>4 DEF Refresh, Standing, WatchRecord, x
      <3>2. r \in WatchRecord
        BY <1>0, <3>1 DEF WatchRecord, WatchPcs, AccountsTypeOK
      <3>3. /\ r.pc = (IF x.block = x.latest THEN "next" ELSE "fetch") /\ r.block = x.block /\ r.latest = x.latest
            /\ r.loaded = Empty
        BY <1>0, <3>1 DEF WatchRecord, AccountsTypeOK
      <3> HIDE DEF r
      <3>4. QED
        BY <1>0, <1>4, <1>t, <3>1, <3>2, <3>3 DEF Standing
    <2>2. SetWatch(w, r) /\ UNCHANGED <<chain, monitor, payments, skipped>>
      BY <1>4 DEF Refresh, x
    <2> HIDE DEF r
    <2>3. QED
      BY <2>1, <2>2, QuietWatch DEF WatcherTypeOK
  <1>5. CASE Wait(w)
    <2> DEFINE r == [x EXCEPT !.pc = AfterWait, !.latest = Tip]
    <2>1. r \in WatchRecord /\ Standing(r)
      <3>1. x.pc = "next" /\ x.loaded = Empty /\ x.latest \in 0..MaxBlock /\ x.block \in 1..Tip
        BY <1>0, <1>5 DEF Wait, Standing, WatchRecord, x
      <3>2. r \in WatchRecord
        BY <1>0, <1>h, <3>1 DEF WatchRecord, WatchPcs, AfterWait
      <3>3. /\ r.pc = "refresh" /\ r.block = x.block /\ r.latest = Tip
            /\ r.loaded = Empty
        BY <1>0, <3>1 DEF WatchRecord, AfterWait
      <3> HIDE DEF r
      <3>4. QED
        BY <1>0, <1>5, <1>t, <3>1, <3>2, <3>3 DEF Standing
    <2>2. SetWatch(w, r) /\ UNCHANGED <<chain, monitor, payments, skipped>>
      BY <1>5 DEF Wait, x
    <2> HIDE DEF r
    <2>3. QED
      BY <2>1, <2>2, QuietWatch DEF WatcherTypeOK
  <1>6. CASE Advance(w)
    <2> DEFINE r == [x EXCEPT !.pc = "fetch"]
    <2>1. r \in WatchRecord /\ Standing(r)
      BY <1>0, <1>6, <1>t DEF WatchRecord, WatchPcs, Standing, Advance, x
    <2>2. SetWatch(w, r) /\ UNCHANGED <<chain, monitor, payments, skipped>>
      BY <1>6 DEF Advance, x
    <2> HIDE DEF r
    <2>3. QED
      BY <2>1, <2>2, QuietWatch DEF WatcherTypeOK
  <1>7. CASE Fetch(w)
    <2> DEFINE r == [x EXCEPT !.pc = "events",
                              !.todo = {t \in chain[x.block] : TransferTo[t] \in x.known}]
    <2>1. chain[x.block] \subseteq Transfers
      BY <1>0, <1>7, <1>t DEF Standing, Fetch, x, WatcherTypeOK, Tip
    <2>2. r \in WatchRecord /\ Standing(r)
      BY <1>0, <1>7, <1>t, <2>1 DEF WatchRecord, WatchPcs, Standing, Fetch, x
    <2>3. SetWatch(w, r) /\ UNCHANGED <<chain, monitor, payments, skipped>>
      BY <1>7 DEF Fetch, x
    <2> HIDE DEF r
    <2>4. QED
      BY <2>2, <2>3, QuietWatch DEF WatcherTypeOK
  <1>8. CASE \E t \in Transfers : PayLoad(w, t)
    <2>1. PICK t \in Transfers : PayLoad(w, t)
      BY <1>8
    <2> DEFINE loads == [x EXCEPT !.todo = @ \ {t}, !.pc = "paying", !.paying = t,
                                  !.loaded = balance[TransferTo[t]]]
               r == IF t \in Dust THEN [x EXCEPT !.todo = @ \ {t}] ELSE loads
    <2>2. balance[TransferTo[t]] \in Account
      BY WatcherAssumption DEF AccountsTypeOK
    <2>3. r \in WatchRecord /\ Standing(r)
      BY <1>0, <1>t, <2>1, <2>2 DEF WatchRecord, WatchPcs, Standing, PayLoad, x
    <2>4. SetWatch(w, r) /\ UNCHANGED <<chain, monitor, payments, skipped>>
      BY <2>1 DEF PayLoad, x
    <2> HIDE DEF r
    <2>5. QED
      BY <2>3, <2>4, QuietWatch DEF WatcherTypeOK
  <1>9. CASE PayCommit(w)
    <2> DEFINE r == [x EXCEPT !.pc = "events", !.paying = NoTransfer, !.loaded = Empty]
    <2>1. r \in WatchRecord /\ Standing(r)
      BY <1>0, <1>9, <1>t, EmptyAccount DEF WatchRecord, WatchPcs, Standing, PayCommit, x
    <2>2. SetWatch(w, r) /\ UNCHANGED <<chain, monitor, skipped>>
      BY <1>9 DEF PayCommit, x
    <2>3. payments' \subseteq Ids
      BY <1>0, <1>9 DEF PayCommit, Ids, WatcherTypeOK, Standing, x
    <2> HIDE DEF r
    <2>4. /\ watch' \in [Watchers -> WatchRecord]
          /\ watch'[w] = r
          /\ \A v \in Watchers \ {w} : watch'[v] = watch[v]
      BY <2>1, <2>2, WatchSet
    <2>5. WatcherTypeOK'
      BY <2>2, <2>3, <2>4 DEF WatcherTypeOK, WatchRecord
    <2>6. Bounds'
      BY <2>1, <2>2, <2>4 DEF Bounds, Standing, Tip
    <2>7. QED
      BY <2>5, <2>6
  <1>10. CASE SaveState(w)
    <2> DEFINE r == [x EXCEPT !.pc = "next", !.block = @ + 1]
    <2>1. r \in WatchRecord /\ Standing(r)
      <3>1. /\ x.pc = "events" /\ x.loaded = Empty /\ x.latest \in 0..MaxBlock
            /\ x.block \in 1..Tip /\ x.block < x.latest /\ x.latest <= Tip
        BY <1>0, <1>10 DEF SaveState, Standing, WatchRecord, x
      <3>2. x.block + 1 \in 0..MaxBlock + 1 /\ x.block + 1 \in 1..Tip /\ x.block + 1 <= x.latest
        BY <1>t, <3>1
      <3>3. r \in WatchRecord
        BY <1>0, <3>2 DEF WatchRecord, WatchPcs
      <3>4. r.pc = "next" /\ r.block = x.block + 1 /\ r.latest = x.latest /\ r.loaded = Empty
        BY <1>0, <3>1 DEF WatchRecord
      <3> HIDE DEF r
      <3>5. QED
        BY <3>1, <3>2, <3>3, <3>4 DEF Standing
    <2>2. SetWatch(w, r) /\ UNCHANGED <<chain, payments, skipped>>
      BY <1>10 DEF SaveState, x
    <2>3. /\ monitor' \in [block : 1..MaxBlock, locked : BOOLEAN, stale : BOOLEAN]
          /\ monitor'.block <= Tip
      <3>1. x.block \in 1..Tip /\ x.block \in 1..MaxBlock
        BY <1>0, <1>10, <1>t DEF SaveState, Standing, x
      <3>2. monitor' = [monitor EXCEPT !.block = x.block, !.stale = FALSE] \/ monitor' = monitor
        BY <1>10 DEF SaveState, Saved, x
      <3>3. monitor \in [block : 1..MaxBlock, locked : BOOLEAN, stale : BOOLEAN]
        BY DEF WatcherTypeOK
      <3>4. CASE monitor' = monitor
        BY <1>t, <3>3, <3>4
      <3>5. CASE monitor' = [monitor EXCEPT !.block = x.block, !.stale = FALSE]
        <4>1. monitor' \in [block : 1..MaxBlock, locked : BOOLEAN, stale : BOOLEAN]
          BY <3>1, <3>3, <3>5
        <4>2. monitor'.block = x.block
          BY <3>3, <3>5
        <4>3. QED
          BY <3>1, <4>1, <4>2
      <3>6. QED
        BY <3>2, <3>4, <3>5
    <2> HIDE DEF r
    <2>4. /\ watch' \in [Watchers -> WatchRecord]
          /\ watch'[w] = r
          /\ \A v \in Watchers \ {w} : watch'[v] = watch[v]
      BY <2>1, <2>2, WatchSet
    <2>5. WatcherTypeOK'
      BY <2>2, <2>3, <2>4 DEF WatcherTypeOK, WatchRecord
    <2>6. Bounds'
      BY <2>1, <2>2, <2>3, <2>4 DEF Bounds, Standing, Tip
    <2>7. QED
      BY <2>5, <2>6
  <1>11. QED
    BY <1>1, <1>2, <1>3, <1>4, <1>5, <1>6, <1>7, <1>8, <1>9, <1>10 DEF WatchStep

LEMMA FailTypes ==
  ASSUME WatcherTypeOK, Bounds, NEW w \in Watchers, Fail(w) \/ Die(w)
  PROVE  WatcherTypeOK' /\ Bounds'
  <1>1. SetWatch(w, Down) /\ UNCHANGED <<chain, payments, skipped>>
    BY DEF Fail, Die
  <1>2. /\ monitor' \in [block : 1..MaxBlock, locked : BOOLEAN, stale : BOOLEAN]
        /\ monitor'.block = monitor.block
    BY DEF Fail, Die, WatcherTypeOK
  <1>3. /\ watch' \in [Watchers -> WatchRecord]
        /\ watch'[w] = Down
        /\ \A v \in Watchers \ {w} : watch'[v] = watch[v]
    BY <1>1, DownRecord, WatchSet
  <1>4. WatcherTypeOK'
    BY <1>1, <1>2, <1>3 DEF WatcherTypeOK, WatchRecord
  <1>5. Bounds'
    BY <1>1, <1>2, <1>3 DEF Bounds, Standing, Tip, Down
  <1>6. QED
    BY <1>4, <1>5

LEMMA ChainTypes ==
  ASSUME WatcherTypeOK, Bounds, ChainStep
  PROVE  WatcherTypeOK' /\ Bounds'
  <1>1. CASE LockExpires
    <2>1. /\ monitor' \in [block : 1..MaxBlock, locked : BOOLEAN, stale : BOOLEAN]
          /\ monitor'.block = monitor.block
      BY <1>1 DEF LockExpires, WatcherTypeOK
    <2>2. UNCHANGED <<chain, watch, payments, skipped>>
      BY <1>1 DEF LockExpires
    <2>3. QED
      BY <2>1, <2>2 DEF WatcherTypeOK, Bounds, Standing, Tip
  <1>2. ASSUME NEW ts \in SUBSET Transfers, NewBlock(ts) PROVE WatcherTypeOK' /\ Bounds'
    <2>1. chain' = Append(chain, ts) /\ UNCHANGED <<monitor, watch, payments, skipped>> /\ Tip < MaxBlock
      BY <1>2 DEF NewBlock
    <2>2. chain' \in Seq(SUBSET Transfers) /\ Len(chain') = Len(chain) + 1
      BY <2>1 DEF WatcherTypeOK
    <2>3. WatcherTypeOK'
      BY <2>1, <2>2 DEF WatcherTypeOK
    <2>4. Tip \in 1..MaxBlock /\ Tip' = Tip + 1 /\ MaxBlock \in Nat /\ monitor.block \in 1..MaxBlock
      BY <2>2, WatcherAssumption DEF Bounds, Tip, WatcherTypeOK
    <2>5. ASSUME NEW v \in Watchers PROVE Standing(watch[v])'
      <3>1. watch[v] \in WatchRecord /\ Standing(watch[v]) /\ watch'[v] = watch[v]
        BY <2>1 DEF WatcherTypeOK, WatchRecord, Bounds
      <3>2. watch[v].block \in Nat /\ watch[v].latest \in Nat
        BY <3>1 DEF WatchRecord
      <3>3. QED
        BY <2>4, <3>1, <3>2 DEF Standing
    <2>6. QED
      BY <2>1, <2>3, <2>4, <2>5 DEF Bounds
  <1>3. QED
    BY <1>1, <1>2 DEF ChainStep

LEMMA BillTypes == ASSUME UsageTypeOK, NEW c \in Charges, Bill(c) PROVE UsageTypeOK'
  BY DEF UsageTypeOK, Bill

LEMMA RestingRecord == Resting \in TrackRecord
  BY EmptyAccount DEF Resting, TrackRecord, TrackPcs

LEMMA TrackTypes ==
  ASSUME AccountsTypeOK, UsageTypeOK, TrackStep \/ TrackFail
  PROVE  UsageTypeOK'
  <1>0. tracker \in TrackRecord /\ Resting \in TrackRecord
    BY RestingRecord DEF UsageTypeOK, TrackRecord
  <1>1. CASE TrackScan
    <2>1. [Resting EXCEPT !.pc = "reading", !.keys = Found, !.todo = Found] \in TrackRecord
      BY <1>0 DEF TrackRecord, TrackPcs, Found
    <2>2. QED
      BY <1>1, <2>1 DEF TrackScan, UsageTypeOK, TrackRecord
  <1>2. ASSUME NEW k \in Keys, TrackRead(k) PROVE UsageTypeOK'
    <2>1. [tracker EXCEPT !.todo = @ \ {k}, !.got = [@ EXCEPT ![k] = pending[k]]] \in TrackRecord
      BY <1>0 DEF TrackRecord, UsageTypeOK
    <2>2. QED
      BY <1>2, <2>1 DEF TrackRead, UsageTypeOK, TrackRecord
  <1>3. CASE TrackAllRead
    <2> DEFINE us == {KeyUser[k] : k \in tracker.keys}
    <2>1. us \subseteq Users
      BY <1>0, UsageAssumption DEF TrackRecord
    <2>2. tracker' = [tracker EXCEPT !.pc = "loading", !.users = us]
      BY <1>3 DEF TrackAllRead
    <2> HIDE DEF us
    <2>3. tracker' \in TrackRecord
      BY <1>0, <2>1, <2>2 DEF TrackRecord, TrackPcs
    <2>4. QED
      BY <1>3, <2>3 DEF TrackAllRead, UsageTypeOK, TrackRecord
  <1>4. ASSUME NEW u \in Users, TrackLoad(u) PROVE UsageTypeOK'
    <2>1. [tracker EXCEPT !.users = @ \ {u}, !.loaded = [@ EXCEPT ![u] = balance[u]]] \in TrackRecord
      BY <1>0 DEF TrackRecord, AccountsTypeOK
    <2>2. QED
      BY <1>4, <2>1 DEF TrackLoad, UsageTypeOK, TrackRecord
  <1>5. CASE TrackAllLoaded \/ TrackDelete
    <2>1. \/ tracker' = [tracker EXCEPT !.pc = "deleting"] /\ pending' = pending
          \/ tracker' = [tracker EXCEPT !.pc = "committing"] /\ pending' = DeleteHashes
      BY <1>5 DEF TrackAllLoaded, TrackDelete
    <2>2. tracker' \in TrackRecord
      BY <1>0, <2>1 DEF TrackRecord, TrackPcs
    <2>3. pending' \in [Keys -> SUBSET Charges]
      BY <2>1 DEF DeleteHashes, UsageTypeOK
    <2>4. QED
      BY <1>5, <2>2, <2>3 DEF TrackAllLoaded, TrackDelete, UsageTypeOK, TrackRecord
  <1>6. CASE TrackCommit
    <2>1. usage' \in [Keys -> [Charges -> Nat]]
      BY <1>6 DEF TrackCommit, Recorded, UsageTypeOK
    <2>2. QED
      BY <1>0, <1>6, <2>1 DEF TrackCommit, UsageTypeOK, TrackRecord
  <1>7. CASE TrackFail
    <2>1. [Resting EXCEPT !.pc = "failed"] \in TrackRecord
      BY <1>0 DEF TrackRecord, TrackPcs
    <2>2. QED
      BY <1>7, <2>1 DEF TrackFail, UsageTypeOK, TrackRecord
  <1>8. QED
    BY <1>1, <1>2, <1>3, <1>4, <1>5, <1>6, <1>7 DEF TrackStep

LEMMA AccountTypes ==
  ASSUME TypeOK, Next
  PROVE  AccountsTypeOK'
  <1>0. /\ registered \subseteq Users /\ balance \in [Users -> Account] /\ written \subseteq Users
        /\ adjust \in [Adjustments -> AdjustRecord]
    BY DEF TypeOK, AccountsTypeOK, AdjustRecord
  <1>1. ASSUME NEW u \in Users, Register(u) PROVE AccountsTypeOK'
    BY <1>0, <1>1 DEF Register, AccountsTypeOK, AdjustRecord
  <1>2. ASSUME NEW a \in Adjustments, AdjustLoad(a) PROVE AccountsTypeOK'
    <2>1. balance[AdjustedUser[a]] \in Account
      BY <1>0, AccountsAssumption
    <2>2. adjust' \in [Adjustments -> AdjustRecord]
      BY <1>0, <1>2, <2>1 DEF AdjustLoad, AdjustRecord
    <2>3. QED
      BY <1>0, <1>2, <2>2 DEF AdjustLoad, AccountsTypeOK, AdjustRecord
  <1>3. ASSUME NEW a \in Adjustments, AdjustCommit(a) PROVE AccountsTypeOK'
    <2>1. adjust' \in [Adjustments -> AdjustRecord] /\ adjust[a].loaded \in Account
      BY <1>0, <1>3 DEF AdjustCommit, AdjustRecord
    <2>2. Booked(adjust[a].loaded, {a}) \in Account
      BY <2>1, BookedAccount
    <2>3. balance' \in [Users -> Account]
      BY <1>0, <1>3, <2>2, AccountsAssumption DEF AdjustCommit
    <2>4. QED
      BY <1>0, <1>3, <2>1, <2>3 DEF AdjustCommit, AccountsTypeOK, AdjustRecord
  <1>4. CASE Tracking
    <2>1. UNCHANGED <<registered, adjust>>
      BY <1>4 DEF Tracking
    <2>2. CASE TrackCommit
      <3>1. ASSUME NEW u \in Users PROVE Booked(tracker.loaded[u], Deducted(u)) \in Account
        BY BookedAccount DEF TypeOK, UsageTypeOK
      <3>2. balance' \in [Users -> Account]
        BY <1>0, <2>2, <3>1 DEF TrackCommit
      <3>3. QED
        BY <1>0, <2>1, <2>2, <3>2 DEF TrackCommit, AccountsTypeOK, AdjustRecord
    <2>3. CASE \E u \in Users : TrackLoad(u)
      <3>1. {KeyUser[k] : k \in tracker.keys} \subseteq Users
        BY UsageAssumption DEF TypeOK, UsageTypeOK
      <3>2. written' \subseteq Users /\ UNCHANGED balance
        BY <2>3, <3>1 DEF TrackLoad
      <3>3. QED
        BY <1>0, <2>1, <3>2 DEF AccountsTypeOK, AdjustRecord
    <2>4. CASE TrackScan \/ TrackAllRead \/ TrackAllLoaded \/ TrackDelete \/ \E k \in Keys : TrackRead(k)
      <3>1. UNCHANGED <<balance, written>>
        BY <2>4 DEF TrackScan, TrackAllRead, TrackAllLoaded, TrackDelete, TrackRead
      <3>2. QED
        BY <1>0, <2>1, <3>1 DEF AccountsTypeOK, AdjustRecord
    <2>5. QED
      BY <1>4, <2>2, <2>3, <2>4 DEF Tracking, TrackStep
  <1>5. ASSUME NEW w \in Watchers, Watching(w) PROVE AccountsTypeOK'
    <2>1. UNCHANGED <<registered, adjust>>
      BY <1>5 DEF Watching
    <2>2. CASE PayCommit(w)
      <3>1. Booked(watch[w].loaded, {watch[w].paying}) \in Account
        BY BookedAccount DEF TypeOK, WatcherTypeOK
      <3>2. balance' \in [Users -> Account] /\ UNCHANGED written
        BY <1>0, <2>2, <3>1 DEF PayCommit
      <3>3. QED
        BY <1>0, <2>1, <3>2 DEF AccountsTypeOK, AdjustRecord
    <2>3. CASE UNCHANGED <<balance, written>>
      BY <1>0, <2>1, <2>3 DEF AccountsTypeOK, AdjustRecord
    <2>4. QED
      BY <1>5, <2>2, <2>3
         DEF Watching, WatchStep, Lock, GetState, GetLatest, Refresh, Wait, Advance, Fetch, SaveState, PayLoad
  <1>6. CASE Billing \/ TrackerFails \/ Chain \/ WatcherFails
    <2>1. UNCHANGED <<registered, adjust, balance>> /\ written' \subseteq Users
      BY <1>0, <1>6 DEF Billing, Bill, TrackerFails, TrackFail, Chain, ChainStep, LockExpires, NewBlock,
                        WatcherFails, Fail, Die
    <2>2. QED
      BY <1>0, <2>1 DEF AccountsTypeOK, AdjustRecord
  <1>7. QED
    BY <1>1, <1>2, <1>3, <1>4, <1>5, <1>6 DEF Next, Accounting

LEMMA TypeInit == Init => TypeOK /\ Bounds
  <1> SUFFICES ASSUME Init PROVE TypeOK /\ Bounds
    OBVIOUS
  <1>1. AccountsTypeOK
    BY EmptyAccount DEF Init, AccountsInit, AccountsTypeOK
  <1>2. UsageTypeOK
    <2>1. tracker \in TrackRecord
      BY RestingRecord DEF Init, UsageInit
    <2>2. QED
      BY <2>1 DEF Init, UsageInit, UsageTypeOK, TrackRecord
  <1>3. PICK ts \in SUBSET Incoming : chain = <<ts>>
    BY DEF Init, WatcherInit
  <1>4. chain \in Seq(SUBSET Transfers) /\ Len(chain) = 1
    BY <1>3 DEF Incoming
  <1>5. watch \in [Watchers -> WatchRecord] /\ \A w \in Watchers : watch[w] = Down
    BY DownRecord DEF Init, WatcherInit
  <1>6. monitor = [block |-> 1, locked |-> FALSE, stale |-> FALSE] /\ 1 \in 1..MaxBlock
    BY WatcherAssumption DEF Init, WatcherInit
  <1>7. WatcherTypeOK
    BY <1>4, <1>5, <1>6 DEF Init, WatcherInit, WatcherTypeOK, WatchRecord
  <1>8. Bounds
    BY <1>4, <1>5, <1>6 DEF Bounds, Standing, Down, Tip
  <1>9. QED
    BY <1>1, <1>2, <1>7, <1>8 DEF TypeOK

LEMMA TypeStep == TypeOK /\ Bounds /\ [Next]_vars => (TypeOK /\ Bounds)'
  <1> SUFFICES ASSUME TypeOK, Bounds, [Next]_vars PROVE TypeOK' /\ Bounds'
    OBVIOUS
  <1>0. AccountsTypeOK /\ UsageTypeOK /\ WatcherTypeOK
    BY DEF TypeOK
  <1>1. CASE UNCHANGED usageVars /\ UNCHANGED watcherVars
    <2>1. UsageTypeOK' /\ WatcherTypeOK'
      BY <1>0, <1>1 DEF usageVars, watcherVars, UsageTypeOK, WatcherTypeOK
    <2>2. Bounds'
      BY <1>1 DEF watcherVars, Bounds, Standing, Tip
    <2>3. AccountsTypeOK'
      BY <1>0, AccountTypes DEF vars, AccountsTypeOK
    <2>4. QED
      BY <2>1, <2>2, <2>3 DEF TypeOK
  <1>2. CASE Next /\ UNCHANGED watcherVars /\ (Billing \/ Tracking \/ TrackerFails)
    <2>1. UsageTypeOK'
      BY <1>0, <1>2, BillTypes, TrackTypes DEF Billing, Tracking, TrackerFails
    <2>2. WatcherTypeOK' /\ Bounds'
      BY <1>0, <1>2 DEF watcherVars, WatcherTypeOK, Bounds, Standing, Tip
    <2>3. QED
      BY <1>2, <2>1, <2>2, AccountTypes DEF TypeOK
  <1>3. CASE Next /\ UNCHANGED usageVars /\ (Chain \/ WatcherFails \/ \E w \in Watchers : Watching(w))
    <2>1. UsageTypeOK'
      BY <1>0, <1>3 DEF usageVars, UsageTypeOK
    <2>2. WatcherTypeOK' /\ Bounds'
      BY <1>0, <1>3, ChainTypes, FailTypes, WatchTypes DEF Chain, WatcherFails, Watching
    <2>3. QED
      BY <1>3, <2>1, <2>2, AccountTypes DEF TypeOK
  <1>4. QED
    BY <1>1, <1>2, <1>3
       DEF Next, vars, Accounting, Billing, Tracking, TrackerFails, Chain, WatcherFails, Watching

\* Every variable of the ledger keeps its type; the watchers stay within the
\* chain they have seen.
THEOREM TypeCorrect == Spec => []TypeOK
  <1>1. TypeOK /\ Bounds /\ [Next]_vars => (TypeOK /\ Bounds)'
    BY TypeStep
  <1>2. QED
    BY <1>1, TypeInit, PTL DEF Spec

-----------------------------------------------------------------------------
(* The accounting of usage is applied at most once. *)

\* What the tracker holds has been billed and is not in usage_data; until it
\* deletes the hashes they hold it too, and after that they hold only what came later.
Handling ==
    /\ \A k \in Keys, c \in Charges :
          /\ c \in pending[k] \cup tracker.got[k] => c \in made /\ k \in BilledKeys(c) /\ usage[k][c] = 0
          /\ usage[k][c] \in {0, 1}
          /\ usage[k][c] = 1 => c \in made /\ k \in BilledKeys(c)
          /\ c \in tracker.got[k] => k \in tracker.keys
          /\ c \in tracker.got[k] /\ tracker.pc \in {"reading", "loading", "deleting"} => c \in pending[k]
          /\ c \in tracker.got[k] /\ tracker.pc = "committing" => c \notin pending[k]
    /\ tracker.pc \in {"idle", "failed"} => \A k \in Keys : tracker.got[k] = {}
    /\ tracker.todo \subseteq tracker.keys

LEMMA HandlingInit == Init => Handling
  BY DEF Init, UsageInit, Handling, Resting

LEMMA HandlingBill ==
  ASSUME UsageTypeOK, Handling, NEW c \in Charges, Bill(c)
  PROVE  Handling'
  BY DEF UsageTypeOK, Handling, Bill

LEMMA HandlingTrack ==
  ASSUME UsageTypeOK, Handling, TrackStep \/ TrackFail
  PROVE  Handling'
  <1>0. tracker \in TrackRecord
    BY DEF UsageTypeOK, TrackRecord
  <1>1. CASE TrackScan
    <2>1. /\ tracker'.pc = "reading" /\ tracker'.todo = tracker'.keys
          /\ \A k \in Keys : tracker'.got[k] = {}
      BY <1>1 DEF TrackScan, Resting
    <2>2. QED
      BY <1>1, <2>1 DEF TrackScan, Handling
  <1>2. ASSUME NEW k \in Keys, TrackRead(k) PROVE Handling'
    <2>1. /\ tracker.pc = "reading" /\ tracker'.pc = "reading" /\ k \in tracker.keys
          /\ tracker'.keys = tracker.keys /\ tracker'.todo \subseteq tracker.todo
          /\ tracker'.got = [tracker.got EXCEPT ![k] = pending[k]]
          /\ UNCHANGED <<made, pending, usage>>
      BY <1>0, <1>2 DEF TrackRead, TrackRecord, Handling
    <2>2. \A l \in Keys : tracker'.got[l] = IF l = k THEN pending[k] ELSE tracker.got[l]
      BY <1>0, <2>1 DEF TrackRecord
    <2>3. QED
      BY <2>1, <2>2 DEF Handling
  <1>3. CASE TrackAllRead \/ TrackAllLoaded \/ \E u \in Users : TrackLoad(u)
    <2>1. /\ tracker.pc \in {"reading", "loading"} /\ tracker'.pc \in {"loading", "deleting"}
          /\ tracker'.keys = tracker.keys /\ tracker'.todo = tracker.todo
          /\ tracker'.got = tracker.got
          /\ UNCHANGED <<made, pending, usage>>
      BY <1>0, <1>3 DEF TrackAllRead, TrackAllLoaded, TrackLoad, TrackRecord
    <2>2. QED
      BY <2>1 DEF Handling
  <1>4. CASE TrackDelete
    <2>1. /\ tracker.pc = "deleting" /\ tracker'.pc = "committing"
          /\ tracker'.keys = tracker.keys /\ tracker'.todo = tracker.todo
          /\ tracker'.got = tracker.got
          /\ UNCHANGED <<made, usage>>
      BY <1>0, <1>4 DEF TrackDelete, TrackRecord
    <2>2. \A k \in Keys : pending'[k] = IF k \in tracker.keys THEN {} ELSE pending[k]
      BY <1>4 DEF TrackDelete, DeleteHashes
    <2>3. QED
      BY <2>1, <2>2 DEF Handling
  <1>5. CASE TrackCommit
    <2>1. \A k \in Keys, c \in Charges :
             usage'[k][c] = IF c \in tracker.got[k] THEN usage[k][c] + 1 ELSE usage[k][c]
      BY <1>5 DEF TrackCommit, Recorded
    <2>2. /\ tracker.pc = "committing" /\ tracker'.pc = "idle" /\ tracker'.keys = {} /\ tracker'.todo = {}
          /\ \A k \in Keys : tracker'.got[k] = {}
          /\ UNCHANGED <<made, pending>>
      BY <1>5 DEF TrackCommit, Resting
    <2>3. QED
      BY <2>1, <2>2 DEF Handling
  <1>6. CASE TrackFail
    <2>1. /\ tracker'.pc = "failed" /\ tracker'.keys = {} /\ tracker'.todo = {}
          /\ \A k \in Keys : tracker'.got[k] = {}
          /\ UNCHANGED <<made, pending, usage>>
      BY <1>6 DEF TrackFail, Resting
    <2>2. QED
      BY <2>1 DEF Handling
  <1>7. QED
    BY <1>1, <1>2, <1>3, <1>4, <1>5, <1>6 DEF TrackStep

LEMMA HandlingStep == TypeOK /\ Handling /\ [Next]_vars => Handling'
  <1> SUFFICES ASSUME TypeOK, Handling, [Next]_vars PROVE Handling'
    OBVIOUS
  <1>1. CASE Billing
    BY <1>1, HandlingBill DEF Billing, TypeOK
  <1>2. CASE Tracking \/ TrackerFails
    BY <1>2, HandlingTrack DEF Tracking, TrackerFails, TypeOK
  <1>3. CASE UNCHANGED usageVars
    BY <1>3 DEF usageVars, Handling
  <1>4. QED
    BY <1>1, <1>2, <1>3 DEF Next, vars, Accounting, Chain, WatcherFails, Watching

\* Fate, as long as the tracker handles what it should.
LEMMA FateIs ==
  ASSUME Handling, NEW k \in Keys, NEW c \in Charges
  PROVE  Fate(<<k, c>>) = IF usage[k][c] = 1 THEN "applied"
                          ELSE IF c \in pending[k] \cup tracker.got[k] THEN "waiting"
                          ELSE IF c \in made /\ k \in BilledKeys(c) THEN "lost" ELSE "none"
  BY DEF Handling, Fate

LEMMA FateMoves ==
  ASSUME TypeOK, Handling, Handling', [Next]_vars, NEW k \in Keys, NEW c \in Charges
  PROVE  LET i == <<k, c>> IN
         Fate(i)' # Fate(i) => <<Fate(i), Fate(i)'>> \in Once!Moves
  <1> DEFINE i == <<k, c>>
             got == tracker.got[k]
  <1>0. Fate(i) = IF usage[k][c] = 1 THEN "applied"
                  ELSE IF c \in pending[k] \cup got THEN "waiting"
                  ELSE IF c \in made /\ k \in BilledKeys(c) THEN "lost" ELSE "none"
    BY FateIs
  <1>1. Fate(i)' = IF usage'[k][c] = 1 THEN "applied"
                   ELSE IF c \in pending'[k] \cup tracker'.got[k] THEN "waiting"
                   ELSE IF c \in made' /\ k \in BilledKeys(c) THEN "lost" ELSE "none"
    BY DEF Handling, Fate
  <1>2. tracker \in TrackRecord
    BY DEF TypeOK, UsageTypeOK, TrackRecord
  <1>3. CASE Billing
    <2>1. PICK b \in Charges : Bill(b)
      BY <1>3 DEF Billing
    <2>2. /\ b \notin made /\ made' = made \cup {b} /\ UNCHANGED <<usage, tracker>>
          /\ pending'[k] = IF k \in BilledKeys(b) THEN pending[k] \cup {b} ELSE pending[k]
      BY <2>1 DEF Bill
    <2>3. QED
      BY <1>0, <1>1, <2>2 DEF Handling, Once!Moves
  <1>4. CASE TrackScan \/ TrackAllRead \/ TrackAllLoaded \/ \E u \in Users : TrackLoad(u)
    <2>1. CASE TrackScan
      <3>1. tracker'.got[k] = {} /\ got = {} /\ UNCHANGED <<made, pending, usage>>
        BY <2>1 DEF TrackScan, Resting, Handling
      <3>2. QED
        BY <1>0, <1>1, <3>1
    <2>2. CASE TrackAllRead \/ TrackAllLoaded \/ \E u \in Users : TrackLoad(u)
      <3>1. tracker'.got = tracker.got /\ UNCHANGED <<made, pending, usage>>
        BY <1>2, <2>2 DEF TrackAllRead, TrackAllLoaded, TrackLoad, TrackRecord
      <3>2. QED
        BY <1>0, <1>1, <3>1
    <2>3. QED
      BY <1>4, <2>1, <2>2
  <1>5. ASSUME NEW l \in Keys, TrackRead(l)
        PROVE  Fate(i)' = Fate(i)
    <2>1. UNCHANGED <<made, pending, usage>> /\ tracker'.got[k] \in {got, pending[k]} /\ tracker.pc = "reading"
      BY <1>2, <1>5 DEF TrackRead, TrackRecord
    <2>2. c \in got => c \in pending[k]
      BY <2>1 DEF Handling
    <2>3. QED
      BY <1>0, <1>1, <2>1, <2>2
  <1>6. CASE TrackDelete
    <2>1. tracker'.got = tracker.got /\ pending'[k] \subseteq pending[k] /\ UNCHANGED <<made, usage>>
      BY <1>2, <1>6 DEF TrackDelete, DeleteHashes, TrackRecord
    <2>2. QED
      BY <1>0, <1>1, <2>1 DEF Handling, Once!Moves
  <1>7. CASE TrackCommit
    <2>1. /\ UNCHANGED <<made, pending>> /\ tracker'.got[k] = {} /\ tracker.pc = "committing"
          /\ usage'[k][c] = IF c \in got THEN usage[k][c] + 1 ELSE usage[k][c]
      BY <1>7 DEF TrackCommit, Recorded, Resting
    <2>2. QED
      BY <1>0, <1>1, <2>1 DEF Handling, Once!Moves
  <1>8. CASE TrackFail
    <2>1. UNCHANGED <<made, pending, usage>> /\ tracker'.got[k] = {}
      BY <1>8 DEF TrackFail, Resting
    <2>2. QED
      BY <1>0, <1>1, <2>1 DEF Handling, Once!Moves
  <1>9. CASE UNCHANGED usageVars
    BY <1>9, <1>0, <1>1 DEF usageVars
  <1>10. QED
    BY <1>3, <1>4, <1>5, <1>6, <1>7, <1>8, <1>9
       DEF Next, vars, Accounting, Tracking, TrackStep, TrackerFails, Chain, WatcherFails, Watching

LEMMA OnceInit == Init => Once!Init
  <1> SUFFICES ASSUME Init, NEW i \in Items PROVE Fate(i) = "none"
    BY DEF Once!Init
  <1>1. PICK k \in Keys, c \in Charges : i = <<k, c>>
    BY DEF Items
  <1>2. usage[k][c] = 0 /\ pending[k] = {} /\ tracker.got[k] = {} /\ made = {}
    BY DEF Init, UsageInit, Resting
  <1>3. QED
    BY <1>1, <1>2 DEF Fate

LEMMA OnceStep ==
  TypeOK /\ Handling /\ Handling' /\ [Next]_vars => [Once!Move]_[i \in Items |-> Fate(i)]
  <1> SUFFICES ASSUME TypeOK, Handling, Handling', [Next]_vars
               PROVE  Once!Move
    OBVIOUS
  <1>1. ASSUME NEW i \in Items
        PROVE  /\ Fate(i)' \in Once!Fates
               /\ Fate(i)' # Fate(i) => <<Fate(i), Fate(i)'>> \in Once!Moves
    <2>1. PICK k \in Keys, c \in Charges : i = <<k, c>>
      BY DEF Items
    <2>2. Fate(i)' \in Once!Fates
      BY <2>1 DEF Fate, Handling, Once!Fates
    <2>3. QED
      BY <2>1, <2>2, FateMoves
  <1>2. QED
    BY <1>1 DEF Once!Move

\* An amount enters usage_data at most once and a lost amount stays lost,
\* wherever process_balance_changes fails and whatever is billed meanwhile.
THEOREM UsageIsAppliedOnce == Spec => AppliedOnce
  <1>1. Init => TypeOK /\ Bounds /\ Handling /\ Once!Init
    BY TypeInit, HandlingInit, OnceInit
  <1>2. TypeOK /\ Bounds /\ Handling /\ [Next]_vars => (TypeOK /\ Bounds /\ Handling)'
    BY TypeStep, HandlingStep
  <1>3. TypeOK /\ Handling /\ Handling' /\ [Next]_vars => [Once!Move]_[i \in Items |-> Fate(i)]
    BY OnceStep
  <1>4. QED
    BY <1>1, <1>2, <1>3, PTL DEF Spec, AppliedOnce, Once!Spec

-----------------------------------------------------------------------------
(* Balances: every account that some transaction may still write back is   *)
(* explained.                                                              *)

\* b is u's balance or a copy of it in some transaction's hands.
Held(b, u) == \/ b = Empty
              \/ b = balance[u]
              \/ b = tracker.loaded[u]
              \/ \E a \in Adjustments : AdjustedUser[a] = u /\ b = adjust[a].loaded
              \/ \E w \in Watchers : /\ watch[w].pc = "paying" /\ TransferTo[watch[w].paying] = u
                                     /\ b = watch[w].loaded

\* A transaction writes u's balance: the copy d with the entries es booked.
Written(u, d, es) ==
    \/ \E a \in Adjustments : AdjustCommit(a) /\ AdjustedUser[a] = u /\ d = adjust[a].loaded /\ es = {a}
    \/ TrackCommit /\ d = tracker.loaded[u] /\ es = Deducted(u)
    \/ \E w \in Watchers : /\ PayCommit(w) /\ FreshPayment(watch[w].paying)
                           /\ TransferTo[watch[w].paying] = u
                           /\ d = watch[w].loaded /\ es = {watch[w].paying}

LEMMA HeldAccount == ASSUME TypeOK, NEW u \in Users, NEW b, Held(b, u) PROVE b \in Account
  BY EmptyAccount DEF TypeOK, AccountsTypeOK, UsageTypeOK, WatcherTypeOK, Held

LEMMA WrittenHeld ==
  ASSUME TypeOK, NEW u \in Users, NEW d, NEW es, Written(u, d, es)
  PROVE  Held(d, u)
  BY DEF Written, Held, PayCommit

LEMMA HeldByAdjust ==
  ASSUME TypeOK, NEW a \in Adjustments, AdjustLoad(a) \/ AdjustCommit(a), UNCHANGED <<usageVars, watcherVars>>,
         NEW u \in Users, NEW b, Held(b, u)'
  PROVE  Held(b, u) \/ \E d, es : Written(u, d, es) /\ b = Booked(d, es)
  <1>0. adjust \in [Adjustments -> AdjustRecord] /\ balance \in [Users -> Account]
    BY DEF TypeOK, AccountsTypeOK, AdjustRecord
  <1>1. UNCHANGED <<tracker, watch>>
    BY DEF usageVars, watcherVars
  <1>2. CASE AdjustLoad(a)
    <2>1. balance' = balance /\ adjust' = [adjust EXCEPT ![a] = [pc |-> "loaded", loaded |-> balance[AdjustedUser[a]]]]
      BY <1>2 DEF AdjustLoad
    <2>2. \A c \in Adjustments : adjust'[c].loaded = IF c = a THEN balance[AdjustedUser[a]] ELSE adjust[c].loaded
      BY <1>0, <2>1
    <2>3. Held(b, u)
      BY <1>1, <2>1, <2>2 DEF Held
    <2>4. QED
      BY <2>3
  <1>3. CASE AdjustCommit(a)
    <2> DEFINE v == AdjustedUser[a]
               n == Booked(adjust[a].loaded, {a})
    <2>1. balance' = [balance EXCEPT ![v] = n] /\ adjust' = [adjust EXCEPT ![a].pc = "done"]
      BY <1>3 DEF AdjustCommit
    <2> HIDE DEF n
    <2>2. \A c \in Adjustments : adjust'[c].loaded = adjust[c].loaded
      BY <1>0, <2>1 DEF AdjustRecord
    <2>3. CASE u = v /\ b = n
      BY <1>3, <2>3 DEF Written, n
    <2>4. CASE b # balance'[u]
      <3>1. Held(b, u)
        BY <1>1, <2>2, <2>4 DEF Held
      <3>2. QED
        BY <3>1
    <2>5. CASE b = balance'[u] /\ u # v
      <3>1. Held(b, u)
        BY <1>0, <2>1, <2>5 DEF Held
      <3>2. QED
        BY <3>1
    <2>6. QED
      BY <1>0, <2>1, <2>3, <2>4, <2>5
  <1>4. QED
    BY <1>2, <1>3

LEMMA HeldByTracker ==
  ASSUME TypeOK, TrackStep \/ TrackFail, UNCHANGED <<adjust, watcherVars>>,
         NEW u \in Users, NEW b, Held(b, u)'
  PROVE  Held(b, u) \/ \E d, es : Written(u, d, es) /\ b = Booked(d, es)
  <1>0. tracker \in TrackRecord /\ balance \in [Users -> Account]
    BY DEF TypeOK, UsageTypeOK, AccountsTypeOK, TrackRecord
  <1>1. UNCHANGED <<adjust, watch>>
    BY DEF watcherVars
  <1>2. CASE TrackCommit
    <2>1. tracker'.loaded[u] = Empty
      BY <1>2 DEF TrackCommit, Resting
    <2>2. balance'[u] = IF Deducted(u) = {} THEN balance[u] ELSE Booked(tracker.loaded[u], Deducted(u))
      BY <1>2 DEF TrackCommit
    <2>3. CASE b = Booked(tracker.loaded[u], Deducted(u))
      BY <1>2, <2>3 DEF Written
    <2>4. CASE b # Booked(tracker.loaded[u], Deducted(u))
      <3>1. Held(b, u)
        BY <1>1, <2>1, <2>2, <2>4 DEF Held
      <3>2. QED
        BY <3>1
    <2>5. QED
      BY <2>3, <2>4
  <1>3. CASE ~TrackCommit
    <2>1. balance' = balance
      BY <1>3 DEF TrackStep, TrackFail, TrackScan, TrackRead, TrackAllRead, TrackLoad, TrackAllLoaded, TrackDelete
    <2>2. tracker'.loaded[u] \in {Empty, balance[u], tracker.loaded[u]}
      <3>1. CASE TrackScan \/ TrackFail
        BY <3>1 DEF TrackScan, TrackFail, Resting
      <3>2. ASSUME NEW k \in Keys, TrackRead(k) PROVE tracker'.loaded = tracker.loaded
        BY <1>0, <3>2 DEF TrackRead, TrackRecord
      <3>3. CASE TrackAllRead \/ TrackAllLoaded \/ TrackDelete
        <4>1. tracker'.loaded = tracker.loaded
          BY <1>0, <3>3 DEF TrackAllRead, TrackAllLoaded, TrackDelete, TrackRecord
        <4>2. QED
          BY <4>1
      <3>4. ASSUME NEW v \in Users, TrackLoad(v) PROVE tracker'.loaded[u] \in {balance[u], tracker.loaded[u]}
        <4>1. tracker'.loaded = [tracker.loaded EXCEPT ![v] = balance[v]]
          BY <1>0, <3>4 DEF TrackLoad, TrackRecord
        <4>2. QED
          BY <1>0, <4>1 DEF TrackRecord
      <3>5. QED
        BY <1>3, <3>1, <3>2, <3>3, <3>4 DEF TrackStep
    <2>3. Held(b, u)
      BY <1>1, <2>1, <2>2 DEF Held
    <2>4. QED
      BY <2>3
  <1>4. QED
    BY <1>2, <1>3

\* A watcher that pays after a step has just loaded the user, and the others stand still.
LEMMA PaysWhatItLoaded ==
  ASSUME TypeOK, NEW w \in Watchers, WatchStep(w) \/ Fail(w) \/ Die(w)
  PROVE  /\ watch'[w].pc = "paying" => watch'[w].loaded = balance[TransferTo[watch'[w].paying]]
         /\ \A v \in Watchers \ {w} : watch'[v] = watch[v]
  <1>0. watch \in [Watchers -> WatchRecord] /\ watch[w] \in WatchRecord
    BY DEF TypeOK, WatcherTypeOK, WatchRecord
  <1> DEFINE x == watch[w]
  <1>1. ASSUME NEW t \in Transfers, PayLoad(w, t)
        PROVE  \/ watch' = [watch EXCEPT ![w] = [x EXCEPT !.todo = @ \ {t}]] /\ x.pc = "events"
               \/ watch' = [watch EXCEPT ![w] = [x EXCEPT !.todo = @ \ {t}, !.pc = "paying", !.paying = t,
                                                        !.loaded = balance[TransferTo[t]]]]
    BY <1>1 DEF PayLoad, SetWatch
  <1>2. CASE \E t \in Transfers : PayLoad(w, t)
    <2>1. PICK t \in Transfers : PayLoad(w, t)
      BY <1>2
    <2>2. \/ watch'[w] = [x EXCEPT !.todo = @ \ {t}] /\ x.pc = "events"
          \/ watch'[w] = [x EXCEPT !.todo = @ \ {t}, !.pc = "paying", !.paying = t,
                                   !.loaded = balance[TransferTo[t]]]
      BY <1>0, <1>1, <2>1
    <2>3. \A v \in Watchers \ {w} : watch'[v] = watch[v]
      BY <1>0, <1>1, <2>1
    <2>4. watch'[w].pc = "paying" => watch'[w].loaded = balance[TransferTo[watch'[w].paying]]
      BY <1>0, <2>2 DEF WatchRecord
    <2>5. QED
      BY <2>3, <2>4
  <1>3. ASSUME NEW r, SetWatch(w, r), r.pc # "paying"
        PROVE  watch'[w].pc # "paying" /\ \A v \in Watchers \ {w} : watch'[v] = watch[v]
    BY <1>0, <1>3 DEF SetWatch
  <1>4. CASE Lock(w) \/ Fail(w) \/ Die(w)
    <2>1. Down.pc # "paying" /\ [Down EXCEPT !.pc = "state"].pc # "paying"
      BY DEF Down
    <2>2. QED
      BY <1>3, <1>4, <2>1 DEF Lock, Fail, Die
  <1>5. CASE GetState(w)
    <2> DEFINE from == IF Tip - monitor.block > MaxRecovery THEN Tip - MaxRecovery ELSE monitor.block
               r == [x EXCEPT !.pc = "latest", !.block = from]
    <2>1. SetWatch(w, r)
      BY <1>5 DEF GetState
    <2>2. r.pc # "paying"
      BY <1>0 DEF WatchRecord
    <2>3. QED
      BY <1>3, <2>1, <2>2
  <1>6. CASE GetLatest(w)
    <2> DEFINE r == [x EXCEPT !.pc = "refresh", !.latest = Tip]
    <2>1. SetWatch(w, r)
      BY <1>6 DEF GetLatest
    <2>2. r.pc # "paying"
      BY <1>0 DEF WatchRecord
    <2>3. QED
      BY <1>3, <2>1, <2>2
  <1>7. CASE Refresh(w)
    <2> DEFINE r == [x EXCEPT !.known = @ \cup registered,
                              !.pc = IF x.block = x.latest THEN "next" ELSE "fetch"]
    <2>1. SetWatch(w, r)
      BY <1>7 DEF Refresh
    <2>2. r.pc # "paying"
      BY <1>0 DEF WatchRecord
    <2>3. QED
      BY <1>3, <2>1, <2>2
  <1>8. CASE Wait(w)
    <2> DEFINE r == [x EXCEPT !.pc = AfterWait, !.latest = Tip]
    <2>1. SetWatch(w, r)
      BY <1>8 DEF Wait
    <2>2. r.pc # "paying"
      BY <1>0 DEF WatchRecord, AfterWait
    <2>3. QED
      BY <1>3, <2>1, <2>2
  <1>9. CASE Advance(w)
    <2> DEFINE r == [x EXCEPT !.pc = "fetch"]
    <2>1. SetWatch(w, r)
      BY <1>9 DEF Advance
    <2>2. r.pc # "paying"
      BY <1>0 DEF WatchRecord
    <2>3. QED
      BY <1>3, <2>1, <2>2
  <1>10. CASE Fetch(w)
    <2> DEFINE ts == {t \in chain[x.block] : TransferTo[t] \in x.known}
               r == [x EXCEPT !.pc = "events", !.todo = ts]
    <2>1. SetWatch(w, r)
      BY <1>10 DEF Fetch
    <2>2. r.pc # "paying"
      <3> HIDE DEF ts
      <3>1. QED
        BY <1>0 DEF WatchRecord
    <2>3. QED
      BY <1>3, <2>1, <2>2
  <1>11. CASE PayCommit(w)
    <2> DEFINE r == [x EXCEPT !.pc = "events", !.paying = NoTransfer, !.loaded = Empty]
    <2>1. SetWatch(w, r)
      BY <1>11 DEF PayCommit
    <2>2. r.pc # "paying"
      BY <1>0 DEF WatchRecord
    <2>3. QED
      BY <1>3, <2>1, <2>2
  <1>12. CASE SaveState(w)
    <2> DEFINE r == [x EXCEPT !.pc = "next", !.block = @ + 1]
    <2>1. SetWatch(w, r)
      BY <1>12 DEF SaveState
    <2>2. r.pc # "paying"
      BY <1>0 DEF WatchRecord
    <2>3. QED
      BY <1>3, <2>1, <2>2
  <1>13. QED
    BY <1>2, <1>4, <1>5, <1>6, <1>7, <1>8, <1>9, <1>10, <1>11, <1>12 DEF WatchStep

LEMMA HeldByWatcher ==
  ASSUME TypeOK, NEW w \in Watchers, WatchStep(w) \/ Fail(w) \/ Die(w), UNCHANGED <<adjust, usageVars>>,
         NEW u \in Users, NEW b, Held(b, u)'
  PROVE  Held(b, u) \/ \E d, es : Written(u, d, es) /\ b = Booked(d, es)
  <1>0. watch \in [Watchers -> WatchRecord] /\ balance \in [Users -> Account]
    BY DEF TypeOK, WatcherTypeOK, AccountsTypeOK, WatchRecord
  <1>1. UNCHANGED <<adjust, tracker>>
    BY DEF usageVars
  <1>2. /\ watch'[w].pc = "paying" => watch'[w].loaded = balance[TransferTo[watch'[w].paying]]
        /\ \A v \in Watchers \ {w} : watch'[v] = watch[v]
    BY PaysWhatItLoaded
  <1>3. CASE b # balance'[u]
    <2>1. Held(b, u)
      BY <1>1, <1>2, <1>3 DEF Held
    <2>2. QED
      BY <2>1
  <1>4. CASE b = balance'[u] /\ balance' # balance
    <2> DEFINE t == watch[w].paying
               n == Booked(watch[w].loaded, {t})
    <2>1. PayCommit(w) /\ FreshPayment(t) /\ balance' = [balance EXCEPT ![TransferTo[t]] = n]
      BY <1>4 DEF WatchStep, Fail, Die, Lock, GetState, GetLatest, Refresh, Wait, Advance, Fetch, PayLoad,
                  PayCommit, SaveState
    <2>2. CASE u = TransferTo[t]
      <3>1. Written(u, watch[w].loaded, {t}) /\ b = n
        BY <1>0, <1>4, <2>1, <2>2 DEF Written
      <3>2. QED
        BY <3>1
    <2>3. CASE u # TransferTo[t]
      <3>1. b = balance[u]
        BY <1>0, <1>4, <2>1, <2>3
      <3>2. QED
        BY <3>1 DEF Held
    <2>4. QED
      BY <2>2, <2>3
  <1>5. CASE b = balance'[u] /\ balance' = balance
    BY <1>5 DEF Held
  <1>6. QED
    BY <1>3, <1>4, <1>5

LEMMA HeldStep ==
  ASSUME TypeOK, [Next]_vars, NEW u \in Users, NEW b, Held(b, u)'
  PROVE  Held(b, u) \/ \E d, es : Written(u, d, es) /\ b = Booked(d, es)
  <1>1. CASE Accounting
    <2>1. CASE \E a \in Adjustments : AdjustLoad(a) \/ AdjustCommit(a)
      BY <1>1, <2>1, HeldByAdjust DEF Accounting
    <2>2. CASE \E v \in Users : Register(v)
      <3>1. Held(b, u)
        BY <1>1, <2>2 DEF Accounting, Register, usageVars, watcherVars, Held
      <3>2. QED
        BY <3>1
    <2>3. QED
      BY <1>1, <2>1, <2>2 DEF Accounting
  <1>2. CASE Tracking \/ TrackerFails
    BY <1>2, HeldByTracker DEF Tracking, TrackerFails
  <1>3. CASE WatcherFails \/ \E w \in Watchers : Watching(w)
    BY <1>3, HeldByWatcher DEF WatcherFails, Watching
  <1>4. CASE UNCHANGED <<balance, tracker, adjust, watch>>
    <2>1. Held(b, u)
      BY <1>4 DEF Held
    <2>2. QED
      BY <2>1
  <1>5. QED
    BY <1>1, <1>2, <1>3, <1>4
       DEF Next, vars, usageVars, watcherVars, Accounting, Register, Billing, Bill, Chain, ChainStep, LockExpires,
           NewBlock

\* An account of u reflects nothing that is not recorded for u, and nothing twice.
Explained(b, u) ==
    /\ \A k \in Keys, c \in Charges :
          b[<<k, c>>] <= IF KeyUser[k] = u /\ u \notin FreeUsers THEN usage[k][c] ELSE 0
    /\ \A a \in Adjustments : b[a] <= IF AdjustedUser[a] = u /\ adjust[a].pc = "done" THEN 1 ELSE 0
    /\ \A t \in Transfers :
          b[t] <= IF TransferTo[t] = u /\ PaymentId[t] \in payments /\ t \notin Dust THEN 1 ELSE 0

Accounted == \A u \in Users, b \in Account : Held(b, u) => Explained(b, u)

\* Of the transfers that share a payment id one at most is credited.
Exclusive ==
    \A u, v \in Users, b, d \in Account, t, s \in Transfers :
        Held(b, u) /\ Held(d, v) /\ t # s /\ PaymentId[t] = PaymentId[s] => b[t] = 0 \/ d[s] = 0

LEMMA Growth ==
  ASSUME TypeOK, [Next]_vars
  PROVE  /\ \A k \in Keys, c \in Charges : usage[k][c] <= usage'[k][c] /\ usage[k][c] \in Nat /\ usage'[k][c] \in Nat
         /\ payments \subseteq payments'
         /\ \A a \in Adjustments : adjust[a].pc = "done" => adjust'[a].pc = "done"
  <1>0. /\ usage \in [Keys -> [Charges -> Nat]]
        /\ adjust \in [Adjustments -> AdjustRecord]
    BY DEF TypeOK, UsageTypeOK, AccountsTypeOK, AdjustRecord
  <1>1. \A k \in Keys, c \in Charges : usage[k][c] <= usage'[k][c] /\ usage[k][c] \in Nat /\ usage'[k][c] \in Nat
    <2>1. CASE TrackCommit
      BY <1>0, <2>1 DEF TrackCommit, Recorded
    <2>2. CASE ~TrackCommit
      <3>1. usage' = usage
        BY <2>2 DEF Next, vars, usageVars, watcherVars, Accounting, Billing, Bill, Tracking, TrackerFails, TrackStep,
                    TrackFail, TrackScan, TrackRead, TrackAllRead, TrackLoad, TrackAllLoaded, TrackDelete, Chain,
                    WatcherFails, Watching
      <3>2. QED
        BY <1>0, <3>1
    <2>3. QED
      BY <2>1, <2>2
  <1>2. payments \subseteq payments'
    <2>1. CASE \E w \in Watchers : WatchStep(w)
      BY <2>1 DEF WatchStep, Lock, GetState, GetLatest, Refresh, Wait, Advance, Fetch, PayLoad, PayCommit, SaveState
    <2>2. CASE UNCHANGED payments
      BY <2>2
    <2>3. QED
      BY <2>1, <2>2 DEF Next, vars, usageVars, watcherVars, Accounting, Billing, Tracking, TrackerFails, Chain,
                        ChainStep, LockExpires, NewBlock, WatcherFails, Fail, Die, Watching
  <1>3. ASSUME NEW a \in Adjustments, adjust[a].pc = "done" PROVE adjust'[a].pc = "done"
    <2>1. CASE UNCHANGED adjust
      BY <1>3, <2>1
    <2>2. ASSUME NEW c \in Adjustments, AdjustLoad(c) \/ AdjustCommit(c) PROVE adjust'[a].pc = "done"
      BY <1>0, <1>3, <2>2 DEF AdjustLoad, AdjustCommit, AdjustRecord
    <2>3. QED
      BY <2>1, <2>2 DEF Next, vars, Accounting, Register, Billing, Tracking, TrackerFails, Chain, WatcherFails, Watching
  <1>4. QED
    BY <1>1, <1>2, <1>3

LEMMA EntryOf ==
  ASSUME NEW b \in Account, NEW es, NEW e \in Entries
  PROVE  b[e] \in Nat /\ Booked(b, es)[e] = IF e \in es THEN b[e] + 1 ELSE b[e]
  BY DEF Account, Booked

LEMMA EntryKinds ==
  /\ \A k \in Keys, c \in Charges :
        <<k, c>> \in Items /\ <<k, c>> \in Entries /\ <<k, c>> \notin Transfers /\ <<k, c>> \notin Adjustments
  /\ \A t \in Transfers : t \in Entries /\ t \notin Items /\ t \notin Adjustments
  /\ \A a \in Adjustments : a \in Entries /\ a \notin Items /\ a \notin Transfers
  BY AccountsAssumption DEF Items, Entries

LEMMA StillExplained ==
  ASSUME TypeOK, [Next]_vars, NEW u \in Users, NEW b \in Account, Explained(b, u)
  PROVE  Explained(b, u)'
  <1>1. \A e \in Entries : b[e] \in Nat
    BY DEF Account
  <1>2. ASSUME NEW k \in Keys, NEW c \in Charges
        PROVE  b[<<k, c>>] <= IF KeyUser[k] = u /\ u \notin FreeUsers THEN usage'[k][c] ELSE 0
    BY <1>1, Growth, EntryKinds DEF Explained
  <1>3. ASSUME NEW a \in Adjustments
        PROVE  b[a] <= IF AdjustedUser[a] = u /\ adjust'[a].pc = "done" THEN 1 ELSE 0
    BY <1>1, Growth, EntryKinds DEF Explained
  <1>4. ASSUME NEW t \in Transfers
        PROVE  b[t] <= IF TransferTo[t] = u /\ PaymentId[t] \in payments' /\ t \notin Dust THEN 1 ELSE 0
    BY <1>1, Growth, EntryKinds DEF Explained
  <1>5. QED
    BY <1>2, <1>3, <1>4 DEF Explained

LEMMA WrittenExplained ==
  ASSUME TypeOK, Bounds, Handling, [Next]_vars, NEW u \in Users, NEW d \in Account, NEW es,
         Explained(d, u), Written(u, d, es)
  PROVE  Explained(Booked(d, es), u)'
  <1> DEFINE n == Booked(d, es)
  <1>0. Explained(d, u)'
    BY StillExplained
  <1>e. \A e \in Entries : d[e] \in Nat /\ n[e] = IF e \in es THEN d[e] + 1 ELSE d[e]
    BY EntryOf
  <1>s. n \in Account
    BY BookedAccount
  <1> HIDE DEF n
  <1>1. CASE \E a \in Adjustments : AdjustCommit(a) /\ AdjustedUser[a] = u /\ es = {a}
    <2>1. PICK a \in Adjustments : AdjustCommit(a) /\ AdjustedUser[a] = u /\ es = {a}
      BY <1>1
    <2>2. adjust[a].pc = "loaded" /\ adjust'[a].pc = "done"
      BY <2>1 DEF AdjustCommit, TypeOK, AccountsTypeOK
    <2>3. d[a] = 0 /\ n[a] = 1
      BY <1>e, <2>1, <2>2, EntryKinds DEF Explained
    <2>4. \A e \in Entries \ {a} : n[e] = d[e]
      BY <1>e, <2>1
    <2>5. ASSUME NEW k \in Keys, NEW c \in Charges
          PROVE  n[<<k, c>>] <= IF KeyUser[k] = u /\ u \notin FreeUsers THEN usage'[k][c] ELSE 0
      BY <1>0, <2>4, EntryKinds DEF Explained
    <2>6. ASSUME NEW b \in Adjustments
          PROVE  n[b] <= IF AdjustedUser[b] = u /\ adjust'[b].pc = "done" THEN 1 ELSE 0
      BY <1>0, <2>1, <2>2, <2>3, <2>4, EntryKinds DEF Explained
    <2>7. ASSUME NEW s \in Transfers
          PROVE  n[s] <= IF TransferTo[s] = u /\ PaymentId[s] \in payments' /\ s \notin Dust THEN 1 ELSE 0
      BY <1>0, <2>4, EntryKinds DEF Explained
    <2>8. QED
      BY <2>5, <2>6, <2>7 DEF Explained, n
  <1>2. CASE TrackCommit /\ es = Deducted(u)
    <2>1. ASSUME NEW k \in Keys, NEW c \in Charges, <<k, c>> \in es
          PROVE  KeyUser[k] = u /\ u \notin FreeUsers /\ usage[k][c] = 0 /\ usage'[k][c] = 1
      <3>1. u \notin FreeUsers /\ KeyUser[k] = u /\ c \in tracker.got[k]
        BY <1>2, <2>1 DEF Deducted
      <3>2. usage[k][c] = 0
        BY <3>1 DEF Handling
      <3>3. QED
        BY <1>2, <3>1, <3>2 DEF TrackCommit, Recorded
    <2>2. es \subseteq Items
      BY <1>2 DEF Deducted
    <2>3. ASSUME NEW k \in Keys, NEW c \in Charges
          PROVE  n[<<k, c>>] <= IF KeyUser[k] = u /\ u \notin FreeUsers THEN usage'[k][c] ELSE 0
      <3>1. CASE <<k, c>> \in es
        BY <1>e, <2>1, <3>1, EntryKinds DEF Explained
      <3>2. CASE <<k, c>> \notin es
        BY <1>0, <1>e, <3>2, EntryKinds DEF Explained
      <3>3. QED
        BY <3>1, <3>2
    <2>4. \A e \in Transfers \cup Adjustments : n[e] = d[e]
      BY <1>e, <2>2, EntryKinds
    <2>5. QED
      BY <1>0, <2>3, <2>4 DEF Explained, n
  <1>3. CASE \E w \in Watchers : /\ PayCommit(w) /\ FreshPayment(watch[w].paying)
                                 /\ TransferTo[watch[w].paying] = u /\ es = {watch[w].paying}
    <2>1. PICK w \in Watchers : /\ PayCommit(w) /\ FreshPayment(watch[w].paying)
                                /\ TransferTo[watch[w].paying] = u /\ es = {watch[w].paying}
      BY <1>3
    <2> DEFINE t == watch[w].paying
    <2>2. t \in Transfers \ Dust /\ PaymentId[t] \notin payments /\ PaymentId[t] \in payments'
      BY <2>1 DEF PayCommit, FreshPayment, Bounds, Standing
    <2> HIDE DEF t
    <2>3. d[t] = 0 /\ n[t] = 1
      BY <1>e, <2>1, <2>2, EntryKinds DEF Explained, t
    <2>4. \A e \in Entries \ {t} : n[e] = d[e]
      BY <1>e, <2>1 DEF t
    <2>5. ASSUME NEW k \in Keys, NEW c \in Charges
          PROVE  n[<<k, c>>] <= IF KeyUser[k] = u /\ u \notin FreeUsers THEN usage'[k][c] ELSE 0
      BY <1>0, <2>2, <2>4, EntryKinds DEF Explained
    <2>6. ASSUME NEW b \in Adjustments
          PROVE  n[b] <= IF AdjustedUser[b] = u /\ adjust'[b].pc = "done" THEN 1 ELSE 0
      BY <1>0, <2>2, <2>4, EntryKinds DEF Explained
    <2>7. ASSUME NEW s \in Transfers
          PROVE  n[s] <= IF TransferTo[s] = u /\ PaymentId[s] \in payments' /\ s \notin Dust THEN 1 ELSE 0
      BY <1>0, <2>1, <2>2, <2>3, <2>4, EntryKinds DEF Explained, t
    <2>8. QED
      BY <2>5, <2>6, <2>7 DEF Explained, n
  <1>4. QED
    BY <1>1, <1>2, <1>3 DEF Written

LEMMA AccountedStep ==
  TypeOK /\ Bounds /\ Handling /\ Accounted /\ [Next]_vars => Accounted'
  <1> SUFFICES ASSUME TypeOK, Bounds, Handling, Accounted, [Next]_vars,
                      NEW u \in Users, NEW b \in Account, Held(b, u)'
               PROVE  Explained(b, u)'
    BY DEF Accounted
  <1>1. CASE Held(b, u)
    BY <1>1, StillExplained DEF Accounted
  <1>2. ASSUME NEW d, NEW es, Written(u, d, es), b = Booked(d, es)
        PROVE  Explained(b, u)'
    <2>1. Held(d, u) /\ d \in Account
      BY <1>2, WrittenHeld, HeldAccount
    <2>2. Explained(d, u)
      BY <2>1 DEF Accounted
    <2>3. Explained(Booked(d, es), u)'
      BY <1>2, <2>1, <2>2, WrittenExplained
    <2>4. QED
      BY <1>2, <2>3 DEF Explained
  <1>3. QED
    BY <1>1, <1>2, HeldStep

\* Only a watcher credits a transfer, and only with a new payment id.
LEMMA WrittenTransfer ==
  ASSUME TypeOK, NEW u, NEW d, NEW es, Written(u, d, es), NEW t \in Transfers, t \in es
  PROVE  \E w \in Watchers : PayCommit(w) /\ FreshPayment(t) /\ watch[w].paying = t /\ es = {t}
  <1>1. \A i \in Deducted(u) : i \in Items
    BY DEF Deducted
  <1>2. QED
    BY <1>1, EntryKinds DEF Written

LEMMA OnePays ==
  ASSUME TypeOK, NEW w \in Watchers, NEW v \in Watchers, PayCommit(w), PayCommit(v)
  PROVE  v = w
  <1>1. SUFFICES ASSUME v # w PROVE FALSE
    OBVIOUS
  <1>2. watch'[v] = watch[v]
    BY <1>1, PaysWhatItLoaded DEF WatchStep
  <1>3. watch[v] \in WatchRecord /\ watch \in [Watchers -> WatchRecord]
    BY DEF TypeOK, WatcherTypeOK, WatchRecord
  <1>4. watch'[v] = [watch[v] EXCEPT !.pc = "events", !.paying = NoTransfer, !.loaded = Empty]
    BY <1>3 DEF PayCommit, SetWatch
  <1>5. watch'[v].pc = "events" /\ watch[v].pc = "paying"
    BY <1>3, <1>4 DEF WatchRecord, PayCommit
  <1>6. QED
    BY <1>2, <1>5

\* A fresh payment id: no account that is held reflects its transfer.
LEMMA FreshIsZero ==
  ASSUME Accounted, NEW u \in Users, NEW b \in Account, Held(b, u), NEW t \in Transfers, FreshPayment(t)
  PROVE  b[t] = 0
  <1>1. b[t] \in Nat
    BY EntryKinds DEF Account
  <1>2. b[t] <= 0
    BY DEF Accounted, Explained, FreshPayment
  <1>3. QED
    BY <1>1, <1>2

LEMMA ExclusiveStep ==
  TypeOK /\ Bounds /\ Accounted /\ Exclusive /\ [Next]_vars => Exclusive'
  <1> SUFFICES ASSUME TypeOK, Bounds, Accounted, Exclusive, [Next]_vars,
                      NEW u \in Users, NEW v \in Users, NEW b \in Account, NEW d \in Account,
                      NEW t \in Transfers, NEW s \in Transfers,
                      Held(b, u)', Held(d, v)', t # s, PaymentId[t] = PaymentId[s]
               PROVE  b[t] = 0 \/ d[s] = 0
    BY DEF Exclusive
  \* What an account had before the step, and whether the step credited the transfer.
  <1>1. ASSUME NEW x \in Users, NEW n \in Account, Held(n, x)', NEW r \in Transfers
        PROVE  \E o \in Account :
                  /\ Held(o, x)
                  /\ \/ n[r] = o[r]
                     \/ \E w \in Watchers : PayCommit(w) /\ FreshPayment(r) /\ watch[w].paying = r
    <2>1. CASE Held(n, x)
      BY <2>1
    <2>2. ASSUME NEW o, NEW es, Written(x, o, es), n = Booked(o, es)
          PROVE  /\ o \in Account /\ Held(o, x)
                 /\ \/ n[r] = o[r]
                    \/ \E w \in Watchers : PayCommit(w) /\ FreshPayment(r) /\ watch[w].paying = r
      <3>1. o \in Account /\ Held(o, x)
        BY <2>2, WrittenHeld, HeldAccount
      <3>2. CASE r \in es
        BY <2>2, <3>1, <3>2, WrittenTransfer
      <3>3. CASE r \notin es
        BY <2>2, <3>1, <3>3, EntryOf, EntryKinds
      <3>4. QED
        BY <3>1, <3>2, <3>3
    <2>3. QED
      BY <1>1, <2>1, <2>2, HeldStep
  <1>2. PICK o \in Account :
           /\ Held(o, u)
           /\ \/ b[t] = o[t]
              \/ \E w \in Watchers : PayCommit(w) /\ FreshPayment(t) /\ watch[w].paying = t
    BY <1>1
  <1>3. PICK p \in Account :
           /\ Held(p, v)
           /\ \/ d[s] = p[s]
              \/ \E w \in Watchers : PayCommit(w) /\ FreshPayment(s) /\ watch[w].paying = s
    BY <1>1
  <1>4. FreshPayment(t) <=> FreshPayment(s)
    BY DEF FreshPayment
  <1>5. CASE b[t] = o[t] /\ d[s] = p[s]
    BY <1>2, <1>3, <1>5 DEF Exclusive
  <1>6. CASE FreshPayment(t) /\ (b[t] = o[t] \/ d[s] = p[s])
    BY <1>2, <1>3, <1>4, <1>6, FreshIsZero
  <1>7. CASE b[t] # o[t] /\ d[s] # p[s]
    BY <1>2, <1>3, <1>7, OnePays
  <1>8. QED
    BY <1>2, <1>3, <1>4, <1>5, <1>6, <1>7

LEMMA BalanceInit == Init => Accounted /\ Exclusive
  <1> SUFFICES ASSUME Init PROVE Accounted /\ Exclusive
    OBVIOUS
  <1>1. ASSUME NEW u \in Users, NEW b, Held(b, u) PROVE b = Empty
    BY <1>1, AccountsAssumption DEF Init, AccountsInit, UsageInit, WatcherInit, Held, Resting, Down
  <1>2. \A e \in Entries : Empty[e] = 0
    BY DEF Empty
  <1>3. usage = [k \in Keys |-> [c \in Charges |-> 0]]
    BY DEF Init, UsageInit
  <1>4. Accounted
    BY <1>1, <1>2, <1>3, EntryKinds DEF Accounted, Explained
  <1>5. Exclusive
    BY <1>1, <1>2, EntryKinds DEF Exclusive
  <1>6. QED
    BY <1>4, <1>5

\* The inductive invariant of the balances.
LedgerInv == TypeOK /\ Bounds /\ Handling /\ Accounted /\ Exclusive

LEMMA LedgerInductive == Spec => []LedgerInv
  <1>1. Init => LedgerInv
    BY TypeInit, HandlingInit, BalanceInit DEF LedgerInv
  <1>2. LedgerInv /\ [Next]_vars => LedgerInv'
    BY TypeStep, HandlingStep, AccountedStep, ExclusiveStep DEF LedgerInv
  <1>3. QED
    BY <1>1, <1>2, PTL DEF Spec

\* No deduction is in a balance twice, in another user's, in a free account's or
\* without its row of usage_data, although tracker, watchers and administrators
\* write back copies they loaded long before.
THEOREM DeductionsAreExplained == Spec => []DeductionsExplained
  <1>1. LedgerInv => DeductionsExplained
    <2> SUFFICES ASSUME LedgerInv, NEW u \in Users
                 PROVE  /\ \A i \in Items : balance[u][i] <= IF KeyUser[i[1]] = u /\ u \notin FreeUsers
                                                              THEN usage[i[1]][i[2]] ELSE 0
                        /\ \A a \in Adjustments : balance[u][a] <= IF AdjustedUser[a] = u THEN 1 ELSE 0
      BY DEF DeductionsExplained
    <2>1. balance[u] \in Account /\ Explained(balance[u], u)
      BY DEF LedgerInv, TypeOK, AccountsTypeOK, Accounted, Held
    <2>2. \A e \in Entries : balance[u][e] \in Nat
      BY <2>1 DEF Account
    <2>3. ASSUME NEW i \in Items
          PROVE  balance[u][i] <= IF KeyUser[i[1]] = u /\ u \notin FreeUsers THEN usage[i[1]][i[2]] ELSE 0
      <3>1. PICK k \in Keys, c \in Charges : i = <<k, c>>
        BY DEF Items
      <3>2. QED
        BY <2>1, <3>1 DEF Explained
    <2>4. ASSUME NEW a \in Adjustments PROVE balance[u][a] <= IF AdjustedUser[a] = u THEN 1 ELSE 0
      BY <2>1, <2>2, EntryKinds DEF Explained
    <2>5. QED
      BY <2>3, <2>4
  <1>2. QED
    BY <1>1, LedgerInductive, PTL

\* However many watchers work at once and however often blocks are replayed, a
\* transfer is credited once, to its receiver, and equal transfers once together.
THEOREM PaymentsAreCreditedOnce == Spec => []CreditedOnce
  <1>1. LedgerInv => CreditedOnce
    <2> SUFFICES ASSUME LedgerInv PROVE CreditedOnce
      OBVIOUS
    <2>1. ASSUME NEW u \in Users PROVE balance[u] \in Account /\ Held(balance[u], u) /\ Explained(balance[u], u)
      BY DEF LedgerInv, TypeOK, AccountsTypeOK, Accounted, Held
    <2>2. ASSUME NEW t \in Transfers
          PROVE  /\ TransferTo[t] \in Users
                 /\ balance[TransferTo[t]][t] \in 0..1
      <3>1. TransferTo[t] \in Users
        BY WatcherAssumption
      <3>2. balance[TransferTo[t]][t] \in Nat
        BY <2>1, <3>1, EntryKinds DEF Account
      <3>3. QED
        BY <2>1, <3>1, <3>2 DEF Explained
    <2>3. ASSUME NEW t \in Transfers, NEW s \in Transfers, t # s, PaymentId[t] = PaymentId[s]
          PROVE  balance[TransferTo[t]][t] + balance[TransferTo[s]][s] <= 1
      <3>1. balance[TransferTo[t]][t] = 0 \/ balance[TransferTo[s]][s] = 0
        BY <2>1, <2>2, <2>3 DEF LedgerInv, Exclusive
      <3>2. QED
        BY <2>2, <3>1
    <2>4. QED
      BY <2>1, <2>3 DEF CreditedOnce, Explained
  <1>2. QED
    BY <1>1, LedgerInductive, PTL

-----------------------------------------------------------------------------
(* The cursor. *)

\* What a watcher knows and has done: it knows the receivers of every block up
\* to the head it has seen, all blocks before its own are covered, and of its
\* own the transfers that it no longer has to handle.
Covering(r) ==
    /\ r.pc \in {"fetch", "events", "paying", "next"} =>
          \A b \in 1..r.latest : \A t \in chain[b] : TransferTo[t] \in r.known
    /\ r.pc \notin {"idle", "state"} => \A b \in 1..Tip : b < r.block => Covered(b)
    /\ r.pc \in {"events", "paying"} =>
          \A t \in chain[r.block] \ Dust :
             \/ t \in r.todo
             \/ PaymentId[t] \in payments
             \/ r.pc = "paying" /\ t = r.paying

Receivers == \A b \in 1..Tip : \A t \in chain[b] : t \in Transfers /\ TransferTo[t] \in registered

CursorInv == Receivers /\ CursorCovers /\ \A w \in Watchers : Covering(watch[w])

LEMMA ChainGrowth ==
  ASSUME TypeOK, Bounds, [Next]_vars
  PROVE  /\ Tip \in Nat /\ Tip' \in Nat /\ Tip <= Tip'
         /\ \A b \in 1..Tip : chain'[b] = chain[b]
         /\ registered \subseteq registered' /\ skipped \subseteq skipped'
  <1>0. chain \in Seq(SUBSET Transfers) /\ Tip \in Nat
    BY DEF TypeOK, WatcherTypeOK, Tip
  <1>1. registered \subseteq registered'
    BY DEF Next, vars, Accounting, Register, AdjustLoad, AdjustCommit, Billing, Tracking, TrackerFails, Chain,
           WatcherFails, Watching
  <1>2. skipped \subseteq skipped'
    <2>1. CASE \E w \in Watchers : WatchStep(w)
      BY <2>1 DEF WatchStep, Lock, GetState, GetLatest, Refresh, Wait, Advance, Fetch, PayLoad, PayCommit, SaveState
    <2>2. CASE UNCHANGED skipped
      BY <2>2
    <2>3. QED
      BY <2>1, <2>2 DEF Next, vars, usageVars, watcherVars, Accounting, Billing, Tracking, TrackerFails, Chain,
                        ChainStep, LockExpires, NewBlock, WatcherFails, Fail, Die, Watching
  <1>3. UNCHANGED chain \/ \E ts \in SUBSET Transfers : chain' = Append(chain, ts)
    <2>1. CASE \E w \in Watchers : WatchStep(w)
      BY <2>1 DEF WatchStep, Lock, GetState, GetLatest, Refresh, Wait, Advance, Fetch, PayLoad, PayCommit, SaveState
    <2>2. QED
      BY <2>1 DEF Next, vars, usageVars, watcherVars, Accounting, Billing, Tracking, TrackerFails, Chain,
                  ChainStep, LockExpires, NewBlock, WatcherFails, Fail, Die, Watching
  <1>4. Tip' \in Nat /\ Tip <= Tip' /\ \A b \in 1..Tip : chain'[b] = chain[b]
    BY <1>0, <1>3 DEF Tip
  <1>5. QED
    BY <1>0, <1>1, <1>2, <1>4

LEMMA StaysCovered ==
  ASSUME TypeOK, Bounds, [Next]_vars, NEW b \in 1..Tip, Covered(b)
  PROVE  Covered(b)'
  BY Growth, ChainGrowth DEF Covered

LEMMA ReceiversStep == TypeOK /\ Bounds /\ Receivers /\ [Next]_vars => Receivers'
  <1> SUFFICES ASSUME TypeOK, Bounds, Receivers, [Next]_vars PROVE Receivers'
    OBVIOUS
  <1>1. CASE UNCHANGED chain
    BY <1>1, ChainGrowth DEF Receivers, Tip
  <1>2. ASSUME NEW ts \in SUBSET Transfers, NewBlock(ts) PROVE Receivers'
    <2>1. chain' = Append(chain, ts) /\ ts \subseteq Incoming
      BY <1>2 DEF NewBlock
    <2>2. Tip' = Tip + 1 /\ chain'[Tip'] = ts /\ \A b \in 1..Tip : chain'[b] = chain[b]
      BY <2>1 DEF Tip, TypeOK, WatcherTypeOK
    <2>3. \A b \in 1..Tip' : b \in 1..Tip \/ b = Tip'
      BY <2>2, ChainGrowth
    <2>4. QED
      BY <2>1, <2>2, <2>3, ChainGrowth DEF Receivers, Incoming
  <1>3. CASE \E w \in Watchers : WatchStep(w)
    <2>1. UNCHANGED chain
      BY <1>3 DEF WatchStep, Lock, GetState, GetLatest, Refresh, Wait, Advance, Fetch, PayLoad, PayCommit, SaveState
    <2>2. QED
      BY <1>1, <2>1
  <1>4. QED
    BY <1>1, <1>2, <1>3
       DEF Next, vars, usageVars, watcherVars, Accounting, Billing, Tracking, TrackerFails, Chain,
           ChainStep, LockExpires, WatcherFails, Fail, Die, Watching

\* A watcher that does not step stays covering.
LEMMA StaysCovering ==
  ASSUME TypeOK, Bounds, [Next]_vars, NEW r \in WatchRecord, Standing(r), Covering(r)
  PROVE  Covering(r)'
  <1>0. r.block \in Nat /\ r.latest \in Nat /\ Tip \in Nat /\ Tip' \in Nat
    BY ChainGrowth DEF WatchRecord
  <1>1. ASSUME r.pc \in {"fetch", "events", "paying", "next"}
        PROVE  \A b \in 1..r.latest : \A t \in chain'[b] : TransferTo[t] \in r.known
    <2>1. \A b \in 1..r.latest : b \in 1..Tip
      BY <1>0, <1>1 DEF Standing
    <2>2. QED
      BY <1>1, <2>1, ChainGrowth DEF Covering
  <1>2. ASSUME r.pc \notin {"idle", "state"}, NEW b \in 1..Tip', b < r.block
        PROVE  Covered(b)'
    <2>1. b \in 1..Tip
      BY <1>0, <1>2 DEF Standing
    <2>2. QED
      BY <1>2, <2>1, StaysCovered DEF Covering
  <1>3. ASSUME r.pc \in {"events", "paying"}
        PROVE  \A t \in chain'[r.block] \ Dust :
                  \/ t \in r.todo
                  \/ PaymentId[t] \in payments'
                  \/ r.pc = "paying" /\ t = r.paying
    <2>1. chain'[r.block] = chain[r.block]
      BY <1>3, ChainGrowth DEF Standing
    <2>2. QED
      BY <1>3, <2>1, Growth DEF Covering
  <1>4. QED
    BY <1>1, <1>2, <1>3 DEF Covering

\* The watcher that steps.
LEMMA CoveringStep ==
  ASSUME TypeOK, Bounds, CursorInv, [Next]_vars, NEW w \in Watchers, WatchStep(w),
         NEW x, x = watch[w]
  PROVE  Covering(watch[w])'
  <1>0. /\ watch \in [Watchers -> WatchRecord] /\ x \in WatchRecord /\ Standing(x) /\ Covering(x)'
        /\ Tip \in 1..MaxBlock /\ Tip' \in Nat /\ MaxBlock \in Nat
    BY StaysCovering, ChainGrowth, WatcherAssumption DEF TypeOK, WatcherTypeOK, WatchRecord, Bounds, CursorInv
  <1>s. ASSUME NEW r, SetWatch(w, r) PROVE watch'[w] = r
    BY <1>0, <1>s DEF SetWatch
  <1>1. CASE Lock(w)
    <2>1. watch'[w] = [Down EXCEPT !.pc = "state"]
      BY <1>1, <1>s DEF Lock
    <2>2. watch'[w].pc = "state"
      BY <2>1 DEF Down
    <2>3. QED
      BY <2>2 DEF Covering
  <1>2. CASE GetState(w)
    <2> DEFINE from == IF Tip - monitor.block > MaxRecovery THEN Tip - MaxRecovery ELSE monitor.block
               r == [x EXCEPT !.pc = "latest", !.block = from]
    <2>1. watch'[w] = r
      BY <1>2, <1>s DEF GetState
    <2>2. r.pc = "latest" /\ r.block = from
      BY <1>0 DEF WatchRecord
    <2>3. monitor.block \in 1..Tip /\ from \in 1..Tip
      BY <1>0, WatcherAssumption DEF Bounds, TypeOK, WatcherTypeOK
    <2>4. ASSUME NEW b \in 1..Tip', b < from PROVE Covered(b)'
      <3>1. b \in 1..Tip
        BY <1>0, <2>3, <2>4
      <3>2. CASE b < monitor.block
        <4>1. Covered(b)
          BY <2>3, <3>1, <3>2 DEF CursorInv, CursorCovers
        <4>2. QED
          BY <3>1, <4>1, StaysCovered
      <3>3. CASE b >= monitor.block
        <4>1. b \in skipped'
          BY <1>0, <1>2, <2>3, <2>4, <3>1, <3>3 DEF GetState
        <4>2. QED
          BY <4>1 DEF Covered
      <3>4. QED
        BY <2>3, <3>1, <3>2, <3>3
    <2> HIDE DEF r, from
    <2>5. QED
      BY <2>1, <2>2, <2>4 DEF Covering
  <1>3. CASE GetLatest(w)
    <2> DEFINE r == [x EXCEPT !.pc = "refresh", !.latest = Tip]
    <2>1. watch'[w] = r
      BY <1>3, <1>s DEF GetLatest
    <2>2. r.pc = "refresh" /\ r.block = x.block /\ x.pc = "latest"
      BY <1>0, <1>3 DEF WatchRecord, GetLatest
    <2> HIDE DEF r
    <2>3. QED
      BY <1>0, <2>1, <2>2 DEF Covering
  <1>4. CASE Refresh(w)
    <2> DEFINE r == [x EXCEPT !.known = @ \cup registered,
                              !.pc = IF x.block = x.latest THEN "next" ELSE "fetch"]
    <2>1. watch'[w] = r
      BY <1>4, <1>s DEF Refresh
    <2>2. /\ r.pc \in {"next", "fetch"} /\ r.block = x.block /\ r.latest = x.latest
          /\ r.known = x.known \cup registered /\ x.pc = "refresh"
      BY <1>0, <1>4 DEF WatchRecord, Refresh
    <2>3. x.latest <= Tip /\ x.latest \in Nat
      BY <1>0, <2>2 DEF Standing, WatchRecord
    <2> HIDE DEF r
    <2>4. \A b \in 1..r.latest : \A t \in chain'[b] : TransferTo[t] \in r.known
      <3>1. \A b \in 1..r.latest : b \in 1..Tip
        BY <1>0, <2>2, <2>3
      <3>2. QED
        BY <2>2, <3>1, ChainGrowth DEF CursorInv, Receivers
    <2>5. QED
      BY <1>0, <2>1, <2>2, <2>4 DEF Covering
  <1>5. CASE Wait(w)
    <2> DEFINE r == [x EXCEPT !.pc = AfterWait, !.latest = Tip]
    <2>1. watch'[w] = r
      BY <1>5, <1>s DEF Wait
    <2>2. r.pc = "refresh" /\ r.block = x.block /\ x.pc = "next"
      BY <1>0, <1>5 DEF WatchRecord, Wait, AfterWait
    <2> HIDE DEF r
    <2>3. QED
      BY <1>0, <2>1, <2>2 DEF Covering
  <1>6. CASE Advance(w)
    <2> DEFINE r == [x EXCEPT !.pc = "fetch"]
    <2>1. watch'[w] = r
      BY <1>6, <1>s DEF Advance
    <2>2. /\ r.pc = "fetch" /\ r.block = x.block /\ r.latest = x.latest /\ r.known = x.known
          /\ x.pc = "next"
      BY <1>0, <1>6 DEF WatchRecord, Advance
    <2> HIDE DEF r
    <2>3. QED
      BY <1>0, <2>1, <2>2 DEF Covering
  <1>7. CASE Fetch(w)
    <2> DEFINE ts == {t \in chain[x.block] : TransferTo[t] \in x.known}
               r == [x EXCEPT !.pc = "events", !.todo = ts]
    <2>1. watch'[w] = r
      BY <1>7, <1>s DEF Fetch
    <2>2. x.pc = "fetch" /\ x.block \in 1..Tip /\ x.block \in 1..x.latest
      BY <1>0, <1>7 DEF Fetch, Standing, WatchRecord
    <2>3. chain'[x.block] = chain[x.block] /\ \A t \in chain'[x.block] : TransferTo[t] \in x.known
      BY <1>0, <2>2, ChainGrowth DEF Covering
    <2>4. \A t \in chain'[x.block] : t \in ts
      BY <2>3
    <2> HIDE DEF ts
    <2>5. /\ r.pc = "events" /\ r.block = x.block /\ r.latest = x.latest /\ r.known = x.known
          /\ r.todo = ts
      BY <1>0 DEF WatchRecord
    <2> HIDE DEF r
    <2>6. QED
      BY <1>0, <2>1, <2>2, <2>4, <2>5 DEF Covering
  <1>8. CASE \E t \in Transfers : PayLoad(w, t)
    <2>1. PICK t \in Transfers : PayLoad(w, t)
      BY <1>8
    <2> DEFINE drops == [x EXCEPT !.todo = @ \ {t}]
               loads == [x EXCEPT !.todo = @ \ {t}, !.pc = "paying", !.paying = t,
                                  !.loaded = balance[TransferTo[t]]]
    <2>2. watch'[w] = IF t \in Dust THEN drops ELSE loads
      BY <1>s, <2>1 DEF PayLoad
    <2>3. x.pc = "events"
      BY <2>1 DEF PayLoad
    <2>4. CASE t \in Dust
      <3>1. /\ drops.pc = "events" /\ drops.block = x.block /\ drops.latest = x.latest
            /\ drops.known = x.known /\ drops.todo = x.todo \ {t}
        BY <1>0, <2>3 DEF WatchRecord
      <3>2. watch'[w] = drops
        BY <2>2, <2>4
      <3> HIDE DEF drops
      <3>3. QED
        BY <1>0, <2>3, <2>4, <3>1, <3>2 DEF Covering
    <2>5. CASE t \notin Dust
      <3>1. /\ loads.pc = "paying" /\ loads.block = x.block /\ loads.latest = x.latest
            /\ loads.known = x.known /\ loads.todo = x.todo \ {t} /\ loads.paying = t
        BY <1>0, <2>3 DEF WatchRecord
      <3>2. watch'[w] = loads
        BY <2>2, <2>5
      <3> HIDE DEF loads
      <3>3. QED
        BY <1>0, <2>3, <3>1, <3>2 DEF Covering
    <2>6. QED
      BY <2>4, <2>5
  <1>9. CASE PayCommit(w)
    <2> DEFINE r == [x EXCEPT !.pc = "events", !.paying = NoTransfer, !.loaded = Empty]
    <2>1. watch'[w] = r
      BY <1>9, <1>s DEF PayCommit
    <2>2. /\ r.pc = "events" /\ r.block = x.block /\ r.latest = x.latest /\ r.known = x.known
          /\ r.todo = x.todo /\ x.pc = "paying"
      BY <1>0, <1>9 DEF WatchRecord, PayCommit
    <2>3. PaymentId[x.paying] \in payments'
      BY <1>9 DEF PayCommit, FreshPayment
    <2> HIDE DEF r
    <2>4. QED
      BY <1>0, <2>1, <2>2, <2>3 DEF Covering
  <1>10. CASE SaveState(w)
    <2> DEFINE r == [x EXCEPT !.pc = "next", !.block = @ + 1]
    <2>1. watch'[w] = r
      BY <1>10, <1>s DEF SaveState
    <2>2. /\ r.pc = "next" /\ r.block = x.block + 1 /\ r.latest = x.latest /\ r.known = x.known
          /\ x.pc = "events" /\ x.todo = {} /\ x.block \in 1..Tip
      BY <1>0, <1>10 DEF WatchRecord, SaveState, Standing
    <2> HIDE DEF r
    <2>3. Covered(x.block)'
      BY <1>0, <2>2 DEF Covering, Covered
    <2>4. ASSUME NEW b \in 1..Tip', b < x.block + 1 PROVE Covered(b)'
      <3>1. b < x.block \/ b = x.block
        BY <1>0, <2>2, <2>4
      <3>2. QED
        BY <1>0, <2>2, <2>3, <3>1 DEF Covering
    <2>5. QED
      BY <1>0, <2>1, <2>2, <2>4 DEF Covering
  <1>11. QED
    BY <1>1, <1>2, <1>3, <1>4, <1>5, <1>6, <1>7, <1>8, <1>9, <1>10 DEF WatchStep

\* The saved cursor only moves to the block that a watcher has just finished.
LEMMA MonitorMoves ==
  ASSUME TypeOK, [Next]_vars
  PROVE  \/ monitor'.block = monitor.block
         \/ \E w \in Watchers : SaveState(w) /\ monitor'.block = watch[w].block
  <1>0. monitor \in [block : 1..MaxBlock, locked : BOOLEAN, stale : BOOLEAN]
    BY DEF TypeOK, WatcherTypeOK
  <1>1. ASSUME NEW w \in Watchers, WatchStep(w)
        PROVE  \/ monitor'.block = monitor.block
               \/ SaveState(w) /\ monitor'.block = watch[w].block
    <2>1. CASE Lock(w)
      BY <1>0, <2>1 DEF Lock
    <2>2. CASE SaveState(w)
      BY <1>0, <2>2 DEF SaveState, Saved
    <2>3. CASE UNCHANGED monitor
      BY <2>3
    <2>4. QED
      BY <1>1, <2>1, <2>2, <2>3
         DEF WatchStep, GetState, GetLatest, Refresh, Wait, Advance, Fetch, PayLoad, PayCommit
  <1>2. CASE Chain \/ WatcherFails
    BY <1>0, <1>2 DEF Chain, ChainStep, LockExpires, NewBlock, WatcherFails, Fail, Die
  <1>3. CASE UNCHANGED monitor
    BY <1>3
  <1>4. QED
    BY <1>1, <1>2, <1>3
       DEF Next, vars, watcherVars, Accounting, Billing, Tracking, TrackerFails, Watching

LEMMA OthersCovering ==
  ASSUME TypeOK, Bounds, CursorInv, [Next]_vars, NEW v \in Watchers, watch'[v] = watch[v]
  PROVE  Covering(watch[v])'
  <1>1. ASSUME NEW x, x = watch[v] PROVE Covering(x)'
    <2>1. x \in WatchRecord /\ Standing(x) /\ Covering(x)
      BY <1>1 DEF TypeOK, WatcherTypeOK, WatchRecord, Bounds, CursorInv
    <2>2. QED
      BY <2>1, StaysCovering
  <1>2. QED
    BY <1>1 DEF Covering

LEMMA CursorStep == TypeOK /\ Bounds /\ CursorInv /\ [Next]_vars => CursorInv'
  <1> SUFFICES ASSUME TypeOK, Bounds, CursorInv, [Next]_vars PROVE CursorInv'
    OBVIOUS
  <1>1. Receivers'
    BY ReceiversStep DEF CursorInv
  <1>2. ASSUME NEW v \in Watchers PROVE Covering(watch[v])'
    <2>1. CASE WatchStep(v)
      BY <2>1, CoveringStep
    <2>2. CASE Fail(v) \/ Die(v)
      <3>1. watch'[v] = Down
        BY <2>2 DEF TypeOK, WatcherTypeOK, Fail, Die, SetWatch
      <3>2. watch'[v].pc = "idle"
        BY <3>1 DEF Down
      <3>3. QED
        BY <3>2 DEF Covering
    <2>3. CASE watch'[v] = watch[v]
      BY <2>3, OthersCovering
    <2>4. CASE \E w \in Watchers \ {v} : WatchStep(w) \/ Fail(w) \/ Die(w)
      <3>1. watch'[v] = watch[v]
        BY <2>4, PaysWhatItLoaded
      <3>2. QED
        BY <3>1, OthersCovering
    <2>5. QED
      BY <2>1, <2>2, <2>3, <2>4
         DEF Next, vars, watcherVars, Accounting, Billing, Tracking, TrackerFails, Chain, ChainStep, LockExpires,
             NewBlock, WatcherFails, Watching
  <1>3. CursorCovers'
    <2> SUFFICES ASSUME monitor'.block > 1, NEW b \in 1..monitor'.block PROVE Covered(b)'
      BY DEF CursorCovers
    <2>0. /\ monitor.block \in 1..Tip /\ Tip \in Nat /\ Tip' \in Nat /\ Tip <= Tip'
          /\ \A w \in Watchers : watch[w] \in WatchRecord /\ Standing(watch[w])
      BY ChainGrowth DEF TypeOK, WatcherTypeOK, WatchRecord, Bounds
    <2>1. CASE monitor'.block = monitor.block
      <3>1. b \in 1..Tip /\ Covered(b)
        BY <2>0, <2>1 DEF CursorInv, CursorCovers
      <3>2. QED
        BY <3>1, StaysCovered
    <2>2. ASSUME NEW w \in Watchers, SaveState(w), monitor'.block = watch[w].block
          PROVE  Covered(b)'
      <3>1. watch'[w].pc = "next" /\ watch'[w].block = watch[w].block + 1 /\ watch[w].block \in 1..Tip
        <4>1. watch'[w] = [watch[w] EXCEPT !.pc = "next", !.block = @ + 1] /\ watch[w].pc = "events"
          BY <2>2 DEF SaveState, SetWatch, TypeOK, WatcherTypeOK
        <4>2. QED
          BY <2>0, <4>1 DEF WatchRecord, Standing
      <3>2. b \in 1..Tip' /\ b < watch'[w].block
        BY <2>0, <2>2, <3>1
      <3>3. QED
        BY <1>2, <3>1, <3>2 DEF Covering
    <2>3. QED
      BY <2>1, <2>2, MonitorMoves
  <1>4. QED
    BY <1>1, <1>2, <1>3 DEF CursorInv

LEMMA CursorInit == Init => CursorInv
  <1> SUFFICES ASSUME Init PROVE CursorInv
    OBVIOUS
  <1>1. PICK ts \in SUBSET Incoming : chain = <<ts>>
    BY DEF Init, WatcherInit
  <1>2. Receivers
    BY <1>1 DEF Receivers, Incoming, Tip
  <1>3. CursorCovers
    BY DEF Init, WatcherInit, CursorCovers
  <1>4. \A w \in Watchers : Covering(watch[w])
    BY DEF Init, WatcherInit, Covering, Down
  <1>5. QED
    BY <1>2, <1>3, <1>4 DEF CursorInv

\* Wherever the saved cursor stands, every transfer to a user up to there is in
\* the payments table, unless a restart skipped its block: two watchers, replays,
\* failed saves and users who register late leave nothing behind.
THEOREM CursorLeavesNothing == Spec => []CursorCovers
  <1>1. Init => TypeOK /\ Bounds /\ CursorInv
    BY TypeInit, CursorInit
  <1>2. TypeOK /\ Bounds /\ CursorInv /\ [Next]_vars => (TypeOK /\ Bounds /\ CursorInv)'
    BY TypeStep, CursorStep
  <1>3. CursorInv => CursorCovers
    BY DEF CursorInv
  <1>4. QED
    BY <1>1, <1>2, <1>3, PTL DEF Spec
=============================================================================
