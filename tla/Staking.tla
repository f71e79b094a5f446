------------------------------ MODULE Staking ------------------------------
(***************************************************************************)
(* The autostaker, for one user: each payment queues a task stake, which   *)
(* stakes the free balance bit by bit under the lock autostake:{user_id}.  *)
(* One worker process runs several tasks, but _add_stake blocks it.        *)
(***************************************************************************)
EXTENDS Naturals, FiniteSets

CONSTANTS Stakers,      \* tasks that may run at once, each of another process
          MaxFailures,  \* failures after which a task gives up
          MaxFunds      \* bound: payments

ASSUME StakingAssumption == MaxFailures \in Nat \ {0} /\ MaxFunds \in Nat

VARIABLES paid,       \* payments so far
          free,       \* payments not yet staked
          notices,    \* payments the watcher has not seen yet
          stakeTasks, \* the queue "autostaker"
          lock,       \* autostake:{user_id}
          staker,     \* the tasks
          excused     \* history: a lock expired, a task gave up, or one was
                      \* refused by a task that had seen an empty balance

stakeVars == <<paid, free, notices, stakeTasks, lock, staker, excused>>

NoStaker == [pc |-> "idle", failures |-> 0]

StakingInit == /\ paid = 0
               /\ free = 0
               /\ notices = 0
               /\ stakeTasks = 0
               /\ lock = FALSE
               /\ staker = [s \in Stakers |-> NoStaker]
               /\ excused = FALSE

Staking == {s \in Stakers : staker[s].pc # "idle"}

\* A payment is on the chain, and later the watcher has credited it.
Pays == /\ paid < MaxFunds
        /\ paid' = paid + 1
        /\ free' = free + 1
        /\ notices' = notices + 1
        /\ UNCHANGED <<stakeTasks, lock, staker, excused>>

Notices == /\ notices > 0
           /\ notices' = notices - 1
           /\ stakeTasks' = stakeTasks + 1
           /\ UNCHANGED <<paid, free, lock, staker, excused>>

\* SETNX; the expiry is set in any case.
LockFree == ~lock

StartsStake(s) ==
    /\ stakeTasks > 0
    /\ s \notin Staking
    /\ stakeTasks' = stakeTasks - 1
    /\ IF LockFree
         THEN /\ lock' = TRUE
              /\ staker' = [staker EXCEPT ![s].pc = "stake"]
              /\ UNCHANGED excused
         ELSE /\ UNCHANGED <<lock, staker>>
              /\ excused' = (excused \/ \E t \in Stakers : staker[t].pc = "empty")
    /\ UNCHANGED <<paid, free, notices>>

\* The lock lives for an hour after the last task that asked for it.
LockExpires == /\ lock
               /\ lock' = FALSE
               /\ excused' = TRUE
               /\ UNCHANGED <<paid, free, notices, stakeTasks, staker>>

\* _add_stake, of the amount or of what is left.
AddsStake(s) == /\ staker[s].pc = "stake"
                /\ IF free > 0
                     THEN free' = free - 1 /\ UNCHANGED staker
                     ELSE UNCHANGED free /\ staker' = [staker EXCEPT ![s].pc = "empty"]
                /\ UNCHANGED <<paid, notices, stakeTasks, lock, excused>>

\* The lock, whoever holds it now.
Kept == lock
Unlocked == FALSE

ReleasesStake(s) == /\ staker[s].pc = "empty"
                    /\ lock' = Unlocked
                    /\ staker' = [staker EXCEPT ![s] = NoStaker]
                    /\ UNCHANGED <<paid, free, notices, stakeTasks, excused>>

\* The count is not reset by a success.  A wallet that cannot be read ends the
\* task at once; either way the lock stays until it expires.
GivesUp(n) == n >= MaxFailures

FailsStake(s) ==
    /\ staker[s].pc = "stake"
    /\ \E n \in {staker[s].failures + 1, MaxFailures} :
           IF GivesUp(n)
             THEN staker' = [staker EXCEPT ![s] = NoStaker] /\ excused' = TRUE
             ELSE staker' = [staker EXCEPT ![s].failures = n] /\ UNCHANGED excused
    /\ UNCHANGED <<paid, free, notices, stakeTasks, lock>>

StakerNext(s) == StartsStake(s) \/ AddsStake(s) \/ ReleasesStake(s) \/ FailsStake(s)
StakingNext == Pays \/ Notices \/ LockExpires \/ \E s \in Stakers : StakerNext(s)

\* The watcher sees every payment, workers take tasks, and a task goes on.
StakingFairness == WF_stakeVars(Notices) /\ \A s \in Stakers : WF_stakeVars(StakerNext(s))
StakingSpec == StakingInit /\ [][StakingNext]_stakeVars /\ StakingFairness

-----------------------------------------------------------------------------
StakingTypeOK ==
    /\ paid \in 0 .. MaxFunds
    /\ free \in 0 .. paid
    /\ notices \in 0 .. paid
    /\ stakeTasks \in 0 .. paid
    /\ lock \in BOOLEAN
    /\ staker \in [Stakers -> [pc : {"idle", "stake", "empty"}, failures : 0 .. MaxFailures - 1]]
    /\ excused \in BOOLEAN

\* stake ("automatically begin staking ... until the balance is zero"): a
\* balance is staked in the end, whichever payment's task found the lock held;
\* unless a task gave up or outlived its lock, or a payment's task was refused
\* by one that had already seen an empty balance.
StakedInTheEnd == (free > 0) ~> (free = 0 \/ excused)
=============================================================================
