----------------------------- MODULE Assignment -----------------------------
(***************************************************************************)
(* What the race for jobs promises, without requests, transactions, locks, *)
(* instances and verifications.  A launch config is a ticket for one job.  *)
(* A ticket takes its job when the job is on offer, as long as it has not  *)
(* been spent; each change is of one job; and what a job lost it is given  *)
(* only by being on offer again.                                           *)
(***************************************************************************)
CONSTANTS Jobs, Configs, NoConfig, NoJob

VARIABLES phase,    \* of each job
          holder,   \* of each job, the config whose instance runs it
          over,     \* jobs that have finished; they may be on offer again
          ticket,   \* of each config, the job it was issued for
          spent     \* configs that will never take a job any more

slots == <<phase, holder, over, ticket, spent>>

\* On offer, held, left by its holder without being on offer; or deleted.
Open == {"offered", "held", "left"}

Init == /\ phase = [j \in Jobs |-> "none"]
        /\ holder = [j \in Jobs |-> NoConfig]
        /\ over = {}
        /\ ticket = [c \in Configs |-> NoJob]
        /\ spent = {}

Offer(j) ==
    /\ phase[j] = "none"
    /\ phase' = [phase EXCEPT ![j] = "offered"]
    /\ UNCHANGED <<holder, over, ticket, spent>>

Issue(c, j) ==
    /\ ticket[c] = NoJob /\ c \notin spent
    /\ phase[j] \in Open
    /\ ticket' = [ticket EXCEPT ![c] = j]
    /\ UNCHANGED <<phase, holder, over, spent>>

Take(c, j) ==
    /\ ticket[c] = j /\ c \notin spent
    /\ phase[j] = "offered"
    /\ \A i \in Jobs : holder[i] # c
    /\ phase' = [phase EXCEPT ![j] = "held"]
    /\ holder' = [holder EXCEPT ![j] = c]
    /\ UNCHANGED <<over, ticket, spent>>

\* The holder's instance goes, or the job ends, or both.
Leave(j) ==
    /\ phase[j] \in Open
    /\ phase' = [phase EXCEPT ![j] = IF @ = "held" THEN "left" ELSE @]
    /\ holder' = [holder EXCEPT ![j] = NoConfig]
    /\ over' \in {over, over \cup {j}}
    /\ UNCHANGED <<ticket, spent>>

\* The job is on offer again; with the failure of one of its tickets, or
\* because it is given back.
GiveBack(j, failed) ==
    /\ phase[j] \in Open
    /\ \A c \in failed : ticket[c] = j
    /\ phase' = [phase EXCEPT ![j] = "offered"]
    /\ holder' = [holder EXCEPT ![j] = NoConfig]
    /\ spent' = spent \cup failed
    /\ UNCHANGED <<over, ticket>>

\* With its tickets.
Drop(j) ==
    /\ phase[j] \in Open
    /\ phase' = [phase EXCEPT ![j] = "gone"]
    /\ holder' = [holder EXCEPT ![j] = NoConfig]
    /\ spent' = spent \cup {c \in Configs : ticket[c] = j}
    /\ ticket' = [c \in Configs |-> IF ticket[c] = j THEN NoJob ELSE ticket[c]]
    /\ UNCHANGED over

Next == \E j \in Jobs :
            \/ Offer(j) \/ Leave(j) \/ Drop(j) \/ GiveBack(j, {})
            \/ \E c \in Configs : Issue(c, j) \/ Take(c, j) \/ GiveBack(j, {c})

Spec == Init /\ [][Next]_slots
=============================================================================
