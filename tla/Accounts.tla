------------------------------ MODULE Accounts ------------------------------
(***************************************************************************)
(* users.balance, as everything that changes it does: the ORM loads the    *)
(* row, computes in Python and writes the result as an absolute value when *)
(* its transaction commits.                                                *)
(*                                                                         *)
(* A balance counts how often it reflects each entry: a payment received,  *)
(* an amount deducted, an adjustment.                                      *)
(***************************************************************************)
EXTENDS Integers, FiniteSets

CONSTANTS Users,
          Adjustments,   \* POST /users/admin_balance_change requests
          AdjustedUser,  \* the user each of them names
          Keys,          \* redis hashes balance:{user_id}:{chute_id}
          Charges,       \* invocations that may be billed
          Transfers      \* transfers on the chain to a payment address

\* What is billed: the amount of an invocation, in the hash it was added to.
Items == Keys \X Charges
Entries == Items \cup Transfers \cup Adjustments

VARIABLES registered,  \* the rows of users, each with a payment address
          balance,     \* users.balance
          written,     \* rows with an UPDATE that is not committed: locked by the tracker
          adjust       \* the administrators' requests

ASSUME AccountsAssumption ==
    /\ AdjustedUser \in [Adjustments -> Users]
    /\ Transfers \cap Adjustments = {} /\ Items \cap (Transfers \cup Adjustments) = {}

Account == [Entries -> Nat]
Empty == [e \in Entries |-> 0]

AccountsTypeOK ==
    /\ registered \subseteq Users
    /\ balance \in [Users -> Account]
    /\ written \subseteq Users
    /\ adjust \in [Adjustments -> [pc : {"new", "loaded", "done"}, loaded : Account]]

AccountsInit ==
    /\ registered \in SUBSET Users
    /\ balance = [u \in Users |-> Empty]
    /\ written = {}
    /\ adjust = [a \in Adjustments |-> [pc |-> "new", loaded |-> Empty]]

Register(u) ==
    /\ u \notin registered
    /\ registered' = registered \cup {u}
    /\ UNCHANGED <<balance, written, adjust>>

\* Mutant: a sign error.
BookedBack(loaded, es) == [e \in Entries |-> IF e \in es THEN loaded[e] - 1 ELSE loaded[e]]

\* What is written when the entries es are added to or taken from a loaded balance.
Booked(loaded, es) == [e \in Entries |-> IF e \in es THEN loaded[e] + 1 ELSE loaded[e]]

\* POST /admin_balance_change: the user is loaded ...
AdjustLoad(a) ==
    /\ adjust[a].pc = "new"
    /\ AdjustedUser[a] \in registered
    /\ adjust' = [adjust EXCEPT ![a] = [pc |-> "loaded", loaded |-> balance[AdjustedUser[a]]]]
    /\ UNCHANGED <<registered, balance, written>>

\* ... and the new balance committed with its event.
AdjustCommit(a) ==
    /\ adjust[a].pc = "loaded"
    /\ AdjustedUser[a] \notin written
    /\ balance' = [balance EXCEPT ![AdjustedUser[a]] = Booked(adjust[a].loaded, {a})]
    /\ adjust' = [adjust EXCEPT ![a].pc = "done"]
    /\ UNCHANGED <<registered, written>>
=============================================================================
