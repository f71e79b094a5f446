------------------------------- MODULE Scores -------------------------------
(***************************************************************************)
(* metasync: the metagraph is copied from the chain to the database, and   *)
(* the validator sets the weights of the uids from the scores of hotkeys.  *)
(***************************************************************************)
EXTENDS Naturals, Functions

CONSTANTS Hotkeys,
          ColdkeyOf,   \* the owner of each
          Uids,
          Worths,      \* weighted sums of the normalised metrics
          NoUid

ASSUME ScoreAssumption == Worths \subseteq Nat /\ 0 \in Worths /\ NoUid \notin Uids

VARIABLES chain,      \* the hotkey of each uid
          syncing,    \* what sync_and_save_metagraph fetched
          metagraph,  \* metagraph_nodes: the uid of each hotkey
          round,      \* _get_and_set_weights
          due,        \* 150 blocks have passed since the weights were last set
          extrinsic,  \* the weights submitted, if they are not yet included
          moved       \* history: uids that changed hands since the round, or
                      \* the one submitted, fetched the nodes

scoreVars == <<chain, syncing, metagraph, round, due, extrinsic, moved>>

Owners == {f \in [Uids -> Hotkeys] : IsInjective(f)}
Nodes64(c) == [h \in Hotkeys |-> IF \E u \in Uids : c[u] = h THEN CHOOSE u \in Uids : c[u] = h
                                 ELSE NoUid]
UidMaps == [Hotkeys -> Uids \cup {NoUid}]
Nothing == [h \in Hotkeys |-> NoUid]
Unscored == [h \in Hotkeys |-> 0]
NoRound == [pc |-> "wait", uids |-> Nothing, known |-> {}, scores |-> Unscored]
NoWeights == [sent |-> FALSE, weights |-> [u \in Uids |-> 0], scores |-> Unscored]

ScoresInit == /\ chain \in Owners
              /\ syncing = Nothing
              /\ metagraph = Nothing
              /\ round = NoRound
              /\ due = TRUE
              /\ extrinsic = NoWeights
              /\ moved = [round |-> {}, extrinsic |-> {}]

\* A registration takes over the uid of another hotkey.
Recycles(u) ==
    /\ \E h \in Hotkeys \ Range(chain) : chain' = [chain EXCEPT ![u] = h]
    /\ moved' = [of \in {"round", "extrinsic"} |-> moved[of] \cup {u}]
    /\ UNCHANGED <<syncing, metagraph, round, due, extrinsic>>

\* sync_and_save_metagraph deletes who left, and inserts or updates the others.
FetchesMetagraph == /\ syncing' = Nodes64(chain)
                    /\ UNCHANGED <<chain, metagraph, round, due, extrinsic, moved>>
SavesMetagraph == /\ syncing # Nothing
                  /\ metagraph' = syncing
                  /\ syncing' = Nothing
                  /\ UNCHANGED <<chain, round, due, extrinsic, moved>>

-----------------------------------------------------------------------------
(* set_weights_periodically.  A submission is not waited for: the next round *)
(* may begin before it is included.                                          *)

StartsRound ==
    /\ round.pc = "wait"
    /\ due
    /\ round' = [NoRound EXCEPT !.pc = "known", !.uids = Nodes64(chain)]
    /\ moved' = [moved EXCEPT !.round = {}]
    /\ UNCHANGED <<chain, syncing, metagraph, due, extrinsic>>

\* get_scoring_data: the hotkeys and their owners.
ReadsHotkeys ==
    /\ round.pc = "known"
    /\ round' = [round EXCEPT !.pc = "score", !.known = {h \in Hotkeys : metagraph[h] # NoUid}]
    /\ UNCHANGED <<chain, syncing, metagraph, due, extrinsic, moved>>

\* All but the first of an owner's hotkeys, by falling score, count nothing;
\* among equals either may be first.
FirstOfColdkey(worth, kept) ==
    \A h \in DOMAIN worth : \E k \in kept : ColdkeyOf[k] = ColdkeyOf[h] /\ worth[k] >= worth[h]
AllPerColdkey(kept) == TRUE   \* the penalty forgotten
OnePerColdkey(kept) == \A h, k \in kept : ColdkeyOf[h] = ColdkeyOf[k] => h = k

\* Then the metrics of those who are in the metagraph by now and were invoked.
\* A hotkey unknown before, or no chute of anybody, raises.
Scores ==
    /\ round.pc = "score"
    /\ \E invoked \in SUBSET {h \in Hotkeys : metagraph[h] # NoUid} :
           \/ /\ invoked \subseteq round.known
              /\ \E worth \in [invoked -> Worths], kept \in SUBSET invoked :
                     /\ FirstOfColdkey(worth, kept) /\ OnePerColdkey(kept)
                     /\ round' = [round EXCEPT !.pc = "set", !.known = {}, !.scores =
                            [h \in Hotkeys |-> IF h \in kept THEN worth[h] ELSE 0]]
           \/ /\ invoked # {}
              /\ round' = NoRound
    /\ UNCHANGED <<chain, syncing, metagraph, due, extrinsic, moved>>

\* The weights by uid; who is not on the chain is ignored.
TableUids == metagraph
UidsOfRound == round.uids
Weights(uids) == [u \in Uids |-> IF \E h \in Hotkeys : uids[h] = u
                                 THEN round.scores[CHOOSE h \in Hotkeys : uids[h] = u] ELSE 0]

\* Without any score nothing is submitted.
Submits ==
    /\ round.pc = "set"
    /\ \/ /\ \E h \in Hotkeys : round.scores[h] > 0 /\ round.uids[h] # NoUid
          /\ extrinsic' = [sent |-> TRUE, weights |-> Weights(UidsOfRound), scores |-> round.scores]
          /\ moved' = [moved EXCEPT !.extrinsic = moved.round]
       \/ UNCHANGED <<extrinsic, moved>>
    /\ round' = NoRound
    /\ UNCHANGED <<chain, syncing, metagraph, due>>

\* Or it is lost, and the weights stay due.
Includes == /\ extrinsic.sent
            /\ extrinsic' = NoWeights
            /\ due' \in {due, FALSE}
            /\ moved' = [moved EXCEPT !.extrinsic = {}]
            /\ UNCHANGED <<chain, syncing, metagraph, round>>

BlocksPass == /\ ~due
              /\ due' = TRUE
              /\ UNCHANGED <<chain, syncing, metagraph, round, extrinsic, moved>>

ScoresNext == \/ \E u \in Uids : Recycles(u)
              \/ FetchesMetagraph \/ SavesMetagraph
              \/ StartsRound \/ ReadsHotkeys \/ Scores \/ Submits \/ Includes \/ BlocksPass
ScoresSpec == ScoresInit /\ [][ScoresNext]_scoreVars

-----------------------------------------------------------------------------
ScoresTypeOK ==
    /\ chain \in Owners
    /\ syncing \in UidMaps /\ metagraph \in UidMaps
    /\ round \in [pc : {"wait", "known", "score", "set"}, uids : UidMaps,
                  known : SUBSET Hotkeys, scores : [Hotkeys -> Worths]]
    /\ due \in BOOLEAN
    /\ extrinsic \in [sent : BOOLEAN, weights : [Uids -> Worths], scores : [Hotkeys -> Worths]]
    /\ moved \in [{"round", "extrinsic"} -> SUBSET Uids]

\* _get_and_set_weights (set_weights_on_metagraph.py:66): the weights
\* submitted give each hotkey on the chain its own score, however old the
\* metagraph of the database is, except for uids that changed hands since the
\* nodes were fetched.
WeightsToOwners ==
    extrinsic.sent => \A u \in Uids \ moved.extrinsic :
                          extrinsic.weights[u] = extrinsic.scores[chain[u]]

\* get_scoring_data ("Punish multi-uid miners", shared.py:163): of the hotkeys
\* of one owner one at most has a weight, also when uids changed hands.
OneUidPerOwner ==
    extrinsic.sent => \A u, v \in Uids \ moved.extrinsic :
        /\ u # v /\ extrinsic.weights[u] > 0 /\ extrinsic.weights[v] > 0
        => ColdkeyOf[chain[u]] # ColdkeyOf[chain[v]]

\* get_scoring_data and _get_and_set_weights: both, of every submission.
WeightsFair == WeightsToOwners /\ OneUidPerOwner
=============================================================================
