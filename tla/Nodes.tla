------------------------------- MODULE Nodes -------------------------------
(***************************************************************************)
(* The inventory of GPUs: create_nodes, validate_gpus, delete_node, and    *)
(* the history of 24 hours that stops GPUs from hopping between hotkeys.   *)
(***************************************************************************)
EXTENDS Naturals, SequencesExt

CONSTANTS Gpus,
          Offers,      \* calls of create_nodes
          OfferMiner,  \* who makes each
          OfferGpus,   \* for which GPUs
          NoOffer

ASSUME OfferAssumption == /\ OfferGpus \in [Offers -> (SUBSET Gpus) \ {{}}]
                          /\ NoOffer \notin Offers

VARIABLES node,      \* for each GPU, the offer its row is from
          verified,  \* the rows with verified_at
          history,   \* node_history of the last 24 hours, by GPU
          offer,     \* create_nodes and its validate_gpus
          proven,    \* history: offers proven for all their GPUs
          hasty      \* history: GPUs offered twice at once, or offered anew during a validation

nodeVars == <<node, verified, history, offer, proven, hasty>>

NodesInit == /\ node = [g \in Gpus |-> NoOffer]
             /\ verified = {}
             /\ history = [g \in Gpus |-> <<>>]
             /\ offer = [o \in Offers |-> [pc |-> "new", found |-> {}]]
             /\ proven = {}
             /\ hasty = {}

OfferStep(o, pc) == offer' = [offer EXCEPT ![o].pc = pc]

\* GPUs of other calls that have passed the check, or await a result.
Open(o) == UNION {OfferGpus[p] : p \in {q \in Offers \ {o} : offer[q].pc \notin {"new", "over"}}}

-----------------------------------------------------------------------------
(* create_nodes and delete_node. *)

\* The entries that count: all but the caller's own latest.
Counted(g, m) == IF history[g] # <<>> /\ Last(history[g]) = m THEN Front(history[g])
                 ELSE history[g]
HopsOften(g, m) == Len(Counted(g, m)) > 3 /\ Cardinality(ToSet(Counted(g, m))) >= 2
Hops(g, m) == Len(Counted(g, m)) > 2 /\ Cardinality(ToSet(Counted(g, m))) >= 2

Offered(o) ==
    /\ offer[o].pc = "new"
    /\ \A g \in OfferGpus[o] : node[g] = NoOffer /\ ~Hops(g, OfferMiner[o])
    /\ OfferStep(o, "hosts")
    /\ hasty' = hasty \cup (OfferGpus[o] \cap Open(o))
    /\ UNCHANGED <<node, verified, history, proven>>

\* The hosts have been resolved.  A GPU registered meanwhile, or a bad host,
\* refuses the whole call.  The trigger extends the history.
Registers(o) ==
    /\ offer[o].pc = "hosts"
    /\ \A g \in OfferGpus[o] : node[g] = NoOffer
    /\ node' = [g \in Gpus |-> IF g \in OfferGpus[o] THEN o ELSE node[g]]
    /\ history' = [g \in Gpus |-> IF g \in OfferGpus[o] THEN Append(history[g], OfferMiner[o])
                                  ELSE history[g]]
    /\ OfferStep(o, "queued")
    /\ UNCHANGED <<verified, proven, hasty>>

Refused(o) == /\ offer[o].pc = "hosts"
              /\ OfferStep(o, "over")
              /\ UNCHANGED <<node, verified, history, proven, hasty>>

\* By the miner, or with the miner when it leaves the metagraph.
DeletesNode(g) == /\ node[g] # NoOffer
                  /\ node' = [node EXCEPT ![g] = NoOffer]
                  /\ verified' = verified \ {g}
                  /\ UNCHANGED <<history, offer, proven, hasty>>

DayPasses(g) == /\ history[g] # <<>>
                /\ history' = [history EXCEPT ![g] = Tail(@)]
                /\ UNCHANGED <<node, verified, offer, proven, hasty>>

-----------------------------------------------------------------------------
(* validate_gpus: the rows are looked up by GPU, whoever registered them. *)

Wanted(o) == OfferGpus[o]   \* also those that are gone
Present(o) == {g \in OfferGpus[o] : node[g] # NoOffer}

SomePresent(o) == Present(o) # {}
AllPresent(o) == Present(o) = OfferGpus[o]

LoadsNodes(o) ==
    /\ offer[o].pc = "queued"
    /\ offer' = [offer EXCEPT ![o] = IF AllPresent(o) THEN [pc |-> "device info", found |-> Present(o)]
                                     ELSE [pc |-> "over", found |-> {}]]
    /\ UNCHANGED <<node, verified, history, proven, hasty>>

\* check_device_info_challenge, as often as configured.
DeviceInfo(o) ==
    /\ offer[o].pc = "device info"
    /\ \E pc \in {"povw", "over"} : OfferStep(o, pc)
    /\ UNCHANGED <<node, verified, history, proven, hasty>>

\* verify_povw_challenge of the GPUs found; a failure changes their seeds.
Povw(o) ==
    /\ offer[o].pc = "povw"
    /\ \/ OfferStep(o, "proven") /\ proven' = IF offer[o].found = OfferGpus[o] THEN proven \cup {o}
                                        ELSE proven
       \/ OfferStep(o, "over") /\ UNCHANGED proven
    /\ UNCHANGED <<node, verified, history, hasty>>

Verifies(o) ==
    /\ offer[o].pc = "proven"
    /\ verified' = verified \cup Present(o)
    /\ OfferStep(o, "over")
    /\ UNCHANGED <<node, history, proven, hasty>>

OfferNext(o) == \/ Offered(o) \/ Registers(o) \/ Refused(o)
                \/ LoadsNodes(o) \/ DeviceInfo(o) \/ Povw(o) \/ Verifies(o)
NodesNext == \/ \E o \in Offers : OfferNext(o)
             \/ \E g \in Gpus : DeletesNode(g) \/ DayPasses(g)
NodesSpec == NodesInit /\ [][NodesNext]_nodeVars

-----------------------------------------------------------------------------
NodesTypeOK ==
    /\ node \in [Gpus -> Offers \cup {NoOffer}]
    /\ verified \subseteq {g \in Gpus : node[g] # NoOffer}
    /\ history \in [Gpus -> Seq({OfferMiner[o] : o \in Offers})]
    /\ offer \in [Offers -> [pc : {"new", "hosts", "queued", "device info", "povw", "proven", "over"},
                             found : SUBSET Gpus]]
    /\ proven \subseteq Offers
    /\ hasty \subseteq Gpus

\* validate_gpus (graval_worker.py:432): a GPU is verified by a proof of the
\* server it was registered with, of all its GPUs at once; unless it was
\* offered anew while an earlier validation was in progress, which then
\* verifies the new row (graval_worker.py:457).
VerifiedAsProven == \A g \in verified \ hasty : node[g] \in proven

\* create_nodes (node/router.py:174, "GPU hoppers"): within 24 hours a GPU
\* passes from one hotkey to another at most twice, unless offered twice at
\* once.
HandOvers(g) == {k \in 2 .. Len(history[g]) : history[g][k] # history[g][k - 1]}
HandOversBounded == \A g \in Gpus \ hasty : Cardinality(HandOvers(g)) <= 2
=============================================================================
