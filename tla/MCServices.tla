----------------------------- MODULE MCServices -----------------------------
(***************************************************************************)
(* Services that share no state, one of them at a time: whichever is       *)
(* picked at first takes its steps, and the others stay as they began.     *)
(***************************************************************************)
EXTENDS Nodes, Sockets, MCJobOutput, Scores

VARIABLE part

\* What may begin in several ways begins in any only when it is picked.
ServicesInit ==
    /\ part \in {"nodes", "sockets", "output", "scores"}
    /\ NodesInit /\ SocketsInit /\ OutputInit /\ ScoresInit
    /\ part # "scores" => chain = [u \in Uids |-> IF u = 0 THEN "h1" ELSE "h2"]

Stays(own) == /\ part = own
              /\ own # "nodes" => UNCHANGED nodeVars
              /\ own # "sockets" => UNCHANGED socketVars
              /\ own # "output" => UNCHANGED outputVars
              /\ own # "scores" => UNCHANGED scoreVars
              /\ UNCHANGED part

ServicesNext == \/ Stays("nodes") /\ NodesNext
                \/ Stays("sockets") /\ SocketsNext
                \/ Stays("output") /\ OutputNext
                \/ Stays("scores") /\ ScoresNext

ServicesSpec == ServicesInit /\ [][ServicesNext]_<<part, nodeVars, socketVars, outputVars,
                                                   scoreVars>>

MCOfferMiner == [o1 |-> "m1", o2 |-> "m2", o3 |-> "m1", o4 |-> "m2"]
MCOfferGpus == [o1 |-> {"g1", "g2"}, o2 |-> {"g1"}, o3 |-> {"g1"}, o4 |-> {"g1"}]
MCColdkeyOf == [h1 |-> "k1", h2 |-> "k1", h3 |-> "k2"]

\* The types of the part picked.
ServicesTypeOK ==
    /\ part = "nodes" => NodesTypeOK
    /\ part = "sockets" => SocketsTypeOK
    /\ part = "output" => OutputTypeOK
    /\ part = "scores" => ScoresTypeOK
=============================================================================
