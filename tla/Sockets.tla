------------------------------ MODULE Sockets ------------------------------
(***************************************************************************)
(* One replica of the socket server: the connections and its two maps, by  *)
(* which messages for a miner find the miner's connection.  Any connection *)
(* may authenticate as any hotkey it can sign for, and more than once.     *)
(***************************************************************************)
EXTENDS Naturals, FiniteSets

CONSTANTS Sessions,   \* connections
          MinerKeys,  \* hotkeys
          NoSession, NoKey

ASSUME SocketsAssumption == NoSession \notin Sessions /\ NoKey \notin MinerKeys

VARIABLES session,     \* the connections, and the authentications in progress
          sessionMap,  \* session_map: the hotkey of each connection
          reverseMap,  \* reverse_map: the connection of each hotkey
          doubt        \* history: see Doubtful

socketVars == <<session, sessionMap, reverseMap, doubt>>

SocketsInit == /\ session = [s \in Sessions |-> [link |-> "none", asking |-> {}]]
               /\ sessionMap = [s \in Sessions |-> NoKey]
               /\ reverseMap = [h \in MinerKeys |-> NoSession]
               /\ doubt = {}

\* The connections of a hotkey: the last they authenticated as, until their
\* disconnect is handled.
Gone(s) == session[s].link = "gone"
ConnsOf(h) == {s \in Sessions : sessionMap[s] = h /\ ~Gone(s)}

\* connect
Connects(s) ==
    /\ session[s].link = "none"
    /\ session' = [session EXCEPT ![s].link = "open"]
    /\ UNCHANGED <<sessionMap, reverseMap, doubt>>

\* authenticate, up to get_current_user; it does not ask who the connection
\* belongs to already, or whether another authentication is in progress.
Asks(s, h) ==
    /\ session[s].link = "open"
    /\ session' = [session EXCEPT ![s].asking = @ \cup {h}]
    /\ UNCHANGED <<sessionMap, reverseMap, doubt>>

\* The hotkeys whose entry may be wrong from now on: the one that s had, when
\* it takes another, and h itself when it has another connection, or when s is
\* gone.  Otherwise the entry of h is right again.
Doubtful(s, h) == (doubt \ {h}) \cup ({sessionMap[s]} \ {h, NoKey})
                                \cup (IF Gone(s) \/ ConnsOf(h) \ {s} # {} THEN {h} ELSE {})

\* authenticate, after get_current_user: whatever became of the connection.
Authenticates(s, h) ==
    /\ h \in session[s].asking
    /\ session' = [session EXCEPT ![s].asking = @ \ {h}]
    /\ sessionMap' = [sessionMap EXCEPT ![s] = h]
    /\ reverseMap' = [reverseMap EXCEPT ![h] = s]
    /\ doubt' = Doubtful(s, h)

Refuses(s, h) ==
    /\ h \in session[s].asking
    /\ session' = [session EXCEPT ![s] = [link |-> IF @.link = "open" THEN "closing" ELSE @.link,
                                          asking |-> @.asking \ {h}]]
    /\ UNCHANGED <<sessionMap, reverseMap, doubt>>

\* The connection is lost, and its disconnect handled later.
Drops(s) == /\ session[s].link = "open"
            /\ session' = [session EXCEPT ![s].link = "closing"]
            /\ UNCHANGED <<sessionMap, reverseMap, doubt>>

\* The entry of the connection's hotkey, whichever connection it names.
LeftAlone(s) == reverseMap
Removed(s) == [h \in MinerKeys |-> IF h = sessionMap[s] THEN NoSession ELSE reverseMap[h]]

Disconnects(s) ==
    /\ session[s].link = "closing"
    /\ session' = [session EXCEPT ![s].link = "gone"]
    /\ sessionMap' = [sessionMap EXCEPT ![s] = NoKey]
    /\ reverseMap' = Removed(s)
    /\ UNCHANGED doubt

SocketsNext ==
    \E s \in Sessions : \/ Connects(s) \/ Drops(s) \/ Disconnects(s)
                        \/ \E h \in MinerKeys : Asks(s, h) \/ Authenticates(s, h) \/ Refuses(s, h)
SocketsSpec == SocketsInit /\ [][SocketsNext]_socketVars

-----------------------------------------------------------------------------
SocketsTypeOK == /\ session \in [Sessions -> [link : {"none", "open", "closing", "gone"},
                                              asking : SUBSET MinerKeys]]
                 /\ sessionMap \in [Sessions -> MinerKeys \cup {NoKey}]
                 /\ reverseMap \in [MinerKeys -> Sessions \cup {NoSession}]
                 /\ doubt \subseteq MinerKeys

\* authenticate, disconnect (socket_server.py:52-80): a message for a miner
\* goes to its connection if it has one and nowhere else.  What goes wrong when
\* connections overlap, when one takes another hotkey and when one is lost
\* while it authenticates ends with the miner's next authentication from its
\* only connection, whatever is left of the others.
MapFollowsSessions ==
    \A h \in MinerKeys \ doubt :
        IF ConnsOf(h) = {} THEN reverseMap[h] = NoSession ELSE ConnsOf(h) = {reverseMap[h]}
=============================================================================
