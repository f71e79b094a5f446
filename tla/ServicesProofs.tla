--------------------------- MODULE ServicesProofs ---------------------------
(***************************************************************************)
(* Proofs about Nodes, Sockets, JobOutput and Scores, for any number of    *)
(* GPUs and offers, connections, files and calls, hotkeys and uids.        *)
(***************************************************************************)
EXTENDS MCServices, FiniteSetTheorems, SequenceTheorems, TLAPS

-----------------------------------------------------------------------------
(* Sockets. *)

\* session_map names nobody for a connection that never was.
Unborn == \A s \in Sessions :
             session[s].link = "none" => sessionMap[s] = NoKey /\ session[s].asking = {}

\* Of a hotkey about which there is no doubt: reverse_map names the connections
\* that have it, so that there is one at most.
Mapped == \A h \in MinerKeys \ doubt, s \in Sessions : reverseMap[h] = s <=> s \in ConnsOf(h)

SocketsInv == SocketsTypeOK /\ Unborn /\ Mapped

LEMMA SocketsStart == SocketsInit => SocketsInv
  BY SocketsAssumption DEF SocketsInit, SocketsInv, SocketsTypeOK, Unborn, Mapped, ConnsOf, Gone

\* authenticate writes both maps, of one connection and one hotkey.
LEMMA AuthenticationMaps ==
  ASSUME SocketsInv, NEW c \in Sessions, NEW k \in MinerKeys, Authenticates(c, k)
  PROVE  SocketsInv'
  <1> USE SocketsAssumption DEF SocketsInv
  <1>1. /\ session[c].link # "none" /\ session'[c].link = session[c].link
        /\ \A s \in Sessions : session'[s].link = session[s].link
        /\ \A s \in Sessions : session'[s].asking \subseteq session[s].asking
    BY DEF Authenticates, SocketsTypeOK, Unborn
  <1>2. /\ \A s \in Sessions : sessionMap'[s] = IF s = c THEN k ELSE sessionMap[s]
        /\ \A h \in MinerKeys : reverseMap'[h] = IF h = k THEN c ELSE reverseMap[h]
    BY DEF Authenticates, SocketsTypeOK
  <1>3. SocketsTypeOK'
    <2>1. doubt' \subseteq MinerKeys
      BY DEF Authenticates, Doubtful, SocketsTypeOK
    <2>2. QED
      BY <2>1 DEF Authenticates, SocketsTypeOK
  <1>4. Unborn'
    BY <1>1, <1>2 DEF Unborn
  <1>5. ASSUME NEW h \in MinerKeys, h \notin doubt', NEW s \in Sessions
        PROVE  reverseMap'[h] = s <=> sessionMap'[s] = h /\ session'[s].link # "gone"
    <2>1. CASE h = k
      <3>1. ~Gone(c) /\ ConnsOf(k) \ {c} = {}
        BY <1>5, <2>1 DEF Authenticates, Doubtful
      <3>2. QED
        BY <1>1, <1>2, <2>1, <3>1 DEF Gone, ConnsOf
    <2>2. CASE h # k
      <3>1. h \notin doubt /\ h # sessionMap[c]
        BY <1>5, <2>2 DEF Authenticates, Doubtful
      <3>2. reverseMap[h] = s <=> sessionMap[s] = h /\ session[s].link # "gone"
        BY <3>1 DEF Mapped, ConnsOf, Gone
      <3>3. QED
        BY <1>1, <1>2, <2>2, <3>1, <3>2
    <2>3. QED
      BY <2>1, <2>2
  <1>6. QED
    BY <1>3, <1>4, <1>5 DEF Mapped, ConnsOf, Gone

\* disconnect removes the entry of the connection's hotkey.
LEMMA DisconnectMaps ==
  ASSUME SocketsInv, NEW c \in Sessions, Disconnects(c)
  PROVE  SocketsInv'
  <1> USE SocketsAssumption DEF SocketsInv
  <1>1. /\ session[c].link = "closing" /\ session'[c].link = "gone"
        /\ \A s \in Sessions : session'[s].link = IF s = c THEN "gone" ELSE session[s].link
        /\ \A s \in Sessions : session'[s].asking = session[s].asking
    BY DEF Disconnects, SocketsTypeOK
  <1>2. /\ \A s \in Sessions : sessionMap'[s] = IF s = c THEN NoKey ELSE sessionMap[s]
        /\ \A h \in MinerKeys : reverseMap'[h] = IF h = sessionMap[c] THEN NoSession ELSE reverseMap[h]
        /\ doubt' = doubt
    BY DEF Disconnects, Removed, SocketsTypeOK
  <1>3. SocketsTypeOK'
    BY DEF Disconnects, Removed, SocketsTypeOK
  <1>4. Unborn'
    BY <1>1, <1>2 DEF Unborn
  <1>5. ASSUME NEW h \in MinerKeys, h \notin doubt', NEW s \in Sessions
        PROVE  reverseMap'[h] = s <=> sessionMap'[s] = h /\ session'[s].link # "gone"
    <2>1. \A t \in Sessions : reverseMap[h] = t <=> sessionMap[t] = h /\ session[t].link # "gone"
      BY <1>2, <1>5 DEF Mapped, ConnsOf, Gone
    <2>2. CASE sessionMap[c] = h
      BY <1>1, <1>2, <2>1, <2>2
    <2>3. CASE sessionMap[c] # h
      BY <1>1, <1>2, <2>1, <2>3
    <2>4. QED
      BY <2>2, <2>3
  <1>6. QED
    BY <1>3, <1>4, <1>5 DEF Mapped, ConnsOf, Gone

LEMMA SocketsStep == SocketsInv /\ [SocketsNext]_socketVars => SocketsInv'
  <1> SUFFICES ASSUME SocketsInv, [SocketsNext]_socketVars PROVE SocketsInv'
    OBVIOUS
  <1> USE DEF SocketsInv, SocketsTypeOK, Unborn, Mapped, ConnsOf, Gone
  <1>1. CASE UNCHANGED socketVars
    BY <1>1 DEF socketVars
  <1>2. ASSUME NEW c \in Sessions, Connects(c) PROVE SocketsInv'
    BY <1>2 DEF Connects
  <1>3. ASSUME NEW c \in Sessions, Drops(c) PROVE SocketsInv'
    BY <1>3 DEF Drops
  <1>4. ASSUME NEW c \in Sessions, NEW h \in MinerKeys, Asks(c, h) PROVE SocketsInv'
    BY <1>4 DEF Asks
  <1>5. ASSUME NEW c \in Sessions, NEW h \in MinerKeys, Refuses(c, h) PROVE SocketsInv'
    <2>1. /\ UNCHANGED <<sessionMap, reverseMap, doubt>>
          /\ session' \in [Sessions -> [link : {"none", "open", "closing", "gone"},
                                        asking : SUBSET MinerKeys]]
          /\ session[c].link # "none"
      BY <1>5 DEF Refuses
    <2>2. \A s \in Sessions : /\ session'[s].link = "none" <=> session[s].link = "none"
                              /\ session'[s].link = "gone" <=> session[s].link = "gone"
                              /\ session'[s].asking \subseteq session[s].asking
      BY <1>5 DEF Refuses
    <2>3. QED
      BY <2>1, <2>2
  <1>6. QED
    BY <1>1, <1>2, <1>3, <1>4, <1>5, AuthenticationMaps, DisconnectMaps DEF SocketsNext

LEMMA SocketsInvariant == SocketsSpec => []SocketsInv
  BY SocketsStart, SocketsStep, PTL DEF SocketsSpec

LEMMA SocketsInvImplies == SocketsInv => SocketsTypeOK /\ MapFollowsSessions
  <1> SUFFICES ASSUME SocketsInv, NEW h \in MinerKeys \ doubt
               PROVE  IF ConnsOf(h) = {} THEN reverseMap[h] = NoSession
                      ELSE ConnsOf(h) = {reverseMap[h]}
    BY DEF SocketsInv, MapFollowsSessions
  <1>1. /\ reverseMap[h] \in Sessions \cup {NoSession}
        /\ ConnsOf(h) \subseteq Sessions
        /\ \A s \in Sessions : reverseMap[h] = s <=> s \in ConnsOf(h)
    BY DEF SocketsInv, SocketsTypeOK, Mapped, ConnsOf
  <1>2. QED
    BY <1>1, SocketsAssumption

-----------------------------------------------------------------------------
(* JobOutput. *)

\* What is marked as uploaded has been stored, in the row and in all that a
\* call has loaded; and so has what is about to be marked.
MarkedIsStored == /\ job.uploaded \subseteq stored
                  /\ \A c \in Calls : call[c].saw.uploaded \subseteq stored
                  /\ \A c \in Puts : call[c].pc = "stored" => PutOutput[c] \in stored

\* A completion that nothing was announced over: no file is in the row that it
\* has not loaded, and the status is the one it has loaded until it is done.
Unchanged(c) == /\ job.files \subseteq call[c].saw.files
                /\ ~job.finished => job.status = call[c].saw.status

OutputInv == /\ OutputTypeOK
             /\ MarkedIsStored
             /\ ~crossed => \A c \in Completes : call[c].pc = "loaded" => Unchanged(c)
             /\ CompleteMeansStored

LEMMA OutputStart == OutputInit => OutputInv
  <1> SUFFICES ASSUME OutputInit PROVE OutputInv
    OBVIOUS
  <1>1. NewJob \in Row /\ NewJob.uploaded = {} /\ NewJob.finished = FALSE
    BY DEF NewJob, Row, Statuses
  <1>2. /\ call \in [Calls -> [pc : {"new", "loaded", "stored", "over"}, saw : Row]]
        /\ \A c \in Calls : call[c].pc = "new" /\ call[c].saw = NewJob
    BY <1>1 DEF OutputInit
  <1>3. QED
    BY <1>1, <1>2 DEF OutputInit, OutputInv, OutputTypeOK, MarkedIsStored, Unchanged,
                      CompleteMeansStored, Calls

\* What complete_job makes of the status: complete only if it loaded a job
\* without files, or one all of whose files were uploaded.
LEMMA StatusOfCompletion ==
  ASSUME NEW saw \in Row
  PROVE  /\ NewStatus(saw) \in Statuses
         /\ NewStatus(saw) = "complete" => saw.files = {} \/ saw.files = saw.uploaded
  BY DEF NewStatus, Row, Statuses, Ended, AllUploaded

\* finish_job_and_get_upload_targets writes each column or leaves it.
LEMMA ColumnsOfFinish ==
  ASSUME NEW row \in Row, NEW saw \in Row, NEW payload \in Payloads
  PROVE  LET new == Announced(row, saw, payload)
         IN  new \in Row /\ new.finished = row.finished /\ new.uploaded \in {row.uploaded, {}}
  <1> DEFINE status == IF payload.status = "complete" /\ payload.files # {}
                         THEN "complete_pending_uploads" ELSE payload.status
             outputs == Column(<<saw.files, saw.uploaded>>, <<row.files, row.uploaded>>,
                               <<payload.files, {}>>)
             newStatus == Column(saw.status, row.status, status)
             newDetail == Column(saw.detail, row.detail, payload.detail)
  <1>1. \/ outputs[1] = row.files /\ outputs[2] = row.uploaded
        \/ outputs[1] = payload.files /\ outputs[2] = {}
    BY DEF Column
  <1>2. newStatus \in Statuses
    BY DEF Column, Row, Payloads, Statuses
  <1>3. newDetail \in BOOLEAN
    BY DEF Column, Row, Payloads
  <1>4. Announced(row, saw, payload) =
            [row EXCEPT !.status = newStatus, !.detail = newDetail,
                        !.files = outputs[1], !.uploaded = outputs[2]]
    BY DEF Announced
  <1> HIDE DEF outputs, newStatus, newDetail
  <1>5. \/ Announced(row, saw, payload) =
               [row EXCEPT !.status = newStatus, !.detail = newDetail,
                           !.files = row.files, !.uploaded = row.uploaded]
        \/ Announced(row, saw, payload) =
               [row EXCEPT !.status = newStatus, !.detail = newDetail,
                           !.files = payload.files, !.uploaded = {}]
    BY <1>1, <1>4, Zenon
  <1>6. payload.files \subseteq Outputs
    BY DEF Payloads
  <1>7. QED
    BY <1>2, <1>3, <1>5, <1>6 DEF Row

\* A call that moves on forgets what it loaded.
LEMMA CallMovesOn ==
  ASSUME OutputTypeOK, NEW c \in Calls, NEW pc \in {"stored", "over"}, MovesTo(c, pc)
  PROVE  /\ call' \in [Calls -> [pc : {"new", "loaded", "stored", "over"}, saw : Row]]
         /\ \A d \in Calls : call'[d] = IF d = c THEN [pc |-> pc, saw |-> NewJob] ELSE call[d]
  <1>1. NewJob \in Row
    BY DEF NewJob, Row, Statuses
  <1>2. QED
    BY <1>1 DEF OutputTypeOK, MovesTo

LEMMA OutputStep == OutputInv /\ [OutputNext]_outputVars => OutputInv'
  <1> SUFFICES ASSUME OutputInv, [OutputNext]_outputVars PROVE OutputInv'
    OBVIOUS
  <1> USE DEF OutputInv
  <1>1. CASE UNCHANGED outputVars
    BY <1>1 DEF outputVars, OutputTypeOK, MarkedIsStored, Unchanged, CompleteMeansStored
  <1>2. ASSUME NEW c \in Calls, LoadsJob(c) PROVE OutputInv'
    BY <1>2 DEF LoadsJob, OutputTypeOK, MarkedIsStored, Unchanged, CompleteMeansStored
  <1>3. ASSUME NEW c \in Finishes, Finish(c) PROVE OutputInv'
    <2>1. c \in Calls /\ UNCHANGED stored /\ MovesTo(c, "over")
      BY <1>3 DEF Calls, Finish, OutputEnds
    <2>2. job' \in Row /\ job'.finished = job.finished /\ job'.uploaded \in {job.uploaded, {}}
      <3>1. PICK payload \in Payloads : job' = Announced(job, call[c].saw, payload)
        BY <1>3 DEF Finish
      <3>2. job \in Row /\ call[c].saw \in Row
        BY <2>1 DEF OutputTypeOK
      <3>3. QED
        BY <3>1, <3>2, ColumnsOfFinish
    <2>3. /\ crossed' \in BOOLEAN
          /\ ~crossed' => ~job.finished /\ \A d \in Completes : call[d].pc # "loaded"
      BY <1>3 DEF Finish, OutputTypeOK
    <2>4. OutputTypeOK'
      BY <2>1, <2>2, <2>3, CallMovesOn DEF OutputTypeOK
    <2>5. MarkedIsStored'
      BY <2>1, <2>2, CallMovesOn DEF MarkedIsStored, NewJob, Calls
    <2>6. ~crossed' => \A d \in Completes : call'[d].pc # "loaded"
      BY <2>1, <2>3, CallMovesOn DEF Calls
    <2>7. QED
      BY <2>2, <2>3, <2>4, <2>5, <2>6 DEF CompleteMeansStored
  <1>4. ASSUME NEW c \in Puts, Stores(c) PROVE OutputInv'
    <2>1. /\ c \in Calls /\ PutOutput[c] \in Outputs
          /\ UNCHANGED <<job, crossed>> /\ stored' = stored \cup {PutOutput[c]}
          /\ MovesTo(c, "stored")
      BY <1>4, OutputAssumption DEF Calls, Stores
    <2>2. OutputTypeOK' /\ MarkedIsStored'
      BY <2>1, CallMovesOn DEF OutputTypeOK, MarkedIsStored, NewJob, Calls
    <2>3. \A d \in Completes : call'[d].pc = "loaded" => call'[d] = call[d]
      BY <2>1, CallMovesOn DEF Calls
    <2>4. QED
      BY <2>1, <2>2, <2>3 DEF Unchanged, CompleteMeansStored
  <1>5. ASSUME NEW c \in Puts, Marks(c) PROVE OutputInv'
    <2>1. /\ c \in Calls /\ PutOutput[c] \in Outputs /\ PutOutput[c] \in stored
          /\ UNCHANGED <<stored, crossed>> /\ MovesTo(c, "over")
      BY <1>5, OutputAssumption DEF Calls, Marks, OutputEnds, MarkedIsStored
    <2>2. /\ job' \in Row /\ job'.uploaded \subseteq stored /\ job'.files \subseteq job.files
          /\ job'.finished = job.finished /\ job'.status = job.status
      BY <1>5, <2>1 DEF Marks, OutputTypeOK, MarkedIsStored, Row
    <2>3. OutputTypeOK' /\ MarkedIsStored'
      BY <2>1, <2>2, CallMovesOn DEF OutputTypeOK, MarkedIsStored, NewJob, Calls
    <2>4. \A d \in Completes : call'[d].pc = "loaded" => call'[d] = call[d]
      BY <2>1, CallMovesOn DEF Calls
    <2>5. QED
      BY <2>1, <2>2, <2>3, <2>4 DEF Unchanged, CompleteMeansStored
  <1>6. ASSUME NEW c \in Completes, Complete(c) PROVE OutputInv'
    <2> DEFINE saw == call[c].saw
               new == NewStatus(saw)
               status == Column(saw.status, job.status, new)
    <2>1. /\ c \in Calls /\ UNCHANGED <<stored, crossed>> /\ MovesTo(c, "over")
          /\ call[c].pc = "loaded"
          /\ \/ job' = job
             \/ job' = [job EXCEPT !.finished = TRUE, !.status = status,
                                   !.detail = @ \/ new = "partial_failure"]
      BY <1>6 DEF Calls, Complete, OutputEnds
    <2>2. saw \in Row /\ saw.uploaded \subseteq stored /\ (~crossed => Unchanged(c))
      BY <2>1 DEF OutputTypeOK, MarkedIsStored
    <2>3. new \in Statuses /\ (new = "complete" => saw.files = {} \/ saw.files = saw.uploaded)
      BY <2>2, StatusOfCompletion
    <2>4. status \in Statuses /\ ((status = job.status /\ new = saw.status) \/ status = new)
      BY <2>3 DEF Column, OutputTypeOK, Row
    <2> HIDE DEF new, status
    <2>5. /\ job' \in Row /\ job'.files = job.files /\ job'.uploaded = job.uploaded
          /\ job' = job \/ (job'.finished = TRUE /\ job'.status = status)
      BY <2>1, <2>3, <2>4 DEF OutputTypeOK, Row
    <2>6. OutputTypeOK' /\ MarkedIsStored'
      BY <2>1, <2>5, CallMovesOn DEF OutputTypeOK, MarkedIsStored, NewJob, Calls
    <2>7. \A d \in Completes : call'[d].pc = "loaded" => call'[d] = call[d]
      BY <2>1, CallMovesOn DEF Calls
    <2>8. ~crossed' => \A d \in Completes : call'[d].pc = "loaded" => Unchanged(d)'
      BY <2>1, <2>5, <2>7 DEF Unchanged
    <2>9. CompleteMeansStored'
      <3> SUFFICES ASSUME job'.finished, job'.status = "complete", ~crossed
                   PROVE  job.files \subseteq stored
        BY <2>1, <2>5 DEF CompleteMeansStored
      <3>1. CASE job.finished /\ job.status = "complete"
        BY <3>1 DEF CompleteMeansStored
      <3>2. CASE ~(job.finished /\ job.status = "complete")
        <4>1. status = "complete" /\ job.files \subseteq saw.files
          BY <2>2, <2>5, <3>2 DEF Unchanged
        <4>2. new = "complete"
          BY <2>2, <2>4, <3>2, <4>1 DEF Unchanged
        <4>3. QED
          BY <2>2, <2>3, <4>1, <4>2
      <3>3. QED
        BY <3>1, <3>2
    <2>10. QED
      BY <2>6, <2>8, <2>9
  <1>7. QED
    BY <1>1, <1>2, <1>3, <1>4, <1>5, <1>6 DEF OutputNext

LEMMA OutputInvariant == OutputSpec => []OutputInv
  BY OutputStart, OutputStep, PTL DEF OutputSpec

LEMMA OutputInvImplies == OutputInv => OutputTypeOK /\ CompleteMeansStored
  BY DEF OutputInv

-----------------------------------------------------------------------------
(* Nodes: the rows. *)

Busy(o) == offer[o].pc \notin {"new", "over"}

\* Of a GPU that was not offered in haste, one call at a time takes care; and
\* while it does, the row is its own or not there.
OneAtATime(o) ==
    Busy(o) => \A g \in OfferGpus[o] \ hasty :
                   /\ \A p \in Offers : Busy(p) /\ g \in OfferGpus[p] => p = o
                   /\ node[g] \in {NoOffer, o}

\* A validation goes on with all GPUs of the call or not at all.
ProvesAll(o) == /\ offer[o].pc \in {"device info", "povw", "proven"} => offer[o].found = OfferGpus[o]
                /\ offer[o].pc = "proven" => o \in proven

RowsInv == /\ NodesTypeOK
           /\ \A o \in Offers : OneAtATime(o) /\ ProvesAll(o)
           /\ VerifiedAsProven

LEMMA RowsStart == NodesInit => RowsInv
  <1> SUFFICES ASSUME NodesInit PROVE RowsInv
    OBVIOUS
  <1>1. NodesTypeOK
    BY EmptySeq DEF NodesInit, NodesTypeOK
  <1>2. QED
    BY <1>1 DEF NodesInit, RowsInv, OneAtATime, ProvesAll, Busy, VerifiedAsProven

PCs == {"new", "hosts", "queued", "device info", "povw", "proven", "over"}

LEMMA OfferMovesOn ==
  ASSUME NodesTypeOK, NEW o \in Offers, NEW pc \in PCs, OfferStep(o, pc)
  PROVE  /\ offer' \in [Offers -> [pc : PCs, found : SUBSET Gpus]]
         /\ \A p \in Offers : /\ offer'[p].found = offer[p].found
                              /\ offer'[p].pc = IF p = o THEN pc ELSE offer[p].pc
                              /\ p # o => (Busy(p)' <=> Busy(p))
         /\ Busy(o)' <=> pc \notin {"new", "over"}
  BY DEF OfferStep, NodesTypeOK, PCs, Busy

LEMMA RowsStep == RowsInv /\ [NodesNext]_nodeVars => RowsInv'
  <1> SUFFICES ASSUME RowsInv, [NodesNext]_nodeVars PROVE RowsInv'
    OBVIOUS
  <1> USE OfferAssumption
  <1>1. NodesTypeOK /\ OfferGpus \in [Offers -> SUBSET Gpus]
    BY DEF RowsInv
  <1>2. CASE UNCHANGED nodeVars
    BY <1>2 DEF nodeVars, RowsInv, NodesTypeOK, OneAtATime, ProvesAll, Busy, VerifiedAsProven
  <1>3. ASSUME NEW o \in Offers, Offered(o) PROVE RowsInv'
    <2>1. OfferStep(o, "hosts") /\ UNCHANGED <<node, verified, history, proven>>
      BY <1>3 DEF Offered
    <2>2. hasty' = hasty \cup (OfferGpus[o] \cap Open(o)) /\ offer[o].pc = "new"
      BY <1>3 DEF Offered
    <2>3. \A g \in OfferGpus[o] : node[g] = NoOffer
      BY <1>3 DEF Offered
    <2>4. \A p \in Offers, g \in OfferGpus[o] :
              p # o /\ Busy(p) /\ g \in OfferGpus[p] => g \in hasty'
      BY <2>2 DEF Open, Busy
    <2>5. NodesTypeOK'
      <3>1. offer' \in [Offers -> [pc : PCs, found : SUBSET Gpus]]
        BY <1>1, <2>1, OfferMovesOn DEF PCs
      <3>2. hasty' \subseteq Gpus
        BY <1>1, <2>2 DEF NodesTypeOK
      <3>3. QED
        BY <1>1, <2>1, <3>1, <3>2 DEF NodesTypeOK, PCs
    <2>6. \A p \in Offers : OneAtATime(p)'
      <3> SUFFICES ASSUME NEW q \in Offers, Busy(q)', NEW g \in OfferGpus[q] \ hasty'
                   PROVE  /\ \A p \in Offers : Busy(p)' /\ g \in OfferGpus[p] => p = q
                          /\ node[g] \in {NoOffer, q}
        BY <2>1 DEF OneAtATime
      <3>1. /\ \A p \in Offers \ {o} : Busy(p)' <=> Busy(p)
            /\ g \notin hasty
        BY <1>1, <2>1, <2>2, OfferMovesOn DEF PCs
      <3>2. CASE q = o
        BY <2>3, <2>4, <3>1, <3>2
      <3>3. CASE q # o
        BY <2>4, <3>1, <3>3 DEF RowsInv, OneAtATime
      <3>4. QED
        BY <3>2, <3>3
    <2>7. \A p \in Offers : ProvesAll(p)'
      BY <1>1, <2>1, <2>2, OfferMovesOn DEF RowsInv, ProvesAll, PCs
    <2>8. QED
      BY <2>1, <2>2, <2>5, <2>6, <2>7 DEF RowsInv, VerifiedAsProven
  <1>4. ASSUME NEW o \in Offers, Registers(o) PROVE RowsInv'
    <2>1. OfferStep(o, "queued") /\ UNCHANGED <<verified, proven, hasty>> /\ offer[o].pc = "hosts"
      BY <1>4 DEF Registers
    <2>2. node' = [g \in Gpus |-> IF g \in OfferGpus[o] THEN o ELSE node[g]]
      BY <1>4 DEF Registers
    <2>3. \A g \in OfferGpus[o] : node[g] = NoOffer
      BY <1>4 DEF Registers
    <2>4. history' \in [Gpus -> Seq({OfferMiner[p] : p \in Offers})]
      <3>1. \A h \in Seq({OfferMiner[p] : p \in Offers}) :
                Append(h, OfferMiner[o]) \in Seq({OfferMiner[p] : p \in Offers})
        BY AppendProperties
      <3>2. QED
        BY <1>1, <1>4, <3>1 DEF Registers, NodesTypeOK
    <2>5. NodesTypeOK'
      <3>1. \A g \in Gpus : node'[g] = IF g \in OfferGpus[o] THEN o ELSE node[g]
        BY <2>2
      <3>2. node' \in [Gpus -> Offers \cup {NoOffer}]
        BY <1>1, <2>2 DEF NodesTypeOK
      <3>3. verified' \subseteq {g \in Gpus : node'[g] # NoOffer}
        BY <1>1, <2>1, <3>1 DEF NodesTypeOK
      <3>4. offer' \in [Offers -> [pc : PCs, found : SUBSET Gpus]]
        BY <1>1, <2>1, OfferMovesOn DEF PCs
      <3>5. QED
        BY <1>1, <2>1, <2>4, <3>2, <3>3, <3>4 DEF NodesTypeOK, PCs
    <2>6. \A p \in Offers : OneAtATime(p)'
      <3>1. /\ \A p \in Offers : Busy(p)' <=> Busy(p)
            /\ Busy(o)
        BY <1>1, <2>1, OfferMovesOn DEF PCs, Busy
      <3>2. \A g \in Gpus : node'[g] = IF g \in OfferGpus[o] THEN o ELSE node[g]
        BY <2>2
      <3>3. QED
        BY <1>1, <2>1, <3>1, <3>2 DEF RowsInv, OneAtATime
    <2>7. \A p \in Offers : ProvesAll(p)'
      BY <1>1, <2>1, OfferMovesOn DEF RowsInv, ProvesAll, PCs
    <2>8. VerifiedAsProven'
      BY <1>1, <2>1, <2>2, <2>3 DEF RowsInv, VerifiedAsProven, NodesTypeOK
    <2>9. QED
      BY <2>5, <2>6, <2>7, <2>8 DEF RowsInv
  <1>5. ASSUME NEW o \in Offers,
               \/ Refused(o)
               \/ DeviceInfo(o)
               \/ Povw(o)
        PROVE  RowsInv'
    <2>1. UNCHANGED <<node, verified, history, hasty>> /\ Busy(o)
      BY <1>5 DEF Refused, DeviceInfo, Povw, Busy
    <2>2. PICK pc \in PCs : /\ OfferStep(o, pc)
                            /\ pc \in {"povw", "proven"} => offer[o].found = OfferGpus[o]
                            /\ pc = "proven" => o \in proven'
                            /\ pc \in {"povw", "proven", "over"}
      BY <1>5 DEF Refused, DeviceInfo, Povw, PCs, RowsInv, ProvesAll
    <2>3. proven \subseteq proven' /\ proven' \subseteq Offers
      BY <1>1, <1>5 DEF Refused, DeviceInfo, Povw, NodesTypeOK
    <2>4. NodesTypeOK'
      <3>1. offer' \in [Offers -> [pc : PCs, found : SUBSET Gpus]]
        BY <1>1, <2>2, OfferMovesOn
      <3>2. QED
        BY <1>1, <2>1, <2>3, <3>1 DEF NodesTypeOK, PCs
    <2>5. \A p \in Offers : OneAtATime(p)'
      BY <1>1, <2>1, <2>2, OfferMovesOn DEF RowsInv, OneAtATime, Busy
    <2>6. \A p \in Offers : ProvesAll(p)'
      BY ZenonT(60), <1>1, <2>2, <2>3, OfferMovesOn DEF RowsInv, ProvesAll
    <2>7. QED
      BY <2>1, <2>3, <2>4, <2>5, <2>6 DEF RowsInv, VerifiedAsProven
  <1>6. ASSUME NEW o \in Offers, LoadsNodes(o) PROVE RowsInv'
    <2>1. UNCHANGED <<node, verified, history, proven, hasty>> /\ offer[o].pc = "queued"
      BY <1>6 DEF LoadsNodes
    <2>2. \/ offer' = [offer EXCEPT ![o] = [pc |-> "device info", found |-> OfferGpus[o]]]
          \/ offer' = [offer EXCEPT ![o] = [pc |-> "over", found |-> {}]]
      BY <1>6 DEF LoadsNodes, AllPresent
    <2>3. /\ offer' \in [Offers -> [pc : PCs, found : SUBSET Gpus]]
          /\ \A p \in Offers : p # o => offer'[p] = offer[p]
          /\ \/ offer'[o].pc = "device info" /\ offer'[o].found = OfferGpus[o]
             \/ offer'[o].pc = "over"
      <3>1. OfferGpus[o] \in SUBSET Gpus
        BY <1>1
      <3>2. PICK r \in [pc : PCs, found : SUBSET Gpus] :
                /\ offer' = [offer EXCEPT ![o] = r]
                /\ (r.pc = "device info" /\ r.found = OfferGpus[o]) \/ r.pc = "over"
        <4>1. /\ [pc |-> "device info", found |-> OfferGpus[o]] \in [pc : PCs, found : SUBSET Gpus]
              /\ [pc |-> "over", found |-> {}] \in [pc : PCs, found : SUBSET Gpus]
          BY <3>1 DEF PCs
        <4>2. QED
          BY <2>2, <4>1
      <3>3. QED
        BY <1>1, <3>2 DEF NodesTypeOK, PCs
    <2>4. \A p \in Offers : Busy(p)' => Busy(p)
      BY <2>1, <2>3 DEF Busy
    <2>5. \A p \in Offers : OneAtATime(p)' /\ ProvesAll(p)'
      BY <2>1, <2>3, <2>4 DEF RowsInv, OneAtATime, ProvesAll
    <2>6. QED
      BY <1>1, <2>1, <2>3, <2>5 DEF RowsInv, VerifiedAsProven, NodesTypeOK, PCs
  <1>7. ASSUME NEW o \in Offers, Verifies(o) PROVE RowsInv'
    <2>1. UNCHANGED <<node, history, proven, hasty>> /\ OfferStep(o, "over")
          /\ offer[o].pc = "proven" /\ verified' = verified \cup Present(o)
      BY <1>7 DEF Verifies
    <2>2. \A g \in Present(o) \ hasty : node[g] \in proven
      BY ZenonT(60), <2>1 DEF Present, RowsInv, OneAtATime, ProvesAll, Busy
    <2>3. NodesTypeOK'
      <3>1. offer' \in [Offers -> [pc : PCs, found : SUBSET Gpus]]
        BY <1>1, <2>1, OfferMovesOn DEF PCs
      <3>2. Present(o) \subseteq {g \in Gpus : node[g] # NoOffer}
        BY <1>1 DEF Present
      <3>3. QED
        BY <1>1, <2>1, <3>1, <3>2 DEF NodesTypeOK, PCs
    <2>4. \A p \in Offers : OneAtATime(p)' /\ ProvesAll(p)'
      <3>1. /\ \A p \in Offers : Busy(p)' => Busy(p)
            /\ \A p \in Offers : offer'[p].found = offer[p].found
            /\ \A p \in Offers : offer'[p].pc \in {offer[p].pc, "over"}
        BY <1>1, <2>1, OfferMovesOn DEF PCs
      <3>2. QED
        BY <2>1, <3>1 DEF RowsInv, OneAtATime, ProvesAll
    <2>5. QED
      BY <2>1, <2>2, <2>3, <2>4 DEF RowsInv, VerifiedAsProven
  <1>8. ASSUME NEW g \in Gpus, DeletesNode(g) PROVE RowsInv'
    BY <1>1, <1>8 DEF DeletesNode, RowsInv, NodesTypeOK, OneAtATime, ProvesAll, Busy,
                      VerifiedAsProven
  <1>9. ASSUME NEW g \in Gpus, DayPasses(g) PROVE RowsInv'
    <2>1. Tail(history[g]) \in Seq({OfferMiner[p] : p \in Offers})
      BY <1>1, <1>9, HeadTailProperties DEF DayPasses, NodesTypeOK
    <2>2. NodesTypeOK'
      BY <1>1, <1>9, <2>1 DEF DayPasses, NodesTypeOK
    <2>3. QED
      BY <1>9, <2>2 DEF DayPasses, RowsInv, OneAtATime, ProvesAll, Busy, VerifiedAsProven
  <1>10. QED
    BY <1>2, <1>3, <1>4, <1>5, <1>6, <1>7, <1>8, <1>9 DEF NodesNext, OfferNext

-----------------------------------------------------------------------------
(* Nodes: the history, a sequence of hotkeys for each GPU. *)

HandOversOf(h) == {k \in 2 .. Len(h) : h[k] # h[k - 1]}

LEMMA HandOversFinite ==
  ASSUME NEW S, NEW h \in Seq(S)
  PROVE  IsFiniteSet(HandOversOf(h)) /\ Cardinality(HandOversOf(h)) \in Nat
  <1>1. Len(h) \in Nat
    BY LenProperties
  <1>2. IsFiniteSet(2 .. Len(h))
    BY <1>1, FS_Interval
  <1>3. HandOversOf(h) \in SUBSET (2 .. Len(h))
    BY DEF HandOversOf
  <1>4. QED
    BY <1>2, <1>3, FS_Subset, FS_CardinalityType

\* The first entry is forgotten: no new handover, and the same latest entry.
LEMMA HandOversOfTail ==
  ASSUME NEW S, NEW h \in Seq(S), h # <<>>
  PROVE  /\ Cardinality(HandOversOf(Tail(h))) <= Cardinality(HandOversOf(h))
         /\ Tail(h) # <<>> => Last(Tail(h)) = Last(h)
         /\ Tail(h) = <<>> => Cardinality(HandOversOf(Tail(h))) = 0
  <1> DEFINE t == Tail(h)
             shift == [k \in HandOversOf(t) |-> k + 1]
  <1>1. /\ Len(h) \in Nat /\ t \in Seq(S) /\ Len(t) = Len(h) - 1
        /\ \A i \in 1 .. Len(t) : t[i] = h[i + 1]
    BY HeadTailProperties, LenProperties
  <1>2. \A k \in HandOversOf(t) : k + 1 \in HandOversOf(h)
    BY <1>1 DEF HandOversOf
  <1>3. shift \in Injection(HandOversOf(t), HandOversOf(h))
    <2>1. \A i, j \in HandOversOf(t) : i + 1 = j + 1 => i = j
      BY DEF HandOversOf
    <2>2. QED
      BY <1>2, <2>1 DEF Injection, IsInjective
  <1>4. Cardinality(HandOversOf(t)) <= Cardinality(HandOversOf(h))
    BY <1>3, HandOversFinite, FS_Injection
  <1>5. ASSUME t # <<>> PROVE Last(t) = Last(h)
    <2>1. Len(t) \in Nat \ {0}
      BY <1>1, <1>5, EmptySeq
    <2>2. QED
      BY <1>1, <2>1 DEF Last
  <1>6. ASSUME t = <<>> PROVE Cardinality(HandOversOf(t)) = 0
    <2>1. HandOversOf(t) = {}
      BY <1>6 DEF HandOversOf
    <2>2. QED
      BY <2>1, FS_EmptySet
  <1>7. QED
    BY <1>4, <1>5, <1>6

\* A new entry hands the GPU over at most once, and not at all to who had it.
LEMMA HandOversOfAppend ==
  ASSUME NEW S, NEW h \in Seq(S), NEW m \in S
  PROVE  /\ Cardinality(HandOversOf(Append(h, m))) <= Cardinality(HandOversOf(h)) + 1
         /\ h = <<>> \/ Last(h) = m =>
                Cardinality(HandOversOf(Append(h, m))) <= Cardinality(HandOversOf(h))
  <1> DEFINE a == Append(h, m)
             more == HandOversOf(h) \cup {Len(h) + 1}
  <1>1. /\ Len(h) \in Nat /\ Len(a) = Len(h) + 1
        /\ \A i \in 1 .. Len(h) : a[i] = h[i]
        /\ a[Len(h) + 1] = m
    BY AppendProperties, LenProperties
  <1>2. HandOversOf(a) \subseteq more
    BY <1>1 DEF HandOversOf
  <1>3. ASSUME h = <<>> \/ Last(h) = m PROVE HandOversOf(a) \subseteq HandOversOf(h)
    <2>1. h = <<>> => Len(h) = 0
      OBVIOUS
    <2>2. Len(h) + 1 \notin HandOversOf(a)
      BY <1>1, <1>3, <2>1 DEF HandOversOf, Last
    <2>3. QED
      BY <1>2, <2>2
  <1>4. /\ IsFiniteSet(HandOversOf(h)) /\ Cardinality(HandOversOf(h)) \in Nat
        /\ IsFiniteSet(more) /\ Cardinality(more) <= Cardinality(HandOversOf(h)) + 1
    <2>1. IsFiniteSet(HandOversOf(h)) /\ Cardinality(HandOversOf(h)) \in Nat
      BY HandOversFinite
    <2>2. /\ IsFiniteSet(more)
          /\ Cardinality(more) = IF Len(h) + 1 \in HandOversOf(h) THEN Cardinality(HandOversOf(h))
                                 ELSE Cardinality(HandOversOf(h)) + 1
      BY <2>1, FS_AddElement
    <2>3. QED
      BY <2>1, <2>2
  <1>5. /\ Cardinality(HandOversOf(a)) \in Nat /\ Cardinality(more) \in Nat
        /\ Cardinality(HandOversOf(a)) <= Cardinality(more)
    <2>1. HandOversOf(a) \in SUBSET more /\ IsFiniteSet(more)
      BY <1>2, <1>4
    <2> HIDE DEF more
    <2>2. IsFiniteSet(HandOversOf(a)) /\ Cardinality(HandOversOf(a)) <= Cardinality(more)
      BY <2>1, FS_Subset
    <2>3. QED
      BY <2>1, <2>2, FS_CardinalityType
  <1>6. HandOversOf(a) \subseteq HandOversOf(h) =>
            Cardinality(HandOversOf(a)) <= Cardinality(HandOversOf(h))
    BY <1>4, FS_Subset
  <1> HIDE DEF more
  <1>7. QED
    BY <1>3, <1>4, <1>5, <1>6

\* What create_nodes lets pass has been handed over once at most.
LEMMA FewHandOvers ==
  ASSUME NEW S, NEW h \in Seq(S), Len(h) <= 2 \/ ~(Cardinality(ToSet(h)) >= 2)
  PROVE  Cardinality(HandOversOf(h)) <= 1
  <1>1. Len(h) \in Nat /\ DOMAIN h = 1 .. Len(h) /\ h \in [1 .. Len(h) -> S]
    BY LenProperties
  <1>2. CASE Len(h) <= 2
    <2>1. HandOversOf(h) \in SUBSET {2}
      BY <1>1, <1>2 DEF HandOversOf
    <2>2. IsFiniteSet({2}) /\ Cardinality({2}) = 1
      BY FS_Singleton
    <2>3. QED
      BY <2>1, <2>2, FS_Subset
  <1>3. CASE ~(Cardinality(ToSet(h)) >= 2)
    <2>1. IsFiniteSet(ToSet(h))
      <3>1. h \in Surjection(1 .. Len(h), ToSet(h))
        BY <1>1 DEF Surjection, ToSet
      <3>2. IsFiniteSet(1 .. Len(h))
        BY <1>1, FS_Interval
      <3>3. QED
        BY <3>1, <3>2, FS_Surjection
    <2>2. ASSUME NEW k \in HandOversOf(h) PROVE FALSE
      <3>1. h[k] \in ToSet(h) /\ h[k - 1] \in ToSet(h) /\ h[k] # h[k - 1]
        BY <1>1, <2>2 DEF HandOversOf, ToSet
      <3> DEFINE one == {h[k]}
                 other == h[k - 1]
                 both == one \cup {other}
      <3>2. Cardinality(both) = 2
        <4>1. IsFiniteSet(one) /\ Cardinality(one) = 1 /\ other \notin one
          BY <3>1, FS_Singleton
        <4>2. Cardinality(both) = IF other \in one THEN Cardinality(one) ELSE Cardinality(one) + 1
          BY <4>1, FS_AddElement, Zenon
        <4>3. QED
          BY <4>1, <4>2
      <3>3. both \in SUBSET ToSet(h)
        BY <3>1
      <3> HIDE DEF both
      <3>4. QED
        <4>1. Cardinality(both) <= Cardinality(ToSet(h))
          BY <2>1, <3>3, FS_Subset
        <4>2. Cardinality(ToSet(h)) \in Nat
          BY <2>1, FS_CardinalityType
        <4>3. QED
          BY <1>3, <3>2, <4>1, <4>2
    <2>3. HandOversOf(h) = {}
      BY <2>2
    <2>4. QED
      BY <2>3, FS_EmptySet
  <1>4. QED
    BY <1>2, <1>3

\* A call that has passed the check for hoppers, and has not yet registered its
\* GPUs: the entry it will add makes no handover, or the second one at most.
FewBefore(o) ==
    offer[o].pc = "hosts" =>
        \A g \in OfferGpus[o] \ hasty :
            \/ history[g] # <<>> /\ Last(history[g]) = OfferMiner[o]
            \/ Cardinality(HandOvers(g)) <= 1

HistoryInv == RowsInv /\ HandOversBounded /\ \A o \in Offers : FewBefore(o)

LEMMA HistoryStart == NodesInit => HistoryInv
  <1> SUFFICES ASSUME NodesInit PROVE HistoryInv
    OBVIOUS
  <1>1. \A g \in Gpus : HandOvers(g) = {}
    BY DEF NodesInit, HandOvers
  <1>2. \A g \in Gpus : Cardinality(HandOvers(g)) = 0
    BY <1>1, FS_EmptySet
  <1>3. QED
    BY <1>2, RowsStart DEF NodesInit, HistoryInv, HandOversBounded, FewBefore

LEMMA HistoryStep == HistoryInv /\ [NodesNext]_nodeVars => HistoryInv'
  <1> SUFFICES ASSUME HistoryInv, [NodesNext]_nodeVars PROVE HistoryInv'
    OBVIOUS
  <1> DEFINE Miner == {OfferMiner[o] : o \in Offers}
  <1>1. /\ NodesTypeOK
        /\ OfferGpus \in [Offers -> SUBSET Gpus]
        /\ \A g \in Gpus : history[g] \in Seq(Miner)
        /\ \A g \in Gpus : HandOvers(g) = HandOversOf(history[g])
        /\ \A g \in Gpus : HandOvers(g)' = HandOversOf(history'[g])
    BY OfferAssumption DEF HistoryInv, RowsInv, NodesTypeOK, HandOvers, HandOversOf
  <1>2. \A g \in Gpus : Cardinality(HandOvers(g)) \in Nat
    BY <1>1, HandOversFinite
  <1>3. RowsInv'
    BY RowsStep DEF HistoryInv
  <1>4. \* The history stays, and no call passes the check.
        ASSUME UNCHANGED <<history, hasty>>, 
               \A o \in Offers : offer'[o].pc = "hosts" => offer[o].pc = "hosts"
        PROVE  HistoryInv'
    BY <1>3, <1>4 DEF HistoryInv, HandOversBounded, FewBefore, HandOvers
  <1>5. ASSUME NEW o \in Offers, Offered(o) PROVE HistoryInv'
    <2>1. /\ UNCHANGED history
          /\ OfferStep(o, "hosts")
          /\ hasty \subseteq hasty'
          /\ \A g \in OfferGpus[o] : ~Hops(g, OfferMiner[o])
      BY <1>5 DEF Offered
    <2>2. HandOversBounded'
      BY <2>1 DEF HistoryInv, HandOversBounded, HandOvers
    <2>3. ASSUME NEW g \in OfferGpus[o],
                 ~(history[g] # <<>> /\ Last(history[g]) = OfferMiner[o])
          PROVE  Cardinality(HandOvers(g)) <= 1
      <3>1. g \in Gpus /\ Len(history[g]) \in Nat
        BY <1>1, LenProperties
      <3>2. Counted(g, OfferMiner[o]) = history[g]
        BY <2>3 DEF Counted
      <3>3. Len(history[g]) <= 2 \/ ~(Cardinality(ToSet(history[g])) >= 2)
        BY <2>1, <3>1, <3>2 DEF Hops
      <3>4. Cardinality(HandOversOf(history[g])) <= 1
        BY <1>1, <3>1, <3>3, FewHandOvers
      <3>5. QED
        BY <1>1, <3>1, <3>4
    <2>4. ASSUME NEW p \in Offers PROVE FewBefore(p)'
      <3>1. p # o => offer'[p] = offer[p]
        BY <1>1, <2>1 DEF OfferStep, NodesTypeOK
      <3>2. CASE p = o
        BY <2>1, <2>3, <3>2 DEF FewBefore, HandOvers
      <3>3. CASE p # o
        BY <2>1, <3>1, <3>3 DEF HistoryInv, FewBefore, HandOvers
      <3>4. QED
        BY <3>2, <3>3
    <2>5. QED
      BY <1>3, <2>2, <2>4 DEF HistoryInv
  <1>6. ASSUME NEW o \in Offers, Registers(o) PROVE HistoryInv'
    <2>1. /\ UNCHANGED hasty
          /\ offer[o].pc = "hosts"
          /\ OfferStep(o, "queued")
          /\ \A g \in Gpus : history'[g] = IF g \in OfferGpus[o]
                                             THEN Append(history[g], OfferMiner[o])
                                             ELSE history[g]
      BY <1>6 DEF Registers
    <2>2. ASSUME NEW g \in OfferGpus[o] \ hasty PROVE Cardinality(HandOvers(g)') <= 2
      <3>1. g \in Gpus /\ OfferMiner[o] \in Miner
        BY <1>1
      <3> DEFINE h == history[g]
      <3>2. /\ Cardinality(HandOversOf(Append(h, OfferMiner[o]))) <= Cardinality(HandOversOf(h)) + 1
            /\ Last(h) = OfferMiner[o] =>
                   Cardinality(HandOversOf(Append(h, OfferMiner[o]))) <= Cardinality(HandOversOf(h))
        BY <1>1, <3>1, HandOversOfAppend
      <3>3. /\ Cardinality(HandOversOf(h)) \in Nat
            /\ Cardinality(HandOversOf(h)) <= 2
            /\ Last(h) = OfferMiner[o] \/ Cardinality(HandOversOf(h)) <= 1
        BY <1>1, <1>2, <2>1, <3>1 DEF HistoryInv, HandOversBounded, FewBefore
      <3>4. HandOvers(g)' = HandOversOf(Append(h, OfferMiner[o]))
        BY <1>1, <2>1, <3>1
      <3>5. Append(h, OfferMiner[o]) \in Seq(Miner)
        BY <1>1, <3>1, AppendProperties
      <3>6. Cardinality(HandOversOf(Append(h, OfferMiner[o]))) \in Nat
        BY <3>5, HandOversFinite
      <3>7. QED
        BY <3>2, <3>3, <3>4, <3>6
    <2>3. \A g \in Gpus \ OfferGpus[o] : HandOvers(g)' = HandOvers(g)
      BY <2>1 DEF HandOvers
    <2>4. HandOversBounded'
      BY <2>1, <2>2, <2>3 DEF HistoryInv, HandOversBounded
    <2>5. ASSUME NEW p \in Offers PROVE FewBefore(p)'
      <3>1. offer'[p].pc = "hosts" => p # o /\ offer[p].pc = "hosts"
        BY <1>1, <2>1, OfferMovesOn DEF PCs
      <3>2. ASSUME offer[p].pc = "hosts", p # o, NEW g \in OfferGpus[p] \ hasty
            PROVE  g \in Gpus \ OfferGpus[o]
        BY <1>1, <2>1, <3>2 DEF HistoryInv, RowsInv, OneAtATime, Busy
      <3>3. QED
        BY <2>1, <2>3, <3>1, <3>2 DEF HistoryInv, FewBefore
    <2>6. QED
      BY <1>3, <2>4, <2>5 DEF HistoryInv
  <1>7. ASSUME NEW g \in Gpus, DayPasses(g) PROVE HistoryInv'
    <2>1. /\ UNCHANGED <<offer, hasty>>
          /\ history[g] # <<>>
          /\ history'[g] = Tail(history[g])
          /\ \A f \in Gpus \ {g} : history'[f] = history[f]
      BY <1>1, <1>7 DEF DayPasses, NodesTypeOK
    <2>2. \A f \in Gpus \ {g} : HandOvers(f)' = HandOvers(f)
      BY <2>1 DEF HandOvers
    <2>3. /\ Cardinality(HandOvers(g)') <= Cardinality(HandOvers(g))
          /\ history'[g] # <<>> => Last(history'[g]) = Last(history[g])
          /\ history'[g] = <<>> => Cardinality(HandOvers(g)') = 0
      BY <1>1, <2>1, HandOversOfTail
    <2>4. history'[g] \in Seq(Miner)
      BY <1>1, <2>1, HeadTailProperties
    <2>5. Cardinality(HandOvers(g)') \in Nat
      BY <1>1, <2>4, HandOversFinite
    <2>6. HandOversBounded'
      BY <1>2, <2>1, <2>2, <2>3, <2>5 DEF HistoryInv, HandOversBounded
    <2>7. ASSUME NEW p \in Offers PROVE FewBefore(p)'
      <3> SUFFICES ASSUME offer[p].pc = "hosts", NEW f \in OfferGpus[p] \ hasty
                   PROVE  \/ history'[f] # <<>> /\ Last(history'[f]) = OfferMiner[p]
                          \/ Cardinality(HandOvers(f)') <= 1
        BY <2>1 DEF FewBefore
      <3>1. /\ f \in Gpus
            /\ \/ history[f] # <<>> /\ Last(history[f]) = OfferMiner[p]
               \/ Cardinality(HandOvers(f)) <= 1
        BY <1>1 DEF HistoryInv, FewBefore
      <3>2. CASE f = g
        BY <1>2, <2>3, <2>5, <3>1, <3>2
      <3>3. CASE f # g
        BY <2>1, <2>2, <3>1, <3>3
      <3>4. QED
        BY <3>2, <3>3
    <2>8. QED
      BY <1>3, <2>6, <2>7 DEF HistoryInv
  <1>8. ASSUME NEW o \in Offers,
               Refused(o) \/ LoadsNodes(o) \/ DeviceInfo(o) \/ Povw(o) \/ Verifies(o)
        PROVE  HistoryInv'
    <2>1. UNCHANGED <<history, hasty>>
      BY <1>8 DEF Refused, LoadsNodes, DeviceInfo, Povw, Verifies
    <2>2. \A p \in Offers : offer'[p].pc = "hosts" => offer[p].pc = "hosts"
      <3>1. CASE LoadsNodes(o)
        BY <1>1, <3>1 DEF LoadsNodes, NodesTypeOK
      <3>2. CASE ~LoadsNodes(o)
        <4>1. PICK pc \in PCs \ {"hosts"} : OfferStep(o, pc)
          BY <1>8, <3>2 DEF Refused, DeviceInfo, Povw, Verifies, PCs
        <4>2. QED
          BY <1>1, <4>1, OfferMovesOn
      <3>3. QED
        BY <3>1, <3>2
    <2>3. QED
      BY <1>4, <2>1, <2>2
  <1>9. CASE UNCHANGED nodeVars
    BY <1>4, <1>9 DEF nodeVars
  <1>10. ASSUME NEW g \in Gpus, DeletesNode(g) PROVE HistoryInv'
    BY <1>4, <1>10 DEF DeletesNode
  <1>11. QED
    BY <1>5, <1>6, <1>7, <1>8, <1>9, <1>10 DEF NodesNext, OfferNext

LEMMA NodesInvariant == NodesSpec => []HistoryInv
  BY HistoryStart, HistoryStep, PTL DEF NodesSpec

-----------------------------------------------------------------------------
(* Scores. *)

\* The uids of a round are those of the chain, but for what moved since.
RoundUids == round.pc # "wait" =>
                 \A u \in Uids \ moved["round"], h \in Hotkeys : round.uids[h] = u <=> chain[u] = h

\* Scores of which one hotkey of an owner at most is positive.
OneScored(scores) == \A h, k \in Hotkeys :
    scores[h] > 0 /\ scores[k] > 0 /\ ColdkeyOf[h] = ColdkeyOf[k] => h = k

ScoresInv == /\ ScoresTypeOK
             /\ RoundUids
             /\ OneScored(round.scores) /\ OneScored(extrinsic.scores)
             /\ WeightsToOwners

LEMMA ScoresStart == ScoresInit => ScoresInv
  BY ScoreAssumption
     DEF ScoresInit, ScoresInv, ScoresTypeOK, RoundUids, OneScored, WeightsToOwners,
         UidMaps, Nothing, Unscored, NoRound, NoWeights

\* Of a chain, uids and hotkeys find each other.
LEMMA NodesOfChain ==
  ASSUME chain \in Owners
  PROVE  /\ Nodes64(chain) \in UidMaps
         /\ \A u \in Uids, h \in Hotkeys : Nodes64(chain)[h] = u <=> chain[u] = h
  BY ScoreAssumption DEF Owners, IsInjective, Nodes64, UidMaps

\* A uid that did not move has the score of its hotkey.
LEMMA WeightsOfRound ==
  ASSUME ScoresTypeOK, RoundUids, round.pc = "set"
  PROVE  /\ Weights(UidsOfRound) \in [Uids -> Worths]
         /\ \A u \in Uids \ moved["round"] : Weights(UidsOfRound)[u] = round.scores[chain[u]]
  <1>1. /\ round.uids \in UidMaps
        /\ round.scores \in [Hotkeys -> Worths]
        /\ chain \in [Uids -> Hotkeys]
    BY DEF ScoresTypeOK, Owners
  <1>2. ASSUME NEW u \in Uids \ moved["round"]
        PROVE  /\ chain[u] \in Hotkeys
               /\ \A h \in Hotkeys : round.uids[h] = u <=> h = chain[u]
    BY <1>1 DEF RoundUids
  <1>3. \A u \in Uids : Weights(UidsOfRound)[u] =
            IF \E h \in Hotkeys : round.uids[h] = u
              THEN round.scores[CHOOSE h \in Hotkeys : round.uids[h] = u] ELSE 0
    BY DEF Weights, UidsOfRound
  <1>4. Weights(UidsOfRound) \in [Uids -> Worths]
    BY <1>1, ScoreAssumption DEF Weights, UidsOfRound
  <1>5. QED
    BY <1>2, <1>3, <1>4

LEMMA ScoresStep == ScoresInv /\ [ScoresNext]_scoreVars => ScoresInv'
  <1> SUFFICES ASSUME ScoresInv, [ScoresNext]_scoreVars PROVE ScoresInv'
    OBVIOUS
  <1> USE ScoreAssumption
  <1>1. ScoresTypeOK /\ RoundUids /\ WeightsToOwners
        /\ OneScored(round.scores) /\ OneScored(extrinsic.scores)
    BY DEF ScoresInv
  <1>2. OneScored(Unscored) /\ Unscored \in [Hotkeys -> Worths] /\ Nothing \in UidMaps
    BY DEF OneScored, Unscored, Nothing, UidMaps
  <1>3. CASE UNCHANGED scoreVars
    BY <1>1, <1>3 DEF scoreVars, ScoresInv, ScoresTypeOK, RoundUids, OneScored, WeightsToOwners
  <1>4. ASSUME NEW u \in Uids, Recycles(u) PROVE ScoresInv'
    <2>1. PICK h \in Hotkeys \ Range(chain) : chain' = [chain EXCEPT ![u] = h]
      BY <1>4 DEF Recycles
    <2>2. /\ UNCHANGED <<syncing, metagraph, round, due, extrinsic>>
          /\ moved' = [of \in {"round", "extrinsic"} |-> moved[of] \cup {u}]
      BY <1>4 DEF Recycles
    <2>3. chain' \in Owners
      BY <1>1, <2>1 DEF ScoresTypeOK, Owners, IsInjective, Range
    <2>4. /\ moved' \in [{"round", "extrinsic"} -> SUBSET Uids]
          /\ moved'["round"] = moved["round"] \cup {u}
          /\ moved'["extrinsic"] = moved["extrinsic"] \cup {u}
      BY <1>1, <2>2 DEF ScoresTypeOK
    <2>5. \A v \in Uids \ {u} : chain'[v] = chain[v]
      BY <1>1, <2>1 DEF ScoresTypeOK, Owners
    <2>6. ScoresTypeOK'
      BY <1>1, <2>2, <2>3, <2>4 DEF ScoresTypeOK
    <2>7. QED
      BY <1>1, <2>2, <2>4, <2>5, <2>6 DEF ScoresInv, RoundUids, OneScored, WeightsToOwners
  <1>5. ASSUME FetchesMetagraph \/ SavesMetagraph \/ BlocksPass PROVE ScoresInv'
    <2>1. UNCHANGED <<chain, round, extrinsic, moved>>
      BY <1>5 DEF FetchesMetagraph, SavesMetagraph, BlocksPass
    <2>2. syncing' \in UidMaps /\ metagraph' \in UidMaps /\ due' \in BOOLEAN
      BY ZenonT(60), <1>1, <1>2, <1>5, NodesOfChain
         DEF FetchesMetagraph, SavesMetagraph, BlocksPass, ScoresTypeOK
    <2>3. ScoresTypeOK'
      BY <1>1, <2>1, <2>2 DEF ScoresTypeOK
    <2>4. QED
      BY <1>1, <2>1, <2>3 DEF ScoresInv, RoundUids, OneScored, WeightsToOwners
  <1>6. CASE StartsRound
    <2>1. /\ UNCHANGED <<chain, syncing, metagraph, due, extrinsic>>
          /\ round' = [pc |-> "known", uids |-> Nodes64(chain), known |-> {}, scores |-> Unscored]
          /\ moved' = [moved EXCEPT !["round"] = {}]
      BY <1>6 DEF StartsRound, NoRound
    <2>2. ScoresTypeOK'
      BY <1>1, <1>2, <2>1, NodesOfChain DEF ScoresTypeOK
    <2>3. RoundUids'
      BY <1>1, <2>1, NodesOfChain DEF ScoresTypeOK, RoundUids
    <2>4. moved'["extrinsic"] = moved["extrinsic"]
      BY <1>1, <2>1 DEF ScoresTypeOK
    <2>5. QED
      BY <1>1, <1>2, <2>1, <2>2, <2>3, <2>4 DEF ScoresInv, OneScored, WeightsToOwners
  <1>7. CASE ReadsHotkeys
    <2>1. /\ UNCHANGED <<chain, syncing, metagraph, due, extrinsic, moved>>
          /\ round.pc = "known"
          /\ round' = [round EXCEPT !.pc = "score", !.known = {h \in Hotkeys : metagraph[h] # NoUid}]
      BY <1>7 DEF ReadsHotkeys
    <2>2. ScoresTypeOK' /\ round'.uids = round.uids /\ round'.scores = round.scores
      BY <1>1, <2>1 DEF ScoresTypeOK
    <2>3. QED
      BY <1>1, <2>1, <2>2 DEF ScoresInv, RoundUids, OneScored, WeightsToOwners
  <1>8. CASE Scores
    <2>1. UNCHANGED <<chain, syncing, metagraph, due, extrinsic, moved>> /\ round.pc = "score"
      BY <1>8 DEF Scores
    <2>2. CASE round' = NoRound
      <3>1. ScoresTypeOK'
        BY <1>1, <1>2, <2>1, <2>2 DEF ScoresTypeOK, NoRound
      <3>2. QED
        BY <1>1, <1>2, <2>1, <2>2, <3>1 DEF ScoresInv, RoundUids, OneScored, WeightsToOwners, NoRound
    <2>3. ASSUME NEW invoked \in SUBSET Hotkeys, NEW worth \in [invoked -> Worths],
                 NEW kept \in SUBSET invoked, OnePerColdkey(kept),
                 round' = [round EXCEPT !.pc = "set", !.known = {}, !.scores =
                               [h \in Hotkeys |-> IF h \in kept THEN worth[h] ELSE 0]]
          PROVE  ScoresInv'
      <3> DEFINE scores == [h \in Hotkeys |-> IF h \in kept THEN worth[h] ELSE 0]
      <3>1. scores \in [Hotkeys -> Worths]
        OBVIOUS
      <3>2. OneScored(scores)
        BY <2>3 DEF OneScored, OnePerColdkey
      <3> HIDE DEF scores
      <3>3. ScoresTypeOK' /\ round'.uids = round.uids /\ round'.scores = scores
        BY <1>1, <2>1, <2>3, <3>1 DEF ScoresTypeOK, scores
      <3>4. QED
        BY <1>1, <2>1, <3>2, <3>3 DEF ScoresInv, RoundUids, OneScored, WeightsToOwners
    <2>4. QED
      BY ZenonT(60), <1>8, <2>2, <2>3 DEF Scores
  <1>9. CASE Submits
    <2>1. UNCHANGED <<chain, syncing, metagraph, due>> /\ round.pc = "set" /\ round' = NoRound
      BY <1>9 DEF Submits
    <2>2. RoundUids' /\ OneScored(round'.scores)
      BY <1>2, <2>1 DEF RoundUids, NoRound
    <2>3. CASE UNCHANGED <<extrinsic, moved>>
      <3>1. ScoresTypeOK'
        BY <1>1, <1>2, <2>1, <2>3 DEF ScoresTypeOK, NoRound
      <3>2. QED
        BY <1>1, <2>1, <2>2, <2>3, <3>1 DEF ScoresInv, OneScored, WeightsToOwners
    <2>4. ASSUME extrinsic' = [sent |-> TRUE, weights |-> Weights(UidsOfRound),
                               scores |-> round.scores],
                 moved' = [moved EXCEPT !["extrinsic"] = moved["round"]]
          PROVE  ScoresInv'
      <3>1. ScoresTypeOK'
        BY <1>1, <1>2, <2>1, <2>4, WeightsOfRound DEF ScoresTypeOK, NoRound
      <3>2. moved'["extrinsic"] = moved["round"]
        BY <1>1, <2>4 DEF ScoresTypeOK
      <3>3. WeightsToOwners'
        BY <1>1, <2>1, <2>4, <3>2, WeightsOfRound DEF WeightsToOwners
      <3>4. QED
        BY <1>1, <2>2, <2>4, <3>1, <3>3 DEF ScoresInv, OneScored
    <2>5. QED
      BY <1>9, <2>3, <2>4 DEF Submits
  <1>10. CASE Includes
    <2>1. /\ UNCHANGED <<chain, syncing, metagraph, round>>
          /\ extrinsic' = NoWeights /\ due' \in {due, FALSE}
          /\ moved' = [moved EXCEPT !["extrinsic"] = {}]
      BY <1>10 DEF Includes
    <2>2. moved'["round"] = moved["round"] /\ moved' \in [{"round", "extrinsic"} -> SUBSET Uids]
      BY <1>1, <2>1 DEF ScoresTypeOK
    <2>3. ScoresTypeOK'
      BY <1>1, <1>2, <2>1, <2>2 DEF ScoresTypeOK, NoWeights
    <2>4. QED
      BY <1>1, <1>2, <2>1, <2>2, <2>3 DEF ScoresInv, RoundUids, OneScored, WeightsToOwners, NoWeights
  <1>11. QED
    BY <1>3, <1>4, <1>5, <1>6, <1>7, <1>8, <1>9, <1>10 DEF ScoresNext

LEMMA ScoresInvariant == ScoresSpec => []ScoresInv
  BY ScoresStart, ScoresStep, PTL DEF ScoresSpec

\* Who has a weight has a score, and two uids have different hotkeys.
LEMMA ScoresInvImplies == ScoresInv => ScoresTypeOK /\ WeightsFair
  <1> SUFFICES ASSUME ScoresInv PROVE OneUidPerOwner
    BY DEF ScoresInv, WeightsFair
  <1>1. /\ chain \in [Uids -> Hotkeys]
        /\ \A u, v \in Uids : chain[u] = chain[v] => u = v
    BY DEF ScoresInv, ScoresTypeOK, Owners, IsInjective
  <1>2. QED
    BY <1>1 DEF ScoresInv, WeightsToOwners, OneScored, OneUidPerOwner

-----------------------------------------------------------------------------
(* The theorems.  The module of the runs takes steps of one component; each  *)
(* is a step of the component's own specification, or changes nothing of it. *)

\* create_nodes, validate_gpus, delete_node, the socket server, the uploads of a
\* job and metasync share no state: what any of them does, seen through the
\* variables of one, is a behaviour of that one or nothing.
THEOREM PartsBehave ==
  ServicesSpec => NodesSpec /\ SocketsSpec /\ OutputSpec /\ ScoresSpec
  <1>1. ServicesInit => NodesInit /\ SocketsInit /\ OutputInit /\ ScoresInit
    BY DEF ServicesInit
  <1>2. [ServicesNext]_<<part, nodeVars, socketVars, outputVars, scoreVars>> =>
            /\ [NodesNext]_nodeVars
            /\ [SocketsNext]_socketVars
            /\ [OutputNext]_outputVars
            /\ [ScoresNext]_scoreVars
    BY DEF ServicesNext, Stays
  <1>3. QED
    BY <1>1, <1>2, PTL DEF ServicesSpec, NodesSpec, SocketsSpec, OutputSpec, ScoresSpec

\* Every state of any of the four components is of its types.
THEOREM ServicesTypeCorrect == ServicesSpec => []ServicesTypeOK
  <1>1. HistoryInv /\ SocketsInv /\ OutputInv /\ ScoresInv => ServicesTypeOK
    BY DEF HistoryInv, RowsInv, SocketsInv, OutputInv, ScoresInv, ServicesTypeOK
  <1>2. QED
    BY <1>1, PartsBehave, NodesInvariant, SocketsInvariant, OutputInvariant, ScoresInvariant, PTL

\* validate_gpus: a GPU is verified only by a proof of the server it was
\* registered with, unless it was offered anew during a validation.
THEOREM VerifiedByProof == NodesSpec => []VerifiedAsProven
  <1>1. HistoryInv => VerifiedAsProven
    BY DEF HistoryInv, RowsInv
  <1>2. QED
    BY <1>1, NodesInvariant, PTL

\* create_nodes: within 24 hours a GPU passes from one hotkey to another at most
\* twice, however many calls overlap, unless it is offered twice at once.
THEOREM HoppersAreStopped == NodesSpec => []HandOversBounded
  <1>1. HistoryInv => HandOversBounded
    BY DEF HistoryInv
  <1>2. QED
    BY <1>1, NodesInvariant, PTL

\* authenticate, disconnect: reverse_map leads from a hotkey to the connection
\* that session_map says has it, if there is one, and nowhere else, however often
\* and as whomever the connections authenticate; except for a hotkey that a
\* connection has given up for another, that has had two connections, or whose
\* authentication came to its end after the disconnect, until the hotkey is
\* authenticated by its only connection.
THEOREM MessagesFindMiners == SocketsSpec => []MapFollowsSessions
  BY SocketsInvariant, SocketsInvImplies, PTL

\* finish_job_and_get_upload_targets, upload_job_file, complete_job: the files of
\* a job that is reported complete are in S3, whatever each announcement named,
\* whichever calls were repeated and worked on a row loaded before; unless the job
\* was announced between the load and the commit of a completion, or after one.
THEOREM CompleteJobsAreStored == OutputSpec => []CompleteMeansStored
  BY OutputInvariant, OutputInvImplies, PTL

\* get_scoring_data, _get_and_set_weights: a submission gives each hotkey of the
\* chain its own score, and one hotkey of an owner at most a weight, except for
\* uids that changed hands since the nodes were fetched.
THEOREM WeightsAreFair == ScoresSpec => []WeightsFair
  BY ScoresInvariant, ScoresInvImplies, PTL
=============================================================================
