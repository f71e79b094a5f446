------------------------------- MODULE Images -------------------------------
(***************************************************************************)
(* One image: create_image, delete_image, the log stream, and forge.py,    *)
(* which builds the image or upgrades its chutes library.                  *)
(* The id of an image is made of its name and tag, so what is deleted and  *)
(* created again has the same objects in S3, tag, stream and row id.       *)
(***************************************************************************)
EXTENDS Sequences, FiniteSets

CONSTANTS Requests,     \* calls of create_image for this image, each with its own context
          Forges,       \* forge workers
          Readers,      \* calls of stream_build_logs
          NoRequest,
          Upgrade       \* the task update_chutes_lib

ASSUME ImageTaskAssumption == Upgrade \notin Requests /\ NoRequest \notin Requests

VARIABLES image,      \* the committed row
          context,    \* the zip and the Dockerfile in S3
          request,    \* create_image in progress
          tasks,      \* the queue "forge"
          forge,      \* the workers
          registry,   \* what is under the image's tag, and its hash blob in S3
          stream,     \* forge:{image_id}:stream
          reader,     \* the calls of stream_build_logs, and whether any of
                      \* them has come to the end of this build's log
          upgrade,    \* what became of update_chutes_lib
          trouble     \* history: see below

imageVars == <<image, context, request, tasks, forge, registry, stream, reader, upgrade, trouble>>

Sources == Requests \cup {NoRequest}
Context == [zip : Sources, dockerfile : Sources]
NoContext == [zip |-> NoRequest, dockerfile |-> NoRequest]
Stages == {"absent", "pending build", "building", "built and pushed", "error"}

NoForge == [pc |-> "idle", task |-> NoRequest, got |-> NoContext, ok |-> FALSE]

ImagesInit ==
    /\ image = [stage |-> "absent", of |-> NoRequest]
    /\ context = NoContext
    /\ request = [r \in Requests |-> [pc |-> "new", queued |-> FALSE]]
    /\ tasks = <<>>
    /\ forge = [f \in Forges |-> NoForge]
    /\ registry = [build |-> NoRequest, blob |-> NoRequest, got |-> NoContext, signed |-> FALSE]
    /\ stream = "none"
    /\ reader = [calls |-> [l \in Readers |-> "out"], told |-> FALSE]
    /\ upgrade = "none"
    /\ trouble = FALSE

\* The stream after a line, and after DONE: a DONE stays among later lines.
Line == IF stream = "none" THEN "lines" ELSE stream
Done == "done"

\* Calls of create_image between the check and the end, and builds not over.
Creating == {r \in Requests : request[r].pc \notin {"new", "made", "refused"}}
Waiting == {r \in Requests : request[r].pc \in {"flushed", "committed", "made"} /\ ~request[r].queued}
Busy == tasks # <<>> \/ Waiting # {} \/ \E f \in Forges : forge[f].pc # "idle"

-----------------------------------------------------------------------------
(* create_image and delete_image. *)

Checks(r) ==
    /\ request[r].pc = "new"
    /\ image.stage = "absent"
    /\ request' = [request EXCEPT ![r].pc = "checked"]
    /\ trouble' = (trouble \/ Creating # {})
    /\ UNCHANGED <<image, context, tasks, forge, registry, stream, reader, upgrade>>

Uploads(r) ==
    /\ \E from \in {"checked", "zip"} :
           /\ request[r].pc = from
           /\ IF from = "checked"
                THEN /\ context' = [context EXCEPT !.zip = r]
                     /\ request' = [request EXCEPT ![r].pc = "zip"]
                ELSE /\ context' = [context EXCEPT !.dockerfile = r]
                     /\ request' = [request EXCEPT ![r].pc = "stored"]
    /\ UNCHANGED <<image, tasks, forge, registry, stream, reader, upgrade, trouble>>

\* The flush waits for another one that has not committed, and fails if it
\* then has.
FlushableEarly == {"checked", "stored"}   \* the row before the context
Flushable == {"stored"}

Flushes(r) ==
    /\ request[r].pc \in Flushable
    /\ \A q \in Requests : request[q].pc # "flushed"
    /\ request' = [request EXCEPT ![r].pc = IF image.stage = "absent" THEN "flushed" ELSE "refused"]
    /\ UNCHANGED <<image, context, tasks, forge, registry, stream, reader, upgrade, trouble>>

Commits(r) ==
    /\ request[r].pc = "flushed"
    /\ image' = [stage |-> "pending build", of |-> r]
    /\ request' = [request EXCEPT ![r].pc = "committed"]
    /\ UNCHANGED <<context, tasks, forge, registry, stream, reader, upgrade, trouble>>

\* after_insert runs within the flush, and its task on its own.
Kicks(r) ==
    /\ r \in Waiting
    /\ tasks' = Append(tasks, r)
    /\ request' = [request EXCEPT ![r].queued = TRUE]
    /\ UNCHANGED <<image, context, forge, registry, stream, reader, upgrade, trouble>>

Taken(r) == request[r].queued /\ \A k \in DOMAIN tasks : tasks[k] # r

Reading(pc) == {l \in Readers : reader.calls[l] = pc}

\* The stream of an earlier image is deleted, or the lines of this one.  That
\* somebody was told of the earlier one does not count for this one.
SweepsStream(r) ==
    /\ request[r].pc = "committed"
    /\ request' = [request EXCEPT ![r].pc = "made"]
    /\ stream' = "none"
    /\ reader' = [reader EXCEPT !.told = @ /\ Taken(r)]
    /\ trouble' = \/ trouble
                  \/ stream = Done /\ (Taken(r) \/ Reading("polling") # {})
                  \/ Reading("found") # {}
    /\ UNCHANGED <<image, context, tasks, forge, registry, upgrade>>

\* Whatever is being built; no chute uses the image.
DeletesImage ==
    /\ image.stage # "absent"
    /\ image' = [stage |-> "absent", of |-> NoRequest]
    /\ trouble' = (trouble \/ Busy \/ Creating # {})
    /\ UNCHANGED <<context, request, tasks, forge, registry, stream, reader, upgrade>>

-----------------------------------------------------------------------------
(* stream_build_logs: any number of calls poll one stream, and whichever has  *)
(* read its DONE deletes it for all of them.                                  *)

Reads(l, pc) == reader' = [reader EXCEPT !.calls[l] = pc]

Subscribes(l) ==
    /\ reader.calls[l] = "out"
    /\ image.stage \in {"pending build", "building"}
    /\ Reads(l, "polling")
    /\ UNCHANGED <<image, context, request, tasks, forge, registry, stream, upgrade, trouble>>

ReadsDone(l) ==
    /\ reader.calls[l] = "polling"
    /\ stream = Done
    /\ Reads(l, "found")
    /\ UNCHANGED <<image, context, request, tasks, forge, registry, stream, upgrade, trouble>>

\* Whatever the stream holds by then; the call goes on polling.
DeletesStream(l) ==
    /\ reader.calls[l] = "found"
    /\ reader' = [reader EXCEPT !.calls[l] = "polling", !.told = TRUE]
    /\ stream' = "none"
    /\ UNCHANGED <<image, context, request, tasks, forge, registry, upgrade, trouble>>

\* Its client goes, or redis fails; no call ends otherwise.
Leaves(l) ==
    /\ reader.calls[l] \in {"polling", "found"}
    /\ Reads(l, "left")
    /\ UNCHANGED <<image, context, request, tasks, forge, registry, stream, upgrade, trouble>>

-----------------------------------------------------------------------------
(* forge. *)

ForgeStep(f, pc) == forge' = [forge EXCEPT ![f].pc = pc]
ForgeEnds(f) == forge' = [forge EXCEPT ![f] = NoForge]
\* build_and_push_image raised, or returned.
Result(f, ok) == forge' = [forge EXCEPT ![f].pc = "log", ![f].ok = ok]

Building == [image EXCEPT !.stage = "building"]

\* A task whose row is not there yet is dropped.
Takes(f) ==
    /\ forge[f].pc = "idle"
    /\ tasks # <<>>
    /\ Head(tasks) # Upgrade
    /\ tasks' = Tail(tasks)
    /\ IF image.stage = "absent"
         THEN UNCHANGED <<image, forge>> /\ trouble' = TRUE
         ELSE /\ image' = Building
              /\ forge' = [forge EXCEPT ![f] = [NoForge EXCEPT !.pc = "zip", !.task = Head(tasks)]]
              /\ UNCHANGED trouble
    /\ UNCHANGED <<context, request, registry, stream, reader, upgrade>>

Downloads(f) ==
    /\ \/ /\ forge[f].pc = "zip"
          /\ forge' = [forge EXCEPT ![f].got.zip = context.zip, ![f].pc = "dockerfile"]
       \/ /\ forge[f].pc = "dockerfile"
          /\ forge' = [forge EXCEPT ![f].got.dockerfile = context.dockerfile, ![f].pc = "build"]
    /\ UNCHANGED <<image, context, request, tasks, registry, stream, reader, upgrade, trouble>>

Builds(f) ==
    /\ forge[f].pc = "build"
    /\ ForgeStep(f, "index")
    /\ stream' = Line
    /\ UNCHANGED <<image, context, request, tasks, registry, reader, upgrade, trouble>>

UploadsBlob(f) ==
    /\ forge[f].pc = "index"
    /\ registry' = [registry EXCEPT !.blob = forge[f].task]
    /\ ForgeStep(f, "scan")
    /\ UNCHANGED <<image, context, request, tasks, stream, reader, upgrade, trouble>>

Scans(f) ==
    /\ forge[f].pc = "scan"
    /\ ForgeStep(f, "push")
    /\ stream' = Line
    /\ UNCHANGED <<image, context, request, tasks, registry, reader, upgrade, trouble>>

Pushes(f) ==
    /\ forge[f].pc = "push"
    /\ registry' = [registry EXCEPT !.build = forge[f].task, !.got = forge[f].got, !.signed = FALSE]
    /\ ForgeStep(f, "sign")
    /\ stream' = Line
    /\ UNCHANGED <<image, context, request, tasks, reader, upgrade, trouble>>

Signed == Done

Signs(f) ==
    /\ forge[f].pc = "sign"
    /\ registry' = [registry EXCEPT !.signed = TRUE]
    /\ Result(f, TRUE)
    /\ stream' = Signed
    /\ UNCHANGED <<image, context, request, tasks, reader, upgrade, trouble>>

\* Where the exception comes with a DONE: time-outs, and failures to push and
\* to sign; and where without: failures to build, to upload the blob, to scan
\* and to find the digest.
FailsTold == {"build", "scan", "push", "sign"}
FailsSilently == {"build", "index", "scan", "sign"}
\* Any exception ends the build; if the one of a scan ended the task:
UncaughtScan(f) == IF forge[f].pc = "scan" THEN ForgeEnds(f) ELSE Result(f, FALSE)
Caught(f) == Result(f, FALSE)

BuildFails(f) ==
    /\ \/ forge[f].pc \in FailsTold /\ stream' = Done
       \/ forge[f].pc \in FailsSilently /\ stream' = Line
    /\ Caught(f)
    /\ UNCHANGED <<image, context, request, tasks, registry, reader, upgrade, trouble>>

UploadsLog(f) ==
    /\ forge[f].pc = "log"
    /\ ForgeStep(f, "report")
    /\ UNCHANGED <<image, context, request, tasks, registry, stream, reader, upgrade, trouble>>

Reports(f) ==
    /\ forge[f].pc = "report"
    /\ image' = IF image.stage = "absent" THEN image
                ELSE [image EXCEPT !.stage = IF forge[f].ok THEN "built and pushed" ELSE "error"]
    /\ ForgeEnds(f)
    /\ UNCHANGED <<context, request, tasks, registry, stream, reader, upgrade, trouble>>

\* The downloads and the upload of the log are outside the try; and the worker
\* may die.
ForgeDies(f) ==
    /\ forge[f].pc # "idle"
    /\ forge[f].task # Upgrade
    /\ ForgeEnds(f)
    /\ trouble' = TRUE
    /\ UNCHANGED <<image, context, request, tasks, registry, stream, reader, upgrade>>

-----------------------------------------------------------------------------
(* update_chutes_lib, once, for an image that has been built. *)

OrdersUpgrade ==
    /\ upgrade = "none"
    /\ image.stage = "built and pushed"
    /\ upgrade' = "ordered"
    /\ tasks' = Append(tasks, Upgrade)
    /\ UNCHANGED <<image, context, request, forge, registry, stream, reader, trouble>>

TakesUpgrade(f) ==
    /\ forge[f].pc = "idle"
    /\ tasks # <<>>
    /\ Head(tasks) = Upgrade
    /\ tasks' = Tail(tasks)
    /\ IF image.stage = "absent"
         THEN UNCHANGED forge /\ upgrade' = "refused"
         ELSE /\ forge' = [forge EXCEPT ![f] = [NoForge EXCEPT !.pc = "upgrade", !.task = Upgrade]]
              /\ upgrade' = "running"
    /\ UNCHANGED <<image, context, request, registry, stream, reader, trouble>>

\* Its tag and its blob are of their own.  A time-out ends the task, any other
\* failure goes on to the signature.
BuildsUpgrade(f) ==
    /\ forge[f].pc = "upgrade"
    /\ \/ \E ok \in BOOLEAN : forge' = [forge EXCEPT ![f].pc = "sign upgrade", ![f].ok = ok]
          /\ UNCHANGED upgrade
       \/ ForgeEnds(f) /\ upgrade' = "failed"
    /\ UNCHANGED <<image, context, request, tasks, registry, stream, reader, trouble>>

\* sign_image with stream set subtracts started_at after a signature.
SignRaises(ok, started) == ~ok \/ ~started

\* A failure of cosign adds DONE to the stream, one to find the digest does not.
SignsUpgrade(f) ==
    /\ forge[f].pc = "sign upgrade"
    /\ \E ok \in BOOLEAN :
           /\ ok => forge[f].ok
           /\ upgrade' = IF SignRaises(ok, FALSE) THEN IF ok THEN "raised" ELSE "failed"
                         ELSE "applied"
           /\ stream' \in IF ok THEN {stream} ELSE {stream, Done}
    /\ ForgeEnds(f)
    /\ UNCHANGED <<image, context, request, tasks, registry, reader, trouble>>

-----------------------------------------------------------------------------
RequestNext(r) == Uploads(r) \/ Flushes(r) \/ Commits(r) \/ Kicks(r) \/ SweepsStream(r)
ForgeNext(f) == \/ Takes(f) \/ Downloads(f) \/ Builds(f) \/ UploadsBlob(f) \/ Scans(f) \/ Pushes(f)
                \/ Signs(f) \/ BuildFails(f) \/ UploadsLog(f) \/ Reports(f)
                \/ TakesUpgrade(f) \/ BuildsUpgrade(f) \/ SignsUpgrade(f)

ImagesNext == \/ \E r \in Requests : Checks(r) \/ RequestNext(r)
              \/ \E f \in Forges : ForgeNext(f) \/ ForgeDies(f)
              \/ \E l \in Readers : Subscribes(l) \/ ReadsDone(l) \/ DeletesStream(l) \/ Leaves(l)
              \/ DeletesImage \/ OrdersUpgrade

\* Requests go on once begun, the workers take and finish tasks, readers poll.
ImagesFairness == /\ \A r \in Requests : WF_imageVars(RequestNext(r))
                  /\ \A f \in Forges : WF_imageVars(ForgeNext(f))
                  /\ \A l \in Readers : WF_imageVars(ReadsDone(l) \/ DeletesStream(l))

ImagesSpec == ImagesInit /\ [][ImagesNext]_imageVars
ImagesFairSpec == ImagesSpec /\ ImagesFairness

-----------------------------------------------------------------------------
ImagesTypeOK ==
    /\ image \in [stage : Stages, of : Sources]
    /\ context \in Context
    /\ request \in [Requests -> [pc : {"new", "checked", "zip", "stored", "flushed", "committed",
                                       "made", "refused"}, queued : BOOLEAN]]
    /\ tasks \in Seq(Requests \cup {Upgrade})
    /\ forge \in [Forges -> [pc : {"idle", "zip", "dockerfile", "build", "index", "scan", "push",
                                   "sign", "log", "report", "upgrade", "sign upgrade"},
                             task : Sources \cup {Upgrade}, got : Context, ok : BOOLEAN]]
    /\ registry \in [build : Sources, blob : Sources, got : Context, signed : BOOLEAN]
    /\ stream \in {"none", "lines", Done}
    /\ reader \in [calls : [Readers -> {"out", "polling", "found", "left"}], told : BOOLEAN]
    /\ upgrade \in {"none", "ordered", "running", "refused", "failed", "raised", "applied"}
    /\ trouble \in BOOLEAN

\* create_image (router.py:295, "Create the image once we've persisted the
\* context"), forge, upload_filesystem_verification_data: what is under the tag
\* of an image that is built is signed and was built from the context of the
\* request that made its row, and so was the hash blob its instances are
\* verified against; unless creations overlapped, the image was deleted during
\* a build, or a build died.
BuiltFromOwn ==
    image.stage = "built and pushed" /\ ~trouble =>
        registry = [build |-> image.of, blob |-> image.of, signed |-> TRUE,
                    got |-> [zip |-> image.of, dockerfile |-> image.of]]

\* forge (forge.py:687-713): an image whose build was taken after its row was
\* committed, and did not die, is built or failed in the end.
BuildSettles == (image.stage = "pending build" /\ ~trouble)
                    ~> (image.stage \in {"built and pushed", "error", "absent"} \/ trouble)

=============================================================================
