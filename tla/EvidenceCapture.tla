---------------------------- MODULE EvidenceCapture ----------------------------
(***************************************************************************)
(* Responder-requested evidence capture, end to end: the request on the    *)
(* API server (cas-evidence.ts), its pickup by the handset's poll and push *)
(* threads and their acknowledgement (CaptureRequests.kt), the capture     *)
(* service with its start commands and worker (EvidenceCaptureService.kt), *)
(* the clips staged on disk and their upload (EvidenceUploadCore.kt).      *)
(*                                                                         *)
(* An HTTP call is two steps, the server's handling and what the caller    *)
(* makes of it; a caller may give up and its request be handled later.  A  *)
(* definition marked "Mutant of X" is X with a bug it could have had; no   *)
(* behaviour uses it.                                                      *)
(***************************************************************************)
EXTENDS Naturals, Sequences, FiniteSetsExt

CONSTANTS
    MaxRequests,    \* bound: capture requests a responder makes
    PickupLimit,    \* how many requests one pickup answer lists
    MaxStarts,      \* bound: start commands Android accepts
    MaxClips,       \* bound: clips captured
    MaxFaults       \* bound: lost calls, failed writes, process deaths, revocations,
                    \* and saves of a blank server URL

ASSUME CaptureBoundsNat ==
    /\ {MaxRequests, MaxStarts, MaxClips, MaxFaults} \subseteq Nat
    /\ PickupLimit \in Nat \ {0}

VARIABLES
    request,    \* request[q]: state of the q-th cas_capture_requests row
    rows,       \* rows[c]: cas_evidence rows that hold clip c
    refused,    \* history: clips the server rejected for good
    wakes,      \* requests whose push message is under way
    acks,       \* acknowledgements under way
    posts,      \* clips whose upload is under way
    path,       \* path[p]: what the pickup thread of that path is doing
    start,      \* start commands the service got, in order
    instance,   \* the service instance that is up, NoInstance when none
    origin,     \* origin[c]: the request clip c was captured for
    bytes,      \* clips whose data file is on disk
    sidecars,   \* clips whose sidecar is on disk
    published,  \* history: clips staged completely
    uploader,   \* the monitor of EvidenceUploadCore and what its holder does
    unanswered, \* history: clips with an upload whose answer never came
    credential, \* the handset's enrolled credential
    serverUrl,  \* the handset has a server URL
    homeless,   \* history: clips dropped because there was no server URL
    faults      \* how many faults happened

serverVars == <<request, rows, refused>>
networkVars == <<wakes, acks, posts>>
serviceVars == <<path, start, instance>>
diskVars == <<origin, bytes, sidecars, published>>
settingsVars == <<credential, serverUrl, homeless>>
captureVars == <<serverVars, networkVars, serviceVars, diskVars, uploader,
                 unanswered, settingsVars, faults>>

--------------------------------------------------------------------------------

Requests == 1..MaxRequests

Clips == 1..MaxClips

Stored == {c \in Clips : rows[c] > 0}

\* A capture started by the alert itself answers no request.
NoRequest == 0

NoClip == 0

\* A service instance is named by the start command that created it.
NoInstance == 0

RequestState == {"none", "PENDING", "STARTED", "FAILED", "COMPLETED"}

Paths == {"poll", "push"}

Idle == [at |-> "idle", todo |-> {}]

Ack == [request : Requests, outcome : {"started", "failed"}, via : Paths \cup {"late"}]

\* A start command is sent, then refused or run as a job of the worker of its
\* instance: it captures, stages and uploads clip by clip until it ends or dies.
Start == [request : Requests \cup {NoRequest}, instance : 0..MaxStarts,
          clip : Clips \cup {NoClip},
          at : {"sent", "refused", "queued", "running", "publishing", "staged",
                "uploading", "ended"}]

\* A job that is over.
Over(s) == [request |-> start[s].request, instance |-> NoInstance, clip |-> NoClip,
            at |-> "ended"]

IsRunning(s) == start[s].at \in {"running", "publishing", "staged", "uploading"}

Free == [at |-> "free", todo |-> {}, clip |-> NoClip, answer |-> "none"]

Init ==
    /\ request = [q \in Requests |-> "none"]
    /\ rows = [c \in Clips |-> 0]
    /\ refused = {}
    /\ wakes = {} /\ acks = {} /\ posts = {}
    /\ path = [p \in Paths |-> Idle]
    /\ start = <<>>
    /\ instance = NoInstance
    /\ origin = <<>>
    /\ bytes = {} /\ sidecars = {} /\ published = {}
    /\ uploader = Free
    /\ unanswered = {}
    /\ credential = "valid"
    /\ serverUrl = TRUE
    /\ homeless = {}
    /\ faults = 0

Fault == faults < MaxFaults /\ faults' = faults + 1

--------------------------------------------------------------------------------
(* Requests: creation, pickup and acknowledgement.                         *)

\* POST /cas/incidents/:id/capture-requests.  The push is sent after the commit and
\* may never be delivered.
Create(q) ==
    /\ request[q] = "none"
    /\ \A r \in 1..(q - 1) : request[r] # "none"
    /\ request' = [request EXCEPT ![q] = "PENDING"]
    /\ wakes' = wakes \cup {q}
    /\ UNCHANGED <<rows, refused, acks, posts, serviceVars, diskVars,
                   uploader, unanswered, settingsVars, faults>>

\* GET /cas/capture-requests/pending: the oldest PENDING requests, for a handset
\* with a server URL and a valid credential.
Pending ==
    LET pending == {q \in Requests : request[q] = "PENDING"} IN
    {q \in pending : /\ serverUrl /\ credential = "valid"
                     /\ Cardinality({r \in pending : r < q}) < PickupLimit}

\* What a pickup thread does with the items it still has.
WithItems(todo) == IF todo = {} THEN Idle ELSE [at |-> "items", todo |-> todo]

\* onMessageReceived: a push wakes the handset, which picks up what is pending.
PushWakes(q) ==
    /\ q \in wakes
    /\ path["push"] = Idle
    /\ wakes' = wakes \ {q}
    /\ path' = [path EXCEPT !["push"] = WithItems(Pending)]
    /\ UNCHANGED <<serverVars, acks, posts, start, instance, diskVars, uploader,
                   unanswered, settingsVars, faults>>

\* retryCaptureWork picks up after its uploads.
CheckPending ==
    /\ path["poll"].at = "listing"
    /\ path' = [path EXCEPT !["poll"] = WithItems(Pending)]
    /\ UNCHANGED <<serverVars, networkVars, start, instance, diskVars, uploader,
                   unanswered, settingsVars, faults>>

\* startForegroundService accepts the command; onStartCommand runs later.
SendStart(q) ==
    /\ Len(start) < MaxStarts
    /\ start' = Append(start, [request |-> q, instance |-> NoInstance,
                               clip |-> NoClip, at |-> "sent"])

\* Mutant of StartCapture: a start Android denies is not acknowledged.
StartCaptureOrSkip(p) ==
    LET q == Min(path[p].todo) IN
    /\ path[p].at = "items"
    /\ \/ /\ SendStart(q)
          /\ acks' = acks \cup {[request |-> q, outcome |-> "started", via |-> p]}
          /\ path' = [path EXCEPT ![p] = [at |-> "acking", todo |-> @.todo \ {q}]]
       \/ /\ path' = [path EXCEPT ![p] = WithItems(@.todo \ {q})]
          /\ UNCHANGED <<start, acks>>
    /\ UNCHANGED <<serverVars, wakes, posts, instance, diskVars, uploader,
                   unanswered, settingsVars, faults>>

\* Mutant of StartCapture: a start Android denies is acknowledged as started.
StartCaptureAckStarted(p) ==
    LET q == Min(path[p].todo) IN
    /\ path[p].at = "items"
    /\ SendStart(q) \/ UNCHANGED start
    /\ acks' = acks \cup {[request |-> q, outcome |-> "started", via |-> p]}
    /\ path' = [path EXCEPT ![p] = [at |-> "acking", todo |-> @.todo \ {q}]]
    /\ UNCHANGED <<serverVars, wakes, posts, instance, diskVars, uploader,
                   unanswered, settingsVars, faults>>

\* Start the service for the oldest item, or be denied; acknowledge either way.
StartCapture(p) ==
    LET q == Min(path[p].todo) IN
    /\ path[p].at = "items"
    /\ \E outcome \in {"started", "failed"} :
          /\ IF outcome = "started" THEN SendStart(q) ELSE UNCHANGED start
          /\ acks' = acks \cup {[request |-> q, outcome |-> outcome, via |-> p]}
    /\ path' = [path EXCEPT ![p] = [at |-> "acking", todo |-> @.todo \ {q}]]
    /\ UNCHANGED <<serverVars, wakes, posts, instance, diskVars, uploader,
                   unanswered, settingsVars, faults>>

\* The alert itself starts a capture whose policy is "on trigger".
StartOnTrigger ==
    /\ SendStart(NoRequest)
    /\ UNCHANGED <<serverVars, networkVars, path, instance, diskVars, uploader,
                   unanswered, settingsVars, faults>>

AckState(outcome) == IF outcome = "started" THEN "STARTED" ELSE "FAILED"

\* The thread that waits for acknowledgement m goes on to its next item.
PathAfter(m) ==
    IF m.via \in Paths THEN [path EXCEPT ![m.via] = WithItems(@.todo)] ELSE path

\* Mutant of HandleAck: the state is not checked.
HandleAckAlways(m) ==
    /\ m \in acks
    /\ acks' = acks \ {m}
    /\ request' = IF credential = "valid"
                  THEN [request EXCEPT ![m.request] = AckState(m.outcome)]
                  ELSE request
    /\ path' = PathAfter(m)
    /\ UNCHANGED <<rows, refused, wakes, posts, start, instance, diskVars,
                   uploader, unanswered, settingsVars, faults>>

\* POST /cas/capture-requests/:id/ack; any answer lets the thread go on.
HandleAck(m) ==
    /\ m \in acks
    /\ acks' = acks \ {m}
    /\ request' = IF credential = "valid" /\ request[m.request] = "PENDING"
                  THEN [request EXCEPT ![m.request] = AckState(m.outcome)]
                  ELSE request
    /\ path' = PathAfter(m)
    /\ UNCHANGED <<rows, refused, wakes, posts, start, instance, diskVars,
                   uploader, unanswered, settingsVars, faults>>

\* The call fails or times out; the server may still handle it, later.
AckFails(m) ==
    /\ Fault
    /\ m \in acks /\ m.via \in Paths
    /\ acks' \in {acks \ {m}, (acks \ {m}) \cup {[m EXCEPT !.via = "late"]}}
    /\ path' = PathAfter(m)
    /\ UNCHANGED <<serverVars, wakes, posts, start, instance, diskVars, uploader,
                   unanswered, settingsVars>>

--------------------------------------------------------------------------------
(* The capture service.  Android stops an instance for stopSelf(startId)   *)
(* only if no start command was sent after it.                             *)

AfterStopSelf(s, up) == IF s = Len(start) THEN NoInstance ELSE up

\* Android delivers the oldest command, creating an instance if none is up;
\* startForeground succeeds and the worker gets a job, or throws.
OnStartCommand(s) ==
    LET up == IF instance = NoInstance THEN s ELSE instance IN
    /\ start[s].at = "sent"
    /\ \A r \in 1..(s - 1) : start[r].at # "sent"
    /\ \/ /\ start' = [start EXCEPT ![s].at = "queued", ![s].instance = up]
          /\ instance' = up
       \/ /\ start' = [start EXCEPT ![s].at = "refused"]
          /\ instance' = AfterStopSelf(s, up)
    /\ UNCHANGED <<serverVars, networkVars, path, diskVars, uploader, unanswered,
                   settingsVars, faults>>

\* The instance's single worker thread takes its oldest job.
RunJob(s) ==
    /\ start[s].at = "queued"
    /\ \A r \in DOMAIN start : start[r].instance = start[s].instance =>
          /\ ~IsRunning(r)
          /\ r < s => start[r].at # "queued"
    /\ start' = [start EXCEPT ![s].at = "running"]
    /\ UNCHANGED <<serverVars, networkVars, path, instance, diskVars, uploader,
                   unanswered, settingsVars, faults>>

\* Mutant of EndJob: stopSelf() without the start id.
EndJobStopsService(s) ==
    /\ start[s].at = "running"
    /\ start' = [start EXCEPT ![s] = Over(s)]
    /\ instance' = NoInstance
    /\ UNCHANGED <<serverVars, networkVars, path, diskVars, uploader, unanswered,
                   settingsVars, faults>>

\* The job is over: everything captured, or a lens covered, a recorder failed, the
\* wait for the screen to go off expired.
EndJob(s) ==
    /\ start[s].at = "running"
    /\ start' = [start EXCEPT ![s] = Over(s)]
    /\ instance' = AfterStopSelf(s, instance)
    /\ UNCHANGED <<serverVars, networkVars, path, diskVars, uploader, unanswered,
                   settingsVars, faults>>

--------------------------------------------------------------------------------
(* Staging and upload, all under one monitor.                              *)

\* stage, enqueue: a clip was captured and its data file is published.
PublishBytes(s) ==
    LET c == Len(origin) + 1 IN
    /\ start[s].at = "running"
    /\ uploader = Free
    /\ c <= MaxClips
    /\ origin' = Append(origin, start[s].request)
    /\ bytes' = bytes \cup {c}
    /\ uploader' = [Free EXCEPT !.at = "publishing", !.clip = c]
    /\ start' = [start EXCEPT ![s].at = "publishing", ![s].clip = c]
    /\ UNCHANGED <<serverVars, networkVars, path, instance, sidecars, published,
                   unanswered, settingsVars, faults>>

\* enqueue: the sidecar makes the pair visible to the uploader.
PublishSidecar(s) ==
    /\ start[s].at = "publishing"
    /\ sidecars' = sidecars \cup {start[s].clip}
    /\ published' = published \cup {start[s].clip}
    /\ uploader' = Free
    /\ start' = [start EXCEPT ![s].at = "staged"]
    /\ UNCHANGED <<serverVars, networkVars, path, instance, origin, bytes,
                   unanswered, settingsVars, faults>>

\* The sidecar cannot be written: enqueue removes the data and the clip is lost.
PublishFails(s) ==
    /\ Fault
    /\ start[s].at = "publishing"
    /\ bytes' = bytes \ {start[s].clip}
    /\ uploader' = Free
    /\ start' = [start EXCEPT ![s].at = "running", ![s].clip = NoClip]
    /\ UNCHANGED <<serverVars, networkVars, path, instance, origin, sidecars,
                   published, unanswered, settingsVars>>

\* Mutant of UploadStaged: whether another thread was faster is not checked.
UploadStagedBlindly(s) ==
    /\ start[s].at = "staged"
    /\ uploader = Free
    /\ uploader' = [Free EXCEPT !.at = "picking", !.todo = {start[s].clip}]
    /\ start' = [start EXCEPT ![s].at = "uploading"]
    /\ UNCHANGED <<serverVars, networkVars, path, instance, diskVars, unanswered,
                   settingsVars, faults>>

\* stage, upload: the job uploads the clip it staged, unless another thread did.
UploadStaged(s) ==
    /\ start[s].at = "staged"
    /\ uploader = Free
    /\ IF start[s].clip \in sidecars
       THEN /\ uploader' = [Free EXCEPT !.at = "picking", !.todo = {start[s].clip}]
            /\ start' = [start EXCEPT ![s].at = "uploading"]
       ELSE /\ start' = [start EXCEPT ![s].at = "running", ![s].clip = NoClip]
            /\ UNCHANGED uploader
    /\ UNCHANGED <<serverVars, networkVars, path, instance, diskVars, unanswered,
                   settingsVars, faults>>

\* The app comes to the front: uploadAll, every sidecar listed, under the monitor
\* from the first to the last; then the pickup.
OpenApp ==
    /\ path["poll"] = Idle
    /\ uploader = Free
    /\ IF sidecars = {}
       THEN /\ path' = [path EXCEPT !["poll"].at = "listing"]
            /\ UNCHANGED uploader
       ELSE /\ path' = [path EXCEPT !["poll"].at = "uploading"]
            /\ uploader' = [Free EXCEPT !.at = "picking", !.todo = sidecars]
    /\ UNCHANGED <<serverVars, networkVars, start, instance, diskVars, unanswered,
                   settingsVars, faults>>

\* The holder of the monitor is done with its clip: the next one, or release.
MoveOn(todo) ==
    IF todo # {}
    THEN /\ uploader' = [Free EXCEPT !.at = "picking", !.todo = todo]
         /\ UNCHANGED <<path, start>>
    ELSE /\ uploader' = Free
         /\ path' = IF path["poll"].at = "uploading"
                    THEN [path EXCEPT !["poll"].at = "listing"] ELSE path
         /\ start' = [s \in DOMAIN start |->
                         IF start[s].at = "uploading"
                         THEN [start[s] EXCEPT !.at = "running", !.clip = NoClip]
                         ELSE start[s]]

\* upload: no data file means later, no server URL or no credential means never.
Upload(c) ==
    /\ uploader.at = "picking" /\ c \in uploader.todo
    /\ \/ /\ c \notin bytes
          /\ MoveOn(uploader.todo \ {c})
          /\ UNCHANGED <<sidecars, posts, homeless>>
       \/ /\ c \in bytes
          /\ ~serverUrl \/ credential = "none"
          /\ sidecars' = sidecars \ {c}
          /\ homeless' = IF serverUrl THEN homeless ELSE homeless \cup {c}
          /\ uploader' = [uploader EXCEPT !.at = "removing", !.clip = c, !.todo = @ \ {c}]
          /\ UNCHANGED <<path, start, posts>>
       \/ /\ c \in bytes /\ serverUrl /\ credential # "none"
          /\ posts' = posts \cup {c}
          /\ uploader' = [uploader EXCEPT !.at = "posting", !.clip = c, !.todo = @ \ {c}]
          /\ UNCHANGED <<path, start, sidecars, homeless>>
    /\ UNCHANGED <<serverVars, wakes, acks, instance, origin, bytes, published,
                   unanswered, credential, serverUrl, faults>>

\* The upload transaction: store the clip and complete the request it answers.
StoreEvidence(c) ==
    /\ rows' = [rows EXCEPT ![c] = @ + 1]
    /\ request' = IF origin[c] # NoRequest /\ request[origin[c]] \in {"PENDING", "STARTED"}
                  THEN [request EXCEPT ![origin[c]] = "COMPLETED"]
                  ELSE request

Answer(c, answer) ==
    uploader' = IF uploader.at = "posting" /\ uploader.clip = c
                THEN [uploader EXCEPT !.at = "answered", !.answer = answer]
                ELSE uploader

\* POST /cas/incidents/:id/evidence: stored, refused for good, or not authorized.
HandleUpload(c) ==
    /\ c \in posts
    /\ posts' = posts \ {c}
    /\ \/ /\ credential = "valid"
          /\ StoreEvidence(c)
          /\ Answer(c, "2xx")
          /\ UNCHANGED refused
       \/ /\ refused' = refused \cup {c}
          /\ Answer(c, IF credential = "valid" THEN "4xx" ELSE "401")
          /\ UNCHANGED <<request, rows>>
    /\ UNCHANGED <<wakes, acks, serviceVars, diskVars, unanswered, settingsVars, faults>>

\* Mutant of UploadFails: a server error counts as a rejection.
UploadFailsForGood ==
    /\ Fault
    /\ uploader.at = "posting"
    /\ uploader' = [uploader EXCEPT !.at = "answered", !.answer = "4xx"]
    /\ posts' = posts \ {uploader.clip}
    /\ UNCHANGED <<serverVars, wakes, acks, serviceVars, diskVars, unanswered, settingsVars>>

\* No answer, or a server error: the pair stays for a later attempt, and the server
\* may still handle the request.
UploadFails ==
    /\ Fault
    /\ uploader.at \in {"posting", "answered"}
    /\ unanswered' = unanswered \cup {uploader.clip}
    /\ posts' \in {posts, posts \ {uploader.clip}}
    /\ MoveOn(uploader.todo)
    /\ UNCHANGED <<serverVars, wakes, acks, instance, diskVars, settingsVars>>

\* Mutant of ReceiveAnswer: only 200 counts as success, the server answers 201.
ReceiveAnswerOnly200 ==
    /\ uploader.at = "answered"
    /\ credential' = IF uploader.answer = "401" THEN "none" ELSE credential
    /\ IF uploader.answer = "2xx"
       THEN MoveOn(uploader.todo) /\ UNCHANGED sidecars
       ELSE /\ sidecars' = sidecars \ {uploader.clip}
            /\ uploader' = [uploader EXCEPT !.at = "removing", !.answer = "none"]
            /\ UNCHANGED <<path, start>>
    /\ UNCHANGED <<serverVars, networkVars, instance, origin, bytes, published,
                   unanswered, serverUrl, homeless, faults>>

\* A final answer: a 401 clears the credential, and the sidecar is deleted first.
ReceiveAnswer ==
    /\ uploader.at = "answered"
    /\ credential' = IF uploader.answer = "401" THEN "none" ELSE credential
    /\ sidecars' = sidecars \ {uploader.clip}
    /\ uploader' = [uploader EXCEPT !.at = "removing", !.answer = "none"]
    /\ UNCHANGED <<serverVars, networkVars, serviceVars, origin, bytes, published,
                   unanswered, serverUrl, homeless, faults>>

\* ... then the data, and the holder goes on.
RemoveBytes ==
    /\ uploader.at = "removing"
    /\ bytes' = bytes \ {uploader.clip}
    /\ MoveOn(uploader.todo)
    /\ UNCHANGED <<serverVars, networkVars, instance, origin, sidecars, published,
                   unanswered, settingsVars, faults>>

--------------------------------------------------------------------------------
(* The rest of the world.                                                  *)

\* An operator revokes the handset's credential.
Revoke ==
    /\ Fault
    /\ credential = "valid"
    /\ credential' = "revoked"
    /\ UNCHANGED <<serverVars, networkVars, serviceVars, diskVars, uploader, unanswered,
                   serverUrl, homeless>>

\* Save and Send store what the server field holds; a blank URL is accepted.
SetAlertServerUrl ==
    /\ serverUrl' = ~serverUrl
    /\ IF serverUrl THEN Fault ELSE UNCHANGED faults
    /\ UNCHANGED <<serverVars, networkVars, serviceVars, diskVars, uploader, unanswered,
                   credential, homeless>>

\* The app's process dies.  START_NOT_STICKY: of the start commands, only those not
\* yet delivered survive.
ProcessDies ==
    /\ Fault
    /\ path' = [p \in Paths |-> Idle]
    /\ start' = [s \in DOMAIN start |->
                    IF start[s].at \in {"sent", "refused"} THEN start[s]
                    ELSE Over(s)]
    /\ instance' = NoInstance
    /\ uploader' = Free
    /\ acks' = {[m EXCEPT !.via = "late"] : m \in acks}
    /\ unanswered' = IF uploader.at \in {"posting", "answered"}
                     THEN unanswered \cup {uploader.clip} ELSE unanswered
    /\ UNCHANGED <<serverVars, wakes, posts, diskVars, settingsVars>>

JobStep(s) ==
    \/ OnStartCommand(s) \/ RunJob(s) \/ EndJob(s)
    \/ PublishBytes(s) \/ PublishSidecar(s) \/ UploadStaged(s)

UploaderStep == (\E c \in Clips : Upload(c)) \/ ReceiveAnswer \/ RemoveBytes

Next ==
    \/ \E q \in Requests : Create(q) \/ PushWakes(q)
    \/ OpenApp
    \/ CheckPending
    \/ \E p \in Paths : StartCapture(p)
    \/ \E m \in acks : HandleAck(m) \/ AckFails(m)
    \/ StartOnTrigger
    \/ \E s \in DOMAIN start : JobStep(s) \/ PublishFails(s)
    \/ UploaderStep \/ UploadFails
    \/ \E c \in Clips : HandleUpload(c)
    \/ Revoke \/ SetAlertServerUrl \/ ProcessDies

\* The owner keeps opening the app, threads run, and the server answers; faults end.
Fairness ==
    /\ WF_captureVars(OpenApp) /\ WF_captureVars(CheckPending)
    /\ WF_captureVars(\E p \in Paths : StartCapture(p))
    /\ WF_captureVars(\E m \in acks : HandleAck(m))
    /\ WF_captureVars(\E s \in DOMAIN start : JobStep(s))
    /\ WF_captureVars(UploaderStep)
    /\ WF_captureVars(\E c \in Clips : HandleUpload(c))

Spec == Init /\ [][Next]_captureVars

FairSpec == Spec /\ Fairness

--------------------------------------------------------------------------------
(* Correctness.                                                            *)

TypeOK ==
    /\ request \in [Requests -> RequestState]
    /\ rows \in [Clips -> 0..(MaxFaults + 1)]
    /\ \A s \in {refused, posts, bytes, sidecars, published, unanswered, homeless} :
          s \subseteq 1..Len(origin)
    /\ wakes \subseteq Requests
    /\ acks \subseteq Ack
    /\ \A p \in Paths :
          /\ path[p].at \in {"idle", "uploading", "listing", "items", "acking"}
          /\ path[p].todo \subseteq Requests
    /\ start \in Seq(Start) /\ Len(start) <= MaxStarts
    /\ instance \in 0..Len(start)
    /\ origin \in Seq(Requests \cup {NoRequest}) /\ Len(origin) <= MaxClips
    /\ uploader.at \in {"free", "publishing", "picking", "posting", "answered", "removing"}
    /\ uploader.todo \subseteq sidecars
    /\ credential \in {"valid", "revoked", "none"} /\ serverUrl \in BOOLEAN
    /\ faults \in 0..MaxFaults

\* A request never reads PENDING or STARTED while its clip is stored, however late
\* an acknowledgement of either path arrives.
LandedIsNotAwaited ==
    \A c \in Stored : origin[c] # NoRequest =>
        request[origin[c]] \notin {"PENDING", "STARTED"}

\* All capture is serialized: two jobs never run at once, except where a refused
\* start tore the service down under the job before it.
SerializedUnlessRefused ==
    \A a, b \in DOMAIN start : a < b /\ IsRunning(a) /\ IsRunning(b) =>
        \E s \in (a + 1)..(b - 1) : start[s].at = "refused"

\* A staged clip is on disk as a pair until the server has stored or rejected it,
\* whatever dies or fails in between, unless the handset has no credential left or came
\* to upload the clip while it had no server URL.
StagedIsKept ==
    \A c \in published :
        \/ c \in (bytes \cap sidecars) \cup Stored \cup refused
        \/ credential = "none" \/ c \in homeless

\* The server stores a clip a second time only if an answer about it was lost: two
\* threads never upload the same pair, and a removed clip is not replayed.
StoredTwiceOnlyUnanswered ==
    [][\A c \in Stored : rows'[c] > rows[c] => c \in unanswered]_captureVars

\* Nothing is left lying: again and again every request is answered, while the
\* credential and the server URL hold, and every staged clip has left the handset,
\* whatever was lost.
WorkIsSettled ==
    []<>(/\ sidecars = {}
         /\ serverUrl /\ credential = "valid" => \A q \in Requests : request[q] # "PENDING")

\* A start that Android denies is never shown as started: a STARTED request has a start
\* command that was accepted, even if startForeground was refused for it later.
StartedWasAccepted ==
    \A q \in Requests : request[q] = "STARTED" =>
        \E s \in DOMAIN start : start[s].request = q
================================================================================
