------------------------- MODULE EvidenceCapture_proofs -------------------------
(***************************************************************************)
(* Machine-checked proofs about EvidenceCapture, for any number of         *)
(* requests, start commands, clips and faults.                             *)
(***************************************************************************)
EXTENDS EvidenceCapture, SequenceTheorems, WellFoundedInduction, TLAPS

\* What a pickup thread, and the monitor, can read.
PathState == [at : {"idle", "uploading", "listing", "items", "acking"},
              todo : SUBSET Requests]

PathsTyped ==
    /\ path \in [Paths -> PathState]
    /\ \A p \in Paths : path[p].at = "items" => path[p].todo # {}

Uploader == [at : {"free", "publishing", "picking", "posting", "answered", "removing"},
             todo : SUBSET Clips, clip : Clips \cup {NoClip},
             answer : {"none", "2xx", "4xx", "401"}]

\* The types of the state.  How often a clip can be stored is not bounded here.
CaptureTypes ==
    /\ request \in [Requests -> RequestState]
    /\ rows \in [Clips -> Nat]
    /\ wakes \subseteq Requests
    /\ acks \subseteq Ack
    /\ PathsTyped
    /\ start \in Seq(Start) /\ Len(start) <= MaxStarts
    /\ instance \in 0..Len(start)
    /\ origin \in Seq(Requests \cup {NoRequest}) /\ Len(origin) <= MaxClips
    /\ uploader \in Uploader
    /\ credential \in {"valid", "revoked", "none"} /\ serverUrl \in BOOLEAN

\* Clips are named as they are captured, and what is kept of them names no other.
ClipsAreCaptured ==
    /\ Stored \cup refused \cup posts \cup bytes \cup published \cup unanswered
           \cup homeless \subseteq DOMAIN origin
    /\ Stored \cup posts \cup sidecars \subseteq published

\* Whatever is done for a request is done after it was created.
KnownRequests ==
    /\ \A p \in Paths : \A q \in path[p].todo : request[q] # "none"
    /\ \A s \in DOMAIN start :
          start[s].request # NoRequest => request[start[s].request] # "none"
    /\ \A c \in DOMAIN origin :
          origin[c] # NoRequest => request[origin[c]] # "none"

\* An acknowledgement that says "started" follows an accepted start command.
AcksAreTrue ==
    \A m \in acks : m.outcome = "started" =>
        \E s \in DOMAIN start : start[s].request = m.request

\* Who publishes a clip holds the monitor, alone, and its data is on disk.
MonitorHeld ==
    /\ uploader.todo \subseteq sidecars \ {uploader.clip}
    /\ uploader.at \in {"posting", "answered", "removing"} => uploader.clip \in DOMAIN origin
    /\ \A s \in DOMAIN start : start[s].at = "publishing" =>
          /\ uploader.at = "publishing" /\ uploader.clip = start[s].clip
          /\ start[s].clip \in bytes \ published
    /\ \A r, s \in DOMAIN start :
          start[r].at = "publishing" /\ start[s].at = "publishing" => r = s

\* A pair is removed only for a final answer, or for want of a credential or a server URL.
RemovalIsFinal ==
    /\ uploader.at = "answered" => uploader.clip \in Stored \cup refused
    /\ uploader.at = "removing" =>
          uploader.clip \in Stored \cup refused \cup homeless \/ credential = "none"

\* An upload whose answer can still come is the one its thread waits for; a clip that
\* is stored, and of which no answer was lost, is not uploaded again.
UploadsAreAwaited ==
    /\ \A c \in posts \ unanswered : uploader.at = "posting" /\ uploader.clip = c
    /\ \A c \in Stored \ unanswered :
          /\ c \notin posts
          /\ c \in sidecars => uploader.at = "answered" /\ uploader.clip = c

\* A job that waits for the worker of its instance, or has it.
IsActive(s) == start[s].at = "queued" \/ IsRunning(s)

RefusedAfter(a) == \E s \in DOMAIN start : a < s /\ start[s].at = "refused"

RefusedBetween(a, b) == \E s \in (a + 1)..(b - 1) : start[s].at = "refused"

\* Commands are delivered in order; an instance that is gone was torn down by a refused
\* start after its jobs; and the worker of an instance takes its jobs in order.
WorkersInOrder ==
    /\ \A s \in DOMAIN start : IsActive(s) => start[s].instance # NoInstance
    /\ \A a, b \in DOMAIN start : a < b /\ start[a].at = "sent" => start[b].at = "sent"
    /\ \A a \in DOMAIN start :
          IsActive(a) /\ start[a].instance # instance => RefusedAfter(a)
    /\ \A a, b \in DOMAIN start :
          a < b /\ IsActive(a) /\ IsActive(b) /\ start[a].instance # start[b].instance
          => RefusedBetween(a, b)
    /\ \A a, b \in DOMAIN start :
          a < b /\ start[a].instance = start[b].instance /\ IsRunning(b) => ~IsActive(a)

IndInv ==
    /\ CaptureTypes
    /\ ClipsAreCaptured
    /\ KnownRequests
    /\ AcksAreTrue
    /\ MonitorHeld
    /\ RemovalIsFinal
    /\ UploadsAreAwaited
    /\ WorkersInOrder
    /\ LandedIsNotAwaited
    /\ StartedWasAccepted
    /\ StagedIsKept

--------------------------------------------------------------------------------
(* What the steps do to the start commands.                                *)

USE CaptureBoundsNat DEF Requests, Clips, NoRequest, NoClip, NoInstance

\* The least element of a set of numbers is one of them.
LEMMA MinIsMember ==
    ASSUME NEW S, S \subseteq Nat, S # {}
    PROVE  Min(S) \in S
<1> DEFINE Less == {r \in Nat \X Nat : r[1] < r[2]}
<1>1. IsWellFoundedOn(Less, Nat)
  BY NatLessThanWellFounded DEF OpToRel
<1> HIDE DEF Less
<1>2. \E x \in S : \A y \in S : <<y, x>> \notin Less
  BY <1>1, WFMin
<1>3. PICK x \in S : \A y \in S : <<y, x>> \notin Less
  BY <1>2
<1>4. ASSUME NEW y \in S
      PROVE  x <= y
  <2>1. <<y, x>> \notin Less
    BY <1>3
  <2>2. ~(y < x)
    BY <2>1 DEF Less
  <2>3. QED BY <2>2
<1>5. QED BY <1>4 DEF Min

\* One job moves, the others stay.
JobMoves(s, at) ==
    /\ start' \in Seq(Start) /\ Len(start') = Len(start)
    /\ start'[s].request = start[s].request /\ start'[s].at = at
    /\ \A r \in DOMAIN start : r # s => start'[r] = start[r]

JobSettles(s, at) == JobMoves(s, at) /\ start'[s].instance = start[s].instance

LEMMA StartIsSeq ==
    ASSUME CaptureTypes
    PROVE  /\ DOMAIN start = 1..Len(start)
           /\ \A s \in DOMAIN start : start[s] \in Start
           /\ \A s \in DOMAIN start : s \in Nat \ {0} /\ s \in 0..MaxStarts
           /\ Len(start) \in Nat
           /\ DOMAIN origin = 1..Len(origin) /\ Len(origin) \in Nat
           /\ \A c \in DOMAIN origin : origin[c] \in Requests \cup {NoRequest}
           /\ DOMAIN origin \subseteq Clips
BY DEF CaptureTypes

\* A job that takes the value x.
LEMMA JobTakes ==
    ASSUME CaptureTypes, NEW s \in DOMAIN start, NEW x \in Start,
           start' = [start EXCEPT ![s] = x]
    PROVE  /\ start' \in Seq(Start) /\ Len(start') = Len(start) /\ start'[s] = x
           /\ \A r \in DOMAIN start : r # s => start'[r] = start[r]
<1>1. start \in Seq(Start) /\ s \in 1..Len(start)
  BY DEF CaptureTypes
<1>2. QED BY <1>1, ExceptSeq

LEMMA DeliveryMoves ==
    ASSUME CaptureTypes, NEW s \in DOMAIN start, OnStartCommand(s)
    PROVE  \/ /\ JobMoves(s, "queued")
              /\ instance' = (IF instance = NoInstance THEN s ELSE instance)
              /\ start'[s].instance = instance'
              /\ start'[s].clip = start[s].clip
           \/ /\ JobSettles(s, "refused")
              /\ instance' \in {instance, NoInstance} \/ (instance = NoInstance /\ instance' = s)
              /\ s # Len(start) => instance' # NoInstance
              /\ start'[s].clip = start[s].clip
<1> USE StartIsSeq
<1>1. start[s] \in Start /\ start \in Seq(Start) /\ start[s].at = "sent"
  BY DEF OnStartCommand, CaptureTypes
<1>2. PICK up \in 0..MaxStarts : up = IF instance = NoInstance THEN s ELSE instance
  BY DEF CaptureTypes
<1>3. CASE /\ start' = [start EXCEPT ![s].at = "queued", ![s].instance = up]
           /\ instance' = up
  <2>1. PICK x \in Start : x = [start[s] EXCEPT !.at = "queued", !.instance = up]
    BY <1>1 DEF Start
  <2>2. start' = [start EXCEPT ![s] = x]
    BY <1>1, <1>3, <2>1 DEF Start
  <2>3. JobMoves(s, "queued")
    BY <1>1, <2>1, <2>2, JobTakes DEF JobMoves, Start
  <2>4. start'[s].instance = up /\ start'[s].clip = start[s].clip
    BY <1>1, <2>1, <2>2, JobTakes DEF Start
  <2>5. QED BY <1>2, <1>3, <2>3, <2>4
<1>4. CASE /\ start' = [start EXCEPT ![s].at = "refused"]
           /\ instance' = AfterStopSelf(s, up)
  <2>1. PICK x \in Start : x = [start[s] EXCEPT !.at = "refused"]
    BY <1>1 DEF Start
  <2>2. start' = [start EXCEPT ![s] = x]
    BY <1>1, <1>4, <2>1 DEF Start
  <2>3. JobSettles(s, "refused") /\ start'[s].clip = start[s].clip
    BY <1>1, <2>1, <2>2, JobTakes DEF JobMoves, JobSettles, Start
  <2>4. instance' = IF s = Len(start) THEN NoInstance ELSE up
    BY <1>4 DEF AfterStopSelf
  <2>5. s # 0
    OBVIOUS
  <2>6. QED BY <1>2, <2>3, <2>4, <2>5
<1>5. QED BY <1>2, <1>3, <1>4 DEF OnStartCommand

LEMMA RunMoves ==
    ASSUME CaptureTypes, NEW s \in DOMAIN start, RunJob(s)
    PROVE  JobSettles(s, "running") /\ start'[s].clip = start[s].clip
<1>1. start[s] \in Start /\ start \in Seq(Start)
  BY StartIsSeq DEF CaptureTypes
<1>2. PICK x \in Start : x = [start[s] EXCEPT !.at = "running"]
  BY <1>1 DEF Start
<1>3. start' = [start EXCEPT ![s] = x]
  BY <1>1, <1>2 DEF RunJob, Start
<1>4. QED BY <1>1, <1>2, <1>3, JobTakes DEF JobMoves, JobSettles, Start

LEMMA EndMoves ==
    ASSUME CaptureTypes, NEW s \in DOMAIN start, EndJob(s)
    PROVE  JobMoves(s, "ended") /\ instance' \in {instance, NoInstance}
           /\ (s # Len(start) => instance' = instance)
<1>1. start[s] \in Start /\ start \in Seq(Start)
  BY StartIsSeq DEF CaptureTypes
<1>2. Over(s) \in Start
  BY <1>1 DEF Start, Over
<1>3. start' = [start EXCEPT ![s] = Over(s)] /\ instance' = AfterStopSelf(s, instance)
  BY DEF EndJob
<1>4. QED BY <1>1, <1>2, <1>3, StartIsSeq DEF JobMoves, Over, AfterStopSelf

LEMMA PublishingMoves ==
    ASSUME CaptureTypes, NEW s \in DOMAIN start, PublishBytes(s)
    PROVE  JobSettles(s, "publishing") /\ start'[s].clip = Len(origin) + 1
<1>1. start[s] \in Start /\ start \in Seq(Start) /\ Len(origin) + 1 \in Clips
  BY StartIsSeq DEF CaptureTypes, PublishBytes
<1>2. PICK x \in Start : x = [start[s] EXCEPT !.at = "publishing", !.clip = Len(origin) + 1]
  BY <1>1 DEF Start
<1>3. start' = [start EXCEPT ![s] = x]
  BY <1>1, <1>2 DEF PublishBytes, Start
<1>4. QED BY <1>1, <1>2, <1>3, JobTakes DEF JobMoves, JobSettles, Start

LEMMA PublishedMoves ==
    ASSUME CaptureTypes, NEW s \in DOMAIN start, PublishSidecar(s)
    PROVE  JobSettles(s, "staged") /\ start'[s].clip = start[s].clip
<1>1. start[s] \in Start /\ start \in Seq(Start)
  BY StartIsSeq DEF CaptureTypes
<1>2. PICK x \in Start : x = [start[s] EXCEPT !.at = "staged"]
  BY <1>1 DEF Start
<1>3. start' = [start EXCEPT ![s] = x]
  BY <1>1, <1>2 DEF PublishSidecar, Start
<1>4. QED BY <1>1, <1>2, <1>3, JobTakes DEF JobMoves, JobSettles, Start

LEMMA PublishFailsMoves ==
    ASSUME CaptureTypes, NEW s \in DOMAIN start, PublishFails(s)
    PROVE  JobSettles(s, "running")
<1>1. start[s] \in Start /\ start \in Seq(Start)
  BY StartIsSeq DEF CaptureTypes
<1>2. PICK x \in Start : x = [start[s] EXCEPT !.at = "running", !.clip = NoClip]
  BY <1>1 DEF Start
<1>3. start' = [start EXCEPT ![s] = x]
  BY <1>1, <1>2 DEF PublishFails, Start
<1>4. QED BY <1>1, <1>2, <1>3, JobTakes DEF JobMoves, JobSettles, Start

LEMMA UploadStagedMoves ==
    ASSUME CaptureTypes, NEW s \in DOMAIN start, UploadStaged(s)
    PROVE  \/ JobSettles(s, "uploading") /\ start[s].clip \in sidecars
           \/ JobSettles(s, "running")
<1>1. start[s] \in Start /\ start \in Seq(Start)
  BY StartIsSeq DEF CaptureTypes
<1>2. CASE start[s].clip \in sidecars
  <2>1. PICK x \in Start : x = [start[s] EXCEPT !.at = "uploading"]
    BY <1>1 DEF Start
  <2>2. start' = [start EXCEPT ![s] = x]
    BY <1>1, <1>2, <2>1 DEF UploadStaged, Start
  <2>3. QED BY <1>1, <1>2, <2>1, <2>2, JobTakes DEF JobMoves, JobSettles, Start
<1>3. CASE start[s].clip \notin sidecars
  <2>1. PICK x \in Start : x = [start[s] EXCEPT !.at = "running", !.clip = NoClip]
    BY <1>1 DEF Start
  <2>2. start' = [start EXCEPT ![s] = x]
    BY <1>1, <1>3, <2>1 DEF UploadStaged, Start
  <2>3. QED BY <1>1, <1>3, <2>1, <2>2, JobTakes DEF JobMoves, JobSettles, Start
<1>4. QED BY <1>2, <1>3

LEMMA SendAppends ==
    ASSUME CaptureTypes, NEW q \in Requests \cup {NoRequest}, SendStart(q)
    PROVE  /\ start' \in Seq(Start) /\ Len(start') = Len(start) + 1
           /\ Len(start') <= MaxStarts
           /\ \A s \in DOMAIN start : start'[s] = start[s]
           /\ start'[Len(start) + 1].request = q
           /\ start'[Len(start) + 1].at = "sent"
<1>1. PICK x \in Start : x = [request |-> q, instance |-> NoInstance, clip |-> NoClip,
                              at |-> "sent"]
  <2>1. 0 \in 0..MaxStarts
    OBVIOUS
  <2>2. QED BY <2>1 DEF Start
<1>2. start' = Append(start, x) /\ start \in Seq(Start) /\ Len(start) < MaxStarts
  BY <1>1 DEF SendStart, CaptureTypes
<1>3. QED BY <1>1, <1>2, AppendProperties, StartIsSeq

\* When the monitor is released, the job that held it goes on.
UploadsEnd ==
    /\ start' \in Seq(Start) /\ Len(start') = Len(start)
    /\ \A s \in DOMAIN start :
          \/ start'[s] = start[s]
          \/ /\ start[s].at = "uploading" /\ start'[s].at = "running"
             /\ start'[s].request = start[s].request
             /\ start'[s].instance = start[s].instance

LEMMA MoveOnMoves ==
    ASSUME CaptureTypes, NEW todo \in SUBSET Clips, MoveOn(todo)
    PROVE  UploadsEnd
<1> USE StartIsSeq DEF UploadsEnd
<1>1. CASE todo # {}
  BY <1>1 DEF MoveOn, CaptureTypes
<1>2. CASE todo = {}
  <2>1. ASSUME NEW s \in DOMAIN start
        PROVE  /\ start'[s] \in Start
               /\ \/ start'[s] = start[s]
                  \/ /\ start[s].at = "uploading" /\ start'[s].at = "running"
                     /\ start'[s].request = start[s].request
                     /\ start'[s].instance = start[s].instance
    <3>1. start'[s] = IF start[s].at = "uploading"
                      THEN [start[s] EXCEPT !.at = "running", !.clip = NoClip]
                      ELSE start[s]
      BY <1>2 DEF MoveOn
    <3>2. start[s] \in Start
      OBVIOUS
    <3>3. [start[s] EXCEPT !.at = "running", !.clip = NoClip] \in Start
      BY <3>2 DEF Start
    <3>4. CASE start[s].at = "uploading"
      BY <3>1, <3>2, <3>3, <3>4 DEF Start
    <3>5. CASE start[s].at # "uploading"
      BY <3>1, <3>2, <3>5
    <3>6. QED BY <3>4, <3>5
  <2>2. start' \in [1..Len(start) -> Start]
    BY <1>2, <2>1 DEF MoveOn
  <2>3. start' \in Seq(Start) /\ Len(start') = Len(start)
    BY <2>2, SeqDef, LenProperties
  <2>4. QED BY <2>1, <2>3
<1>3. QED BY <1>1, <1>2

\* Of the commands a death leaves only those that wait or were refused.
LEMMA DeathEndsJobs ==
    ASSUME CaptureTypes, ProcessDies
    PROVE  /\ start' \in Seq(Start) /\ Len(start') = Len(start)
           /\ \A s \in DOMAIN start :
                 /\ start'[s].request = start[s].request
                 /\ \/ start'[s].at = "ended" /\ start[s].at \notin {"sent", "refused"}
                    \/ start'[s].at = start[s].at /\ start[s].at \in {"sent", "refused"}
<1> USE StartIsSeq
<1>1. ASSUME NEW s \in DOMAIN start
      PROVE  /\ start'[s] \in Start
             /\ start'[s].request = start[s].request
             /\ \/ start'[s].at = "ended" /\ start[s].at \notin {"sent", "refused"}
                \/ start'[s].at = start[s].at /\ start[s].at \in {"sent", "refused"}
  <2>1. start'[s] = IF start[s].at \in {"sent", "refused"} THEN start[s] ELSE Over(s)
    BY DEF ProcessDies
  <2>2. start[s] \in Start
    OBVIOUS
  <2>3. QED BY <2>1, <2>2 DEF Start, Over
<1>2. start' \in [1..Len(start) -> Start]
  BY <1>1 DEF ProcessDies
<1>3. start' \in Seq(Start) /\ Len(start') = Len(start)
  BY <1>2, SeqDef, LenProperties
<1>4. QED BY <1>1, <1>3

\* The item a pickup thread takes is one of its own.
LEMMA ItemIsOwn ==
    ASSUME CaptureTypes, NEW p \in Paths, path[p].at = "items"
    PROVE  Min(path[p].todo) \in path[p].todo /\ Min(path[p].todo) \in Requests
<1>1. path[p].todo \subseteq Requests /\ path[p].todo # {}
  BY DEF CaptureTypes, PathsTyped, PathState
<1>2. path[p].todo \subseteq Nat
  BY <1>1
<1>3. Min(path[p].todo) \in path[p].todo
  BY <1>1, <1>2, MinIsMember
<1>4. QED BY <1>1, <1>3

\* Commands are never lost, and what they ask for never changes.
StartsKept ==
    /\ start' \in Seq(Start) /\ Len(start') <= MaxStarts
    /\ Len(start') >= Len(start)
    /\ \A s \in DOMAIN start : start'[s].request = start[s].request

LEMMA StepKeepsStarts ==
    ASSUME CaptureTypes, [Next]_captureVars
    PROVE  StartsKept
<1> USE StartIsSeq DEF StartsKept
<1>0. start \in Seq(Start) /\ Len(start) <= MaxStarts
  BY DEF CaptureTypes
<1>1. ASSUME UNCHANGED start
      PROVE  StartsKept
  BY <1>0, <1>1
<1>2. ASSUME NEW q \in Requests \cup {NoRequest}, SendStart(q)
      PROVE  StartsKept
  BY <1>0, <1>2, SendAppends
<1>3. ASSUME NEW s \in DOMAIN start, NEW at, JobMoves(s, at)
      PROVE  StartsKept
  BY <1>0, <1>3 DEF JobMoves
<1>4. ASSUME NEW todo \in SUBSET Clips, MoveOn(todo)
      PROVE  StartsKept
  BY <1>0, <1>4, MoveOnMoves DEF UploadsEnd
<1>5. ASSUME NEW p \in Paths, StartCapture(p)
      PROVE  StartsKept
  BY <1>1, <1>2, <1>5, ItemIsOwn DEF StartCapture
<1>6. ASSUME NEW s \in DOMAIN start, JobStep(s) \/ PublishFails(s)
      PROVE  StartsKept
  BY <1>3, <1>6, DeliveryMoves, RunMoves, EndMoves, PublishingMoves, PublishedMoves,
     PublishFailsMoves, UploadStagedMoves DEF JobStep, JobSettles
<1>7. ASSUME UploaderStep \/ UploadFails
      PROVE  StartsKept
  <2>1. uploader.todo \subseteq Clips
    BY DEF CaptureTypes, Uploader
  <2>2. QED BY <1>1, <1>4, <1>7, <2>1
            DEF UploaderStep, Upload, UploadFails, ReceiveAnswer, RemoveBytes, serviceVars
<1>8. ASSUME ProcessDies
      PROVE  StartsKept
  BY <1>0, <1>8, DeathEndsJobs
<1>9. ASSUME \/ \E q \in Requests : Create(q) \/ PushWakes(q)
             \/ OpenApp \/ CheckPending \/ Revoke \/ SetAlertServerUrl
             \/ \E m \in acks : HandleAck(m) \/ AckFails(m)
             \/ \E c \in Clips : HandleUpload(c)
             \/ UNCHANGED captureVars
      PROVE  StartsKept
  BY <1>1, <1>9 DEF Create, PushWakes, OpenApp, CheckPending, Revoke, SetAlertServerUrl,
                    HandleAck, AckFails,
                    HandleUpload, captureVars, settingsVars, serviceVars
<1>10. QED BY <1>2, <1>5, <1>6, <1>7, <1>8, <1>9 DEF Next, StartOnTrigger

--------------------------------------------------------------------------------
(* Types.                                                                  *)

LEMMA PathTakes ==
    ASSUME PathsTyped, NEW p \in Paths, NEW x \in PathState, x.at = "items" => x.todo # {},
           path' = [path EXCEPT ![p] = x]
    PROVE  PathsTyped'
BY DEF PathsTyped

LEMMA WithItemsTyped ==
    ASSUME NEW todo \in SUBSET Requests
    PROVE  /\ WithItems(todo) \in PathState
           /\ WithItems(todo).at = "items" => WithItems(todo).todo # {}
BY DEF WithItems, PathState, Idle

LEMMA PathAfterTyped ==
    ASSUME PathsTyped, NEW m \in Ack, path' = PathAfter(m)
    PROVE  PathsTyped'
<1>1. CASE m.via \in Paths
  <2>1. path[m.via].todo \in SUBSET Requests
    BY <1>1 DEF PathsTyped, PathState
  <2>2. path' = [path EXCEPT ![m.via] = WithItems(path[m.via].todo)]
    BY <1>1 DEF PathAfter
  <2>3. QED BY <1>1, <2>1, <2>2, WithItemsTyped, PathTakes
<1>2. CASE m.via \notin Paths
  BY <1>2 DEF PathAfter, PathsTyped
<1>3. QED BY <1>1, <1>2

LEMMA MoveOnTyped ==
    ASSUME PathsTyped, uploader \in Uploader, NEW todo \in SUBSET Clips, MoveOn(todo)
    PROVE  PathsTyped' /\ uploader' \in Uploader
<1>1. CASE todo # {}
  BY <1>1 DEF MoveOn, PathsTyped, Uploader, Free
<1>2. CASE todo = {}
  <2>0. Free \in Uploader
    BY DEF Free, Uploader
  <2>1. uploader' \in Uploader
    BY <1>2, <2>0 DEF MoveOn
  <2>2. path["poll"] \in PathState
    BY DEF PathsTyped, Paths
  <2>3. PICK x \in PathState : x = [path["poll"] EXCEPT !.at = "listing"]
    BY <2>2 DEF PathState
  <2>4. path' = path \/ path' = [path EXCEPT !["poll"] = x]
    BY <1>2, <2>2, <2>3 DEF MoveOn, PathsTyped, PathState
  <2>5. x.at # "items"
    BY <2>2, <2>3 DEF PathState
  <2>6. PathsTyped'
    BY <2>4, <2>5, PathTakes DEF PathsTyped, Paths
  <2>7. QED BY <2>1, <2>6
<1>3. QED BY <1>1, <1>2

LEMMA PathsTypedKept ==
    ASSUME CaptureTypes, [Next]_captureVars
    PROVE  PathsTyped'
<1>1. PathsTyped /\ uploader \in Uploader /\ uploader.todo \subseteq Clips
  BY DEF CaptureTypes, Uploader
<1>2. ASSUME UNCHANGED path
      PROVE  PathsTyped'
  BY <1>1, <1>2 DEF PathsTyped
<1>3. Pending \in SUBSET Requests
  BY DEF Pending
<1>4. ASSUME NEW q \in Requests, PushWakes(q)
      PROVE  PathsTyped'
  BY <1>1, <1>3, <1>4, WithItemsTyped, PathTakes DEF PushWakes, Paths
<1>5. ASSUME CheckPending
      PROVE  PathsTyped'
  BY <1>1, <1>3, <1>5, WithItemsTyped, PathTakes DEF CheckPending, Paths
<1>6. ASSUME OpenApp
      PROVE  PathsTyped'
  <2>1. path["poll"] \in PathState
    BY <1>1 DEF PathsTyped, Paths
  <2>2. PICK x \in PathState, y \in PathState :
            /\ x = [path["poll"] EXCEPT !.at = "listing"]
            /\ y = [path["poll"] EXCEPT !.at = "uploading"]
    BY <2>1 DEF PathState
  <2>3. path' = [path EXCEPT !["poll"] = x] \/ path' = [path EXCEPT !["poll"] = y]
    BY <1>1, <1>6, <2>1, <2>2 DEF OpenApp, PathsTyped, PathState
  <2>4. x.at # "items" /\ y.at # "items"
    BY <2>1, <2>2 DEF PathState
  <2>5. QED BY <1>1, <2>3, <2>4, PathTakes DEF Paths
<1>7. ASSUME NEW p \in Paths, StartCapture(p)
      PROVE  PathsTyped'
  <2>1. PICK q : q = Min(path[p].todo)
    OBVIOUS
  <2>2. PICK x : x = [at |-> "acking", todo |-> path[p].todo \ {q}]
    OBVIOUS
  <2>3. path' = [path EXCEPT ![p] = x]
    BY <1>7, <2>1, <2>2 DEF StartCapture
  <2>4. x \in PathState /\ x.at # "items"
    BY <1>1, <2>2 DEF PathsTyped, PathState
  <2>5. QED BY <1>1, <2>3, <2>4, PathTakes
<1>8. ASSUME NEW m \in acks, HandleAck(m) \/ AckFails(m)
      PROVE  PathsTyped'
  BY <1>1, <1>8, PathAfterTyped DEF HandleAck, AckFails, CaptureTypes
<1>9. ASSUME UploaderStep \/ UploadFails
      PROVE  PathsTyped'
  BY <1>1, <1>2, <1>9, MoveOnTyped
     DEF UploaderStep, Upload, UploadFails, ReceiveAnswer, RemoveBytes, serviceVars
<1>10. ASSUME ProcessDies
       PROVE  PathsTyped'
  BY <1>10 DEF ProcessDies, PathsTyped, PathState, Idle
<1>11. ASSUME \/ \E q \in Requests : Create(q)
              \/ StartOnTrigger \/ Revoke \/ SetAlertServerUrl
              \/ \E s \in DOMAIN start : JobStep(s) \/ PublishFails(s)
              \/ \E c \in Clips : HandleUpload(c)
              \/ UNCHANGED captureVars
       PROVE  PathsTyped'
  BY <1>2, <1>11 DEF Create, StartOnTrigger, Revoke, SetAlertServerUrl, JobStep,
                     OnStartCommand, RunJob, EndJob,
                     PublishBytes, PublishSidecar, PublishFails, UploadStaged, HandleUpload,
                     captureVars, settingsVars, serviceVars
<1>12. QED BY <1>4, <1>5, <1>6, <1>7, <1>8, <1>9, <1>10, <1>11 DEF Next

LEMMA UploaderTypedKept ==
    ASSUME CaptureTypes, ClipsAreCaptured, [Next]_captureVars
    PROVE  uploader' \in Uploader
<1> USE StartIsSeq
<1>1. PathsTyped /\ uploader \in Uploader /\ uploader.todo \in SUBSET Clips
  BY DEF CaptureTypes, Uploader
<1>2. Free \in Uploader
  BY DEF Free, Uploader
<1>3. sidecars \subseteq Clips
  BY DEF ClipsAreCaptured
<1>4. ASSUME NEW todo \in SUBSET Clips, uploader' = [Free EXCEPT !.at = "picking", !.todo = todo]
      PROVE  uploader' \in Uploader
  BY <1>4 DEF Uploader, Free
<1>5. ASSUME NEW s \in DOMAIN start, PublishBytes(s)
      PROVE  uploader' \in Uploader
  <2>1. Len(origin) + 1 \in Clips
    BY <1>5 DEF PublishBytes
  <2>2. QED BY <1>5, <2>1 DEF PublishBytes, Uploader, Free
<1>6. ASSUME NEW s \in DOMAIN start, UploadStaged(s)
      PROVE  uploader' \in Uploader
  <2>1. CASE start[s].clip \in sidecars
    <3>1. {start[s].clip} \in SUBSET Clips
      BY <1>3, <2>1
    <3>2. QED BY <1>4, <1>6, <2>1, <3>1 DEF UploadStaged
  <2>2. CASE start[s].clip \notin sidecars
    BY <1>1, <1>6, <2>2 DEF UploadStaged
  <2>3. QED BY <2>1, <2>2
<1>7. ASSUME OpenApp
      PROVE  uploader' \in Uploader
  BY <1>1, <1>3, <1>4, <1>7 DEF OpenApp
<1>8. ASSUME NEW c \in Clips, Upload(c)
      PROVE  uploader' \in Uploader
  <2>1. ASSUME NEW at \in {"removing", "posting"},
               uploader' = [uploader EXCEPT !.at = at, !.clip = c, !.todo = @ \ {c}]
        PROVE  uploader' \in Uploader
    BY <1>1, <2>1 DEF Uploader
  <2>2. uploader.todo \ {c} \in SUBSET Clips
    BY <1>1
  <2>3. QED BY <1>1, <1>8, <2>1, <2>2, MoveOnTyped DEF Upload
<1>9. ASSUME UploadFails \/ RemoveBytes
      PROVE  uploader' \in Uploader
  BY <1>1, <1>9, MoveOnTyped DEF UploadFails, RemoveBytes
<1>10. ASSUME ReceiveAnswer
       PROVE  uploader' \in Uploader
  BY <1>1, <1>10 DEF ReceiveAnswer, Uploader
<1>11. ASSUME NEW c \in Clips, HandleUpload(c)
       PROVE  uploader' \in Uploader
  <2>1. PICK a \in {"2xx", "4xx", "401"} : Answer(c, a)
    BY <1>11 DEF HandleUpload
  <2>2. QED BY <1>1, <2>1 DEF Answer, Uploader
<1>12. ASSUME \/ \E q \in Requests : Create(q) \/ PushWakes(q)
              \/ CheckPending \/ \E p \in Paths : StartCapture(p)
              \/ \E m \in acks : HandleAck(m) \/ AckFails(m)
              \/ StartOnTrigger \/ Revoke \/ SetAlertServerUrl
              \/ \E s \in DOMAIN start : OnStartCommand(s) \/ RunJob(s) \/ EndJob(s)
              \/ UNCHANGED captureVars
       PROVE  uploader' \in Uploader
  BY <1>1, <1>12 DEF Create, PushWakes, CheckPending, StartCapture, HandleAck, AckFails,
                     StartOnTrigger, Revoke, SetAlertServerUrl, OnStartCommand, RunJob,
                     EndJob, captureVars, settingsVars
<1>13. ASSUME \/ ProcessDies
              \/ \E s \in DOMAIN start : PublishSidecar(s) \/ PublishFails(s)
       PROVE  uploader' \in Uploader
  BY <1>2, <1>13 DEF ProcessDies, PublishSidecar, PublishFails
<1>14. QED BY <1>5, <1>6, <1>7, <1>8, <1>9, <1>10, <1>11, <1>12, <1>13
           DEF Next, JobStep, UploaderStep

LEMMA AckTypedKept ==
    ASSUME CaptureTypes, [Next]_captureVars
    PROVE  acks' \subseteq Ack
<1>1. acks \subseteq Ack
  BY DEF CaptureTypes
<1>2. \A m \in Ack : [m EXCEPT !.via = "late"] \in Ack
  BY DEF Ack
<1>3. ASSUME NEW p \in Paths, StartCapture(p)
      PROVE  acks' \subseteq Ack
  <2>1. PICK outcome \in {"started", "failed"} :
            acks' = acks \cup {[request |-> Min(path[p].todo), outcome |-> outcome, via |-> p]}
    BY <1>3 DEF StartCapture
  <2>2. Min(path[p].todo) \in Requests
    BY <1>3, ItemIsOwn DEF StartCapture
  <2>3. QED BY <1>1, <2>1, <2>2 DEF Ack
<1>4. ASSUME \/ \E m \in acks : HandleAck(m) \/ AckFails(m)
             \/ ProcessDies
      PROVE  acks' \subseteq Ack
  BY <1>1, <1>2, <1>4 DEF HandleAck, AckFails, ProcessDies
<1>5. ASSUME \/ \E q \in Requests : Create(q) \/ PushWakes(q)
             \/ OpenApp \/ CheckPending \/ StartOnTrigger \/ Revoke \/ SetAlertServerUrl
             \/ \E s \in DOMAIN start : JobStep(s) \/ PublishFails(s)
             \/ UploaderStep \/ UploadFails
             \/ \E c \in Clips : HandleUpload(c)
             \/ UNCHANGED captureVars
      PROVE  acks' \subseteq Ack
  BY <1>1, <1>5 DEF Create, PushWakes, OpenApp, CheckPending, StartOnTrigger, Revoke,
       SetAlertServerUrl, JobStep,
       OnStartCommand, RunJob, EndJob, PublishBytes, PublishSidecar, PublishFails,
       UploadStaged, UploaderStep, Upload, ReceiveAnswer, RemoveBytes, UploadFails,
       HandleUpload, captureVars, settingsVars, networkVars
<1>6. QED BY <1>3, <1>4, <1>5 DEF Next

\* What a request and the rows of a clip can become.
LEMMA ServerTyped ==
    ASSUME CaptureTypes, [Next]_captureVars
    PROVE  request' \in [Requests -> RequestState] /\ rows' \in [Clips -> Nat]
<1>1. request \in [Requests -> RequestState] /\ rows \in [Clips -> Nat]
  BY DEF CaptureTypes
<1>3. ASSUME NEW q \in Requests, Create(q)
      PROVE  request' \in [Requests -> RequestState] /\ rows' = rows
  BY <1>1, <1>3 DEF Create, RequestState
<1>4. ASSUME NEW m \in acks, HandleAck(m)
      PROVE  request' \in [Requests -> RequestState] /\ rows' = rows
  BY <1>1, <1>4 DEF HandleAck, RequestState, AckState
<1>5. ASSUME NEW c \in Clips, HandleUpload(c)
      PROVE  request' \in [Requests -> RequestState] /\ rows' \in [Clips -> Nat]
  BY <1>1, <1>5 DEF HandleUpload, StoreEvidence, RequestState
<1>6. ASSUME \/ \E q \in Requests : PushWakes(q)
             \/ OpenApp \/ CheckPending \/ StartOnTrigger \/ Revoke \/ SetAlertServerUrl \/ ProcessDies
             \/ \E p \in Paths : StartCapture(p)
             \/ \E m \in acks : AckFails(m)
             \/ \E s \in DOMAIN start : JobStep(s) \/ PublishFails(s)
             \/ UploaderStep \/ UploadFails
             \/ UNCHANGED captureVars
      PROVE  UNCHANGED <<request, rows>>
  BY <1>6 DEF PushWakes, OpenApp, CheckPending, StartOnTrigger, Revoke,
       SetAlertServerUrl, ProcessDies, JobStep,
       StartCapture, AckFails,
       OnStartCommand, RunJob, EndJob, PublishBytes, PublishSidecar, PublishFails,
       UploadStaged, UploaderStep, Upload, ReceiveAnswer, RemoveBytes, UploadFails,
       captureVars, settingsVars, serverVars
<1>7. QED BY <1>1, <1>3, <1>4, <1>5, <1>6 DEF Next

\* Only the staging of a clip names a new one.
LEMMA OnlyStagingNames ==
    ASSUME [Next]_captureVars
    PROVE  (\E s \in DOMAIN start : PublishBytes(s)) \/ UNCHANGED origin
BY DEF Next, JobStep, Create, PushWakes, OpenApp, CheckPending, StartOnTrigger, Revoke,
       SetAlertServerUrl,
       ProcessDies, StartCapture, HandleAck, AckFails,
       OnStartCommand, RunJob, EndJob, PublishSidecar, PublishFails,
       UploadStaged, UploaderStep, Upload, ReceiveAnswer, RemoveBytes, UploadFails,
       HandleUpload, captureVars, settingsVars, diskVars

\* The clips that were captured, in order; no name is used twice.
LEMMA OriginGrows ==
    ASSUME CaptureTypes, [Next]_captureVars
    PROVE  /\ origin' \in Seq(Requests \cup {NoRequest}) /\ Len(origin') <= MaxClips
           /\ Len(origin') >= Len(origin)
           /\ \A c \in DOMAIN origin : c \in DOMAIN origin' /\ origin'[c] = origin[c]
<1> USE StartIsSeq
<1>1. origin \in Seq(Requests \cup {NoRequest}) /\ Len(origin) <= MaxClips
  BY DEF CaptureTypes
<1>2. ASSUME NEW s \in DOMAIN start, PublishBytes(s)
      PROVE  /\ origin' \in Seq(Requests \cup {NoRequest}) /\ Len(origin') <= MaxClips
             /\ Len(origin') >= Len(origin)
             /\ \A c \in DOMAIN origin : c \in DOMAIN origin' /\ origin'[c] = origin[c]
  <2>1. start[s].request \in Requests \cup {NoRequest}
    BY DEF Start
  <2>2. origin' = Append(origin, start[s].request) /\ Len(origin) + 1 <= MaxClips
    BY <1>2 DEF PublishBytes
  <2>3. QED BY <1>1, <2>1, <2>2, AppendProperties
<1>3. QED BY <1>1, <1>2, OnlyStagingNames

LEMMA TypesKept ==
    ASSUME CaptureTypes, ClipsAreCaptured, [Next]_captureVars
    PROVE  CaptureTypes'
<1> USE StartIsSeq
<1>1. StartsKept /\ Len(start') \in Nat
  BY StepKeepsStarts, LenProperties DEF StartsKept
<1>2. instance \in 0..Len(start) /\ wakes \subseteq Requests
      /\ credential \in {"valid", "revoked", "none"} /\ serverUrl \in BOOLEAN
  BY DEF CaptureTypes
<1>3. ASSUME NEW s \in DOMAIN start, OnStartCommand(s) \/ EndJob(s)
      PROVE  instance' \in 0..Len(start')
  <2>1. instance' \in {instance, s, NoInstance}
    BY <1>3, DeliveryMoves, EndMoves
  <2>2. QED BY <1>1, <1>2, <2>1 DEF StartsKept
<1>4. ASSUME \/ \E q \in Requests : Create(q) \/ PushWakes(q)
             \/ OpenApp \/ CheckPending \/ StartOnTrigger
             \/ \E p \in Paths : StartCapture(p)
             \/ \E m \in acks : HandleAck(m) \/ AckFails(m)
             \/ \E s \in DOMAIN start : \/ RunJob(s) \/ UploadStaged(s)
                                        \/ PublishBytes(s) \/ PublishSidecar(s)
                                        \/ PublishFails(s)
             \/ UploaderStep \/ UploadFails
             \/ \E c \in Clips : HandleUpload(c)
             \/ Revoke \/ SetAlertServerUrl
             \/ UNCHANGED captureVars
      PROVE  UNCHANGED instance
  BY <1>4 DEF Create, PushWakes, OpenApp, CheckPending, StartOnTrigger, Revoke,
       SetAlertServerUrl,
       StartCapture, HandleAck, AckFails,
       RunJob, PublishBytes, PublishSidecar, PublishFails,
       UploadStaged, UploaderStep, Upload, ReceiveAnswer, RemoveBytes, UploadFails,
       HandleUpload, captureVars, settingsVars, serviceVars
<1>5. instance' \in 0..Len(start')
  <2>1. CASE UNCHANGED instance
    BY <1>1, <1>2, <2>1 DEF StartsKept
  <2>2. CASE ProcessDies
    BY <1>1, <2>2 DEF ProcessDies
  <2>3. QED BY <1>3, <1>4, <2>1, <2>2 DEF Next, JobStep
<1>6. wakes' \subseteq Requests
  <2>1. (\E q \in Requests : wakes' \in {wakes \cup {q}, wakes \ {q}}) \/ UNCHANGED wakes
    BY DEF Next, Create, PushWakes, OpenApp, CheckPending, StartOnTrigger, Revoke,
       SetAlertServerUrl, ProcessDies,
       StartCapture, HandleAck, AckFails, JobStep, OnStartCommand, RunJob, EndJob,
       PublishBytes, PublishSidecar, PublishFails,
       UploadStaged, UploaderStep, Upload, ReceiveAnswer, RemoveBytes, UploadFails,
       HandleUpload, captureVars, settingsVars, networkVars
  <2>2. QED BY <1>2, <2>1
<1>7. credential' \in {"valid", "revoked", "none"}
  <2>1. credential' \in {credential, "none", "revoked"}
    BY DEF Next, Create, PushWakes, OpenApp, CheckPending, StartOnTrigger, Revoke,
       SetAlertServerUrl, ProcessDies,
       StartCapture, HandleAck, AckFails, JobStep, OnStartCommand, RunJob, EndJob,
       PublishBytes, PublishSidecar, PublishFails,
       UploadStaged, UploaderStep, Upload, ReceiveAnswer, RemoveBytes, UploadFails,
       HandleUpload, captureVars, settingsVars
  <2>2. QED BY <1>2, <2>1
<1>8. serverUrl' \in BOOLEAN
  <2>1. serverUrl' = ~serverUrl \/ serverUrl' = serverUrl
    BY DEF Next, Create, PushWakes, OpenApp, CheckPending, StartOnTrigger, Revoke,
       SetAlertServerUrl, ProcessDies,
       StartCapture, HandleAck, AckFails, JobStep, OnStartCommand, RunJob, EndJob,
       PublishBytes, PublishSidecar, PublishFails,
       UploadStaged, UploaderStep, Upload, ReceiveAnswer, RemoveBytes, UploadFails,
       HandleUpload, captureVars, settingsVars
  <2>2. QED BY <1>2, <2>1
<1>9. QED BY <1>1, <1>5, <1>6, <1>7, <1>8, PathsTypedKept, UploaderTypedKept, AckTypedKept,
             ServerTyped, OriginGrows DEF CaptureTypes, StartsKept

--------------------------------------------------------------------------------
(* The workers.                                                            *)

\* Jobs go on in their own workers.
WorkersStay ==
    /\ DOMAIN start' = DOMAIN start
    /\ instance' = instance
    /\ \A s \in DOMAIN start :
          /\ start'[s].instance = start[s].instance
          /\ IsRunning(s)' <=> IsRunning(s)
          /\ \A at \in {"sent", "refused", "queued"} : start'[s].at = at <=> start[s].at = at

LEMMA WorkersStayInOrder ==
    ASSUME CaptureTypes, WorkersInOrder, WorkersStay
    PROVE  WorkersInOrder'
<1> USE StartIsSeq DEF WorkersStay
<1>1. \A s \in DOMAIN start : IsActive(s)' <=> IsActive(s)
  BY DEF IsActive
<1>2. \A a \in DOMAIN start : RefusedAfter(a) => RefusedAfter(a)'
  BY DEF RefusedAfter
<1>3. \A a, b \in DOMAIN start : RefusedBetween(a, b) => RefusedBetween(a, b)'
  <2>1. ASSUME NEW a \in DOMAIN start, NEW b \in DOMAIN start, RefusedBetween(a, b)
        PROVE  RefusedBetween(a, b)'
    <3>1. PICK s \in (a + 1)..(b - 1) : start[s].at = "refused"
      BY <2>1 DEF RefusedBetween
    <3>2. s \in DOMAIN start
      BY <3>1
    <3>3. start'[s].at = "refused"
      BY <3>1, <3>2
    <3>4. QED BY <3>1, <3>3 DEF RefusedBetween
  <2>2. QED BY <2>1
<1>4. QED BY <1>1, <1>2, <1>3 DEF WorkersInOrder

LEMMA NoWorkerMoves ==
    ASSUME CaptureTypes, WorkersInOrder, UNCHANGED <<start, instance>>
    PROVE  WorkersInOrder'
<1>1. WorkersStay
  BY DEF WorkersStay, IsRunning
<1>2. QED BY <1>1, WorkersStayInOrder

LEMMA WorkerGoesOn ==
    ASSUME CaptureTypes, WorkersInOrder, instance' = instance,
           NEW s \in DOMAIN start, IsRunning(s),
           NEW at \in {"running", "publishing", "staged", "uploading"}, JobSettles(s, at)
    PROVE  WorkersInOrder'
<1> USE StartIsSeq
<1>1. start' \in Seq(Start) /\ Len(start') = Len(start)
  BY DEF JobSettles, JobMoves
<1>2. DOMAIN start' = DOMAIN start
  BY <1>1, LenProperties
<1>3. ASSUME NEW r \in DOMAIN start
      PROVE  /\ start'[r].instance = start[r].instance
             /\ IsRunning(r)' <=> IsRunning(r)
             /\ \A a \in {"sent", "refused", "queued"} : start'[r].at = a <=> start[r].at = a
  <2>1. CASE r = s
    BY <2>1 DEF JobSettles, JobMoves, IsRunning
  <2>2. CASE r # s
    BY <2>2 DEF JobSettles, JobMoves, IsRunning
  <2>3. QED BY <2>1, <2>2
<1>4. QED BY <1>2, <1>3, WorkersStayInOrder DEF WorkersStay

LEMMA WorkersAfterMoveOn ==
    ASSUME CaptureTypes, WorkersInOrder, instance' = instance, UploadsEnd
    PROVE  WorkersInOrder'
<1> USE StartIsSeq
<1>1. DOMAIN start' = DOMAIN start
  BY LenProperties DEF UploadsEnd
<1>2. ASSUME NEW r \in DOMAIN start
      PROVE  /\ start'[r].instance = start[r].instance
             /\ IsRunning(r)' <=> IsRunning(r)
             /\ \A a \in {"sent", "refused", "queued"} : start'[r].at = a <=> start[r].at = a
  BY DEF UploadsEnd, IsRunning
<1>3. QED BY <1>1, <1>2, WorkersStayInOrder DEF WorkersStay

\* A new command waits behind all the others.
LEMMA WorkersAfterSend ==
    ASSUME CaptureTypes, WorkersInOrder, instance' = instance,
           NEW q \in Requests \cup {NoRequest}, SendStart(q)
    PROVE  WorkersInOrder'
<1> USE StartIsSeq
<1>1. /\ start' \in Seq(Start) /\ Len(start') = Len(start) + 1
      /\ \A s \in DOMAIN start : start'[s] = start[s]
      /\ start'[Len(start) + 1].at = "sent"
  BY SendAppends
<1>2. DOMAIN start' = DOMAIN start \cup {Len(start) + 1}
  BY <1>1, LenProperties
<1>3. \A s \in DOMAIN start' : IsActive(s)' => s \in DOMAIN start /\ IsActive(s)
  BY <1>1, <1>2 DEF IsActive, IsRunning
<1>4. \A s \in DOMAIN start' : IsRunning(s)' => s \in DOMAIN start /\ IsRunning(s)
  BY <1>1, <1>2 DEF IsRunning
<1>5. \A a \in DOMAIN start : RefusedAfter(a) => RefusedAfter(a)'
  BY <1>1, <1>2 DEF RefusedAfter
<1>6. ASSUME NEW a \in DOMAIN start, NEW b \in DOMAIN start, RefusedBetween(a, b)
      PROVE  RefusedBetween(a, b)'
  <2>1. PICK s \in (a + 1)..(b - 1) : start[s].at = "refused"
    BY <1>6 DEF RefusedBetween
  <2>2. s \in DOMAIN start
    BY <2>1
  <2>3. start'[s].at = "refused"
    BY <1>1, <2>1, <2>2
  <2>4. QED BY <2>1, <2>3 DEF RefusedBetween
<1>7. \A s \in DOMAIN start' : IsActive(s)' => start'[s].instance # NoInstance
  BY <1>1, <1>3 DEF WorkersInOrder
<1>8. \A a, b \in DOMAIN start' : a < b /\ start'[a].at = "sent" => start'[b].at = "sent"
  BY <1>1, <1>2 DEF WorkersInOrder
<1>9. \A a \in DOMAIN start' :
          IsActive(a)' /\ start'[a].instance # instance' => RefusedAfter(a)'
  BY <1>1, <1>3, <1>5 DEF WorkersInOrder
<1>10. \A a, b \in DOMAIN start' :
          a < b /\ IsActive(a)' /\ IsActive(b)' /\ start'[a].instance # start'[b].instance
          => RefusedBetween(a, b)'
  BY <1>1, <1>3, <1>6 DEF WorkersInOrder
<1>11. \A a, b \in DOMAIN start' :
          a < b /\ start'[a].instance = start'[b].instance /\ IsRunning(b)' => ~IsActive(a)'
  BY <1>1, <1>3, <1>4 DEF WorkersInOrder
<1>12. QED BY <1>7, <1>8, <1>9, <1>10, <1>11 DEF WorkersInOrder

\* Refused starts stay refused, whichever job moves.
LEMMA RefusedStays ==
    ASSUME CaptureTypes, NEW s \in DOMAIN start, start[s].at # "refused",
           NEW at, JobMoves(s, at)
    PROVE  /\ DOMAIN start' = DOMAIN start
           /\ \A a \in DOMAIN start : RefusedAfter(a) => RefusedAfter(a)'
           /\ \A a, b \in DOMAIN start : RefusedBetween(a, b) => RefusedBetween(a, b)'
<1> USE StartIsSeq
<1>1. /\ start' \in Seq(Start) /\ Len(start') = Len(start)
      /\ \A r \in DOMAIN start : r # s => start'[r] = start[r]
  BY DEF JobMoves
<1>2. DOMAIN start' = DOMAIN start
  BY <1>1, LenProperties
<1>3. \A r \in DOMAIN start : start[r].at = "refused" => start'[r].at = "refused"
  BY <1>1
<1>4. \A a \in DOMAIN start : RefusedAfter(a) => RefusedAfter(a)'
  BY <1>2, <1>3 DEF RefusedAfter
<1>5. ASSUME NEW a \in DOMAIN start, NEW b \in DOMAIN start, RefusedBetween(a, b)
      PROVE  RefusedBetween(a, b)'
  <2>1. PICK r \in (a + 1)..(b - 1) : start[r].at = "refused"
    BY <1>5 DEF RefusedBetween
  <2>2. r \in DOMAIN start
    BY <2>1
  <2>3. QED BY <1>3, <2>1, <2>2 DEF RefusedBetween
<1>6. QED BY <1>2, <1>4, <1>5

\* The oldest command gets the instance that is up, or a new one; every job there is was
\* sent before it.
LEMMA WorkersAfterDelivery ==
    ASSUME CaptureTypes, WorkersInOrder, NEW s \in DOMAIN start, OnStartCommand(s)
    PROVE  WorkersInOrder'
<1> USE StartIsSeq
<1>1. start[s].at = "sent" /\ \A r \in DOMAIN start : r < s => start[r].at # "sent"
  BY DEF OnStartCommand
<1>2. \A r \in DOMAIN start : s < r => start[r].at = "sent"
  BY <1>1 DEF WorkersInOrder
<1>3. ASSUME NEW a \in DOMAIN start, IsActive(a)
      PROVE  a < s
  <2>1. start[a].at # "sent"
    BY <1>3 DEF IsActive, IsRunning
  <2>2. QED BY <1>1, <1>2, <2>1
<1>4. ASSUME NEW a \in DOMAIN start, RefusedAfter(a)
      PROVE  RefusedBetween(a, s)
  <2>1. PICK r \in DOMAIN start : a < r /\ start[r].at = "refused"
    BY <1>4 DEF RefusedAfter
  <2>2. r < s
    BY <1>1, <1>2, <2>1
  <2>3. r \in (a + 1)..(s - 1)
    BY <2>1, <2>2
  <2>4. QED BY <2>1, <2>3 DEF RefusedBetween
<1>5. CASE /\ JobMoves(s, "queued")
           /\ instance' = (IF instance = NoInstance THEN s ELSE instance)
           /\ start'[s].instance = instance'
  <2>1. /\ DOMAIN start' = DOMAIN start
        /\ \A a \in DOMAIN start : RefusedAfter(a) => RefusedAfter(a)'
        /\ \A a, b \in DOMAIN start : RefusedBetween(a, b) => RefusedBetween(a, b)'
    BY <1>1, <1>5, RefusedStays
  <2>2. /\ start'[s].at = "queued"
        /\ \A r \in DOMAIN start : r # s => start'[r] = start[r]
    BY <1>5 DEF JobMoves
  <2>3. \A r \in DOMAIN start : r # s => (IsActive(r)' <=> IsActive(r))
    BY <2>2 DEF IsActive, IsRunning
  <2>4. \A r \in DOMAIN start : IsRunning(r)' => r # s /\ IsRunning(r)
    BY <2>2 DEF IsRunning
  <2>5. instance' # NoInstance
    BY <1>5
  <2>6. \A r \in DOMAIN start : IsActive(r)' => start'[r].instance # NoInstance
    BY <1>5, <2>2, <2>3, <2>5 DEF WorkersInOrder
  <2>7. \A a, b \in DOMAIN start : a < b /\ start'[a].at = "sent" => start'[b].at = "sent"
    BY <1>1, <2>2 DEF WorkersInOrder
  <2>8. ASSUME NEW a \in DOMAIN start, a # s, IsActive(a)', start'[a].instance # instance'
        PROVE  RefusedAfter(a)
    <3>1. IsActive(a) /\ start[a].instance # instance'
      BY <2>2, <2>3, <2>8
    <3>2. start[a].instance # instance
      BY <1>5, <3>1 DEF WorkersInOrder
    <3>3. QED BY <3>1, <3>2 DEF WorkersInOrder
  <2>9. \A a \in DOMAIN start :
            IsActive(a)' /\ start'[a].instance # instance' => RefusedAfter(a)'
    BY <1>5, <2>1, <2>8
  <2>10. ASSUME NEW a \in DOMAIN start, NEW b \in DOMAIN start, a < b,
                IsActive(a)', IsActive(b)', start'[a].instance # start'[b].instance
         PROVE  RefusedBetween(a, b)'
    <3>1. CASE b = s
      BY <1>4, <1>5, <2>1, <2>8, <2>10, <3>1
    <3>2. CASE b # s
      <4>1. a # s
        BY <1>3, <2>3, <2>10, <3>2
      <4>2. QED BY <2>1, <2>2, <2>3, <2>10, <3>2, <4>1 DEF WorkersInOrder
    <3>3. QED BY <3>1, <3>2
  <2>11. ASSUME NEW a \in DOMAIN start, NEW b \in DOMAIN start, a < b,
                start'[a].instance = start'[b].instance, IsRunning(b)'
         PROVE  ~IsActive(a)'
    <3>1. IsRunning(b) /\ b # s /\ IsActive(b)
      BY <2>4, <2>11 DEF IsActive
    <3>2. a # s
      BY <1>3, <2>11, <3>1
    <3>3. QED BY <2>2, <2>3, <2>11, <3>1, <3>2 DEF WorkersInOrder
  <2>12. QED BY <2>1, <2>6, <2>7, <2>9, <2>10, <2>11 DEF WorkersInOrder
<1>6. CASE JobSettles(s, "refused")
  <2>1. /\ DOMAIN start' = DOMAIN start
        /\ \A a, b \in DOMAIN start : RefusedBetween(a, b) => RefusedBetween(a, b)'
    BY <1>1, <1>6, RefusedStays DEF JobSettles
  <2>2. /\ start'[s].at = "refused"
        /\ \A r \in DOMAIN start : r # s => start'[r] = start[r]
    BY <1>6 DEF JobSettles, JobMoves
  <2>3. \A r \in DOMAIN start : IsActive(r)' => r # s /\ IsActive(r)
    BY <2>2 DEF IsActive, IsRunning
  <2>4. \A r \in DOMAIN start : IsRunning(r)' => r # s /\ IsRunning(r)
    BY <2>2 DEF IsRunning
  <2>5. \A r \in DOMAIN start : IsActive(r)' => start'[r].instance # NoInstance
    BY <2>2, <2>3 DEF WorkersInOrder
  <2>6. \A a, b \in DOMAIN start : a < b /\ start'[a].at = "sent" => start'[b].at = "sent"
    BY <1>1, <2>2 DEF WorkersInOrder
  <2>7. \A a \in DOMAIN start : IsActive(a)' => RefusedAfter(a)'
    BY <1>3, <2>1, <2>2, <2>3 DEF RefusedAfter
  <2>8. \A a, b \in DOMAIN start :
            a < b /\ IsActive(a)' /\ IsActive(b)' /\ start'[a].instance # start'[b].instance
            => RefusedBetween(a, b)'
    BY <2>1, <2>2, <2>3 DEF WorkersInOrder
  <2>9. \A a, b \in DOMAIN start :
            a < b /\ start'[a].instance = start'[b].instance /\ IsRunning(b)'
            => ~IsActive(a)'
    BY <2>1, <2>2, <2>3, <2>4 DEF WorkersInOrder
  <2>10. QED BY <2>1, <2>5, <2>6, <2>7, <2>8, <2>9 DEF WorkersInOrder
<1>7. QED BY <1>5, <1>6, DeliveryMoves

\* The worker takes its oldest job, and only when it has none.
LEMMA WorkersAfterRun ==
    ASSUME CaptureTypes, WorkersInOrder, NEW s \in DOMAIN start, RunJob(s)
    PROVE  WorkersInOrder'
<1> USE StartIsSeq
<1>1. /\ start[s].at = "queued" /\ instance' = instance
      /\ \A r \in DOMAIN start : start[r].instance = start[s].instance =>
            ~IsRunning(r) /\ (r < s => start[r].at # "queued")
  BY DEF RunJob
<1>2. JobMoves(s, "running") /\ start'[s].instance = start[s].instance
  BY RunMoves DEF JobSettles
<1>3. /\ DOMAIN start' = DOMAIN start
      /\ \A a \in DOMAIN start : RefusedAfter(a) => RefusedAfter(a)'
      /\ \A a, b \in DOMAIN start : RefusedBetween(a, b) => RefusedBetween(a, b)'
  BY <1>1, <1>2, RefusedStays
<1>4. /\ start'[s].at = "running"
      /\ \A r \in DOMAIN start : r # s => start'[r] = start[r]
  BY <1>2 DEF JobMoves
<1>5. \A r \in DOMAIN start :
          /\ start'[r].instance = start[r].instance
          /\ IsActive(r)' <=> IsActive(r)
          /\ start'[r].at = "sent" <=> start[r].at = "sent"
  BY <1>1, <1>2, <1>4 DEF IsActive, IsRunning
<1>6. \A r \in DOMAIN start : r # s => (IsRunning(r)' <=> IsRunning(r))
  BY <1>4 DEF IsRunning
<1>7. ASSUME NEW a \in DOMAIN start, NEW b \in DOMAIN start, a < b,
             start'[a].instance = start'[b].instance, IsRunning(b)'
      PROVE  ~IsActive(a)'
  <2>1. CASE b = s
    BY <1>1, <1>5, <1>7, <2>1 DEF IsActive
  <2>2. CASE b # s
    BY <1>5, <1>6, <1>7, <2>2 DEF WorkersInOrder
  <2>3. QED BY <2>1, <2>2
<1>8. \A r \in DOMAIN start' : IsActive(r)' => start'[r].instance # NoInstance
  BY <1>3, <1>5 DEF WorkersInOrder
<1>9. \A a, b \in DOMAIN start' : a < b /\ start'[a].at = "sent" => start'[b].at = "sent"
  BY <1>3, <1>5 DEF WorkersInOrder
<1>10. \A a \in DOMAIN start' :
          IsActive(a)' /\ start'[a].instance # instance' => RefusedAfter(a)'
  BY <1>1, <1>3, <1>5 DEF WorkersInOrder
<1>11. \A a, b \in DOMAIN start' :
          a < b /\ IsActive(a)' /\ IsActive(b)' /\ start'[a].instance # start'[b].instance
          => RefusedBetween(a, b)'
  BY <1>3, <1>5 DEF WorkersInOrder
<1>12. QED BY <1>3, <1>7, <1>8, <1>9, <1>10, <1>11 DEF WorkersInOrder

\* A job that ends takes its instance down only if it was sent last; the jobs that are left
\* then belong to instances that are gone already.
LEMMA WorkersAfterEnd ==
    ASSUME CaptureTypes, WorkersInOrder, NEW s \in DOMAIN start, EndJob(s)
    PROVE  WorkersInOrder'
<1> USE StartIsSeq
<1>1. start[s].at = "running" /\ IsRunning(s) /\ IsActive(s)
  BY DEF EndJob, IsRunning, IsActive
<1>2. /\ JobMoves(s, "ended") /\ instance' \in {instance, NoInstance}
      /\ s # Len(start) => instance' = instance
  BY EndMoves
<1>3. /\ DOMAIN start' = DOMAIN start
      /\ \A a \in DOMAIN start : RefusedAfter(a) => RefusedAfter(a)'
      /\ \A a, b \in DOMAIN start : RefusedBetween(a, b) => RefusedBetween(a, b)'
  BY <1>1, <1>2, RefusedStays
<1>4. /\ start'[s].at = "ended"
      /\ \A r \in DOMAIN start : r # s => start'[r] = start[r]
  BY <1>2 DEF JobMoves
<1>5. \A r \in DOMAIN start : IsActive(r)' => r # s /\ IsActive(r)
  BY <1>4 DEF IsActive, IsRunning
<1>6. \A r \in DOMAIN start : IsRunning(r)' => r # s /\ IsRunning(r)
  BY <1>4 DEF IsRunning
<1>7. ASSUME NEW a \in DOMAIN start, IsActive(a)', start'[a].instance # instance'
      PROVE  RefusedAfter(a)
  <2>1. a # s /\ IsActive(a) /\ start[a].instance # instance'
    BY <1>4, <1>5, <1>7
  <2>2. CASE instance' = instance
    BY <2>1, <2>2 DEF WorkersInOrder
  <2>3. CASE s = Len(start)
    <3>1. a < s
      BY <2>1, <2>3
    <3>2. start[a].instance # start[s].instance
      BY <1>1, <2>1, <3>1 DEF WorkersInOrder
    <3>3. RefusedBetween(a, s)
      BY <1>1, <2>1, <3>1, <3>2 DEF WorkersInOrder
    <3>4. PICK r \in (a + 1)..(s - 1) : start[r].at = "refused"
      BY <3>3 DEF RefusedBetween
    <3>5. r \in DOMAIN start /\ a < r
      BY <3>4
    <3>6. QED BY <3>4, <3>5 DEF RefusedAfter
  <2>4. QED BY <1>2, <2>2, <2>3
<1>8. \A r \in DOMAIN start' : IsActive(r)' => start'[r].instance # NoInstance
  BY <1>3, <1>4, <1>5 DEF WorkersInOrder
<1>9. \A a, b \in DOMAIN start' : a < b /\ start'[a].at = "sent" => start'[b].at = "sent"
  BY <1>1, <1>3, <1>4 DEF WorkersInOrder
<1>10. \A a, b \in DOMAIN start' :
          a < b /\ IsActive(a)' /\ IsActive(b)' /\ start'[a].instance # start'[b].instance
          => RefusedBetween(a, b)'
  BY <1>3, <1>4, <1>5 DEF WorkersInOrder
<1>11. \A a, b \in DOMAIN start' :
          a < b /\ start'[a].instance = start'[b].instance /\ IsRunning(b)' => ~IsActive(a)'
  BY <1>3, <1>4, <1>5, <1>6 DEF WorkersInOrder
<1>12. QED BY <1>3, <1>7, <1>8, <1>9, <1>10, <1>11 DEF WorkersInOrder

LEMMA WorkersAfterDeath ==
    ASSUME CaptureTypes, WorkersInOrder, ProcessDies
    PROVE  WorkersInOrder'
<1> USE StartIsSeq
<1>1. DOMAIN start' = DOMAIN start
  BY DEF ProcessDies
<1>2. \A s \in DOMAIN start : /\ start'[s].at \in {"ended", "sent", "refused"}
                              /\ start'[s].at = "sent" <=> start[s].at = "sent"
  BY DeathEndsJobs
<1>3. \A s \in DOMAIN start' : ~IsActive(s)' /\ ~IsRunning(s)'
  BY <1>1, <1>2 DEF IsActive, IsRunning
<1>4. \A a, b \in DOMAIN start' : a < b /\ start'[a].at = "sent" => start'[b].at = "sent"
  BY <1>1, <1>2 DEF WorkersInOrder
<1>5. QED BY <1>3, <1>4 DEF WorkersInOrder

LEMMA WorkersInOrderKept ==
    ASSUME CaptureTypes, WorkersInOrder, [Next]_captureVars
    PROVE  WorkersInOrder'
<1>1. ASSUME \/ \E q \in Requests : Create(q) \/ PushWakes(q)
             \/ OpenApp \/ CheckPending \/ Revoke \/ SetAlertServerUrl
             \/ \E m \in acks : HandleAck(m) \/ AckFails(m)
             \/ ReceiveAnswer
             \/ \E c \in Clips : HandleUpload(c)
             \/ UNCHANGED captureVars
      PROVE  WorkersInOrder'
  BY <1>1, NoWorkerMoves
     DEF Create, PushWakes, OpenApp, CheckPending, Revoke, SetAlertServerUrl, HandleAck,
         AckFails,
         ReceiveAnswer, HandleUpload, captureVars, settingsVars, serviceVars
<1>2. ASSUME NEW p \in Paths, StartCapture(p)
      PROVE  WorkersInOrder'
  <2>1. instance' = instance
    BY <1>2 DEF StartCapture
  <2>2. (\E q \in Requests : SendStart(q)) \/ UNCHANGED start
    BY <1>2, ItemIsOwn DEF StartCapture
  <2>3. QED BY <2>1, <2>2, WorkersAfterSend, NoWorkerMoves
<1>3. ASSUME StartOnTrigger
      PROVE  WorkersInOrder'
  BY <1>3, WorkersAfterSend DEF StartOnTrigger
<1>4. ASSUME NEW s \in DOMAIN start, OnStartCommand(s) \/ RunJob(s) \/ EndJob(s)
      PROVE  WorkersInOrder'
  BY <1>4, WorkersAfterDelivery, WorkersAfterRun, WorkersAfterEnd
<1>5. ASSUME NEW s \in DOMAIN start, \/ PublishBytes(s) \/ PublishSidecar(s)
                                     \/ UploadStaged(s) \/ PublishFails(s)
      PROVE  WorkersInOrder'
  <2>1. IsRunning(s) /\ instance' = instance
    BY <1>5 DEF PublishBytes, PublishSidecar, UploadStaged, PublishFails, IsRunning
  <2>2. \E at \in {"running", "publishing", "staged", "uploading"} : JobSettles(s, at)
    BY <1>5, PublishingMoves, PublishedMoves, UploadStagedMoves, PublishFailsMoves
  <2>3. QED BY <2>1, <2>2, WorkerGoesOn
<1>6. ASSUME \/ \E c \in Clips : Upload(c)
             \/ RemoveBytes \/ UploadFails
      PROVE  WorkersInOrder'
  <2>1. instance' = instance
    BY <1>6 DEF Upload, RemoveBytes, UploadFails
  <2>2. UNCHANGED start \/ \E todo \in SUBSET Clips : MoveOn(todo)
    BY <1>6 DEF Upload, RemoveBytes, UploadFails, CaptureTypes, Uploader
  <2>3. QED BY <2>1, <2>2, MoveOnMoves, WorkersAfterMoveOn, NoWorkerMoves
<1>7. QED BY <1>1, <1>2, <1>3, <1>4, <1>5, <1>6, WorkersAfterDeath
          DEF Next, JobStep, UploaderStep

\* The invariant says what the property needs.
LEMMA OrderedWorkersSerialize ==
    ASSUME WorkersInOrder
    PROVE  SerializedUnlessRefused
BY DEF WorkersInOrder, SerializedUnlessRefused, RefusedBetween, IsActive

--------------------------------------------------------------------------------
(* Clips, requests and acknowledgements.                                   *)

\* What the server has of a clip after it handled an upload.
LEMMA UploadHandled ==
    ASSUME CaptureTypes, NEW c \in Clips, HandleUpload(c)
    PROVE  /\ c \in posts /\ posts' = posts \ {c}
           /\ \/ /\ Stored' = Stored \cup {c} /\ refused' = refused
                 /\ \A d \in Clips : d # c => rows'[d] = rows[d]
              \/ /\ UNCHANGED <<rows, request>> /\ Stored' = Stored
                 /\ refused' = refused \cup {c}
<1>1. rows \in [Clips -> Nat]
  BY DEF CaptureTypes
<1>2. ASSUME StoreEvidence(c)
      PROVE  Stored' = Stored \cup {c} /\ \A d \in Clips : d # c => rows'[d] = rows[d]
  <2>1. \A d \in Clips : rows'[d] = IF d = c THEN rows[d] + 1 ELSE rows[d]
    BY <1>1, <1>2 DEF StoreEvidence
  <2>2. QED BY <1>1, <2>1 DEF Stored
<1>3. ASSUME UNCHANGED rows
      PROVE  Stored' = Stored
  BY <1>3 DEF Stored
<1>4. QED BY <1>2, <1>3 DEF HandleUpload

LEMMA ClipsAreCapturedKept ==
    ASSUME CaptureTypes, ClipsAreCaptured, MonitorHeld, [Next]_captureVars
    PROVE  ClipsAreCaptured'
<1> USE StartIsSeq DEF ClipsAreCaptured
<1>1. DOMAIN origin \subseteq DOMAIN origin'
  BY OriginGrows
<1>2. ASSUME UNCHANGED rows
      PROVE  Stored' = Stored
  BY <1>2 DEF Stored
<1>3. ASSUME NEW s \in DOMAIN start, PublishBytes(s)
      PROVE  ClipsAreCaptured'
  <2>1. start[s].request \in Requests \cup {NoRequest}
    BY DEF Start
  <2>2. Len(origin) + 1 \in DOMAIN origin'
    BY <1>3, <2>1, AppendProperties, LenProperties DEF PublishBytes, CaptureTypes
  <2>3. QED BY <1>1, <1>2, <1>3, <2>2 DEF PublishBytes, serverVars, networkVars, settingsVars
<1>4. ASSUME NEW s \in DOMAIN start, PublishSidecar(s)
      PROVE  ClipsAreCaptured'
  <2>1. start[s].clip \in bytes
    BY <1>4 DEF PublishSidecar, MonitorHeld
  <2>2. QED BY <1>1, <1>2, <1>4, <2>1
           DEF PublishSidecar, serverVars, networkVars, settingsVars
<1>5. ASSUME NEW c \in Clips, Upload(c)
      PROVE  ClipsAreCaptured'
  <2>1. /\ c \in sidecars /\ posts' \subseteq posts \cup {c} /\ sidecars' \subseteq sidecars
        /\ homeless' \subseteq homeless \cup {c}
    BY <1>5 DEF Upload, MonitorHeld
  <2>2. UNCHANGED <<rows, refused, origin, bytes, published, unanswered>>
    BY <1>5 DEF Upload, serverVars
  <2>3. c \in published /\ c \in DOMAIN origin /\ DOMAIN origin' = DOMAIN origin
    BY <2>1, <2>2
  <2>4. /\ Stored' \cup refused' \cup posts' \cup bytes' \cup published' \cup unanswered'
               \cup homeless' \subseteq DOMAIN origin'
        /\ Stored' \cup posts' \cup sidecars' \subseteq published'
    BY <1>2, <2>1, <2>2, <2>3
  <2>5. QED BY <2>4
<1>6. ASSUME UploadFails \/ ProcessDies
      PROVE  ClipsAreCaptured'
  <2>1. unanswered' \subseteq unanswered \cup DOMAIN origin
    BY <1>6 DEF UploadFails, ProcessDies, MonitorHeld
  <2>2. UNCHANGED <<rows, refused, origin, bytes, sidecars, published, homeless>>
        /\ posts' \subseteq posts
    BY <1>6 DEF UploadFails, ProcessDies, serverVars, diskVars, settingsVars
  <2>3. QED BY <1>2, <2>1, <2>2
<1>7. ASSUME NEW c \in Clips, HandleUpload(c)
      PROVE  ClipsAreCaptured'
  BY <1>7, UploadHandled DEF HandleUpload, diskVars, settingsVars
<1>8. ASSUME \/ ReceiveAnswer \/ RemoveBytes
             \/ \E s \in DOMAIN start : PublishFails(s)
      PROVE  ClipsAreCaptured'
  <2>1. /\ UNCHANGED <<rows, refused, posts, origin, published, unanswered, homeless>>
        /\ bytes' \subseteq bytes /\ sidecars' \subseteq sidecars
    BY <1>8 DEF ReceiveAnswer, RemoveBytes, PublishFails, serverVars, networkVars, settingsVars
  <2>2. QED BY <1>2, <2>1
<1>9. ASSUME \/ \E q \in Requests : Create(q) \/ PushWakes(q)
             \/ OpenApp \/ CheckPending \/ StartOnTrigger \/ Revoke \/ SetAlertServerUrl
             \/ \E p \in Paths : StartCapture(p)
             \/ \E m \in acks : HandleAck(m) \/ AckFails(m)
             \/ \E s \in DOMAIN start : OnStartCommand(s) \/ RunJob(s) \/ EndJob(s)
                                        \/ UploadStaged(s)
             \/ UNCHANGED captureVars
      PROVE  ClipsAreCaptured'
  <2>1. UNCHANGED <<rows, refused, posts, diskVars, unanswered, homeless>>
    BY <1>9 DEF Create, PushWakes, OpenApp, CheckPending, StartOnTrigger, Revoke,
         SetAlertServerUrl, StartCapture,
         HandleAck, AckFails, OnStartCommand, RunJob, EndJob, UploadStaged, captureVars, settingsVars,
         serverVars, networkVars, diskVars
  <2>2. QED BY <1>2, <2>1 DEF diskVars
<1>10. QED BY <1>3, <1>4, <1>5, <1>6, <1>7, <1>8, <1>9 DEF Next, JobStep, UploaderStep

\* A request that was created stays so.
LEMMA RequestsStay ==
    ASSUME CaptureTypes, [Next]_captureVars, NEW q \in Requests, request[q] # "none"
    PROVE  request'[q] # "none"
<1>1. request \in [Requests -> RequestState]
  BY DEF CaptureTypes
<1>2. ASSUME NEW r \in Requests, Create(r)
      PROVE  request'[q] # "none"
  BY <1>1, <1>2 DEF Create
<1>3. ASSUME NEW m \in acks, HandleAck(m)
      PROVE  request'[q] # "none"
  BY <1>1, <1>3 DEF HandleAck, AckState
<1>4. ASSUME NEW c \in Clips, HandleUpload(c)
      PROVE  request'[q] # "none"
  BY <1>1, <1>4 DEF HandleUpload, StoreEvidence
<1>5. ASSUME \/ \E r \in Requests : PushWakes(r)
             \/ OpenApp \/ CheckPending \/ StartOnTrigger \/ Revoke \/ SetAlertServerUrl \/ ProcessDies
             \/ \E p \in Paths : StartCapture(p)
             \/ \E m \in acks : AckFails(m)
             \/ \E s \in DOMAIN start : JobStep(s) \/ PublishFails(s)
             \/ UploaderStep \/ UploadFails
             \/ UNCHANGED captureVars
      PROVE  UNCHANGED request
  BY <1>5 DEF PushWakes, OpenApp, CheckPending, StartOnTrigger, Revoke,
       SetAlertServerUrl, ProcessDies, JobStep,
       StartCapture, AckFails,
       OnStartCommand, RunJob, EndJob, PublishBytes, PublishSidecar, PublishFails,
       UploadStaged, UploaderStep, Upload, ReceiveAnswer, RemoveBytes, UploadFails,
       captureVars, settingsVars, serverVars
<1>6. QED BY <1>2, <1>3, <1>4, <1>5 DEF Next

\* A thread gets new items only from what is pending.
LEMMA ItemsArePending ==
    ASSUME CaptureTypes, [Next]_captureVars, NEW p \in Paths
    PROVE  path'[p].todo \subseteq path[p].todo \cup Pending
<1>1. PathsTyped /\ acks \subseteq Ack
  BY DEF CaptureTypes
<1>2. ASSUME NEW r \in Paths, NEW todo \in SUBSET Requests,
             todo \subseteq path[r].todo \cup Pending,
             path' = [path EXCEPT ![r] = WithItems(todo)]
      PROVE  path'[p].todo \subseteq path[p].todo \cup Pending
  BY <1>1, <1>2 DEF PathsTyped, WithItems, Idle
<1>3. Pending \in SUBSET Requests
  BY DEF Pending
<1>4. ASSUME \/ \E q \in Requests : PushWakes(q)
             \/ CheckPending
      PROVE  path'[p].todo \subseteq path[p].todo \cup Pending
  BY <1>2, <1>3, <1>4 DEF PushWakes, CheckPending, Paths
<1>5. ASSUME NEW m \in Ack, path' = PathAfter(m)
      PROVE  path'[p].todo \subseteq path[p].todo \cup Pending
  <2>1. CASE m.via \in Paths
    <3>1. path[m.via].todo \in SUBSET Requests
      BY <1>1, <2>1 DEF PathsTyped, PathState
    <3>2. path' = [path EXCEPT ![m.via] = WithItems(path[m.via].todo)]
      BY <1>5, <2>1 DEF PathAfter
    <3>3. QED BY <1>2, <2>1, <3>1, <3>2
  <2>2. CASE m.via \notin Paths
    BY <1>5, <2>2 DEF PathAfter
  <2>3. QED BY <2>1, <2>2
<1>6. ASSUME NEW m \in acks, HandleAck(m) \/ AckFails(m)
      PROVE  path'[p].todo \subseteq path[p].todo \cup Pending
  BY <1>1, <1>5, <1>6 DEF HandleAck, AckFails
<1>7. ASSUME NEW r \in Paths, StartCapture(r)
      PROVE  path'[p].todo \subseteq path[p].todo
  <2>1. PICK q : path' = [path EXCEPT ![r] = [at |-> "acking", todo |-> path[r].todo \ {q}]]
    BY <1>7 DEF StartCapture
  <2>2. QED BY <1>1, <2>1 DEF PathsTyped
<1>8. ASSUME NEW at, path["poll"] \in PathState, path' = [path EXCEPT !["poll"].at = at]
      PROVE  path'[p].todo \subseteq path[p].todo
  BY <1>1, <1>8 DEF PathsTyped, PathState
<1>9. path["poll"] \in PathState
  BY <1>1 DEF PathsTyped, Paths
<1>10. ASSUME OpenApp \/ UploaderStep \/ UploadFails
       PROVE  path'[p].todo \subseteq path[p].todo
  BY <1>8, <1>9, <1>10 DEF OpenApp, UploaderStep, Upload, ReceiveAnswer, RemoveBytes, UploadFails,
       MoveOn, serviceVars
<1>11. ASSUME ProcessDies
       PROVE  path'[p].todo \subseteq path[p].todo
  BY <1>11 DEF ProcessDies, Idle
<1>12. ASSUME \/ \E q \in Requests : Create(q)
              \/ StartOnTrigger \/ Revoke \/ SetAlertServerUrl
              \/ \E s \in DOMAIN start : JobStep(s) \/ PublishFails(s)
              \/ \E c \in Clips : HandleUpload(c)
              \/ UNCHANGED captureVars
       PROVE  UNCHANGED path
  BY <1>12 DEF Create, StartOnTrigger, Revoke, SetAlertServerUrl, JobStep,
               OnStartCommand, RunJob, EndJob,
               PublishBytes, PublishSidecar, PublishFails, UploadStaged, HandleUpload,
               captureVars, settingsVars, serviceVars
<1>13. QED BY <1>4, <1>6, <1>7, <1>10, <1>11, <1>12 DEF Next

LEMMA KnownRequestsKept ==
    ASSUME CaptureTypes, KnownRequests, [Next]_captureVars
    PROVE  KnownRequests'
<1> USE StartIsSeq
<1>1. CaptureTypes /\ PathsTyped
  BY DEF CaptureTypes
<1>2. Pending \in SUBSET {q \in Requests : request[q] # "none"}
  BY DEF Pending
<1>3. ASSUME NEW p \in Paths, NEW q \in path'[p].todo
      PROVE  request'[q] # "none"
  <2>1. q \in path[p].todo \/ q \in Pending
    BY <1>3, ItemsArePending
  <2>2. q \in Requests /\ request[q] # "none"
    BY <1>1, <1>2, <2>1 DEF KnownRequests, PathsTyped, PathState
  <2>3. QED BY <2>2, RequestsStay
<1>4. ASSUME NEW s \in DOMAIN start', start'[s].request # NoRequest
      PROVE  request'[start'[s].request] # "none"
  <2>1. CASE s \in DOMAIN start
    <3>1. PICK q \in Requests : q = start[s].request
      BY <1>4, <2>1, StepKeepsStarts DEF StartsKept, Start
    <3>2. request[q] # "none" /\ start'[s].request = q
      BY <1>4, <2>1, <3>1, StepKeepsStarts DEF StartsKept, KnownRequests
    <3>3. QED BY <3>2, RequestsStay
  <2>2. CASE s \notin DOMAIN start
    <3>1. DOMAIN start' = 1..Len(start')
      BY StepKeepsStarts, LenProperties DEF StartsKept
    <3>2. Len(start') > Len(start)
      BY <1>4, <2>2, <3>1, StepKeepsStarts DEF StartsKept
    <3>3. PICK q \in Requests \cup {NoRequest} :
              SendStart(q) /\ (q = NoRequest \/ \E p \in Paths : q \in path[p].todo)
      <4>1. ASSUME NEW r \in DOMAIN start, JobStep(r) \/ PublishFails(r)
            PROVE  FALSE
        BY <3>2, <4>1, DeliveryMoves, RunMoves, EndMoves, PublishingMoves, PublishedMoves,
           PublishFailsMoves, UploadStagedMoves DEF JobStep, JobSettles, JobMoves
      <4>2. ASSUME NEW todo \in SUBSET Clips, MoveOn(todo)
            PROVE  FALSE
        BY <3>2, <4>2, MoveOnMoves DEF UploadsEnd
      <4>3. ASSUME UploaderStep \/ UploadFails
            PROVE  FALSE
        <5>1. UNCHANGED start \/ \E todo \in SUBSET Clips : MoveOn(todo)
          BY <4>3 DEF UploaderStep, Upload, ReceiveAnswer, RemoveBytes, UploadFails,
               CaptureTypes, Uploader, serviceVars
        <5>2. QED BY <3>2, <4>2, <5>1
      <4>4. ASSUME \/ \E q \in Requests : Create(q) \/ PushWakes(q)
                   \/ OpenApp \/ CheckPending \/ Revoke \/ SetAlertServerUrl
                   \/ \E m \in acks : HandleAck(m) \/ AckFails(m)
                   \/ \E c \in Clips : HandleUpload(c)
                   \/ UNCHANGED captureVars
            PROVE  FALSE
        <5>1. UNCHANGED start
          BY <4>4 DEF Create, PushWakes, OpenApp, CheckPending, Revoke,
               SetAlertServerUrl, HandleAck, AckFails,
               HandleUpload, captureVars, settingsVars, serviceVars
        <5>2. QED BY <3>2, <5>1
      <4>5. ~ProcessDies
        BY <3>2, DeathEndsJobs
      <4>6. StartOnTrigger \/ \E p \in Paths : StartCapture(p)
        BY <4>1, <4>3, <4>4, <4>5 DEF Next
      <4>7. CASE StartOnTrigger
        BY <4>7 DEF StartOnTrigger
      <4>8. ASSUME NEW p \in Paths, StartCapture(p)
            PROVE  \E q \in Requests : SendStart(q) /\ q \in path[p].todo
        BY <3>2, <4>8, ItemIsOwn DEF StartCapture
      <4>9. QED BY <4>6, <4>7, <4>8
    <3>4. s = Len(start) + 1 /\ start'[s].request = q
      <4>1. Len(start') = Len(start) + 1 /\ start'[Len(start) + 1].request = q
        BY <3>3, SendAppends
      <4>2. s \in 1..(Len(start) + 1) /\ s \notin 1..Len(start)
        BY <1>4, <2>2, <3>1, <4>1
      <4>3. QED BY <4>1, <4>2
    <3>5. q \in Requests /\ request[q] # "none"
      BY <1>4, <3>3, <3>4 DEF KnownRequests
    <3>6. QED BY <3>4, <3>5, RequestsStay
  <2>3. QED BY <2>1, <2>2
<1>5. ASSUME NEW c \in DOMAIN origin', origin'[c] # NoRequest
      PROVE  request'[origin'[c]] # "none"
  <2>1. CASE c \in DOMAIN origin
    <3>1. PICK q \in Requests : q = origin[c] /\ origin'[c] = q
      BY <1>5, <2>1, OriginGrows
    <3>2. QED BY <3>1, <2>1, RequestsStay DEF KnownRequests
  <2>2. CASE c \notin DOMAIN origin
    <3>1. PICK s \in DOMAIN start : PublishBytes(s)
      BY <1>5, <2>2, OnlyStagingNames
    <3>2. start[s].request \in Requests \cup {NoRequest}
      BY DEF Start
    <3>3. origin' = Append(origin, start[s].request)
      BY <3>1 DEF PublishBytes
    <3>4. origin'[c] = start[s].request
      BY <1>5, <2>2, <3>2, <3>3, AppendProperties, LenProperties DEF CaptureTypes
    <3>5. QED BY <1>5, <3>2, <3>4, RequestsStay DEF KnownRequests
  <2>3. QED BY <2>1, <2>2
<1>6. QED BY <1>3, <1>4, <1>5 DEF KnownRequests

\* A start command, once sent, is there for good.
LEMMA StartStays ==
    ASSUME CaptureTypes, [Next]_captureVars, NEW q,
           \E s \in DOMAIN start : start[s].request = q
    PROVE  \E s \in DOMAIN start' : start'[s].request = q
<1>1. PICK s \in DOMAIN start : start[s].request = q
  OBVIOUS
<1>2. s \in DOMAIN start' /\ start'[s].request = q
  BY <1>1, StartIsSeq, StepKeepsStarts, LenProperties DEF StartsKept
<1>3. QED BY <1>2

\* The start that follows a "started" acknowledgement was accepted before it.
LEMMA AcksAreTrueKept ==
    ASSUME CaptureTypes, AcksAreTrue, [Next]_captureVars
    PROVE  AcksAreTrue'
<1>1. ASSUME NEW m \in acks', m.outcome = "started",
             \E l \in acks : l.outcome = m.outcome /\ l.request = m.request
      PROVE  \E s \in DOMAIN start' : start'[s].request = m.request
  BY <1>1, StartStays DEF AcksAreTrue
<1>2. ASSUME NEW p \in Paths, StartCapture(p), NEW m \in acks', m.outcome = "started"
      PROVE  \E s \in DOMAIN start' : start'[s].request = m.request
  <2>1. PICK outcome \in {"started", "failed"} :
            /\ IF outcome = "started" THEN SendStart(Min(path[p].todo)) ELSE UNCHANGED start
            /\ acks' = acks \cup {[request |-> Min(path[p].todo), outcome |-> outcome,
                                   via |-> p]}
    BY <1>2 DEF StartCapture
  <2>2. CASE m \in acks
    BY <1>1, <1>2, <2>2
  <2>3. CASE m \notin acks
    <3>1. outcome = "started" /\ m.request = Min(path[p].todo)
      BY <1>2, <2>1, <2>3
    <3>2. Min(path[p].todo) \in Requests
      BY <1>2, ItemIsOwn DEF StartCapture
    <3>3. /\ start' \in Seq(Start) /\ Len(start') = Len(start) + 1
          /\ start'[Len(start) + 1].request = m.request
      BY <2>1, <3>1, <3>2, SendAppends
    <3>4. Len(start) + 1 \in DOMAIN start'
      BY <3>3, StartIsSeq, LenProperties
    <3>5. QED BY <3>3, <3>4
  <2>4. QED BY <2>2, <2>3
<1>3. ASSUME NEW m \in acks', NEW l \in acks, \/ m = l
                                              \/ m = [l EXCEPT !.via = "late"]
      PROVE  l.outcome = m.outcome /\ l.request = m.request
  BY <1>3 DEF CaptureTypes, Ack
<1>4. ASSUME \/ \E m \in acks : HandleAck(m) \/ AckFails(m)
             \/ ProcessDies
      PROVE  \A m \in acks' : \E l \in acks : m = l \/ m = [l EXCEPT !.via = "late"]
  BY <1>4 DEF HandleAck, AckFails, ProcessDies
<1>5. ASSUME \/ \E q \in Requests : Create(q) \/ PushWakes(q)
             \/ OpenApp \/ CheckPending \/ StartOnTrigger \/ Revoke \/ SetAlertServerUrl
             \/ \E s \in DOMAIN start : JobStep(s) \/ PublishFails(s)
             \/ UploaderStep \/ UploadFails
             \/ \E c \in Clips : HandleUpload(c)
             \/ UNCHANGED captureVars
      PROVE  UNCHANGED acks
  BY <1>5 DEF Create, PushWakes, OpenApp, CheckPending, StartOnTrigger, Revoke,
       SetAlertServerUrl, JobStep,
       OnStartCommand, RunJob, EndJob, PublishBytes, PublishSidecar, PublishFails,
       UploadStaged, UploaderStep, Upload, ReceiveAnswer, RemoveBytes, UploadFails,
       HandleUpload, captureVars, settingsVars, networkVars
<1>6. ASSUME NEW m \in acks', m.outcome = "started", ~\E p \in Paths : StartCapture(p)
      PROVE  \E l \in acks : l.outcome = m.outcome /\ l.request = m.request
  <2>1. \E l \in acks : m = l \/ m = [l EXCEPT !.via = "late"]
    BY <1>4, <1>5, <1>6 DEF Next
  <2>2. QED BY <1>3, <2>1
<1>7. QED BY <1>1, <1>2, <1>6 DEF AcksAreTrue

\* A request becomes STARTED only by an acknowledgement that says so.
LEMMA StartedWasAcceptedKept ==
    ASSUME CaptureTypes, AcksAreTrue, StartedWasAccepted, [Next]_captureVars
    PROVE  StartedWasAccepted'
<1>1. request \in [Requests -> RequestState] /\ acks \subseteq Ack
  BY DEF CaptureTypes
<1>2. ASSUME NEW q \in Requests, request'[q] = "STARTED", request[q] # "STARTED"
      PROVE  \E m \in acks : m.outcome = "started" /\ m.request = q
  <2>1. ~\E r \in Requests : Create(r)
    BY <1>1, <1>2 DEF Create
  <2>2. ~\E c \in Clips : HandleUpload(c)
    BY <1>1, <1>2 DEF HandleUpload, StoreEvidence
  <2>3. request' # request
    BY <1>2
  <2>4. \E m \in acks : HandleAck(m)
    BY <2>1, <2>2, <2>3
       DEF Next, PushWakes, OpenApp, CheckPending, StartOnTrigger, Revoke,
           SetAlertServerUrl, ProcessDies, JobStep,
           StartCapture, AckFails, OnStartCommand, RunJob, EndJob, PublishBytes,
           PublishSidecar, PublishFails, UploadStaged, UploaderStep, Upload, ReceiveAnswer,
           RemoveBytes, UploadFails, captureVars, settingsVars, serverVars
  <2>5. PICK m \in acks : HandleAck(m)
    BY <2>4
  <2>6. m.request = q /\ AckState(m.outcome) = "STARTED"
    BY <1>1, <1>2, <2>5 DEF HandleAck, Ack
  <2>7. QED BY <2>6 DEF AckState
<1>3. ASSUME NEW q \in Requests, request'[q] = "STARTED"
      PROVE  \E s \in DOMAIN start : start[s].request = q
  BY <1>2, <1>3 DEF AcksAreTrue, StartedWasAccepted
<1>4. QED BY <1>3, StartStays DEF StartedWasAccepted

\* Storing completes the request, and an acknowledgement changes only a pending one.
LEMMA LandedIsNotAwaitedKept ==
    ASSUME CaptureTypes, ClipsAreCaptured, KnownRequests, LandedIsNotAwaited,
           [Next]_captureVars
    PROVE  LandedIsNotAwaited'
<1> USE StartIsSeq
<1>1. request \in [Requests -> RequestState] /\ rows \in [Clips -> Nat]
  BY DEF CaptureTypes
<1>2. ASSUME NEW c \in Stored
      PROVE  c \in DOMAIN origin /\ origin'[c] = origin[c]
  BY <1>2, OriginGrows DEF ClipsAreCaptured
<1>3. ASSUME NEW c \in Clips, HandleUpload(c)
      PROVE  LandedIsNotAwaited'
  <2>1. UNCHANGED origin /\ c \in DOMAIN origin
    BY <1>3 DEF HandleUpload, ClipsAreCaptured, diskVars
  <2>2. CASE StoreEvidence(c)
    <3>1. Stored' = Stored \cup {c}
      <4>1. \A d \in Clips : rows'[d] = IF d = c THEN rows[d] + 1 ELSE rows[d]
        BY <1>1, <2>2 DEF StoreEvidence
      <4>2. QED BY <1>1, <4>1 DEF Stored
    <3>2. ASSUME NEW q \in Requests, request[q] \notin {"PENDING", "STARTED"}
          PROVE  request'[q] \notin {"PENDING", "STARTED"}
      BY <1>1, <2>2, <3>2 DEF StoreEvidence
    <3>3. origin[c] # NoRequest => request'[origin[c]] \notin {"PENDING", "STARTED"}
      BY <1>1, <2>1, <2>2 DEF StoreEvidence
    <3>4. QED BY <1>2, <2>1, <3>1, <3>2, <3>3 DEF LandedIsNotAwaited
  <2>3. CASE UNCHANGED <<rows, request>>
    BY <2>1, <2>3 DEF LandedIsNotAwaited, Stored
  <2>4. QED BY <1>3, <2>2, <2>3 DEF HandleUpload
<1>4. ASSUME NEW q \in Requests, Create(q)
      PROVE  LandedIsNotAwaited'
  <2>1. /\ Stored' = Stored /\ UNCHANGED origin /\ request[q] = "none"
        /\ \A r \in Requests : r # q => request'[r] = request[r]
    BY <1>1, <1>4 DEF Create, Stored, diskVars
  <2>2. ASSUME NEW c \in Stored, origin[c] # NoRequest
        PROVE  request'[origin[c]] \notin {"PENDING", "STARTED"}
    <3>1. origin[c] \in Requests /\ origin[c] # q
      BY <1>2, <2>1, <2>2 DEF KnownRequests
    <3>2. QED BY <2>1, <2>2, <3>1 DEF LandedIsNotAwaited
  <2>3. QED BY <2>1, <2>2 DEF LandedIsNotAwaited
<1>5. ASSUME NEW m \in acks, HandleAck(m)
      PROVE  LandedIsNotAwaited'
  <2>1. Stored' = Stored /\ UNCHANGED origin
    BY <1>5 DEF HandleAck, Stored, diskVars
  <2>2. \A r \in Requests : request[r] \notin {"PENDING", "STARTED"} =>
                                request'[r] = request[r]
    BY <1>1, <1>5 DEF HandleAck
  <2>3. QED BY <1>2, <2>1, <2>2 DEF LandedIsNotAwaited
<1>6. ASSUME UNCHANGED <<rows, request>>
      PROVE  LandedIsNotAwaited'
  <2>1. Stored' = Stored
    BY <1>6 DEF Stored
  <2>2. QED BY <1>2, <1>6, <2>1 DEF LandedIsNotAwaited
<1>7. ASSUME \/ \E q \in Requests : PushWakes(q)
             \/ OpenApp \/ CheckPending \/ StartOnTrigger \/ Revoke \/ SetAlertServerUrl \/ ProcessDies
             \/ \E p \in Paths : StartCapture(p)
             \/ \E m \in acks : AckFails(m)
             \/ \E s \in DOMAIN start : JobStep(s) \/ PublishFails(s)
             \/ UploaderStep \/ UploadFails
             \/ UNCHANGED captureVars
      PROVE  UNCHANGED <<rows, request>>
  BY <1>7 DEF PushWakes, OpenApp, CheckPending, StartOnTrigger, Revoke,
       SetAlertServerUrl, ProcessDies, JobStep,
       StartCapture, AckFails,
       OnStartCommand, RunJob, EndJob, PublishBytes, PublishSidecar, PublishFails,
       UploadStaged, UploaderStep, Upload, ReceiveAnswer, RemoveBytes, UploadFails,
       captureVars, settingsVars, serverVars
<1>8. QED BY <1>3, <1>4, <1>5, <1>6, <1>7 DEF Next

--------------------------------------------------------------------------------
(* The monitor, and what is kept of a clip.                                *)

\* The monitor when it was just taken for some clips, or is free.
LEMMA Picks ==
    /\ Free.at = "free" /\ Free.todo = {} /\ Free.clip = NoClip
    /\ \A todo : LET u == [Free EXCEPT !.at = "picking", !.todo = todo]
                IN  u.at = "picking" /\ u.todo = todo /\ u.clip = NoClip
    /\ \A c : [Free EXCEPT !.at = "publishing", !.clip = c].at = "publishing"
BY DEF Free

LEMMA NobodyPublishes ==
    ASSUME MonitorHeld, uploader.at # "publishing"
    PROVE  \A s \in DOMAIN start : start[s].at # "publishing"
BY DEF MonitorHeld

\* A step that leaves the publishing jobs, the monitor and the disk alone.
LEMMA MonitorUntouched ==
    ASSUME MonitorHeld, UNCHANGED <<uploader, diskVars>>,
           \A s \in DOMAIN start' : start'[s].at = "publishing" =>
               s \in DOMAIN start /\ start'[s] = start[s]
    PROVE  MonitorHeld'
BY DEF MonitorHeld, diskVars

\* What the monitor may hold when nobody publishes.
MonitorFits ==
    /\ uploader.todo \subseteq sidecars \ {uploader.clip}
    /\ uploader.at \in {"posting", "answered", "removing"} => uploader.clip \in DOMAIN origin

LEMMA MoveOnMonitor ==
    ASSUME CaptureTypes, NEW todo \in SUBSET Clips, MoveOn(todo)
    PROVE  /\ uploader'.todo = todo /\ uploader'.clip = NoClip
           /\ uploader'.at \in {"picking", "free"}
           /\ \A s \in DOMAIN start' : start'[s].at = "publishing" =>
                  s \in DOMAIN start /\ start[s].at = "publishing"
<1>1. UploadsEnd
  BY MoveOnMoves
<1>2. DOMAIN start' = DOMAIN start
  BY <1>1, StartIsSeq, LenProperties DEF UploadsEnd
<1>3. \A s \in DOMAIN start' : start'[s].at = "publishing" =>
          s \in DOMAIN start /\ start[s].at = "publishing"
  BY <1>1, <1>2 DEF UploadsEnd
<1>4. uploader' = (IF todo # {} THEN [Free EXCEPT !.at = "picking", !.todo = todo] ELSE Free)
  BY DEF MoveOn
<1>5. QED BY <1>3, <1>4 DEF Free

LEMMA MonitorHeldKept ==
    ASSUME CaptureTypes, ClipsAreCaptured, MonitorHeld, [Next]_captureVars
    PROVE  MonitorHeld'
<1> USE StartIsSeq
<1>1. uploader \in Uploader /\ uploader.todo \in SUBSET Clips /\ sidecars \subseteq Clips
  BY DEF CaptureTypes, Uploader, ClipsAreCaptured
<1>2. ASSUME MonitorFits', \A s \in DOMAIN start' : start'[s].at # "publishing"
      PROVE  MonitorHeld'
  BY <1>2 DEF MonitorFits, MonitorHeld
<1>3. DOMAIN origin \subseteq DOMAIN origin'
  BY OriginGrows
<1>4. ASSUME NEW at \in {"queued", "refused", "running", "ended", "staged", "uploading"},
             NEW s \in DOMAIN start, JobMoves(s, at)
      PROVE  \A r \in DOMAIN start' : start'[r].at = "publishing" =>
                 r # s /\ r \in DOMAIN start /\ start'[r] = start[r]
  <2>1. /\ start' \in Seq(Start) /\ Len(start') = Len(start) /\ start'[s].at = at
        /\ \A r \in DOMAIN start : r # s => start'[r] = start[r]
    BY <1>4 DEF JobMoves
  <2>2. DOMAIN start' = DOMAIN start
    BY <2>1, LenProperties
  <2>3. QED BY <2>1, <2>2
<1>5. ASSUME NEW s \in DOMAIN start, OnStartCommand(s) \/ RunJob(s) \/ EndJob(s)
      PROVE  MonitorHeld'
  <2>1. UNCHANGED <<uploader, diskVars>>
    BY <1>5 DEF OnStartCommand, RunJob, EndJob
  <2>2. \E at \in {"queued", "refused", "running", "ended"} : JobMoves(s, at)
    BY <1>5, DeliveryMoves, RunMoves, EndMoves DEF JobSettles
  <2>3. QED BY <1>4, <2>1, <2>2, MonitorUntouched
<1>6. ASSUME NEW q \in Requests \cup {NoRequest}, SendStart(q), UNCHANGED <<uploader, diskVars>>
      PROVE  MonitorHeld'
  <2>1. /\ start' \in Seq(Start) /\ Len(start') = Len(start) + 1
        /\ \A s \in DOMAIN start : start'[s] = start[s]
        /\ start'[Len(start) + 1].at = "sent"
    BY <1>6, SendAppends
  <2>2. DOMAIN start' = DOMAIN start \cup {Len(start) + 1}
    BY <2>1, LenProperties
  <2>3. QED BY <1>6, <2>1, <2>2, MonitorUntouched
<1>7. ASSUME UNCHANGED <<start, uploader, diskVars>>
      PROVE  MonitorHeld'
  BY <1>7, MonitorUntouched
<1>8. ASSUME NEW p \in Paths, StartCapture(p)
      PROVE  MonitorHeld'
  BY <1>6, <1>7, <1>8, ItemIsOwn DEF StartCapture
<1>9. ASSUME NEW s \in DOMAIN start, PublishBytes(s)
      PROVE  MonitorHeld'
  <2>1. /\ JobSettles(s, "publishing") /\ start'[s].clip = Len(origin) + 1
        /\ uploader.at = "free"
    BY <1>9, PublishingMoves DEF PublishBytes, Free
  <2>2. /\ start' \in Seq(Start) /\ Len(start') = Len(start)
        /\ \A r \in DOMAIN start : r # s => start'[r] = start[r]
    BY <2>1 DEF JobSettles, JobMoves
  <2>3. DOMAIN start' = DOMAIN start
    BY <2>2, LenProperties
  <2>4. \A r \in DOMAIN start' : start'[r].at = "publishing" => r = s
    BY <2>1, <2>2, <2>3, NobodyPublishes
  <2>5. uploader' = [Free EXCEPT !.at = "publishing", !.clip = Len(origin) + 1]
    BY <1>9 DEF PublishBytes
  <2>6. /\ uploader'.at = "publishing" /\ uploader'.clip = Len(origin) + 1
        /\ uploader'.todo = {}
    BY <2>5 DEF Free
  <2>7. Len(origin) + 1 \in bytes' /\ Len(origin) + 1 \notin published'
    BY <1>9 DEF PublishBytes, ClipsAreCaptured
  <2>8. QED BY <2>1, <2>4, <2>6, <2>7 DEF MonitorHeld
<1>10. ASSUME NEW s \in DOMAIN start, PublishSidecar(s) \/ PublishFails(s)
       PROVE  MonitorHeld'
  <2>1. start[s].at = "publishing" /\ uploader' = Free
    BY <1>10 DEF PublishSidecar, PublishFails
  <2>2. JobMoves(s, "staged") \/ JobMoves(s, "running")
    BY <1>10, PublishedMoves, PublishFailsMoves DEF JobSettles
  <2>3. \A r \in DOMAIN start' : start'[r].at # "publishing"
    BY <1>4, <2>1, <2>2 DEF MonitorHeld
  <2>4. QED BY <1>2, <2>1, <2>3 DEF MonitorFits, Free
<1>11. ASSUME NEW s \in DOMAIN start, UploadStaged(s)
       PROVE  MonitorHeld'
  <2>1. uploader = Free /\ uploader.at # "publishing"
    BY <1>11 DEF UploadStaged, Free
  <2>2. \A r \in DOMAIN start' : start'[r].at # "publishing"
    BY <1>4, <1>11, <2>1, UploadStagedMoves, NobodyPublishes DEF JobSettles
  <2>3. \/ uploader' = uploader
        \/ /\ uploader' = [Free EXCEPT !.at = "picking", !.todo = {start[s].clip}]
           /\ start[s].clip \in sidecars
    BY <1>11 DEF UploadStaged
  <2>4. UNCHANGED sidecars
    BY <1>11 DEF UploadStaged, diskVars
  <2>5. /\ uploader'.todo \subseteq sidecars /\ uploader'.clip = NoClip
        /\ uploader'.at \in {"free", "picking"}
    <3>1. CASE uploader' = Free
      BY <3>1, Picks
    <3>2. CASE uploader' = [Free EXCEPT !.at = "picking", !.todo = {start[s].clip}]
      <4>1. uploader'.at = "picking" /\ uploader'.todo = {start[s].clip} /\ uploader'.clip = NoClip
        BY <3>2, Picks
      <4>2. {start[s].clip} \subseteq sidecars
        BY <2>1, <2>3, <4>1, Picks
      <4>3. QED BY <4>1, <4>2
    <3>3. QED BY <2>1, <2>3, <3>1, <3>2
  <2>6. MonitorFits'
    BY <1>1, <2>4, <2>5 DEF MonitorFits
  <2>7. QED BY <1>2, <2>2, <2>6
<1>12. ASSUME OpenApp
       PROVE  MonitorHeld'
  <2>1. uploader = Free /\ uploader.at # "publishing" /\ UNCHANGED <<start, sidecars>>
    BY <1>12 DEF OpenApp, Free, diskVars
  <2>2. uploader' = uploader \/ uploader' = [Free EXCEPT !.at = "picking", !.todo = sidecars]
    BY <1>12 DEF OpenApp
  <2>3. /\ uploader'.todo \subseteq sidecars /\ uploader'.clip = NoClip
        /\ uploader'.at \in {"free", "picking"}
    <3>1. CASE uploader' = Free
      BY <3>1, Picks
    <3>2. CASE uploader' = [Free EXCEPT !.at = "picking", !.todo = sidecars]
      <4>1. uploader'.at = "picking" /\ uploader'.todo = sidecars /\ uploader'.clip = NoClip
        BY <3>2, Picks
      <4>2. sidecars \subseteq sidecars
        BY <1>1, <2>2, <3>2, Picks
      <4>3. QED BY <4>1, <4>2
    <3>3. QED BY <2>1, <2>2, <3>1, <3>2
  <2>4. MonitorFits'
    BY <1>1, <2>1, <2>3 DEF MonitorFits
  <2>5. QED BY <1>2, <2>1, <2>4, NobodyPublishes
<1>13. ASSUME NEW todo \in SUBSET sidecars, MoveOn(todo), UNCHANGED sidecars,
              uploader.at # "publishing"
       PROVE  MonitorHeld'
  <2>1. /\ uploader'.todo = todo /\ uploader'.clip = NoClip
        /\ uploader'.at \in {"picking", "free"}
        /\ \A s \in DOMAIN start' : start'[s].at # "publishing"
    BY <1>1, <1>13, MoveOnMonitor, NobodyPublishes
  <2>2. QED BY <1>1, <1>2, <1>13, <2>1 DEF MonitorFits
<1>14. ASSUME NEW c \in Clips, Upload(c)
       PROVE  MonitorHeld'
  <2>1. uploader.at = "picking" /\ c \in uploader.todo /\ c \in DOMAIN origin
    BY <1>14 DEF Upload, MonitorHeld, ClipsAreCaptured
  <2>2. CASE MoveOn(uploader.todo \ {c}) /\ UNCHANGED sidecars
    BY <1>13, <2>1, <2>2 DEF MonitorHeld
  <2>3. ASSUME NEW at \in {"removing", "posting"}, UNCHANGED start,
               sidecars \ {c} \subseteq sidecars',
               uploader' = [uploader EXCEPT !.at = at, !.clip = c, !.todo = @ \ {c}]
        PROVE  MonitorHeld'
    <3>1. /\ uploader'.at = at /\ uploader'.clip = c
          /\ uploader'.todo = uploader.todo \ {c}
      BY <1>1, <2>3 DEF Uploader
    <3>2. QED BY <1>2, <1>3, <2>1, <2>3, <3>1, NobodyPublishes DEF MonitorFits, MonitorHeld
  <2>4. QED BY <1>14, <2>2, <2>3 DEF Upload
<1>15. ASSUME UploadFails \/ RemoveBytes
       PROVE  MonitorHeld'
  BY <1>13, <1>15 DEF UploadFails, RemoveBytes, MonitorHeld, diskVars
<1>16. ASSUME ReceiveAnswer
       PROVE  MonitorHeld'
  <2>1. /\ uploader.at = "answered" /\ UNCHANGED start
        /\ sidecars' = sidecars \ {uploader.clip}
        /\ uploader' = [uploader EXCEPT !.at = "removing", !.answer = "none"]
    BY <1>16 DEF ReceiveAnswer, serviceVars
  <2>2. uploader'.todo = uploader.todo /\ uploader'.clip = uploader.clip
    BY <1>1, <2>1 DEF Uploader
  <2>3. QED BY <1>2, <1>3, <2>1, <2>2, NobodyPublishes DEF MonitorFits, MonitorHeld
<1>17. ASSUME NEW c \in Clips, HandleUpload(c)
       PROVE  MonitorHeld'
  <2>1. UNCHANGED <<start, diskVars>>
    BY <1>17 DEF HandleUpload, serviceVars
  <2>2. CASE UNCHANGED uploader
    BY <1>7, <2>1, <2>2
  <2>3. CASE uploader' # uploader
    <3>1. /\ uploader.at = "posting"
          /\ \E a : uploader' = [uploader EXCEPT !.at = "answered", !.answer = a]
      BY <1>17, <2>3 DEF HandleUpload, Answer
    <3>2. uploader'.todo = uploader.todo /\ uploader'.clip = uploader.clip
      BY <1>1, <3>1 DEF Uploader
    <3>3. QED BY <1>2, <2>1, <3>1, <3>2, NobodyPublishes
              DEF MonitorFits, MonitorHeld, diskVars
  <2>4. QED BY <2>2, <2>3
<1>18. ASSUME ProcessDies
       PROVE  MonitorHeld'
  <2>1. DOMAIN start' = DOMAIN start /\ uploader' = Free
    BY <1>18 DEF ProcessDies
  <2>2. \A s \in DOMAIN start' : start'[s].at # "publishing"
    BY <1>18, <2>1, DeathEndsJobs
  <2>3. QED BY <1>2, <2>1, <2>2 DEF MonitorFits, Free
<1>19. ASSUME \/ \E q \in Requests : Create(q) \/ PushWakes(q)
              \/ CheckPending \/ Revoke \/ SetAlertServerUrl
              \/ \E m \in acks : HandleAck(m) \/ AckFails(m)
              \/ UNCHANGED captureVars
       PROVE  MonitorHeld'
  BY <1>7, <1>19 DEF Create, PushWakes, CheckPending, Revoke, SetAlertServerUrl,
                     HandleAck, AckFails, captureVars, settingsVars,
                     serviceVars
<1>20. ASSUME StartOnTrigger
       PROVE  MonitorHeld'
  BY <1>6, <1>20 DEF StartOnTrigger
<1>21. QED BY <1>5, <1>8, <1>9, <1>10, <1>11, <1>12, <1>14, <1>15, <1>16, <1>17, <1>18, <1>19,
              <1>20 DEF Next, JobStep, UploaderStep

\* What the server decided, that the credential is gone, and what was dropped, stays.
LEMMA DecisionsStay ==
    ASSUME CaptureTypes, [Next]_captureVars
    PROVE  /\ Stored \subseteq Stored' /\ refused \subseteq refused'
           /\ credential = "none" => credential' = "none"
           /\ homeless \subseteq homeless'
<1>1. ASSUME NEW c \in Clips, HandleUpload(c)
      PROVE  Stored \subseteq Stored' /\ refused \subseteq refused'
  BY <1>1, UploadHandled
<1>2. ASSUME UNCHANGED <<rows, refused>>
      PROVE  Stored \subseteq Stored' /\ refused \subseteq refused'
  BY <1>2 DEF Stored
<1>3. (\E c \in Clips : HandleUpload(c)) \/ UNCHANGED <<rows, refused>>
  BY DEF Next, JobStep, Create, PushWakes, OpenApp, CheckPending, StartOnTrigger, Revoke,
         SetAlertServerUrl,
         ProcessDies, StartCapture, HandleAck, AckFails,
         OnStartCommand, RunJob, EndJob, PublishBytes, PublishSidecar, PublishFails,
         UploadStaged, UploaderStep, Upload, ReceiveAnswer, RemoveBytes, UploadFails,
         captureVars, settingsVars, serverVars
<1>4. credential = "none" => credential' = "none"
  BY DEF Next, JobStep, Create, PushWakes, OpenApp, CheckPending, StartOnTrigger, Revoke,
         SetAlertServerUrl,
         ProcessDies, StartCapture, HandleAck, AckFails, HandleUpload,
         OnStartCommand, RunJob, EndJob, PublishBytes, PublishSidecar, PublishFails,
         UploadStaged, UploaderStep, Upload, ReceiveAnswer, RemoveBytes, UploadFails,
         captureVars, settingsVars
<1>5. homeless \subseteq homeless'
  BY DEF Next, JobStep, Create, PushWakes, OpenApp, CheckPending, StartOnTrigger, Revoke,
         SetAlertServerUrl, ProcessDies, StartCapture, HandleAck, AckFails, HandleUpload,
         OnStartCommand, RunJob, EndJob, PublishBytes, PublishSidecar, PublishFails,
         UploadStaged, UploaderStep, Upload, ReceiveAnswer, RemoveBytes, UploadFails,
         captureVars, settingsVars
<1>6. QED BY <1>1, <1>2, <1>3, <1>4, <1>5

LEMMA RemovalIsFinalKept ==
    ASSUME CaptureTypes, MonitorHeld, RemovalIsFinal, [Next]_captureVars
    PROVE  RemovalIsFinal'
<1>1. uploader \in Uploader /\ uploader.todo \in SUBSET Clips
  BY DEF CaptureTypes, Uploader
<1>2. ASSUME UNCHANGED uploader
      PROVE  RemovalIsFinal'
  BY <1>2, DecisionsStay DEF RemovalIsFinal
<1>3. ASSUME uploader'.at \notin {"answered", "removing"}
      PROVE  RemovalIsFinal'
  BY <1>3 DEF RemovalIsFinal
<1>4. ASSUME NEW todo \in SUBSET Clips, MoveOn(todo)
      PROVE  RemovalIsFinal'
  BY <1>3, <1>4, MoveOnMonitor
<1>5. ASSUME \/ ProcessDies \/ OpenApp
             \/ \E s \in DOMAIN start : \/ PublishBytes(s) \/ PublishSidecar(s)
                                        \/ PublishFails(s) \/ UploadStaged(s)
      PROVE  RemovalIsFinal'
  <2>1. \/ uploader' \in {uploader, Free}
        \/ \E todo : uploader' = [Free EXCEPT !.at = "picking", !.todo = todo]
        \/ \E c : uploader' = [Free EXCEPT !.at = "publishing", !.clip = c]
    BY <1>5 DEF ProcessDies, OpenApp, PublishBytes, PublishSidecar, PublishFails, UploadStaged
  <2>2. QED BY <1>2, <1>3, <2>1, Picks
<1>6. ASSUME NEW c \in Clips, Upload(c)
      PROVE  RemovalIsFinal'
  <2>1. CASE MoveOn(uploader.todo \ {c})
    BY <1>1, <1>4, <2>1
  <2>2. CASE /\ c \in homeless' \/ credential' = "none"
             /\ uploader' = [uploader EXCEPT !.at = "removing", !.clip = c, !.todo = @ \ {c}]
    <3>1. uploader'.at = "removing" /\ uploader'.clip = c
      BY <1>1, <2>2 DEF Uploader
    <3>2. QED BY <2>2, <3>1 DEF RemovalIsFinal
  <2>3. CASE uploader' = [uploader EXCEPT !.at = "posting", !.clip = c, !.todo = @ \ {c}]
    <3>1. uploader'.at = "posting"
      BY <1>1, <2>3 DEF Uploader
    <3>2. QED BY <1>3, <3>1
  <2>4. QED BY <1>6, <2>1, <2>2, <2>3 DEF Upload
<1>7. ASSUME UploadFails \/ RemoveBytes
      PROVE  RemovalIsFinal'
  BY <1>1, <1>4, <1>7 DEF UploadFails, RemoveBytes
<1>8. ASSUME ReceiveAnswer
      PROVE  RemovalIsFinal'
  <2>1. uploader'.at = "removing" /\ uploader'.clip = uploader.clip /\ uploader.at = "answered"
    BY <1>1, <1>8 DEF ReceiveAnswer, Uploader
  <2>2. QED BY <2>1, DecisionsStay DEF RemovalIsFinal
<1>9. ASSUME NEW c \in Clips, HandleUpload(c)
      PROVE  RemovalIsFinal'
  <2>1. CASE UNCHANGED uploader
    BY <1>2, <2>1
  <2>2. CASE uploader' # uploader
    <3>1. /\ uploader.clip = c
          /\ \E a : uploader' = [uploader EXCEPT !.at = "answered", !.answer = a]
      BY <1>9, <2>2 DEF HandleUpload, Answer
    <3>2. uploader'.at = "answered" /\ uploader'.clip = c
      BY <1>1, <3>1 DEF Uploader
    <3>3. c \in Stored' \cup refused'
      BY <1>9, UploadHandled
    <3>4. QED BY <3>2, <3>3 DEF RemovalIsFinal
  <2>3. QED BY <2>1, <2>2
<1>10. ASSUME \/ \E q \in Requests : Create(q) \/ PushWakes(q)
              \/ CheckPending \/ Revoke \/ SetAlertServerUrl \/ StartOnTrigger
              \/ \E p \in Paths : StartCapture(p)
              \/ \E m \in acks : HandleAck(m) \/ AckFails(m)
              \/ \E s \in DOMAIN start : OnStartCommand(s) \/ RunJob(s) \/ EndJob(s)
              \/ UNCHANGED captureVars
       PROVE  UNCHANGED uploader
  BY <1>10 DEF Create, PushWakes, CheckPending, Revoke, SetAlertServerUrl,
               StartOnTrigger, StartCapture, HandleAck,
               AckFails, OnStartCommand, RunJob, EndJob, captureVars, settingsVars
<1>11. QED BY <1>2, <1>5, <1>6, <1>7, <1>8, <1>9, <1>10 DEF Next, JobStep, UploaderStep

\* While no upload is awaited none is under way unless its answer was lost, and what is
\* stored is not staged any more unless its answer was lost.
LEMMA NothingAwaited ==
    ASSUME ClipsAreCaptured, UploadsAreAwaited, uploader.at \notin {"posting", "answered"},
           UNCHANGED <<rows, posts, unanswered>>,
           sidecars' \subseteq sidecars \cup (Clips \ published)
    PROVE  UploadsAreAwaited'
<1>1. Stored' = Stored
  BY DEF Stored
<1>2. posts \subseteq unanswered /\ \A c \in Stored \ unanswered : c \notin sidecars
  BY DEF UploadsAreAwaited
<1>3. Stored \subseteq published
  BY DEF ClipsAreCaptured
<1>4. QED BY <1>1, <1>2, <1>3 DEF UploadsAreAwaited

LEMMA UploadsAreAwaitedKept ==
    ASSUME CaptureTypes, ClipsAreCaptured, MonitorHeld, UploadsAreAwaited, [Next]_captureVars
    PROVE  UploadsAreAwaited'
<1> USE StartIsSeq
<1>1. uploader \in Uploader /\ uploader.todo \in SUBSET Clips /\ sidecars \subseteq Clips
  BY DEF CaptureTypes, Uploader, ClipsAreCaptured
<1>2. ASSUME UNCHANGED <<rows, posts, unanswered, sidecars, uploader>>
      PROVE  UploadsAreAwaited'
  BY <1>2 DEF UploadsAreAwaited, Stored
<1>3. ASSUME NEW s \in DOMAIN start, PublishBytes(s) \/ UploadStaged(s)
      PROVE  UploadsAreAwaited'
  <2>1. UNCHANGED <<rows, posts, unanswered, sidecars>> /\ uploader.at = "free"
    BY <1>3 DEF PublishBytes, UploadStaged, Free, serverVars, networkVars, diskVars
  <2>2. QED BY <2>1, NothingAwaited
<1>4. ASSUME NEW s \in DOMAIN start, PublishSidecar(s) \/ PublishFails(s)
      PROVE  UploadsAreAwaited'
  <2>1. /\ UNCHANGED <<rows, posts, unanswered>> /\ start[s].at = "publishing"
        /\ sidecars' \subseteq sidecars \cup {start[s].clip}
    BY <1>4 DEF PublishSidecar, PublishFails, serverVars, networkVars
  <2>2. /\ uploader.at = "publishing"
        /\ start[s].clip \in Clips \ published
    BY <2>1 DEF MonitorHeld, ClipsAreCaptured
  <2>3. QED BY <2>1, <2>2, NothingAwaited
<1>5. ASSUME OpenApp
      PROVE  UploadsAreAwaited'
  <2>1. UNCHANGED <<rows, posts, unanswered, sidecars>> /\ uploader.at = "free"
    BY <1>5 DEF OpenApp, Free, serverVars, networkVars, diskVars
  <2>2. QED BY <2>1, NothingAwaited
<1>6. ASSUME RemoveBytes
      PROVE  UploadsAreAwaited'
  <2>1. UNCHANGED <<rows, posts, unanswered, sidecars>> /\ uploader.at = "removing"
    BY <1>6 DEF RemoveBytes, serverVars, networkVars
  <2>2. QED BY <2>1, NothingAwaited
<1>7. ASSUME NEW c \in Clips, Upload(c)
      PROVE  UploadsAreAwaited'
  <2>1. /\ UNCHANGED <<rows, unanswered>> /\ uploader.at = "picking"
        /\ sidecars' \subseteq sidecars /\ c \in sidecars
    BY <1>7 DEF Upload, serverVars, MonitorHeld
  <2>2. CASE UNCHANGED posts
    BY <2>1, <2>2, NothingAwaited
  <2>3. CASE /\ posts' = posts \cup {c}
             /\ uploader' = [uploader EXCEPT !.at = "posting", !.clip = c, !.todo = @ \ {c}]
    <3>1. uploader'.at = "posting" /\ uploader'.clip = c
      BY <1>1, <2>3 DEF Uploader
    <3>2. Stored' = Stored
      BY <2>1 DEF Stored
    <3>3. posts \subseteq unanswered /\ \A d \in Stored \ unanswered : d \notin sidecars
      BY <2>1 DEF UploadsAreAwaited
    <3>4. QED BY <2>1, <2>3, <3>1, <3>2, <3>3 DEF UploadsAreAwaited
  <2>4. QED BY <1>7, <2>2, <2>3 DEF Upload
<1>8. ASSUME NEW c \in Clips, HandleUpload(c)
      PROVE  UploadsAreAwaited'
  <2>1. /\ c \in posts /\ posts' = posts \ {c} /\ UNCHANGED <<unanswered, sidecars>>
        /\ Stored' \in {Stored, Stored \cup {c}}
    BY <1>8, UploadHandled DEF HandleUpload, diskVars
  <2>2. CASE c \in unanswered
    <3>1. (uploader.at = "posting" /\ uploader.clip = c) \/ UNCHANGED uploader
      BY <1>8 DEF HandleUpload, Answer
    <3>2. CASE UNCHANGED uploader
      BY <2>1, <2>2, <3>2 DEF UploadsAreAwaited
    <3>3. CASE uploader.at = "posting" /\ uploader.clip = c
      BY <2>1, <2>2, <3>3 DEF UploadsAreAwaited
    <3>4. QED BY <3>1, <3>2, <3>3
  <2>3. CASE c \notin unanswered
    <3>1. uploader.at = "posting" /\ uploader.clip = c
      BY <2>1, <2>3 DEF UploadsAreAwaited
    <3>2. \E a : uploader' = [uploader EXCEPT !.at = "answered", !.answer = a]
      BY <1>8, <3>1 DEF HandleUpload, Answer
    <3>3. uploader'.at = "answered" /\ uploader'.clip = c
      BY <1>1, <3>1, <3>2 DEF Uploader
    <3>4. QED BY <2>1, <3>1, <3>3 DEF UploadsAreAwaited
  <2>4. QED BY <2>2, <2>3
<1>9. ASSUME ReceiveAnswer
      PROVE  UploadsAreAwaited'
  <2>1. /\ uploader.at = "answered" /\ UNCHANGED <<rows, posts, unanswered>>
        /\ sidecars' = sidecars \ {uploader.clip}
    BY <1>9 DEF ReceiveAnswer, serverVars, networkVars
  <2>2. Stored' = Stored
    BY <2>1 DEF Stored
  <2>3. QED BY <2>1, <2>2 DEF UploadsAreAwaited
<1>10. ASSUME UploadFails \/ ProcessDies
       PROVE  UploadsAreAwaited'
  <2>1. /\ UNCHANGED <<rows, sidecars>> /\ posts' \subseteq posts
        /\ uploader.at \in {"posting", "answered"} =>
               unanswered' = unanswered \cup {uploader.clip}
        /\ unanswered \subseteq unanswered'
    BY <1>10 DEF UploadFails, ProcessDies, serverVars, diskVars
  <2>2. Stored' = Stored
    BY <2>1 DEF Stored
  <2>3. QED BY <2>1, <2>2 DEF UploadsAreAwaited
<1>11. ASSUME \/ \E q \in Requests : Create(q) \/ PushWakes(q)
              \/ CheckPending \/ Revoke \/ SetAlertServerUrl \/ StartOnTrigger
              \/ \E p \in Paths : StartCapture(p)
              \/ \E m \in acks : HandleAck(m) \/ AckFails(m)
              \/ \E s \in DOMAIN start : OnStartCommand(s) \/ RunJob(s) \/ EndJob(s)
              \/ UNCHANGED captureVars
       PROVE  UNCHANGED <<rows, posts, unanswered, sidecars, uploader>>
  BY <1>11 DEF Create, PushWakes, CheckPending, Revoke, SetAlertServerUrl,
               StartOnTrigger, StartCapture, HandleAck,
               AckFails, OnStartCommand, RunJob, EndJob, captureVars, settingsVars, serverVars, networkVars,
               diskVars
<1>12. QED BY <1>2, <1>3, <1>4, <1>5, <1>6, <1>7, <1>8, <1>9, <1>10, <1>11
           DEF Next, JobStep, UploaderStep

\* A pair leaves the disk only for a clip that is decided, or without a credential.
LEMMA StagedIsKeptKept ==
    ASSUME CaptureTypes, MonitorHeld, RemovalIsFinal, StagedIsKept, [Next]_captureVars
    PROVE  StagedIsKept'
<1> DEFINE Decided(c) == c \in Stored \cup refused \cup homeless \/ credential = "none"
           Kept(c) == c \in bytes \cap sidecars
<1>1. \A c : Decided(c) => Decided(c)'
  BY DecisionsStay
<1> HIDE DEF Decided
<1>2. \A c \in published : Kept(c) \/ Decided(c)
  BY DEF StagedIsKept, Decided
<1>3. ASSUME \A c \in published' : Kept(c)' \/ Decided(c) \/ Decided(c)'
      PROVE  StagedIsKept'
  BY <1>1, <1>3 DEF StagedIsKept, Decided
<1>4. ASSUME bytes \subseteq bytes', sidecars \subseteq sidecars', UNCHANGED published
      PROVE  StagedIsKept'
  BY <1>2, <1>3, <1>4
<1>5. ASSUME NEW s \in DOMAIN start, PublishSidecar(s)
      PROVE  StagedIsKept'
  <2>1. /\ published' = published \cup {start[s].clip} /\ start[s].clip \in bytes
        /\ bytes' = bytes /\ sidecars' = sidecars \cup {start[s].clip}
    BY <1>5 DEF PublishSidecar, MonitorHeld
  <2>2. QED BY <1>2, <1>3, <2>1
<1>6. ASSUME NEW s \in DOMAIN start, PublishFails(s)
      PROVE  StagedIsKept'
  <2>1. /\ published' = published /\ start[s].clip \notin published
        /\ bytes' = bytes \ {start[s].clip} /\ sidecars' = sidecars
    BY <1>6 DEF PublishFails, MonitorHeld
  <2>2. QED BY <1>2, <1>3, <2>1
<1>7. ASSUME NEW c \in Clips, Upload(c)
      PROVE  StagedIsKept'
  <2>1. CASE UNCHANGED sidecars
    BY <1>4, <1>7, <2>1 DEF Upload
  <2>2. CASE sidecars' = sidecars \ {c} /\ (c \in homeless' \/ credential' = "none")
    <3>1. Decided(c)' /\ UNCHANGED <<bytes, published>>
      BY <1>7, <2>2 DEF Upload, Decided
    <3>2. QED BY <1>2, <1>3, <2>2, <3>1
  <2>3. QED BY <1>7, <2>1, <2>2 DEF Upload
<1>8. ASSUME ReceiveAnswer
      PROVE  StagedIsKept'
  <2>1. /\ published' = published /\ bytes' = bytes
        /\ sidecars' = sidecars \ {uploader.clip} /\ Decided(uploader.clip)
    BY <1>8 DEF ReceiveAnswer, RemovalIsFinal, Decided
  <2>2. QED BY <1>2, <1>3, <2>1
<1>9. ASSUME RemoveBytes
      PROVE  StagedIsKept'
  <2>1. /\ published' = published /\ sidecars' = sidecars
        /\ bytes' = bytes \ {uploader.clip} /\ Decided(uploader.clip)
    BY <1>9 DEF RemoveBytes, RemovalIsFinal, Decided
  <2>2. QED BY <1>2, <1>3, <2>1
<1>10. ASSUME \/ \E q \in Requests : Create(q) \/ PushWakes(q)
              \/ OpenApp \/ CheckPending \/ StartOnTrigger \/ Revoke \/ SetAlertServerUrl \/ ProcessDies
              \/ \E p \in Paths : StartCapture(p)
              \/ \E m \in acks : HandleAck(m) \/ AckFails(m)
              \/ \E s \in DOMAIN start : \/ OnStartCommand(s) \/ RunJob(s) \/ EndJob(s)
                                         \/ PublishBytes(s) \/ UploadStaged(s)
              \/ UploadFails
              \/ \E c \in Clips : HandleUpload(c)
              \/ UNCHANGED captureVars
       PROVE  bytes \subseteq bytes' /\ UNCHANGED <<sidecars, published>>
  BY <1>10 DEF Create, PushWakes, OpenApp, CheckPending, StartOnTrigger, Revoke,
       SetAlertServerUrl, ProcessDies,
       StartCapture, HandleAck, AckFails, OnStartCommand, RunJob, EndJob, PublishBytes,
       UploadStaged, UploadFails, HandleUpload, captureVars, settingsVars, diskVars
<1>11. QED BY <1>4, <1>5, <1>6, <1>7, <1>8, <1>9, <1>10 DEF Next, JobStep, UploaderStep

--------------------------------------------------------------------------------
(* The theorems.                                                           *)

LEMMA IndInvInit == Init => IndInv
<1> SUFFICES ASSUME Init
             PROVE  IndInv
  OBVIOUS
<1>1. Stored = {}
  BY DEF Init, Stored
<1>2. CaptureTypes
  BY DEF Init, CaptureTypes, PathsTyped, PathState, Uploader, Free, Idle, RequestState
<1>3. DOMAIN start = {} /\ DOMAIN origin = {}
  BY DEF Init
<1>4. ClipsAreCaptured /\ KnownRequests /\ AcksAreTrue /\ MonitorHeld
  BY <1>1, <1>3 DEF Init, ClipsAreCaptured, KnownRequests, AcksAreTrue, MonitorHeld, Idle, Free
<1>5. RemovalIsFinal /\ UploadsAreAwaited /\ WorkersInOrder
  BY <1>1, <1>3 DEF Init, RemovalIsFinal, UploadsAreAwaited, WorkersInOrder, Free
<1>6. LandedIsNotAwaited /\ StartedWasAccepted /\ StagedIsKept
  BY <1>1 DEF Init, LandedIsNotAwaited, StartedWasAccepted, StagedIsKept
<1>7. QED BY <1>2, <1>4, <1>5, <1>6 DEF IndInv

LEMMA IndInvKept == IndInv /\ [Next]_captureVars => IndInv'
BY TypesKept, ClipsAreCapturedKept, KnownRequestsKept, AcksAreTrueKept, MonitorHeldKept,
   RemovalIsFinalKept, UploadsAreAwaitedKept, WorkersInOrderKept, LandedIsNotAwaitedKept,
   StartedWasAcceptedKept, StagedIsKeptKept DEF IndInv

LEMMA IndInvHolds == Spec => []IndInv
BY IndInvInit, IndInvKept, PTL DEF Spec

\* Every variable keeps its type, and no clip is named before it was captured.
THEOREM CaptureTypeCorrect == Spec => [](CaptureTypes /\ ClipsAreCaptured)
<1>1. IndInv => CaptureTypes /\ ClipsAreCaptured
  BY DEF IndInv
<1>2. QED BY <1>1, IndInvHolds, PTL

\* However late an acknowledgement of either pickup path is handled, a request whose clip
\* is stored is not shown as pending or started.
THEOREM LandedIsNotAwaitedHolds == Spec => []LandedIsNotAwaited
<1>1. IndInv => LandedIsNotAwaited
  BY DEF IndInv
<1>2. QED BY <1>1, IndInvHolds, PTL

\* A request shown as started has a start command that Android accepted.
THEOREM StartedWasAcceptedHolds == Spec => []StartedWasAccepted
<1>1. IndInv => StartedWasAccepted
  BY DEF IndInv
<1>2. QED BY <1>1, IndInvHolds, PTL

\* A staged clip stays on disk as a pair until it is stored, rejected, or cannot be sent
\* for want of a credential or a server URL, whatever dies or fails in between.
THEOREM StagedIsKeptHolds == Spec => []StagedIsKept
<1>1. IndInv => StagedIsKept
  BY DEF IndInv
<1>2. QED BY <1>1, IndInvHolds, PTL

\* Two jobs run at once only if a start between them was refused: stopSelf of its start id
\* then tears the instance down under the job before it.
THEOREM SerializedUnlessRefusedHolds == Spec => []SerializedUnlessRefused
<1>1. IndInv => SerializedUnlessRefused
  BY OrderedWorkersSerialize DEF IndInv
<1>2. QED BY <1>1, IndInvHolds, PTL

\* The server stores a clip a second time only if an answer about it was lost.
THEOREM StoredTwiceOnlyUnansweredHolds == Spec => StoredTwiceOnlyUnanswered
<1>1. ASSUME IndInv, [Next]_captureVars, NEW c \in Stored, rows'[c] > rows[c]
      PROVE  c \in unanswered
  <2>1. CaptureTypes /\ UploadsAreAwaited
    BY <1>1 DEF IndInv
  <2>2. rows' # rows
    BY <1>1, <2>1 DEF CaptureTypes, Stored
  <2>3. PICK d \in Clips : HandleUpload(d)
    BY <1>1, <2>2
       DEF Next, JobStep, Create, PushWakes, OpenApp, CheckPending, StartOnTrigger,
           Revoke, SetAlertServerUrl,
           ProcessDies, StartCapture, HandleAck, AckFails, OnStartCommand, RunJob, EndJob,
           PublishBytes, PublishSidecar, PublishFails, UploadStaged, UploaderStep, Upload,
           ReceiveAnswer, RemoveBytes, UploadFails, captureVars, settingsVars, serverVars
  <2>4. d = c /\ d \in posts
    <3>1. c \in Clips /\ rows[c] \in Nat
      BY <2>1 DEF CaptureTypes, Stored
    <3>2. c # d => rows'[c] = rows[c]
      BY <2>1, <2>2, <2>3, <3>1, UploadHandled
    <3>3. QED BY <1>1, <2>1, <2>3, <3>1, <3>2, UploadHandled
  <2>5. QED BY <2>1, <2>4 DEF UploadsAreAwaited
<1>2. IndInv /\ [Next]_captureVars
          => [\A c \in Stored : rows'[c] > rows[c] => c \in unanswered]_captureVars
  BY <1>1
<1>3. QED BY <1>2, IndInvHolds, PTL DEF Spec, StoredTwiceOnlyUnanswered
================================================================================
