----------------------------- MODULE LocationWatch -----------------------------
(***************************************************************************)
(* The handset's location watch (LocationWatchdog.kt, with the resolved    *)
(* marker of AlertLocation.kt and the push handler of CapturePush.kt)      *)
(* composed with the server's incident record (CasIncident).               *)
(*                                                                         *)
(* The alert thread starts the watch when the trigger is answered.  While  *)
(* it runs, movements and a periodic timer post fixes; the answer to a     *)
(* post, or a push, tells the handset that the incident is over.  Posts,   *)
(* answers and pushes take their time or are lost; other threads run in    *)
(* between.  Times are fixes' capture times only; the 30 s frequency cap,  *)
(* distances and the marker's 10 min lifetime, which outlasts every HTTP   *)
(* answer (10 s), are left out.                                            *)
(***************************************************************************)
EXTENDS CasIncident

CONSTANTS
    Handset,        \* the phone that is modelled
    MaxTimers,      \* bound: timer callbacks armed, and captures running
    MaxDeaths       \* bound: process deaths

ASSUME HandsetIsPhone == Handset \in Phones
ASSUME WatchBoundsNat == MaxTimers \in Nat \ {0} /\ MaxDeaths \in Nat

VARIABLES
    answer,     \* the incident a trigger was answered with, not yet acted on
    watched,    \* watchedIncidentId, NoId for null
    anchor,     \* anchor: the last fix the watch believes the server has
    post,       \* the location post in flight (postInFlight)
    marked,     \* incidents ResolvedWatchGuard has a marker for
    pushes,     \* incident-resolved pushes under way
    armed,      \* periodicTick callbacks waiting in the handler
    capturing,  \* threads of periodicTick capturing a fix
    deaths      \* process deaths so far

watch == <<watched, anchor, armed>>

handsetVars == <<answer, watch, post, marked, pushes, capturing, deaths>>

watchVars == <<incidentVars, handsetVars>>

NoPost == [at |-> "none"]

\* A post and, once the server has handled it, its answer.
Post == [at : {"sent", "STORED", "STALE_IGNORED", "INCIDENT_INACTIVE"},
         incident : Ids, fix : Times]

WatchInit ==
    /\ Init
    /\ answer = NoId /\ watched = NoId /\ anchor = NoFix
    /\ post = NoPost
    /\ marked = {} /\ pushes = {}
    /\ armed = 0 /\ capturing = 0
    /\ deaths = 0

--------------------------------------------------------------------------------
(* The alert thread and the server.                                        *)

\* AlertSender.trigger: one alert attempt at a time (alertInFlight).
SendTrigger ==
    /\ answer = NoId
    /\ \E fix \in Times \cup {NoFix} : BeginTrigger(Handset, fix)
    /\ UNCHANGED handsetVars

\* The trigger commits; its answer arrives or is lost.
TriggerAnswered ==
    /\ CommitTrigger(Handset)
    /\ \/ answer' = IF trigger[Handset].active = NoId THEN rows' ELSE trigger[Handset].active
       \/ UNCHANGED answer
    /\ UNCHANGED <<watch, post, marked, pushes, capturing, deaths>>

\* appendTransition pushes incident-resolved to the handsets after its commit.
ResolveAndPush(i) ==
    /\ Resolve(i)
    /\ pushes' = pushes \cup {i}
    /\ UNCHANGED <<answer, watch, post, marked, capturing, deaths>>

ServerStep ==
    \/ /\ \/ \E p \in Phones \ {Handset} :
                \/ \E fix \in Times \cup {NoFix} : BeginTrigger(p, fix)
                \/ CommitTrigger(p)
                \/ AbortTrigger(p)
          \/ AbortTrigger(Handset)
          \/ \E i \in Ids : Ack(i)
       /\ UNCHANGED handsetVars
    \/ \E i \in Ids : ResolveAndPush(i)

--------------------------------------------------------------------------------
(* LocationWatchdog.                                                       *)

\* stop: forget the incident and cancel the timer; a capture thread goes on.
Stop == watched' = NoId /\ armed' = 0 /\ UNCHANGED anchor

\* Mutant of StartWatch: the guard's marker is not asked.
StartWatchUnguarded ==
    LET i == answer IN
    /\ i # NoId
    /\ answer' = NoId
    /\ \/ watched = i /\ UNCHANGED watch
       \/ /\ watched # i
          /\ watched' = i /\ anchor' = NoFix /\ armed' = 1
       \/ watched # i /\ Stop
    /\ UNCHANGED <<incidentVars, post, marked, pushes, capturing, deaths>>

\* start, on the alert thread, with the answer of the trigger: keep a watch of the
\* same incident, replace that of another; a marked incident is not watched, nor
\* is anything without location permission or providers.
StartWatch ==
    LET i == answer IN
    /\ i # NoId
    /\ answer' = NoId
    /\ \/ watched = i /\ UNCHANGED watch
       \/ /\ watched # i
          /\ i \notin marked
          /\ watched' = i /\ anchor' = NoFix /\ armed' = 1
       \/ watched # i /\ Stop
    /\ UNCHANGED <<incidentVars, post, marked, pushes, capturing, deaths>>

\* Mutant of ReceivePush: a push stops whatever is watched.
ReceivePushStopsAny(i) ==
    /\ i \in pushes
    /\ pushes' = pushes \ {i}
    /\ marked' = marked \cup {i}
    /\ Stop
    /\ UNCHANGED <<incidentVars, answer, post, capturing, deaths>>

\* stopForIncident: mark first, then stop the watch of this incident only.
ReceivePush(i) ==
    /\ i \in pushes
    /\ pushes' = pushes \ {i}
    /\ marked' = marked \cup {i}
    /\ \/ watched = i /\ Stop
       \/ watched # i /\ UNCHANGED watch
    /\ UNCHANGED <<incidentVars, answer, post, capturing, deaths>>

LosePush(i) ==
    /\ i \in pushes
    /\ pushes' = pushes \ {i}
    /\ UNCHANGED <<incidentVars, answer, watch, post, marked, capturing, deaths>>

\* post: nothing while another post is in flight, or when nothing is watched.
SendPost(fix) ==
    post' = IF post = NoPost /\ watched # NoId
            THEN [at |-> "sent", incident |-> watched, fix |-> fix]
            ELSE post

\* onMovementFix, a fix newer than the anchor.
OnMovementFix(fix) ==
    /\ watched # NoId /\ post = NoPost
    /\ anchor = NoFix \/ fix > anchor
    /\ SendPost(fix)
    /\ UNCHANGED <<incidentVars, answer, watch, marked, pushes, capturing, deaths>>

\* periodicTick: a fresh enough anchor only re-arms the timer, otherwise a thread
\* captures a fix.
PeriodicTick ==
    /\ armed > 0 /\ capturing < MaxTimers
    /\ armed' = armed - 1
    /\ capturing' = capturing + 1
    /\ UNCHANGED <<incidentVars, answer, watched, anchor, post, marked, pushes, deaths>>

\* Mutant of CaptureDone: the timer is re-armed only after a post.
CaptureDoneOrGivenUp ==
    /\ capturing > 0
    /\ capturing' = capturing - 1
    /\ \/ UNCHANGED <<post, armed>>
       \/ /\ \E fix \in Times : SendPost(fix)
          /\ armed' = IF watched # NoId /\ armed < MaxTimers THEN armed + 1 ELSE armed
    /\ UNCHANGED <<incidentVars, answer, watched, anchor, marked, pushes, deaths>>

\* Mutant of CaptureDone: a capture without a fix is posted all the same.
CaptureDonePostsNull ==
    /\ capturing > 0
    /\ capturing' = capturing - 1
    /\ \E fix \in Times \cup {NoFix} : SendPost(fix)
    /\ armed' = IF watched # NoId /\ armed < MaxTimers THEN armed + 1 ELSE armed
    /\ UNCHANGED <<incidentVars, answer, watched, anchor, marked, pushes, deaths>>

\* The capture ends, with a fix to post or none, and the timer is armed again
\* unless the watch was stopped (handler is null).
CaptureDone ==
    /\ capturing > 0
    /\ capturing' = capturing - 1
    /\ UNCHANGED post \/ \E fix \in Times : SendPost(fix)
    /\ armed' = IF watched # NoId /\ armed < MaxTimers THEN armed + 1 ELSE armed
    /\ UNCHANGED <<incidentVars, answer, watched, anchor, marked, pushes, deaths>>

\* The 60 min cap, on a tick or a movement.
DurationCap ==
    /\ watched # NoId
    /\ Stop
    /\ UNCHANGED <<incidentVars, answer, post, marked, pushes, capturing, deaths>>

\* The server handles the post.
HandlePost ==
    LET i == post.incident IN
    /\ post.at = "sent"
    /\ PostLocation(i, post.fix)
    /\ post' = [post EXCEPT !.at =
                   IF ~IsActive(i) THEN "INCIDENT_INACTIVE"
                   ELSE IF NewerFix(row[i].fix, post.fix) THEN "STORED"
                   ELSE "STALE_IGNORED"]
    /\ UNCHANGED <<answer, watch, marked, pushes, capturing, deaths>>

\* The post's thread gets the answer: a fix the server has becomes the anchor, an
\* inactive incident stops the watch.
ReceivePostAnswer ==
    /\ post.at \in {"STORED", "STALE_IGNORED", "INCIDENT_INACTIVE"}
    /\ post' = NoPost
    /\ IF post.at = "INCIDENT_INACTIVE" THEN Stop
       ELSE anchor' = post.fix /\ UNCHANGED <<watched, armed>>
    /\ UNCHANGED <<incidentVars, answer, marked, pushes, capturing, deaths>>

\* No answer within 10 s: the watch goes on.
PostFails ==
    /\ post # NoPost
    /\ post' = NoPost
    /\ UNCHANGED <<incidentVars, answer, watch, marked, pushes, capturing, deaths>>

\* The device credential was revoked (401).
CredentialRejected ==
    /\ post.at = "sent"
    /\ post' = NoPost
    /\ Stop
    /\ UNCHANGED <<incidentVars, answer, marked, pushes, capturing, deaths>>

\* The watch is in-process by design: a death ends it, and forgets the markers.
ProcessDies ==
    /\ deaths < MaxDeaths
    /\ deaths' = deaths + 1
    /\ answer' = NoId /\ watched' = NoId /\ anchor' = NoFix
    /\ post' = NoPost
    /\ marked' = {}
    /\ armed' = 0 /\ capturing' = 0
    /\ UNCHANGED <<incidentVars, pushes>>

--------------------------------------------------------------------------------

WatchNext ==
    \/ SendTrigger \/ TriggerAnswered \/ ServerStep
    \/ StartWatch
    \/ \E i \in Ids : ReceivePush(i) \/ LosePush(i)
    \/ \E fix \in Times : OnMovementFix(fix)
    \/ PeriodicTick \/ CaptureDone \/ DurationCap
    \/ HandlePost \/ ReceivePostAnswer \/ PostFails \/ CredentialRejected
    \/ ProcessDies

WatchSpec == WatchInit /\ [][WatchNext]_watchVars

\* The timer fires, captures end and now and then yield a fix, and a post that is
\* tried again and again is answered.  Pushes, movements and the cap are not
\* relied upon.
WatchFairSpec ==
    /\ WatchSpec
    /\ WF_watchVars(PeriodicTick)
    /\ WF_watchVars(CaptureDone)
    /\ SF_watchVars(CaptureDone /\ post = NoPost /\ post' # NoPost)
    /\ SF_watchVars(HandlePost)
    /\ SF_watchVars(ReceivePostAnswer)

--------------------------------------------------------------------------------
(* Correctness.                                                            *)

WatchTypeOK ==
    /\ TypeOK
    /\ {answer, watched} \subseteq Ids \cup {NoId}
    /\ anchor \in Times \cup {NoFix}
    /\ post \in Post \cup {NoPost}
    /\ {marked, pushes} \subseteq SUBSET Ids
    /\ {armed, capturing} \subseteq 0..MaxTimers
    /\ deaths \in 0..MaxDeaths

\* The resolved push wins in both orders: whether it comes before or after the
\* trigger's answer, the handset does not watch an incident it was told is over.
ResolvedPushWins == \A i \in marked : watched # i

\* The watch exists only while the incident is active: without any push, and
\* wherever the handset stays, the watch of a resolved incident ends.
WatchEnds == \A i \in Ids : (watched = i /\ IsResolved(i)) ~> watched # i

\* stopForIncident: word of an incident's end must not kill the watch of another one.
\* A push keeps to it; the answer to a post does not when the watch was replaced while
\* the post was under way.
NewsEndsItsOwnWatch ==
    [][/\ watched # NoId /\ watched' = NoId
       /\ pushes' # pushes \/ (post.at = "INCIDENT_INACTIVE" /\ post' = NoPost)
       => \/ IsResolved(watched)
          \/ pushes' = pushes /\ post.incident # watched]_watchVars
================================================================================
