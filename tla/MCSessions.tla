------------------------------ MODULE MCSessions ------------------------------
(* One instance of each of the smaller parts around the alert path - the handset's *)
(* updates, credential, status line and SMS segments, the console's session, the    *)
(* mailboxes and their probe - for a single TLC run: a behaviour is one of the part *)
(* `which` names, the others keep their first state.                                *)
EXTENDS AppUpdates, DeviceCredential, SendStatusLine, SmsSegmenter, ConsoleSession, EmailHealth,
        Readiness

VARIABLE which

sessionsVars ==
    <<updVars, credVars, lineVars, segmentVars, consoleVars, healthVars,
      readinessVars, which>>

Is(p) == which = p
Parts == {"updates", "credential", "line", "segments", "console", "mailboxes", "edits", "fieldrun"}

SessionsInit ==
    /\ which \in Parts
    /\ UpdInit /\ CredInit /\ LineInit /\ ConsoleInit /\ HealthInit /\ ReadinessInit
    /\ IF Is("segments") THEN SegmentInit
       ELSE /\ body = <<"basic">> /\ encoding = Classify(body)
            /\ index = 0 /\ ends = <<>> /\ size = 0 /\ planned = FALSE
    /\ ~Is("console") => token = NoToken
    /\ ~Is("mailboxes") => envMail = "none" /\ dead = {}

Keep(p, vars) == IF Is(p) THEN TRUE ELSE UNCHANGED vars
OnlyItsPart ==
    /\ Keep("updates", updVars) /\ Keep("credential", credVars) /\ Keep("line", lineVars)
    /\ Keep("segments", segmentVars) /\ Keep("console", consoleVars)
    /\ Keep("mailboxes", healthVars)
    /\ Is("edits") \/ Is("fieldrun") \/ UNCHANGED readinessVars
    /\ UNCHANGED which

SessionsNext ==
    /\ \/ Is("updates") /\ UpdNext
       \/ Is("credential") /\ CredNext
       \/ Is("line") /\ LineNext
       \/ Is("segments") /\ SegmentNext
       \/ Is("console") /\ ConsoleNext
       \/ Is("mailboxes") /\ HealthNext
       \/ Is("edits") /\ (LoadStep \/ EditStep)
       \/ Is("fieldrun") /\ (LoadStep \/ RunStep)
    /\ OnlyItsPart

\* UpdFairness and HealthFairness, for the part that moves.
SessionsFairness ==
    /\ \A d \in Downloads : /\ WF_updVars(Is("updates") /\ Step(d))
                            /\ WF_updVars(Is("updates") /\ Answer(d))
    /\ WF_healthVars(Is("mailboxes") /\ FireTimer)
    /\ WF_healthVars(Is("mailboxes") /\ ProbeStep)
    /\ WF_healthVars(Is("mailboxes") /\ MarkStopped)

SessionsSpec == SessionsInit /\ [][SessionsNext]_sessionsVars /\ SessionsFairness
=============================================================================
