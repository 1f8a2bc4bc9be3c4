------------------------------ MODULE MCServices ------------------------------
(* One instance of each independent part of the server, and of the console pages   *)
(* that only read it, for a single TLC run: a behaviour is one of the part `which`  *)
(* names, the others keep their first state.                                        *)
EXTENDS ProviderDelivery, SmtpSession, PushFanOut, BurstAlert, RetryTiming,
        SchemaBootstrap, IncidentBrowser, DeliveryWarnings, TLC

VARIABLE which

servicesVars == <<pdVars, smtpVars, pushVars, burstVars, timingVars,
                  bootVars, browserVars, warnVars, which>>

\* RetryTiming's Headers: a date that is past, none, half a minute, more than the cap.
RetryAfters == {-5000, 0, 30000, 999999}

Is(p) == which = p
Parts == {"providers", "smtp", "pushes", "bursts", "retries", "boots", "browser", "warnings"}

ServicesInit ==
    /\ which \in Parts
    /\ PDInit /\ SmtpInit /\ PushInit /\ BurstInit /\ TimingInit
    /\ BootInit /\ BrowserInit /\ WarnInit
    /\ ~Is("providers") =>
          /\ wiring = [transport |-> "GATEWAY", env |-> "none", replays |-> TRUE]
          /\ url = [w \in Workers |-> "gateway"] /\ mailbox = [s \in MailSlots |-> None]
          /\ roster = None
    /\ ~Is("boots") => tables = {} /\ ~drifted
    /\ ~Is("smtp") => smtp.secure /\ smtp.credentials /\ smtp.startTls

Keep(p, vars) == IF Is(p) THEN TRUE ELSE UNCHANGED vars
OnlyItsPart ==
    /\ Keep("providers", pdVars) /\ Keep("smtp", smtpVars)
    /\ Keep("pushes", pushVars) /\ Keep("bursts", burstVars) /\ Keep("retries", timingVars)
    /\ Keep("boots", bootVars) /\ Keep("browser", browserVars) /\ Keep("warnings", warnVars)
    /\ UNCHANGED which

ServicesSymmetry == Permutations(Workers) \cup Permutations(MailboxHosts)
                    \cup Permutations(Replicas)

ServicesNext ==
    /\ \/ Is("providers") /\ PDNext
       \/ Is("smtp") /\ SmtpNext
       \/ Is("pushes") /\ PushNext
       \/ Is("bursts") /\ BurstNext
       \/ Is("retries") /\ TimingNext
       \/ Is("boots") /\ BootNext
       \/ Is("browser") /\ BrowserNext
       \/ Is("warnings") /\ WarnNext
    /\ OnlyItsPart

ServicesSpec == ServicesInit /\ [][ServicesNext]_servicesVars
=============================================================================
