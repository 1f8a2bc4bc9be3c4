------------------------------ MODULE AlertPromise ------------------------------
(***************************************************************************)
(* What the outbox promises the responders, without workers, leases,       *)
(* attempts or clocks: every alert has one verdict; it is called sent only *)
(* if somebody took the message, and then for good; resolving an incident  *)
(* withdraws all its pending alerts at once, and from then on no new       *)
(* provider call is started for it.                                        *)
(***************************************************************************)
CONSTANTS
    Incidents,      \* incident identities
    Transports,     \* every transport
    HandsetOnly     \* the transports the handset delivers

VARIABLES
    verdict,        \* verdict[o]: what the record says of alert o = <<incident, transport>>
    closed,         \* the incidents responders have resolved
    calls,          \* alerts with a provider call under way
    taken           \* alerts somebody took for delivery

promiseVars == <<verdict, closed, calls, taken>>

Alerts == Incidents \X Transports

Verdict == {"none", "pending", "sent", "abandoned", "withdrawn"}

PInit ==
    /\ verdict = [o \in Alerts |-> "none"]
    /\ closed = {}
    /\ calls = {}
    /\ taken = {}

\* A trigger raises alerts of an incident that has none and is not closed.
Raise(i, S) ==
    /\ i \notin closed
    /\ \A o \in {i} \X Transports : verdict[o] = "none"
    /\ verdict' = [o \in Alerts |->
                      IF o \in {i} \X S THEN "pending" ELSE verdict[o]]
    /\ UNCHANGED <<closed, calls, taken>>

\* A provider call starts for a pending alert of an open incident only.
Call(o) ==
    /\ verdict[o] = "pending"
    /\ o[1] \notin closed
    /\ o[2] \notin HandsetOnly
    /\ calls' = calls \cup {o}
    /\ UNCHANGED <<verdict, closed, taken>>

\* A call ends, or one of several does; the message may have been taken, which
\* its caller need not learn.
Answer(o) ==
    /\ o \in calls
    /\ calls' \in {calls, calls \ {o}}
    /\ taken' \in {taken, taken \cup {o}}
    /\ UNCHANGED <<verdict, closed>>

\* The record says sent; a withdrawn alert that had got through after all is
\* corrected.
Confirm(o) ==
    /\ verdict[o] \in {"pending", "withdrawn"}
    /\ o \in taken
    /\ verdict' = [verdict EXCEPT ![o] = "sent"]
    /\ UNCHANGED <<closed, calls, taken>>

\* The handset reports that its SIM sent the alert.
Report(o) ==
    /\ o[2] \in HandsetOnly
    /\ verdict[o] \in {"pending", "withdrawn"}
    /\ verdict' = [verdict EXCEPT ![o] = "sent"]
    /\ taken' = taken \cup {o}
    /\ UNCHANGED <<closed, calls>>

Abandon(o) ==
    /\ verdict[o] = "pending"
    /\ verdict' = [verdict EXCEPT ![o] = "abandoned"]
    /\ UNCHANGED <<closed, calls, taken>>

\* An operator re-queues an abandoned alert; this may race with the closing of
\* its incident.
Reopen(o) ==
    /\ verdict[o] = "abandoned"
    /\ verdict' = [verdict EXCEPT ![o] = "pending"]
    /\ UNCHANGED <<closed, calls, taken>>

Close(i) ==
    /\ i \notin closed
    /\ closed' = closed \cup {i}
    /\ verdict' = [o \in Alerts |->
                      IF o[1] = i /\ verdict[o] = "pending" THEN "withdrawn"
                                                            ELSE verdict[o]]
    /\ UNCHANGED <<calls, taken>>

PNext ==
    \/ \E i \in Incidents : Close(i) \/ \E S \in SUBSET Transports : Raise(i, S)
    \/ \E o \in Alerts : Call(o) \/ Answer(o) \/ Confirm(o) \/ Report(o) \/ Abandon(o)
                         \/ Reopen(o)

PSpec == PInit /\ [][PNext]_promiseVars
================================================================================
