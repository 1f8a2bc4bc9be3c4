----------------------------- MODULE SmtpSession -----------------------------
(* One message over one SMTP connection (lib/cas-smtp.ts): the dialogue, what it *)
(* puts on the wire and when, and the classification of every way it can end.    *)
(* A server answers each step with a code, or the socket fails.                  *)
EXTENDS Naturals, Sequences

VARIABLES
    smtp,      \* the session: its configuration and how far it is
    smtpEnd    \* how sendSmtpMessage ended, or None while it runs

smtpVars == <<smtp, smtpEnd>>

\* What the server may do at a step: the expected code, another code, or a failing socket.
Replies == {"ok", "452", "4xx", "5xx"}
SocketFailures == {"timeout", "closed", "malformed", "certificate"}

\* Mutant of Dialogue: port 587 is used as it is.
PlainSubmission(secure) ==
    (IF secure THEN <<"tls">> ELSE <<"connect">>)
    \o <<"greeting", "ehlo", "auth", "mail", "rcpt", "data", "message", "quit">>

\* connectSmtp and sendSmtpMessage: implicit TLS, or EHLO and a mandatory STARTTLS.
Dialogue(secure) ==
    (IF secure THEN <<"tls", "greeting", "ehlo">>
               ELSE <<"connect", "greeting", "ehlo", "starttls", "tls", "ehlo">>)
    \o <<"auth", "mail", "rcpt", "data", "message", "quit">>

\* Mutant of Classify: a server that does not answer is reported as a refusal.
SilenceIsRefusal(stage, event) ==
    IF event \in {"timeout", "closed"} THEN [class |-> "rejected", retryable |-> FALSE]
    ELSE [class |-> "network", retryable |-> TRUE]

\* classifySmtpError.
Classify(stage, event) ==
    CASE event \in {"4xx", "452"} /\ stage \in {"auth", "greeting", "ehlo", "starttls"} ->
             [class |-> "server-outage", retryable |-> TRUE]
      [] event = "452" -> [class |-> "rate-limited", retryable |-> TRUE]
      [] event = "4xx" -> [class |-> "server-outage", retryable |-> TRUE]
      [] event = "5xx" -> [class |-> IF stage = "auth" THEN "authentication" ELSE "rejected",
                           retryable |-> FALSE]
      [] event = "timeout" -> [class |-> "socket-timeout", retryable |-> TRUE]
      [] event = "certificate" -> [class |-> "rejected", retryable |-> FALSE]
      [] OTHER -> [class |-> "network", retryable |-> TRUE]

Pending == [class |-> "pending", retryable |-> FALSE]
NotConfigured == [class |-> "not-configured", retryable |-> FALSE]
Sent == [class |-> "sent", retryable |-> FALSE]

SmtpInit ==
    /\ smtp \in [secure : BOOLEAN, credentials : BOOLEAN, startTls : BOOLEAN,
                 at : {1}, tls : {FALSE}, exposed : {{}}, taken : {FALSE}]
    /\ smtpEnd = Pending

Stage == Dialogue(smtp.secure)[smtp.at]

\* Without user and password nothing is ever connected.
RefuseUnconfigured ==
    /\ smtpEnd = Pending /\ ~smtp.credentials
    /\ smtpEnd' = NotConfigured
    /\ UNCHANGED smtp

\* What the client writes at a stage; the rest of the dialogue tells nobody anything.
Written(stage) == CASE stage = "auth" -> {"password"} [] stage = "rcpt" -> {"recipient"}
                    [] stage = "message" -> {"alert"} [] OTHER -> {}

\* The capability list of the first EHLO must name STARTTLS.
CleartextOnly == Stage = "starttls" /\ ~smtp.startTls

RefuseCleartext ==
    /\ smtpEnd = Pending /\ smtp.credentials /\ CleartextOnly
    /\ smtpEnd' = NotConfigured
    /\ UNCHANGED smtp

\* The next step answered as hoped. The server owns the message once it has said 250 to it.
StepAnswered ==
    /\ smtpEnd = Pending /\ smtp.credentials /\ ~CleartextOnly
    /\ LET last == smtp.at = Len(Dialogue(smtp.secure)) IN
         /\ smtp' = [smtp EXCEPT !.at = IF last THEN @ ELSE @ + 1,
                                 !.tls = @ \/ Stage = "tls",
                                 !.exposed = IF smtp.tls THEN @ ELSE @ \cup Written(Stage),
                                 !.taken = @ \/ Stage = "message"]
         /\ smtpEnd' = IF last THEN Sent ELSE Pending

\* The step failed. The message may have been taken although its 250 never arrived; a failed
\* QUIT is ignored.
StepFailed(event) ==
    /\ smtpEnd = Pending /\ smtp.credentials /\ ~CleartextOnly
    /\ event \in Replies \cup {"malformed"} => Stage \notin {"tls", "connect"}
    /\ event = "certificate" => Stage = "tls"
    /\ \E taken \in IF Stage = "message" /\ event \in SocketFailures
                    THEN BOOLEAN ELSE {smtp.taken} :
         smtp' = [smtp EXCEPT !.taken = taken,
                              !.exposed = IF smtp.tls THEN @ ELSE @ \cup Written(Stage)]
    /\ smtpEnd' = IF Stage = "quit" THEN Sent ELSE Classify(Stage, event)

SmtpNext ==
    \/ RefuseUnconfigured \/ RefuseCleartext \/ StepAnswered
    \/ \E event \in (Replies \ {"ok"}) \cup SocketFailures : StepFailed(event)

SmtpSpec == SmtpInit /\ [][SmtpNext]_smtpVars

(* A permanent failure is never the report of a message the server took: such a *)
(* report would keep a delivered alert in the dead letters, and every success   *)
(* reported was one (sendSmtpMessage, classifySmtpError; the QUIT is best       *)
(* effort). Only a transient failure may hide an acceptance.                    *)
EndIsTruthful ==
    /\ smtpEnd = Sent => smtp.taken
    /\ smtpEnd \notin {Pending, Sent} /\ smtp.taken => smtpEnd.retryable

(* Neither the password nor the recipient nor the alert crosses the connection  *)
(* before it is encrypted, whatever the server advertises (connectSmtp).        *)
NothingInClear == smtp.exposed = {}

\* One dialogue keeps its secrets and reports its own end.
DialogueIsSafe == EndIsTruthful /\ NothingInClear
=============================================================================
