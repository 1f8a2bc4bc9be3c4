--------------------------- MODULE ProviderDelivery ---------------------------
(* What happens between the claim of an outbox row and its SENT mark: one row is *)
(* delivered to its recipients one by one, through a gateway with an idempotency *)
(* contract, the WhatsApp API, the environment's mailbox or the console's        *)
(* mailboxes (lib/delivery-providers.ts). Roster and mailboxes change while a    *)
(* send is under way, the lease runs out and a second worker delivers the same   *)
(* row, processes die. CasOutbox models the claims themselves; here a claim is   *)
(* only what a send needs of it.                                                 *)
EXTENDS Naturals, FiniteSets

CONSTANTS
    Recipients,    \* addresses on the row's channel
    EnvRecipients, \* the CAS_<channel>_RECIPIENTS list
    Workers,       \* server processes, each with one worker
    MailboxHosts,  \* hosts of the console's mailboxes
    MaxSends,      \* bound: claims of the row
    MaxChanges,    \* bound: roster and mailbox edits
    MaxRestarts,   \* bound: processes that die
    None

VARIABLES
    wiring,   \* loadConfiguredProviders: transport, environment path, replay contract
    url,      \* where each process's gateway URL points: a provider or the dev sink
    mailbox,  \* cas_email_accounts: the host in each slot
    roster,   \* enabled responders' addresses on the channel; None: no responder at all
    ledger,   \* cas_provider_deliveries: provenance recorded per (row, recipient)
    known,    \* idempotency keys each gateway endpoint has accepted
    row,      \* the outbox row, its receipt and the recipients its send resolved
    job,      \* the send each worker is performing
    got,      \* history: identities that really took the alert for a recipient
    copies,   \* history: copies a recipient was really sent (the sink sends none)
    excuse,   \* history: mishaps that keep a later attempt from knowing of an acceptance
    used      \* bound counters

pdVars == <<wiring, url, mailbox, roster, ledger, known, row, job, got, copies, excuse, used>>

MailSlots == {"primary", "fallback"}
Endpoints == {"gateway", "dev-sink"}
EnvMailbox == "smtp-env"
Identities == Endpoints \cup {EnvMailbox} \cup MailboxHosts

ASSUME ProviderAssumption ==
    /\ EnvRecipients \subseteq Recipients /\ IsFiniteSet(Workers)
    /\ None \notin Identities \cup Workers
    /\ MailboxHosts \cap (Endpoints \cup {EnvMailbox}) = {}

\* EMAIL may have a gateway URL or a mailbox in the environment, never both
\* (assertUnambiguousEmailConfig); the SMS and XMPP gateways and the mail gateway owe the
\* replay contract, Meta's API has none but a gateway in front of it may.
Wirings ==
    {w \in [transport : {"GATEWAY", "WHATSAPP", "EMAIL"},
            env : {"none", "gateway", "smtp", "harness"}, replays : BOOLEAN] :
        /\ w.env = "smtp" => w.transport = "EMAIL"
        /\ w.transport # "WHATSAPP" \/ w.env \in {"none", "harness"} => w.replays}

\* Without a gateway in the environment nothing reads the URL.
Urls == IF wiring.env = "gateway" THEN Endpoints ELSE {"gateway"}

NoJob == [pc |-> "idle", path |-> None, to |-> {}, todo |-> {}, cur |-> None,
          primary |-> None, fallback |-> None, by |-> {}, accepted |-> None]

\* Mailboxes are stored at the start only where the environment has none (a bound).
PDInit ==
    /\ wiring \in Wirings
    /\ url \in {[w \in Workers |-> e] : e \in Urls}
    /\ mailbox \in {[s \in MailSlots |-> None]} \cup
                   {m \in [MailSlots -> MailboxHosts] : m["primary"] # m["fallback"]}
    /\ mailbox["primary"] # None => wiring.transport = "EMAIL" /\ wiring.env = "none"
    /\ roster \in {None, Recipients}
    /\ ledger = [r \in Recipients |-> None]
    /\ known = [e \in Endpoints |-> {}]
    /\ row = [state |-> "DUE", owner |-> None, receipt |-> {}, to |-> {}]
    /\ job = [w \in Workers |-> NoJob]
    /\ got = [r \in Recipients |-> {}]
    /\ copies = [r \in Recipients |-> 0]
    /\ excuse = [r \in Recipients |-> 0]
    /\ used = [sends |-> 0, changes |-> 0, restarts |-> 0]

Outside == <<wiring, url, mailbox, roster, used>>   \* what a send does not touch
World == <<known, got, copies, excuse>>              \* what only an attempt touches

Goto(w, change) == job' = [job EXCEPT ![w] = change]

(* --- claim, failure, completion -------------------------------------------- *)

\* A due row, or one whose claim has outlived its lease.
Claim(w) ==
    /\ job[w].pc = "idle" /\ row.state \in {"DUE", "PROCESSING"}
    /\ used.sends < MaxSends /\ used' = [used EXCEPT !.sends = @ + 1]
    /\ row' = [row EXCEPT !.state = "PROCESSING", !.owner = w]
    /\ Goto(w, [NoJob EXCEPT !.pc = "roster"])
    /\ UNCHANGED <<wiring, url, mailbox, roster, ledger, World>>

StillOwns(w) == row.state = "PROCESSING" /\ row.owner = w

\* The worker's catch block: the row waits for its next attempt, whatever the error says of
\* being permanent, if the claim still holds.
Fail(w) ==
    /\ row' = IF StillOwns(w) THEN [row EXCEPT !.state = "DUE", !.owner = None] ELSE row
    /\ Goto(w, NoJob)

\* The receipt a path returns.
Receipt(w) ==
    CASE job[w].path = "console" -> job[w].by
      [] job[w].path = "env" /\ wiring.env = "smtp" -> {EnvMailbox}
      [] OTHER -> IF "dev-sink" \in job[w].by THEN {"dev-sink"} ELSE {"gateway"}

Finish(w) ==
    /\ job[w].pc = "next" /\ job[w].todo = {}
    /\ row' = IF StillOwns(w)
              THEN [row EXCEPT !.state = "SENT", !.owner = None,
                               !.receipt = Receipt(w), !.to = job[w].to]
              ELSE row
    /\ Goto(w, NoJob)
    /\ UNCHANGED <<Outside, ledger, World>>

(* --- configuration is read at send time ------------------------------------ *)

\* createCasDeliverySender: no responder at all means the environment's list; no adapter
\* for the transport, or nobody to send to, is an error.
ReadRoster(w) ==
    /\ job[w].pc = "roster"
    /\ LET to == IF roster = None THEN EnvRecipients ELSE roster
           consoleEmail == wiring.transport = "EMAIL" /\ wiring.env # "harness"
           unconfigured == wiring.transport # "EMAIL" /\ wiring.env = "none" IN
         IF unconfigured \/ (to = {} /\ ~consoleEmail) THEN Fail(w)
         ELSE /\ Goto(w, [job[w] EXCEPT !.to = to, !.todo = to, !.path = "env",
                             !.pc = CASE wiring.env = "harness" -> "sink"
                                      [] consoleEmail -> "primary" [] OTHER -> "next"])
              /\ UNCHANGED row
    /\ UNCHANGED <<Outside, ledger, World>>

\* createConsoleEmailProvider: a stored primary owns the channel.
ReadPrimary(w) ==
    /\ job[w].pc = "primary"
    /\ CASE mailbox["primary"] # None ->
              Goto(w, [job[w] EXCEPT !.primary = mailbox["primary"], !.path = "console",
                                     !.pc = "fallback row"]) /\ UNCHANGED row
         [] mailbox["primary"] = None /\ (wiring.env = "none" \/ job[w].to = {}) -> Fail(w)
         [] OTHER -> Goto(w, [job[w] EXCEPT !.pc = "next"]) /\ UNCHANGED row
    /\ UNCHANGED <<Outside, ledger, World>>

ReadFallback(w) ==
    /\ job[w].pc = "fallback row"
    /\ IF job[w].to = {} THEN Fail(w)
       ELSE Goto(w, [job[w] EXCEPT !.fallback = mailbox["fallback"], !.pc = "next"])
            /\ UNCHANGED row
    /\ UNCHANGED <<Outside, ledger, World>>

\* The harness's adapter: the whole list into the sink's inbox in one go, or the failure drill.
FillSink(w) ==
    /\ job[w].pc = "sink"
    /\ \/ /\ known' = [known EXCEPT !["dev-sink"] = @ \cup job[w].to]
          /\ got' = [r \in Recipients |-> got[r] \cup IF r \in job[w].to THEN {"dev-sink"} ELSE {}]
          /\ Goto(w, [job[w] EXCEPT !.pc = "next", !.todo = {}, !.by = {"dev-sink"}])
          /\ UNCHANGED row
       \/ Fail(w) /\ UNCHANGED <<known, got>>
    /\ UNCHANGED <<Outside, ledger, copies, excuse>>

(* --- one recipient ----------------------------------------------------------- *)

ByMail(w) == job[w].path = "console" \/ wiring.env = "smtp"
UsesLedger(w) == ByMail(w) \/ wiring.transport = "WHATSAPP"

\* Mutant of AlreadyAccepted: the ledger is not consulted.
NeverAccepted(r) == FALSE

\* deliveryAcceptance: the ledger answers for a recipient somebody has already accepted.
AlreadyAccepted(r) == ledger[r] # None

\* Mutant of SkipProvenance: a retry that skips everybody remembers nobody.
SkipForgets(r) == {}

\* Mutant of SkipProvenance: the ledger is read by row, without the recipient.
WholeLedger(r) == {ledger[x] : x \in Recipients}

\* What a skipped recipient adds to the receipt.
SkipProvenance(r) == {ledger[r]}

\* History. A recipient is being attempted by others; an attempt over a path that does not
\* share what the earlier one left behind: gateways keep keys, mailboxes use the ledger.
OthersAt(w, r) == {v \in Workers \ {w} : job[v].cur = r}
Switched(w, r) == /\ wiring.transport = "EMAIL" /\ copies[r] > 0
                  /\ IF ByMail(w) THEN r \in known["gateway"] ELSE r \notin known["gateway"]
Excuse(r, n) == excuse' = [excuse EXCEPT ![r] = @ + n]
Count(condition) == IF condition THEN 1 ELSE 0

TakenBy(r, id) == got' = [got EXCEPT ![r] = @ \cup {id}]
OneMoreCopy(r) == copies' = [copies EXCEPT ![r] = @ + 1]

\* The roster's query has no order, so the recipients are taken in any order.
NextRecipient(w, r) ==
    /\ job[w].pc = "next" /\ r \in job[w].todo
    /\ IF UsesLedger(w) /\ AlreadyAccepted(r)
       THEN /\ Goto(w, [job[w] EXCEPT !.todo = @ \ {r}, !.by = @ \cup SkipProvenance(r)])
            /\ UNCHANGED excuse
       ELSE /\ Goto(w, [job[w] EXCEPT !.cur = r, !.pc = IF ByMail(w) THEN "mail" ELSE "post"])
            /\ Excuse(r, Count(OthersAt(w, r) # {}))
    /\ UNCHANGED <<Outside, ledger, row, known, got, copies>>

Accepted(w, id) == [job[w] EXCEPT !.pc = "record", !.accepted = id]

\* sendSmtpMessage towards one mailbox, its four ends as in SmtpSession: taken and said so,
\* taken with the 250 lost, refused for now, refused for good.
MailAttempt(w, host, lost) ==
    LET r == job[w].cur IN
    \/ /\ TakenBy(r, host) /\ OneMoreCopy(r)
       /\ \/ /\ Goto(w, Accepted(w, host)) /\ UNCHANGED row
             /\ Excuse(r, Count(Switched(w, r)))
          \/ /\ lost /\ Excuse(r, 1 + Count(Switched(w, r)))
    \/ /\ lost /\ UNCHANGED <<got, copies, excuse>>

PrimaryHost(w) == IF job[w].path = "console" THEN job[w].primary ELSE EnvMailbox

Mail(w) ==
    /\ job[w].pc = "mail"
    /\ MailAttempt(w, PrimaryHost(w),
          IF job[w].path = "console" /\ job[w].fallback # None
          THEN Goto(w, [job[w] EXCEPT !.pc = "mail fallback"]) /\ UNCHANGED row
          ELSE Fail(w))
    /\ UNCHANGED <<Outside, ledger, known>>

MailFallback(w) ==
    /\ job[w].pc = "mail fallback"
    /\ MailAttempt(w, job[w].fallback, Fail(w))
    /\ UNCHANGED <<Outside, ledger, known>>

(* --- a POST to a gateway ------------------------------------------------------ *)

\* Whether this endpoint recognises the key: the contract, or the sink's own memory.
Replays(e) == e = "dev-sink" \/ wiring.replays

\* Mutant of Delivered: any 409 counts as a replay.
AnyConflictDelivered(answer) == answer \in {"accepted", "replayed", "conflict"}

\* classifyStatus: 2xx, or a 409 that carries the replay header.
Delivered(answer) == answer \in {"accepted", "replayed"}

AfterPost(w, answer) ==
    IF ~Delivered(answer) THEN Fail(w)
    ELSE /\ UNCHANGED row
         /\ IF wiring.transport = "WHATSAPP" THEN Goto(w, Accepted(w, url[w]))
            ELSE Goto(w, [job[w] EXCEPT !.pc = "next", !.cur = None, !.todo = @ \ {job[w].cur},
                                        !.by = @ \cup {url[w]}])

\* The endpoint takes the message, or recognises its key; its answer may be lost or late. It
\* may also refuse: an outage, a rate limit, a redirect, a conflict of another kind.
Post(w) ==
    /\ job[w].pc = "post"
    /\ LET r == job[w].cur
           e == url[w]
           repeat == Replays(e) /\ r \in known[e] IN
         \/ /\ known' = [known EXCEPT ![e] = @ \cup {r}]
            /\ TakenBy(r, e)
            /\ IF repeat \/ e = "dev-sink" THEN UNCHANGED copies ELSE OneMoreCopy(r)
            /\ \/ /\ AfterPost(w, IF repeat THEN "replayed" ELSE "accepted")
                  /\ Excuse(r, Count(Switched(w, r)))
               \/ /\ Fail(w) /\ Excuse(r, Count(Switched(w, r)) + Count(~Replays(e)))
         \/ /\ AfterPost(w, "conflict") \/ Fail(w)
            /\ UNCHANGED World
    /\ UNCHANGED <<Outside, ledger>>

\* Mutant of Provenance: the primary is recorded whoever accepted.
AlwaysPrimary(w) == IF job[w].path = "console" THEN job[w].primary ELSE job[w].accepted

\* recordDeliveryAcceptance: ON CONFLICT DO NOTHING; the insert may throw.
Provenance(w) == job[w].accepted

Record(w) ==
    /\ job[w].pc = "record"
    /\ LET r == job[w].cur IN
         \/ /\ ledger' = [ledger EXCEPT ![r] = IF @ = None THEN Provenance(w) ELSE @]
            /\ Goto(w, [job[w] EXCEPT !.pc = "next", !.cur = None, !.accepted = None,
                                      !.todo = @ \ {r}, !.by = @ \cup {Provenance(w)}])
            /\ UNCHANGED <<row, excuse>>
         \/ Fail(w) /\ Excuse(r, 1) /\ UNCHANGED ledger
    /\ UNCHANGED <<Outside, known, got, copies>>

(* --- operators and processes -------------------------------------------------- *)

Change == used.changes < MaxChanges /\ used' = [used EXCEPT !.changes = @ + 1]

EditMailbox(s, h) ==
    /\ Change /\ mailbox[s] # h /\ wiring.transport = "EMAIL"
    /\ mailbox' = [mailbox EXCEPT ![s] = h]
    /\ UNCHANGED <<wiring, url, roster, ledger, row, job, World>>

EditRoster(who) ==
    /\ Change /\ roster # who
    /\ roster' = who
    /\ UNCHANGED <<wiring, url, mailbox, ledger, row, job, World>>

\* The process dies and comes back, perhaps with another URL; a sink inside it forgets.
Restart(w, e) ==
    /\ used.restarts < MaxRestarts /\ used' = [used EXCEPT !.restarts = @ + 1]
    /\ url' = [url EXCEPT ![w] = e]
    /\ known' = [known EXCEPT !["dev-sink"] = {}]
    /\ IF job[w].pc = "record" THEN Excuse(job[w].cur, 1) ELSE UNCHANGED excuse
    /\ Goto(w, NoJob)
    /\ UNCHANGED <<wiring, mailbox, roster, ledger, row, got, copies>>

Send(w) ==
    \/ ReadRoster(w) \/ ReadPrimary(w) \/ ReadFallback(w) \/ FillSink(w)
    \/ (\E r \in Recipients : NextRecipient(w, r))
    \/ Mail(w) \/ MailFallback(w) \/ Post(w) \/ Record(w) \/ Finish(w)

PDNext ==
    \/ \E w \in Workers : Claim(w) \/ Send(w) \/ (\E e \in Urls : Restart(w, e))
    \/ \E s \in MailSlots, h \in MailboxHosts \cup {None} : EditMailbox(s, h)
    \/ \E who \in (SUBSET Recipients) \cup {None} : EditRoster(who)

PDSpec == PDInit /\ [][PDNext]_pdVars

(* --- properties ----------------------------------------------------------------- *)

PDTypeOK ==
    /\ wiring \in Wirings /\ url \in [Workers -> Endpoints]
    /\ mailbox \in [MailSlots -> MailboxHosts \cup {None}]
    /\ roster \in (SUBSET Recipients) \cup {None}
    /\ ledger \in [Recipients -> Identities \cup {None}]
    /\ known \in [Endpoints -> SUBSET Recipients]
    /\ row \in [state : {"DUE", "PROCESSING", "SENT"}, owner : Workers \cup {None},
                receipt : SUBSET Identities, to : SUBSET Recipients]
    /\ \A w \in Workers : job[w].todo \subseteq job[w].to /\ job[w].by \subseteq Identities
    /\ got \in [Recipients -> SUBSET Identities]

\* The step that marks the row, by the worker that owns it.
Marks == row.state # "SENT" /\ row'.state = "SENT"

(* A row marked SENT was taken for every recipient its send had resolved, for at *)
(* least one, and a receipt that does not name the dev sink means that none of  *)
(* them was reached by the sink alone: a drill is never shown as a real         *)
(* delivery, also when a retry skipped or replayed what an earlier attempt or   *)
(* an earlier process had done (requireRecipients, classifyStatus,              *)
(* createWhatsAppProvider).                                                     *)
SentIsHonest ==
    [][Marks =>
        /\ row'.to # {}
        /\ \A r \in row'.to :
              got[r] # {} /\ ("dev-sink" \notin row'.receipt => got[r] # {"dev-sink"})]_pdVars

(* A receipt of the console's mailboxes names an account that took the alert    *)
(* for each recipient, whichever send and whichever of the two accounts it was, *)
(* although the accounts may have been replaced since                           *)
(* (createConsoleEmailProvider).                                                *)
ReceiptNamesAcceptors ==
    [][Marks => \A w \in Workers : row.owner = w /\ job[w].path = "console"
          => \A r \in row'.to : got[r] \cap row'.receipt # {}]_pdVars

(* The ledger's provenance is true: whoever it names really took the alert for  *)
(* that recipient (recordDeliveryAcceptance, called three ways).                *)
LedgerNamesAcceptor ==
    \A r \in Recipients : ledger[r] # None => ledger[r] \in got[r]

(* Every copy of an alert beyond the first is owed to a mishap of its own: the  *)
(* process died or the insert failed between acceptance and record, the 250 or  *)
(* the answer was lost, two workers were at the recipient at the same time, or  *)
(* the path was switched between a gateway, which keeps its own keys, and a     *)
(* mailbox, which uses the ledger. Nothing else repeats an alert, however often *)
(* it is retried.                                                               *)
CopiesNeedMishaps ==
    \A r \in Recipients : copies[r] > 0 => copies[r] <= 1 + excuse[r]

\* What a delivery tells is what happened: who took the alert, by whom, and why anybody got
\* it twice.
DeliveryIsHonest ==
    /\ []PDTypeOK /\ []LedgerNamesAcceptor /\ []CopiesNeedMishaps
    /\ SentIsHonest /\ ReceiptNamesAcceptors
=============================================================================
