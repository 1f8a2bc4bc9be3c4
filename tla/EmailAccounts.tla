---------------------------- MODULE EmailAccounts ----------------------------
(* The console-managed mailboxes of the email channel: a primary and an optional *)
(* fallback row, replaced and deleted from the console while the delivery        *)
(* worker and the mailbox probe read them, each row with a query of its own.     *)
(* Two operators may use the page at the same time.                              *)
EXTENDS Naturals, FiniteSets

CONSTANTS
    MailHosts,    \* hosts an operator may type into the form
    AppPasswords, \* app passwords an operator may type into the form
    Operators,    \* consoles with the Email delivery page open
    MaxEdits,     \* bound: saves and deletions
    NoValue

ASSUME EmailAssumption == /\ NoValue \notin MailHosts \cup AppPasswords
                          /\ MaxEdits \in Nat

VARIABLES
    accounts,  \* cas_email_accounts: the row of each slot
    saving,    \* PUTs that have read the existing row and not yet written
    typed,     \* history: the password last supplied by anyone for the slot's row
    overrun,   \* history: slots holding a row whose base had changed before the write
    edits      \* bound counter

emailVars == <<accounts, saving, typed, overrun, edits>>

Slots == {"primary", "fallback"}
Account == [host : MailHosts, password : AppPasswords]
Idle == [slot |-> NoValue]

EmailTypeOK ==
    /\ accounts \in [Slots -> Account \cup {NoValue}]
    /\ \A o \in Operators : saving[o] = Idle
          \/ saving[o] \in [slot : Slots, row : Account, supplied : AppPasswords \cup {NoValue},
                              existing : Account \cup {NoValue}]
    /\ typed \in [Slots -> AppPasswords \cup {NoValue}]

EmailInit == /\ accounts = [s \in Slots |-> NoValue]
             /\ saving = [o \in Operators |-> Idle]
             /\ typed = [s \in Slots |-> NoValue] /\ overrun = {}
             /\ edits = 0

\* saveEmailAccount: one upsert.
SaveEmailAccount(slot, row) == accounts' = [accounts EXCEPT ![slot] = row]

\* deleteEmailAccount: one DELETE; the route answers 404 when nothing was stored.
DeleteEmailAccount(slot) ==
    /\ accounts[slot] # NoValue
    /\ accounts' = [accounts EXCEPT ![slot] = NoValue]

\* Mutant of PasswordFor: the stored row wins over the form.
StoredPasswordWins(supplied, existing) ==
    IF existing # NoValue THEN existing.password ELSE supplied

\* The two places a password may come from: the form or the row read before.
PasswordFor(supplied, existing) ==
    IF supplied # NoValue THEN supplied
    ELSE IF existing # NoValue THEN existing.password ELSE NoValue

\* Mutant of BeginPut: a form without a password is accepted for an empty slot.
BeginPutUnchecked(o, slot, host, supplied) ==
    /\ saving[o] = Idle /\ edits < MaxEdits
    /\ saving' = [saving EXCEPT ![o] =
          [slot |-> slot, row |-> [host |-> host, password |-> PasswordFor(supplied, accounts[slot])],
           supplied |-> supplied, existing |-> accounts[slot]]]
    /\ edits' = edits + 1
    /\ UNCHANGED <<accounts, typed, overrun>>

\* PUT, first half: the existing row is read; without a password from either place
\* the request ends with 400.
BeginPut(o, slot, host, supplied) ==
    /\ saving[o] = Idle /\ edits < MaxEdits
    /\ LET password == PasswordFor(supplied, accounts[slot]) IN
         /\ password # NoValue
         /\ saving' = [saving EXCEPT ![o] =
               [slot |-> slot, row |-> [host |-> host, password |-> password],
                supplied |-> supplied, existing |-> accounts[slot]]]
    /\ edits' = edits + 1
    /\ UNCHANGED <<accounts, typed, overrun>>

\* PUT, second half: the upsert. The row is read once more for the answer.
CommitPut(o) ==
    /\ saving[o] # Idle
    /\ LET put == saving[o] IN
         /\ SaveEmailAccount(put.slot, put.row)
         /\ typed' = IF put.supplied = NoValue THEN typed
                   ELSE [typed EXCEPT ![put.slot] = put.supplied]
         /\ overrun' = IF put.supplied # NoValue THEN overrun \ {put.slot}
                       ELSE IF accounts[put.slot] = put.existing THEN overrun
                       ELSE overrun \cup {put.slot}
    /\ saving' = [saving EXCEPT ![o] = Idle]
    /\ UNCHANGED edits

DeleteAccount(slot) ==
    /\ edits < MaxEdits /\ edits' = edits + 1
    /\ DeleteEmailAccount(slot)
    /\ typed' = [typed EXCEPT ![slot] = NoValue]
    /\ overrun' = overrun \ {slot}
    /\ UNCHANGED saving

EditAccounts ==
    \/ \E o \in Operators, s \in Slots, h \in MailHosts, p \in AppPasswords \cup {NoValue} :
          BeginPut(o, s, h, p)
    \/ \E o \in Operators : CommitPut(o)
    \/ \E s \in Slots : DeleteAccount(s)

(* Saving a form whose password field is empty keeps the stored password: the   *)
(* row in use holds the password somebody last typed for that slot. The PUT     *)
(* reads and writes in two statements; the only way to bring an old password    *)
(* back is a save without one whose slot was changed between the two            *)
(* (routes/cas-config.ts, PUT /cas/config/email-accounts/:slot).                *)
TypedPasswordInUse ==
    \A s \in Slots : accounts[s] # NoValue /\ s \notin overrun => accounts[s].password = typed[s]
=============================================================================
