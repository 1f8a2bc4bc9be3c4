------------------------------ MODULE AppUpdates ------------------------------
(* The kit's own updates: publishing (routes/cas-updates.ts), the handset's      *)
(* check, download and pin (UpdateManager.kt, UpdateCheck.kt, the update half of *)
(* MainActivity.kt) and the installer's callbacks (UpdateInstallReceiver.kt).    *)
(* Every tap starts a thread of its own. An APK is two blocks, so that a file    *)
(* can be incomplete or a mixture; a build's number stands for its bytes and its *)
(* hash.                                                                         *)
EXTENDS Integers, Sequences, FiniteSetsExt, SequencesExt

CONSTANTS
    Builds,      \* versionCodes an operator may publish, above the handset's own
    Publishers,  \* publish requests under way at the same time
    MaxDownloads, \* bound: taps on "Download & install", one thread each
    MaxChecks,   \* bound: update checks
    InstallMaxAttempts, \* INSTALL_MAX_ATTEMPTS
    None

ASSUME UpdateAssumption ==
    /\ Builds \subseteq Nat \ {0}
    /\ MaxDownloads \in Nat \ {0} /\ InstallMaxAttempts \in Nat \ {0}
    /\ None \notin Nat /\ None \notin {"SHOWN", "ACCEPTED", "DECLINED"}

Downloads == 1..MaxDownloads

VARIABLES
    published,  \* cas_app_updates: the builds stored, in the order of their commits
    publishing, \* publishes that passed the monotonic check: their build
    checks, asking,  \* update checks started; the answer of the one under way
    offered,    \* pendingUpdate: the manifest the button would download
    button,     \* installUpdateButton.isEnabled
    prompt,     \* the mobile-data dialog: the build it asks about
    journal,    \* the field journal's UPDATE_DOWNLOAD beats, as far as their checker looks at them
    part, target,  \* cas-update-<hash>.part and .apk: the file behind each name
    disk,       \* the blocks of each file; a file is named after the thread that created it
    dl,         \* download threads
    inst,       \* install sessions: attempt and state
    strange,    \* history: an installer session was given bytes other than the pinned build's
    overlap     \* history: a tap met a download still running

pubVars == <<published, publishing>>
screenVars == <<checks, asking, offered, button, prompt>>
fileVars == <<part, target, disk>>
updVars == <<pubVars, screenVars, fileVars, journal, dl, inst, strange, overlap>>

Empty == <<None, None>>
NoThread == [pc |-> "unused", build |-> None, metered |-> FALSE, file |-> None, serves |-> None]

UpdInit ==
    /\ published = <<>> /\ publishing = [p \in Publishers |-> None]
    /\ checks = 0 /\ asking = None /\ offered = None /\ button = FALSE /\ prompt = None
    /\ journal = [shown |-> FALSE, accepted |-> FALSE, violations |-> FALSE]
    /\ part = [b \in Builds |-> None] /\ target = [b \in Builds |-> None]
    /\ disk = [d \in Downloads |-> Empty]
    /\ dl = [d \in Downloads |-> NoThread]
    /\ inst = [d \in Downloads |-> [pc |-> "none", attempt |-> 0]]
    /\ strange = FALSE /\ overlap = FALSE

(* --- the server ------------------------------------------------------------------ *)

\* Mutant of LatestUpdate: the newest row.
NewestRow == IF published = <<>> THEN 0 ELSE Last(published)

\* latestUpdate: the highest versionCode, 0 when nothing is published.
LatestUpdate == Max({0} \cup ToSet(published))

\* The monotonic check reads the newest build in a query of its own ...
BeginPublish(p, b) ==
    /\ publishing[p] = None /\ b > LatestUpdate
    /\ publishing' = [publishing EXCEPT ![p] = b]
    /\ UNCHANGED <<published, screenVars, fileVars, journal, dl, inst, strange, overlap>>

\* ... and the insert may come second: versionCode is unique, so the same build fails, a
\* lower one is stored.
CommitPublish(p) ==
    /\ publishing[p] # None
    /\ published' = IF publishing[p] \in ToSet(published) THEN published
                    ELSE Append(published, publishing[p])
    /\ publishing' = [publishing EXCEPT ![p] = None]
    /\ UNCHANGED <<screenVars, fileVars, journal, dl, inst, strange, overlap>>

(* --- the check ---------------------------------------------------------------------- *)

\* runUpdateCheck: on opening the app or by hand. checkNow's answer: a newer build or none;
\* the request may fail.
StartCheck ==
    /\ checks < MaxChecks /\ asking = None
    /\ checks' = checks + 1
    /\ asking' \in {LatestUpdate, 0}
    /\ UNCHANGED <<pubVars, offered, button, prompt, fileVars, journal, dl, inst, strange,
                   overlap>>

ShowCheck ==
    /\ asking # None
    /\ offered' = IF asking = 0 THEN None ELSE asking
    /\ button' = (asking # 0)
    /\ asking' = None
    /\ UNCHANGED <<pubVars, checks, prompt, fileVars, journal, dl, inst, strange, overlap>>

(* --- consent -------------------------------------------------------------------------- *)

\* consentViolations: the checker of the field journal, beat by beat. A result's beat consumes
\* the consent given before it.
AfterBeat(st, consent, metered) ==
    CASE consent = "SHOWN" -> [st EXCEPT !.shown = TRUE, !.accepted = FALSE]
      [] consent = "ACCEPTED" ->
            IF st.shown THEN [st EXCEPT !.accepted = TRUE] ELSE [st EXCEPT !.violations = TRUE]
      [] consent = "DECLINED" ->
            [shown |-> FALSE, accepted |-> FALSE, violations |-> st.violations \/ ~st.shown]
      [] OTHER ->
            [shown |-> FALSE, accepted |-> FALSE,
             violations |-> st.violations \/ (metered /\ ~st.accepted)]

\* Mutant of Beat: the owner's answer is not journalled.
SilentAnswer(consent, metered) ==
    journal' = IF consent = "ACCEPTED" THEN journal ELSE AfterBeat(journal, consent, metered)

Beat(consent, metered) == journal' = AfterBeat(journal, consent, metered)

Busy == \E d \in Downloads : dl[d].pc \notin {"unused", "over"}

Fresh(d) == dl[d].pc = "unused" /\ \A e \in 1..d-1 : dl[e].pc # "unused"

StartDownload(d, b, metered) ==
    /\ Fresh(d)
    /\ dl' = [dl EXCEPT ![d] = [NoThread EXCEPT !.pc = "start", !.build = b, !.metered = metered]]
    /\ button' = FALSE
    /\ overlap' = (overlap \/ Busy)

\* startUpdateDownload: a metered link asks first.
Tap(d, metered) ==
    /\ button /\ offered # None /\ prompt = None /\ Fresh(d)
    /\ IF metered
       THEN /\ prompt' = offered
            /\ Beat("SHOWN", TRUE)
            /\ overlap' = (overlap \/ Busy)
            /\ UNCHANGED <<dl, button>>
       ELSE /\ StartDownload(d, offered, FALSE)
            /\ UNCHANGED <<prompt, journal>>
    /\ UNCHANGED <<pubVars, checks, asking, offered, fileVars, inst, strange>>

Consent(d) ==
    /\ prompt # None
    /\ Beat("ACCEPTED", TRUE)
    /\ StartDownload(d, prompt, TRUE)
    /\ prompt' = None
    /\ UNCHANGED <<pubVars, checks, asking, offered, fileVars, inst, strange>>

Decline ==
    /\ prompt # None
    /\ Beat("DECLINED", TRUE)
    /\ prompt' = None
    /\ UNCHANGED <<pubVars, checks, asking, offered, button, fileVars, dl, inst, strange,
                   overlap>>

(* --- download(): one thread ------------------------------------------------------------- *)

\* Mutant of VerifyDownload: only the size is compared.
SizeOnly(b) == target[b] # None /\ None \notin ToSet(disk[target[b]])

\* verifyDownload: size and hash of the file behind the name, read once.
VerifyDownload(b) == target[b] # None /\ disk[target[b]] = <<b, b>>

NotTheScreen == UNCHANGED <<pubVars, screenVars, inst, strange, overlap>>
At(d, pc) == dl[d].pc = pc
End(d) == dl' = [dl EXCEPT ![d] = [NoThread EXCEPT !.pc = "over", !.build = dl[d].build]]
Move(d, pc) == dl' = [dl EXCEPT ![d].pc = pc]

\* The result's beat; a refused or failed download ends the thread and frees the button.
Failed(d) ==
    /\ Beat(None, dl[d].metered)
    /\ End(d)
    /\ button' = (offered # None)
    /\ UNCHANGED <<pubVars, checks, asking, offered, prompt, inst, strange, overlap>>

Verified(d) ==
    /\ Beat(None, dl[d].metered)
    /\ Move(d, "install")
    /\ NotTheScreen

\* A file of the same pin that still verifies is used again; anything else is removed.
Reuse(d) ==
    /\ At(d, "start")
    /\ IF VerifyDownload(dl[d].build) THEN Verified(d) /\ UNCHANGED fileVars
       ELSE /\ target' = [target EXCEPT ![dl[d].build] = None]
            /\ Move(d, "get") /\ NotTheScreen /\ UNCHANGED <<part, disk, journal>>

\* latest.apk: the bytes of whatever is newest now, which may not be the pinned build. An
\* existing .part is emptied and shared, not replaced (outputStream()).
Get(d) ==
    /\ At(d, "get")
    /\ LET b == dl[d].build
           f == IF part[b] = None THEN d ELSE part[b] IN
         /\ part' = [part EXCEPT ![b] = f]
         /\ disk' = [disk EXCEPT ![f] = Empty]
         /\ dl' = [dl EXCEPT ![d].pc = "first block", ![d].file = f, ![d].serves = LatestUpdate]
    /\ NotTheScreen /\ UNCHANGED <<target, journal>>

WriteBlock(d) ==
    /\ dl[d].pc \in {"first block", "second block"}
    /\ LET k == IF At(d, "first block") THEN 1 ELSE 2 IN
         /\ disk' = [disk EXCEPT ![dl[d].file][k] = dl[d].serves]
         /\ Move(d, IF k = 1 THEN "second block" ELSE "rename")
    /\ NotTheScreen /\ UNCHANGED <<part, target, journal>>

\* renameTo: fails when another thread has taken the .part away.
Rename(d) ==
    /\ At(d, "rename")
    /\ LET b == dl[d].build IN
         IF part[b] = None THEN Failed(d) /\ UNCHANGED fileVars
         ELSE /\ target' = [target EXCEPT ![b] = part[b]]
              /\ part' = [part EXCEPT ![b] = None]
              /\ Move(d, "verify") /\ NotTheScreen /\ UNCHANGED <<disk, journal>>

\* The pin is checked after the rename; the finally block removes the .part name.
Verify(d) ==
    /\ At(d, "verify")
    /\ LET b == dl[d].build IN
         /\ part' = [part EXCEPT ![b] = None]
         /\ IF VerifyDownload(b) THEN Verified(d) /\ UNCHANGED target
            ELSE Failed(d) /\ target' = [target EXCEPT ![b] = None]
    /\ UNCHANGED disk

\* The connection fails: both names are removed (before the first byte only the .part is).
Break(d) ==
    /\ dl[d].pc \in {"get", "first block", "second block"}
    /\ part' = [part EXCEPT ![dl[d].build] = None]
    /\ target' = IF At(d, "get") THEN target ELSE [target EXCEPT ![dl[d].build] = None]
    /\ Failed(d) /\ UNCHANGED disk

(* --- install() and the installer's answers ------------------------------------------------ *)

\* A session gets the bytes behind the name at that moment; without permission to install,
\* or without the file, nothing is committed.
HandOff(d, attempt) ==
    LET b == dl[d].build IN
    \/ /\ target[b] # None
       /\ strange' = (strange \/ disk[target[b]] # <<b, b>>)
       /\ inst' = [inst EXCEPT ![d] = [pc |-> "committed", attempt |-> attempt]]
    \/ /\ inst' = [inst EXCEPT ![d] = [pc |-> "failed", attempt |-> attempt]]
       /\ UNCHANGED strange

Install(d) ==
    /\ At(d, "install")
    /\ HandOff(d, 1)
    /\ End(d)
    /\ button' = (offered # None)
    /\ UNCHANGED <<pubVars, checks, asking, offered, prompt, fileVars, journal, overlap>>

InstallerOnly == UNCHANGED <<pubVars, screenVars, fileVars, journal, dl, overlap>>

\* The installer wants the owner's tap.
AskOwner(d) ==
    /\ inst[d].pc = "committed"
    /\ inst' = [inst EXCEPT ![d].pc = "prompted"]
    /\ UNCHANGED strange /\ InstallerOnly

Installed(d) ==
    /\ inst[d].pc \in {"committed", "prompted"}
    /\ inst' = [inst EXCEPT ![d].pc = "installed"]
    /\ UNCHANGED strange /\ InstallerOnly

\* Mutant of ShouldRetryInstall: the attempts are not counted.
RetriesForEver(race, attempt) == race

\* shouldRetryInstall: only the refusal that marks the permission race, a bounded number of
\* times, while the file is there.
ShouldRetryInstall(race, attempt) == race /\ attempt < InstallMaxAttempts

Refused(d, race) ==
    /\ inst[d].pc \in {"committed", "prompted"}
    /\ inst' = [inst EXCEPT ![d].pc =
          IF ShouldRetryInstall(race, inst[d].attempt) /\ target[dl[d].build] # None
          THEN "settling" ELSE "failed"]
    /\ UNCHANGED strange /\ InstallerOnly

RetryInstall(d) ==
    /\ inst[d].pc = "settling"
    /\ HandOff(d, Min({inst[d].attempt + 1, InstallMaxAttempts}))
    /\ InstallerOnly

Answer(d) == AskOwner(d) \/ Installed(d) \/ (\E race \in BOOLEAN : Refused(d, race))

Step(d) ==
    \/ Reuse(d) \/ Get(d) \/ WriteBlock(d) \/ Rename(d) \/ Verify(d) \/ Break(d)
    \/ Install(d) \/ RetryInstall(d)

UpdNext ==
    \/ \E p \in Publishers : (\E b \in Builds : BeginPublish(p, b)) \/ CommitPublish(p)
    \/ StartCheck \/ ShowCheck \/ Decline
    \/ \E d \in Downloads :
          (\E metered \in BOOLEAN : Tap(d, metered)) \/ Consent(d) \/ Step(d) \/ Answer(d)

UpdSpec == UpdInit /\ [][UpdNext]_updVars

\* Threads run, and Android answers a committed session.
UpdFairness == \A d \in Downloads : WF_updVars(Step(d)) /\ WF_updVars(Answer(d))

(* --- properties ----------------------------------------------------------------------------- *)

(* The journal of an update proves by itself that nothing was downloaded over a *)
(* metered link without the owner's consent to that download (consentViolations *)
(* in UpdateCheck.kt, the journal of MainActivity.kt) - as long as one download   *)
(* runs at a time. An update check that ends during a download enables the      *)
(* button again; the journal of two downloads then mix and the journal may accuse *)
(* an accepted one.                                                             *)
JournalProvesConsent == ~overlap => ~journal.violations

(* Whatever is published in between, in which order the publishes commit and    *)
(* however a download breaks off, only the bytes the manifest pinned are copied *)
(* into an installer session (download, verifyDownload). Two overlapping        *)
(* downloads share the .part file, and the one still writing can change what    *)
(* the other has verified; the promise of UpdateManager.kt's comment holds      *)
(* without that overlap only.                                                   *)
OnlyPinnedBytesInstalled == ~overlap => ~strange

(* What phones are offered never goes back to an older build, although a lower  *)
(* versionCode that passed the monotonic check before a higher one was stored   *)
(* is stored after it (routes/cas-updates.ts).                                  *)
PinNeverGoesBack == [][LatestUpdate' >= LatestUpdate]_updVars

(* A hand-off to the installer ends: installed, refused for good, or waiting    *)
(* for the owner's tap - the automatic retries of the permission race do not go *)
(* on for ever (UpdateInstallReceiver.kt).                                      *)
HandOffConcludes ==
    \A d \in Downloads :
        inst[d].pc = "committed" ~> inst[d].pc \in {"installed", "failed", "prompted"}

\* What is installed was published, pinned and consented to, and an installation ends.
UpdatesAreSound ==
    []JournalProvesConsent /\ []OnlyPinnedBytesInstalled /\ PinNeverGoesBack /\ HandOffConcludes
=============================================================================
