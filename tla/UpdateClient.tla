---------------------------- MODULE UpdateClient ----------------------------
(***************************************************************************)
(* The update client inside the application                                *)
(* (plotjuggler_app/studio/update): UpdateChecker fetches the manifest,    *)
(* UpdateDownloader the package, and UpdateCoordinator asks the user and   *)
(* starts the external updater.                                            *)
(*                                                                         *)
(* All of it runs in the GUI thread.  What interleaves is the event loop:  *)
(* each QMessageBox a handler opens runs a nested loop in which the        *)
(* network, the deadlines and the one-shot automatic check go on while the *)
(* handler is suspended.  The suspended handlers form a stack of dialogs,  *)
(* of which only the topmost takes an answer.                              *)
(***************************************************************************)
EXTENDS Naturals, Sequences

CONSTANTS
  Manifests,     \* update manifests the server may publish
  Supported,     \* those whose minimumSupportedVersion admits this version
  NoManifest,
  Size,          \* chunks of a package
  MaxRedirects,  \* kMaximumRedirects, of the checker and of the downloader
  MaxOrphans     \* bound: progress dialogs that stay open without a pointer

ASSUME ClientAssumption ==
  /\ Supported \subseteq Manifests
  /\ NoManifest \notin Manifests
  /\ Size \in Nat \ {0}
  /\ MaxRedirects \in Nat
  /\ MaxOrphans \in Nat

VARIABLES
  state,      \* UpdateCoordinator::_state
  dialogs,    \* the modal dialogs open, the topmost last
  progress,   \* whether _progress points to a progress dialog
  orphans,    \* progress dialogs that lost their pointer and stay open
  autoDue,    \* the automatic check two seconds after the start is to come
  checking,   \* the checker waits for a reply
  mode,       \* _mode of the checker
  hops,       \* _redirects of the checker
  active,     \* the downloader has a reply and a file
  manifest,   \* _manifest of the downloader
  received,   \* chunks received
  pure,       \* whether they are the package's
  dlHops,     \* _redirects of the downloader
  files,      \* what stands at the destination of each package
  ready,      \* _readyManifest, with its _downloadedPath
  launched    \* the manifest the external updater was started for

checker == <<checking, mode, hops>>
downloader == <<active, manifest, received, pure, dlHops, files>>
vars == <<state, dialogs, progress, orphans, autoDue, checker, downloader, ready, launched>>

Modes == {"Manual", "Automatic"}
States == {"Idle", "Checking", "UpdateAvailable", "Downloading", "Ready", "Error"}

\* A dialog, and the manifest it is about if it is about one.
Dialogs ==
  [kind : {"offer"}, about : Manifests] \cup
  [kind : {"info", "checkFailed", "downloadFailed", "ready", "launchFailed"},
   about : {NoManifest}]

TypeOK ==
  /\ state \in States
  /\ dialogs \in Seq(Dialogs)
  /\ progress \in BOOLEAN
  /\ orphans \in 0 .. MaxOrphans
  /\ autoDue \in BOOLEAN
  /\ checking \in BOOLEAN
  /\ mode \in Modes
  /\ hops \in 0 .. MaxRedirects
  /\ active \in BOOLEAN
  /\ manifest \in Manifests \cup {NoManifest}
  /\ received \in 0 .. Size
  /\ pure \in BOOLEAN
  /\ dlHops \in 0 .. MaxRedirects
  /\ files \in [Manifests -> {"none", "whole", "spoilt"}]
  /\ ready \in Manifests \cup {NoManifest}
  /\ launched \in Manifests \cup {NoManifest}

Init ==
  /\ state = "Idle"
  /\ dialogs = << >>
  /\ progress = FALSE
  /\ orphans = 0
  /\ autoDue \in BOOLEAN          \* Updates/automaticCheck
  /\ checking = FALSE
  /\ mode = "Manual"
  /\ hops = 0
  /\ active = FALSE
  /\ manifest = NoManifest
  /\ received = 0
  /\ pure = TRUE
  /\ dlHops = 0
  /\ files = [m \in Manifests |-> "none"]
  /\ ready = NoManifest
  /\ launched = NoManifest

-----------------------------------------------------------------------------
\* Dialogs.

Open(kind) == dialogs' = Append(dialogs, [kind |-> kind, about |-> NoManifest])

Top == dialogs[Len(dialogs)]

Rest == SubSeq(dialogs, 1, Len(dialogs) - 1)

\* The topmost dialog is answered.  Nothing is answered once the updater runs
\* and the main window closes.
Answering(kind) ==
  /\ launched = NoManifest
  /\ dialogs # << >>
  /\ Top.kind = kind

-----------------------------------------------------------------------------
\* UpdateChecker, with the slots of the coordinator it calls.

CheckFailed(how) ==
  /\ checking' = FALSE
  /\ \/ /\ how = "Manual"
        /\ state' = "Error"
        /\ Open("checkFailed")
     \/ /\ how = "Automatic"
        /\ state' = "Idle"
        /\ UNCHANGED dialogs

\* UpdateCoordinator::check.  A reply the checker still waits for is dropped; a
\* manifest URL that is not allowed fails the check on the spot.
Busy == state \in {"Checking", "Downloading"}

Check(how) ==
  IF Busy
  THEN /\ IF how = "Manual" THEN Open("info") ELSE UNCHANGED dialogs
       /\ UNCHANGED <<state, checker>>
  ELSE /\ mode' = how
       /\ hops' = 0
       /\ \/ /\ checking' = TRUE
             /\ state' = "Checking"
             /\ UNCHANGED dialogs
          \/ CheckFailed(how)

\* The menu is out of reach while a modal dialog is open.
CheckManually ==
  /\ launched = NoManifest
  /\ dialogs = << >>
  /\ Check("Manual")
  /\ UNCHANGED <<progress, orphans, autoDue, downloader, ready, launched>>

\* Variant: a timer that is not single-shot.
CheckRepeatedly ==
  /\ autoDue
  /\ Check("Automatic")
  /\ UNCHANGED <<progress, orphans, autoDue, downloader, ready, launched>>

\* QTimer::singleShot fires in whatever event loop runs.
CheckAutomatically ==
  /\ autoDue
  /\ autoDue' = FALSE
  /\ Check("Automatic")
  /\ UNCHANGED <<progress, orphans, downloader, ready, launched>>

\* Variant: the count of redirects starts again.
CheckRedirectedEndless ==
  /\ checking
  /\ hops' = (hops + 1) % (MaxRedirects + 1)
  /\ UNCHANGED <<checking, state, dialogs, progress, orphans, autoDue, mode,
                 downloader, ready, launched>>

CheckRedirected ==
  /\ checking
  /\ \/ /\ hops < MaxRedirects
        /\ hops' = hops + 1
        /\ UNCHANGED <<checking, state, dialogs>>
     \/ /\ CheckFailed(mode)      \* one redirect too many, or a URL not allowed
        /\ UNCHANGED hops
  /\ UNCHANGED <<progress, orphans, autoDue, mode, downloader, ready, launched>>

\* A network error, the 15 s deadline, or a manifest that is too large, invalid
\* or for another system.
CheckErrs ==
  /\ checking
  /\ CheckFailed(mode)
  /\ UNCHANGED <<progress, orphans, autoDue, mode, hops, downloader, ready, launched>>

UpToDate ==
  /\ checking
  /\ checking' = FALSE
  /\ state' = "Idle"
  /\ IF mode = "Manual" THEN Open("info") ELSE UNCHANGED dialogs
  /\ UNCHANGED <<progress, orphans, autoDue, mode, hops, downloader, ready, launched>>

UpdateAvailable ==
  /\ checking
  /\ checking' = FALSE
  /\ state' = "UpdateAvailable"
  /\ \E m \in Manifests : dialogs' = Append(dialogs, [kind |-> "offer", about |-> m])
  /\ UNCHANGED <<progress, orphans, autoDue, mode, hops, downloader, ready, launched>>

-----------------------------------------------------------------------------
\* UpdateDownloader.

\* fail(): the reply and the file go, the coordinator reports.
Fail ==
  /\ active' = FALSE
  /\ received' = 0
  /\ progress' = FALSE
  /\ state' = "Error"
  /\ Open("downloadFailed")

Receive ==
  /\ active
  /\ \E good \in BOOLEAN :
       \/ /\ received < Size
          /\ received' = received + 1
          /\ pure' = (pure /\ good)
          /\ UNCHANGED <<active, progress, state, dialogs>>
       \/ /\ Fail                 \* more than was declared, or a failed write
          /\ UNCHANGED pure
  /\ UNCHANGED <<orphans, autoDue, checker, manifest, dlHops, files, ready, launched>>

\* Variant: the count of redirects starts again.
DownloadRedirectedEndless ==
  /\ active
  /\ dlHops' = (dlHops + 1) % (MaxRedirects + 1)
  /\ UNCHANGED <<active, received, progress, state, dialogs, orphans, autoDue, checker,
                 manifest, pure, files, ready, launched>>

DownloadRedirected ==
  /\ active
  /\ \/ /\ dlHops < MaxRedirects
        /\ dlHops' = dlHops + 1
        /\ UNCHANGED <<active, received, progress, state, dialogs>>
     \/ /\ Fail
        /\ UNCHANGED dlHops
  /\ UNCHANGED <<orphans, autoDue, checker, manifest, pure, files, ready, launched>>

\* A network error, or 30 s without data.
DownloadErrs ==
  /\ active
  /\ Fail
  /\ UNCHANGED <<orphans, autoDue, checker, manifest, pure, dlHops, files, ready, launched>>

\* Variant: only the size is compared.
VerifiedBySize == received = Size

\* The size and the digest the finished handler asks for before it commits.
Verified == received = Size /\ pure

DownloadFinished ==
  /\ active
  /\ \/ /\ Verified
        /\ files' = [files EXCEPT ![manifest] =
                       IF received = Size /\ pure THEN "whole" ELSE "spoilt"]
        /\ active' = FALSE
        /\ received' = 0
        /\ progress' = FALSE
        /\ ready' = manifest
        /\ state' = "Ready"
        /\ Open("ready")
     \/ /\ Fail                   \* not verified, or the commit fails
        /\ UNCHANGED <<files, ready>>
  /\ UNCHANGED <<orphans, autoDue, checker, manifest, pure, dlHops, launched>>

\* A Cancel button is pressed, that of the progress dialog or of an orphan, which
\* hides it.  All are connected to the one downloader, and out of reach behind a
\* modal dialog.
CancelPressed ==
  /\ launched = NoManifest
  /\ dialogs = << >>
  /\ \/ progress /\ UNCHANGED orphans
     \/ orphans > 0 /\ orphans' = orphans - 1

\* Variant: the slot for cancelled leaves the state.
CancelInState ==
  /\ CancelPressed
  /\ active
  /\ active' = FALSE
  /\ received' = 0
  /\ progress' = FALSE
  /\ UNCHANGED <<state, dialogs, autoDue, checker, manifest, pure, dlHops,
                 files, ready, launched>>

\* UpdateDownloader::cancel, which does nothing without a download.  abort() emits
\* finished before it returns; data still in the reply may exceed the declared
\* size, which fails the download instead.
Cancel ==
  /\ CancelPressed
  /\ \/ /\ active
        /\ active' = FALSE
        /\ received' = 0
        /\ progress' = FALSE
        /\ state' = "Idle"
        /\ UNCHANGED dialogs
     \/ active /\ Fail
     \/ ~active /\ UNCHANGED <<active, received, progress, state, dialogs>>
  /\ UNCHANGED <<autoDue, checker, manifest, pure, dlHops, files, ready, launched>>

-----------------------------------------------------------------------------
\* The answers of the user, and the rest of the handlers they resume.

\* UpdateDownloader::download.
Begin(m) ==
  /\ manifest' = m
  /\ pure' = TRUE
  /\ dlHops' = 0
  /\ received' = 0

OfferDeclined ==
  /\ Answering("offer")
  /\ dialogs' = Rest
  /\ state' = "Idle"
  /\ UNCHANGED <<progress, orphans, autoDue, checker, downloader, ready, launched>>

\* UpdateCoordinator::offerUpdate after a Yes: download() refuses when one is
\* under way, and fails when the destination or the URL is no good.
Accepted ==
  /\ Answering("offer")
  /\ \/ /\ ~active
        /\ Begin(Top.about)
        /\ \/ /\ active' = TRUE
              /\ progress' = TRUE
              /\ state' = "Downloading"
              /\ dialogs' = Rest
           \/ /\ UNCHANGED active
              /\ progress' = FALSE
              /\ state' = "Error"
              /\ dialogs' = Append(Rest, [kind |-> "downloadFailed", about |-> NoManifest])
     \/ /\ active
        /\ progress' = FALSE
        /\ state' = "Error"
        /\ dialogs' = Append(Rest, [kind |-> "downloadFailed", about |-> NoManifest])
        /\ UNCHANGED <<active, manifest, received, pure, dlHops>>
  /\ UNCHANGED <<autoDue, checker, files, ready, launched>>

\* Variant: the progress dialog that _progress pointed to is deleted.
OfferAcceptedReplacing == Accepted /\ UNCHANGED orphans

\* _progress is overwritten, whatever it points to.
OfferAccepted ==
  /\ Accepted
  /\ progress => orphans < MaxOrphans
  /\ orphans' = IF progress THEN orphans + 1 ELSE orphans

InfoClosed ==
  /\ Answering("info")
  /\ dialogs' = Rest
  /\ UNCHANGED <<state, progress, orphans, autoDue, checker, downloader, ready, launched>>

FailureClosed ==
  /\ \E kind \in {"checkFailed", "downloadFailed", "launchFailed"} : Answering(kind)
  /\ dialogs' = Rest
  /\ state' = "Idle"
  /\ UNCHANGED <<progress, orphans, autoDue, checker, downloader, ready, launched>>

InstallDeclined ==
  /\ Answering("ready")
  /\ dialogs' = Rest
  /\ UNCHANGED <<state, progress, orphans, autoDue, checker, downloader, ready, launched>>

\* Variant: the manifest of the downloader is passed on, not the one kept when
\* the package was complete.
InstallAcceptedCurrent ==
  /\ Answering("ready")
  /\ launched' = manifest
  /\ dialogs' = Rest
  /\ UNCHANGED <<state, progress, orphans, autoDue, checker, downloader, ready>>

\* launchExternalUpdater, which asks that the main window close, or fails.
InstallAccepted ==
  /\ Answering("ready")
  /\ \/ /\ launched' = ready
        /\ dialogs' = Rest
     \/ /\ dialogs' = Append(Rest, [kind |-> "launchFailed", about |-> NoManifest])
        /\ UNCHANGED launched
  /\ UNCHANGED <<state, progress, orphans, autoDue, checker, downloader, ready>>

-----------------------------------------------------------------------------
CheckerStep == CheckRedirected \/ CheckErrs \/ UpToDate \/ UpdateAvailable

DownloaderStep == Receive \/ DownloadRedirected \/ DownloadErrs \/ DownloadFinished

User ==
  \/ CheckManually \/ Cancel
  \/ OfferDeclined \/ OfferAccepted \/ InfoClosed \/ FailureClosed
  \/ InstallDeclined \/ InstallAccepted

Next == CheckAutomatically \/ CheckerStep \/ DownloaderStep \/ User

Spec == Init /\ [][Next]_vars

\* Both requests have deadlines, so they go on; users owe nothing.
FairSpec == Spec /\ WF_vars(CheckerStep) /\ WF_vars(DownloaderStep)

-----------------------------------------------------------------------------
\* Safety.

\* What the external updater is started for is on the disk, whole, whatever was
\* offered and downloaded while its dialog was open.
LaunchedIsVerified ==
  /\ ready # NoManifest => files[ready] = "whole"
  /\ launched # NoManifest => files[launched] = "whole"

\* The two states that make check() refuse a check say so truly: were one to
\* outlive its request, no check could be made until the restart.
BusyStateIsTrue ==
  /\ state = "Checking" => checking
  /\ state = "Downloading" => active

\* _progress points to a dialog only while there is something to cancel.
ProgressHasDownload == progress => active

\* A download under way can be cancelled: a progress dialog is open, if only one
\* that offerUpdate has lost when another offer was accepted.
DownloadCancellable == active => progress \/ orphans > 0

\* Nested event loops do not pile up: a check opens a dialog over another one
\* only because the automatic check is made once.
DialogsBounded == Len(dialogs) <= 3

IInv ==
  /\ TypeOK
  /\ LaunchedIsVerified
  /\ BusyStateIsTrue
  /\ ProgressHasDownload
  /\ DownloadCancellable
  /\ active => manifest \in Manifests

One(b) == IF b THEN 1 ELSE 0

\* Dialogs open, and requests that will open one when they end.
Pending == Len(dialogs) + One(checking) + One(active)

\* Why dialogs stay few: as long as the automatic check is to come, requests are
\* made one at a time, with the state that says so and nothing but an info
\* dialog over or under what they open; afterwards they are made only with no
\* dialog open, or by the offer that is closed for it.
DialogInv ==
  /\ Pending <= 3
  /\ autoDue =>
       /\ Pending <= 2
       /\ active => state = "Downloading"
       /\ checking => state = "Checking"
       /\ checking \/ active => \A i \in 1 .. Len(dialogs) : dialogs[i].kind = "info"
       /\ \A i \in 1 .. Len(dialogs) - 1 : dialogs[i].kind = "info"

-----------------------------------------------------------------------------
\* Liveness.

\* Every download ends, well or not: inactivity, redirects and data are bounded.
DownloadsEnd == active ~> ~active

\* Every check is answered or given up.
ChecksEnd == checking ~> ~checking

\* No redirect, deadline or nested event loop keeps a request alive for good.
RequestsEnd == DownloadsEnd /\ ChecksEnd

\* How many answers of the server a request takes at most from now on.
DownloadLeft ==
  IF active THEN 1 + (Size - received) + (MaxRedirects - dlHops) ELSE 0

CheckLeft == IF checking THEN 1 + (MaxRedirects - hops) ELSE 0

\* The safety half of RequestsEnd: each answer brings a request nearer to its end,
\* and nothing else prolongs it, whatever dialog is answered meanwhile.  Only a
\* new check starts the count of a check again, in the place of the old one.
RequestsDescend ==
  [][/\ DownloaderStep => DownloadLeft' < DownloadLeft
     /\ active => DownloadLeft' <= DownloadLeft
     /\ CheckerStep => CheckLeft' < CheckLeft
     /\ checking => CheckLeft' <= CheckLeft \/ (state' = "Checking" /\ ~Busy)]_vars

-----------------------------------------------------------------------------
\* What the messages say, and the code does not do.

\* A release outside the direct-update support range is not installed
\* automatically (the offer: "installation will not be automatic").
UnsupportedNotInstalled == launched # NoManifest => launched \in Supported

=============================================================================
