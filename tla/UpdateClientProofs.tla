------------------------- MODULE UpdateClientProofs -------------------------
(***************************************************************************)
(* Theorems about UpdateClient for any manifests, any package size and any *)
(* bound on redirects, checked by TLAPS.                                   *)
(***************************************************************************)
EXTENDS UpdateClient, SequenceTheorems, TLAPS

\* Opening a dialog and answering the topmost one keep the stack well formed.
LEMMA OpenType ==
  ASSUME TypeOK,
         NEW kind \in {"info", "checkFailed", "downloadFailed", "ready", "launchFailed"},
         Open(kind)
  PROVE  dialogs' \in Seq(Dialogs)
  BY DEF TypeOK, Open, Dialogs

\* The topmost dialog is one of those there are, and closing it leaves dialogs.
LEMMA TopType ==
  ASSUME TypeOK, dialogs # << >>
  PROVE  Top \in Dialogs /\ Rest \in Seq(Dialogs)
<1>1. Len(dialogs) \in 1 .. Len(dialogs)
  BY DEF TypeOK
<1>2. Top \in Dialogs
  BY <1>1 DEF TypeOK, Top
<1>3. Rest \in Seq(Dialogs)
  BY <1>1 DEF TypeOK, Rest
<1>4. QED BY <1>2, <1>3

\* Two kinds of dialog stand in for all those that are appended to the rest.
LEMMA ReplaceType ==
  ASSUME TypeOK, dialogs # << >>,
         NEW kind \in {"info", "checkFailed", "downloadFailed", "ready", "launchFailed"}
  PROVE  Append(Rest, [kind |-> kind, about |-> NoManifest]) \in Seq(Dialogs)
  BY TopType DEF Dialogs

\* The initial state satisfies the invariant.
LEMMA InitInv == Init => IInv
<1> SUFFICES ASSUME Init PROVE IInv
  OBVIOUS
<1>1. 0 \in 0 .. MaxRedirects /\ 0 \in 0 .. Size /\ 0 \in 0 .. MaxOrphans
  BY ClientAssumption
<1>2. << >> \in Seq(Dialogs)
  OBVIOUS
<1>3. files \in [Manifests -> {"none", "whole", "spoilt"}]
  BY DEF Init
<1>4. TypeOK
  BY <1>1, <1>2, <1>3 DEF Init, TypeOK, States, Modes
<1>5. LaunchedIsVerified
  BY DEF Init, LaunchedIsVerified
<1>6. /\ BusyStateIsTrue /\ ProgressHasDownload /\ DownloadCancellable
      /\ active => manifest \in Manifests
  BY DEF Init, BusyStateIsTrue, ProgressHasDownload, DownloadCancellable
<1>7. QED BY <1>4, <1>5, <1>6 DEF IInv

\* Steps of the checker, and the checks that start it.
LEMMA CheckerInv ==
  ASSUME IInv, CheckManually \/ CheckAutomatically \/ CheckerStep
  PROVE  IInv'
<1> USE ClientAssumption DEF IInv, TypeOK, States, Modes, LaunchedIsVerified,
        BusyStateIsTrue, ProgressHasDownload, DownloadCancellable, checker, downloader
<1>1. ASSUME NEW how \in Modes, Check(how)
      PROVE  /\ state' \in States /\ dialogs' \in Seq(Dialogs)
             /\ checking' \in BOOLEAN /\ mode' \in Modes /\ hops' \in 0 .. MaxRedirects
             /\ state' = "Checking" => checking'
             /\ state' = "Downloading" => active
  <2>1. CASE Busy
    BY <1>1, <2>1, OpenType DEF Check
  <2>2. CASE ~Busy
    <3>1. 0 \in 0 .. MaxRedirects
      OBVIOUS
    <3>2. mode' = how /\ hops' = 0
      BY <1>1, <2>2 DEF Check
    <3>3. CASE checking' = TRUE /\ state' = "Checking" /\ dialogs' = dialogs
      BY <3>1, <3>2, <3>3
    <3>4. CASE CheckFailed(how)
      BY <3>1, <3>2, <3>4, OpenType DEF CheckFailed
    <3>5. QED BY <1>1, <2>2, <3>3, <3>4 DEF Check
  <2>3. QED BY <2>1, <2>2
<1>2. ASSUME NEW how \in Modes, CheckFailed(how)
      PROVE  /\ state' \in {"Idle", "Error"} /\ dialogs' \in Seq(Dialogs)
             /\ checking' = FALSE
  BY <1>2, OpenType DEF CheckFailed
<1>3. CASE CheckManually
  BY <1>1, <1>3 DEF CheckManually
<1>4. CASE CheckAutomatically
  BY <1>1, <1>4 DEF CheckAutomatically
<1>5. CASE CheckRedirected
  <2>1. CASE hops < MaxRedirects /\ hops' = hops + 1 /\ UNCHANGED <<checking, state, dialogs>>
    <3>1. hops' \in 0 .. MaxRedirects
      BY <2>1
    <3>2. QED BY <1>5, <2>1, <3>1 DEF CheckRedirected
  <2>2. CASE CheckFailed(mode) /\ hops' = hops
    BY <1>2, <1>5, <2>2 DEF CheckRedirected
  <2>3. QED BY <1>5, <2>1, <2>2 DEF CheckRedirected
<1>6. CASE CheckErrs
  BY <1>2, <1>6 DEF CheckErrs
<1>7. CASE UpToDate
  BY <1>7, OpenType DEF UpToDate
<1>8. CASE UpdateAvailable
  <2>1. dialogs' \in Seq(Dialogs)
    BY <1>8 DEF UpdateAvailable, Dialogs
  <2>2. QED BY <1>8, <2>1 DEF UpdateAvailable
<1>9. QED BY <1>3, <1>4, <1>5, <1>6, <1>7, <1>8 DEF CheckerStep

\* Steps of the downloader.
LEMMA DownloaderInv ==
  ASSUME IInv, DownloaderStep \/ Cancel
  PROVE  IInv'
<1> USE ClientAssumption DEF IInv, TypeOK, States, Modes, LaunchedIsVerified,
        BusyStateIsTrue, ProgressHasDownload, DownloadCancellable, checker, downloader
<1>1. ASSUME Fail
      PROVE  /\ active' = FALSE /\ received' \in 0 .. Size /\ progress' = FALSE
             /\ state' = "Error" /\ dialogs' \in Seq(Dialogs)
  BY <1>1, OpenType DEF Fail
<1>2. CASE Receive
  <2>1. CASE received < Size /\ received' = received + 1
              /\ pure' \in BOOLEAN /\ UNCHANGED <<active, progress, state, dialogs>>
    <3>1. received' \in 0 .. Size
      BY <2>1
    <3>2. QED BY <1>2, <2>1, <3>1 DEF Receive
  <2>2. CASE Fail /\ pure' = pure
    BY <1>1, <1>2, <2>2 DEF Receive
  <2>3. QED BY <1>2, <2>1, <2>2 DEF Receive
<1>3. CASE DownloadRedirected
  <2>1. CASE dlHops < MaxRedirects /\ dlHops' = dlHops + 1
              /\ UNCHANGED <<active, received, progress, state, dialogs>>
    <3>1. dlHops' \in 0 .. MaxRedirects
      BY <2>1
    <3>2. QED BY <1>3, <2>1, <3>1 DEF DownloadRedirected
  <2>2. CASE Fail /\ dlHops' = dlHops
    BY <1>1, <1>3, <2>2 DEF DownloadRedirected
  <2>3. QED BY <1>3, <2>1, <2>2 DEF DownloadRedirected
<1>4. CASE DownloadErrs
  BY <1>1, <1>4 DEF DownloadErrs
<1>5. CASE DownloadFinished
  <2>1. CASE Fail /\ UNCHANGED <<files, ready>>
    BY <1>1, <1>5, <2>1 DEF DownloadFinished
  <2>2. CASE Verified /\ ~(Fail /\ UNCHANGED <<files, ready>>)
    <3>1. manifest \in Manifests
      BY <1>5 DEF DownloadFinished
    <3>2. files' = [files EXCEPT ![manifest] = "whole"]
      BY <1>5, <2>2 DEF DownloadFinished, Verified
    <3>3. files' \in [Manifests -> {"none", "whole", "spoilt"}]
      BY <3>2
    <3>4. \A m \in Manifests : files'[m] = "whole" \/ files'[m] = files[m]
      BY <3>1, <3>2
    <3>5. files'[manifest] = "whole"
      BY <3>1, <3>2
    <3>6. /\ active' = FALSE /\ received' = 0 /\ progress' = FALSE
          /\ ready' = manifest /\ state' = "Ready" /\ Open("ready")
      BY <1>5, <2>2 DEF DownloadFinished
    <3>7. dialogs' \in Seq(Dialogs) /\ 0 \in 0 .. Size
      BY <3>6, OpenType
    <3>8. UNCHANGED <<orphans, autoDue, checking, mode, hops, manifest, pure, dlHops, launched>>
      BY <1>5 DEF DownloadFinished
    <3>9. TypeOK'
      BY <3>1, <3>3, <3>6, <3>7, <3>8
    <3>11. launched' # NoManifest => files'[launched'] = "whole"
      BY <3>4, <3>8
    <3>12. LaunchedIsVerified'
      BY <3>5, <3>6, <3>11
    <3>13. /\ BusyStateIsTrue' /\ ProgressHasDownload' /\ DownloadCancellable'
           /\ (active => manifest \in Manifests)'
      BY <3>6
    <3>14. QED BY <3>9, <3>12, <3>13
  <2>3. CASE ~Verified /\ ~(Fail /\ UNCHANGED <<files, ready>>)
    BY <1>5, <2>3 DEF DownloadFinished
  <2>4. QED BY <2>1, <2>2, <2>3
<1>6. CASE Cancel
  <2>1. orphans' \in 0 .. MaxOrphans
    BY <1>6 DEF Cancel, CancelPressed
  <2>2. CASE /\ active' = FALSE /\ received' = 0 /\ progress' = FALSE /\ state' = "Idle"
             /\ dialogs' = dialogs
    <3>1. received' \in 0 .. Size
      BY <2>2
    <3>2. QED BY <1>6, <2>1, <2>2, <3>1 DEF Cancel
  <2>3. CASE Fail
    BY <1>1, <1>6, <2>1, <2>3 DEF Cancel
  <2>4. CASE ~active /\ UNCHANGED <<active, received, progress, state, dialogs>>
    BY <1>6, <2>1, <2>4 DEF Cancel
  <2>5. QED BY <1>6, <2>2, <2>3, <2>4 DEF Cancel
<1>7. QED BY <1>2, <1>3, <1>4, <1>5, <1>6 DEF DownloaderStep

\* The answers of the user.
LEMMA AnswerInv ==
  ASSUME IInv, \/ OfferDeclined \/ OfferAccepted \/ InfoClosed \/ FailureClosed
               \/ InstallDeclined \/ InstallAccepted
  PROVE  IInv'
<1> USE ClientAssumption DEF IInv, TypeOK, States, Modes, LaunchedIsVerified,
        BusyStateIsTrue, ProgressHasDownload, DownloadCancellable, Answering, checker,
        downloader
<1>1. CASE OfferDeclined
  BY <1>1, TopType DEF OfferDeclined
<1>2. CASE OfferAccepted
  <2>1. Top.about \in Manifests
    BY <1>2, TopType DEF OfferAccepted, Accepted, Dialogs
  <2>2. dialogs' \in Seq(Dialogs)
    BY <1>2, TopType, ReplaceType DEF OfferAccepted, Accepted
  <2>3. /\ UNCHANGED <<autoDue, checking, mode, hops, files, ready, launched>>
        /\ orphans' \in 0 .. MaxOrphans
        /\ orphans' = IF progress THEN orphans + 1 ELSE orphans
    BY <1>2 DEF OfferAccepted, Accepted
  <2>4. CASE ~active /\ Begin(Top.about) /\ active' = TRUE /\ progress' = TRUE
             /\ state' = "Downloading"
    <3>1. /\ manifest' \in Manifests /\ received' \in 0 .. Size
          /\ pure' = TRUE /\ dlHops' \in 0 .. MaxRedirects
      BY <2>1, <2>4 DEF Begin
    <3>2. QED BY <2>2, <2>3, <2>4, <3>1
  <2>5. CASE ~active /\ Begin(Top.about) /\ UNCHANGED active /\ progress' = FALSE
             /\ state' = "Error"
    <3>1. /\ manifest' \in Manifests /\ received' \in 0 .. Size
          /\ pure' = TRUE /\ dlHops' \in 0 .. MaxRedirects
      BY <2>1, <2>5 DEF Begin
    <3>2. QED BY <2>2, <2>3, <2>5, <3>1
  <2>6. CASE active /\ progress' = FALSE /\ state' = "Error"
             /\ UNCHANGED <<active, manifest, received, pure, dlHops>>
    <3>1. orphans \in Nat /\ (progress => orphans' = orphans + 1) /\ (~progress => orphans' = orphans)
      BY <2>3
    <3>2. orphans' > 0
      BY <2>6, <3>1
    <3>3. DownloadCancellable' /\ ProgressHasDownload' /\ BusyStateIsTrue'
      BY <2>6, <3>2
    <3>4. TypeOK' /\ LaunchedIsVerified'
      BY <2>2, <2>3, <2>6
    <3>5. QED BY <2>6, <3>3, <3>4
  <2>7. QED BY <1>2, <2>4, <2>5, <2>6 DEF OfferAccepted, Accepted
<1>3. CASE InfoClosed
  BY <1>3, TopType DEF InfoClosed
<1>4. CASE FailureClosed
  BY <1>4, TopType DEF FailureClosed
<1>5. CASE InstallDeclined
  BY <1>5, TopType DEF InstallDeclined
<1>6. CASE InstallAccepted
  <2>1. dialogs' \in Seq(Dialogs)
    BY <1>6, TopType, ReplaceType DEF InstallAccepted
  <2>2. launched' = ready \/ launched' = launched
    BY <1>6 DEF InstallAccepted
  <2>3. QED BY <1>6, <2>1, <2>2 DEF InstallAccepted
<1>7. QED BY <1>1, <1>2, <1>3, <1>4, <1>5, <1>6

\* Every step keeps the invariant.
LEMMA NextInv == IInv /\ [Next]_vars => IInv'
<1> SUFFICES ASSUME IInv, [Next]_vars PROVE IInv'
  OBVIOUS
<1>1. CASE Next
  BY <1>1, CheckerInv, DownloaderInv, AnswerInv DEF Next, User
<1>2. CASE UNCHANGED vars
  BY <1>2 DEF vars, checker, downloader, IInv, TypeOK, LaunchedIsVerified,
     BusyStateIsTrue, ProgressHasDownload, DownloadCancellable
<1>3. QED BY <1>1, <1>2

\* The inductive invariant of the update client.
THEOREM Invariant == Spec => []IInv
<1>1. QED BY InitInv, NextInv, PTL DEF Spec

\* The external updater is only started for a package that is whole on the disk.
THEOREM LaunchedAlwaysVerified == Spec => []LaunchedIsVerified
<1>1. IInv => LaunchedIsVerified
  BY DEF IInv
<1>2. QED BY <1>1, Invariant, PTL

\* The coordinator is not stuck in a state that refuses checks.
THEOREM BusyStateAlwaysTrue == Spec => []BusyStateIsTrue
<1>1. IInv => BusyStateIsTrue
  BY DEF IInv
<1>2. QED BY <1>1, Invariant, PTL

\* A progress dialog is open as long as a download runs, so that it can be
\* cancelled: offerUpdate never leaves one without.
THEOREM DownloadAlwaysCancellable == Spec => []DownloadCancellable
<1>1. IInv => DownloadCancellable
  BY DEF IInv
<1>2. QED BY <1>1, Invariant, PTL

-----------------------------------------------------------------------------
\* Opening a dialog: one more, the others stay.
LEMMA AppendFacts ==
  ASSUME TypeOK, NEW d \in Dialogs, dialogs' = Append(dialogs, d)
  PROVE  /\ Len(dialogs') = Len(dialogs) + 1
         /\ \A i \in 1 .. Len(dialogs) : dialogs'[i] = dialogs[i]
         /\ dialogs'[Len(dialogs) + 1] = d
         /\ Len(dialogs) \in Nat
  BY DEF TypeOK

\* Closing the topmost dialog: one less, the others stay.
LEMMA RestFacts ==
  ASSUME TypeOK, dialogs # << >>
  PROVE  /\ Len(dialogs) \in Nat \ {0}
         /\ Rest \in Seq(Dialogs)
         /\ Len(Rest) = Len(dialogs) - 1
         /\ \A i \in 1 .. Len(dialogs) - 1 : Rest[i] = dialogs[i]
<1>1. Len(dialogs) \in Nat \ {0}
  BY DEF TypeOK
<1>2. dialogs \in Seq(Dialogs)
  BY DEF TypeOK
<1>3. \A i \in 1 .. Len(dialogs) - 1 : dialogs[i] \in Dialogs
  <2>1. \A i \in 1 .. Len(dialogs) : dialogs[i] \in Dialogs
    BY <1>2, ElementOfSeq
  <2>2. QED BY <1>1, <2>1
<1>4. PICK n \in Nat : n = Len(dialogs) - 1
  BY <1>1
<1>5. /\ SubSeq(dialogs, 1, n) \in Seq(Dialogs)
      /\ Len(SubSeq(dialogs, 1, n)) = IF 1 <= n THEN n - 1 + 1 ELSE 0
      /\ \A i \in 1 .. n - 1 + 1 : SubSeq(dialogs, 1, n)[i] = dialogs[1 + i - 1]
  <2>1. 1 \in Int /\ n \in Int /\ \A i \in 1 .. n : dialogs[i] \in Dialogs
    BY <1>3, <1>4
  <2>2. QED BY <2>1, SubSeqProperties
<1>6. Rest = SubSeq(dialogs, 1, n)
  BY <1>4 DEF Rest
<1>7. Len(Rest) = n /\ \A i \in 1 .. n : Rest[i] = dialogs[i]
  BY <1>4, <1>5, <1>6
<1>8. QED BY <1>1, <1>4, <1>5, <1>6, <1>7

\* Closing it and opening another: as many, the others stay.
LEMMA ReplaceFacts ==
  ASSUME TypeOK, dialogs # << >>, NEW d \in Dialogs, dialogs' = Append(Rest, d)
  PROVE  /\ Len(dialogs) \in Nat \ {0}
         /\ Len(dialogs') = Len(dialogs)
         /\ \A i \in 1 .. Len(dialogs) - 1 : dialogs'[i] = dialogs[i]
  BY RestFacts

\* The values of One for the two flags, before and after.
LEMMA OneFacts ==
  /\ \A b : One(b) \in 0 .. 1
  /\ \A b : b = TRUE => One(b) = 1
  /\ \A b : b = FALSE => One(b) = 0
  BY DEF One

\* Until the automatic check is made, at most one request is under way.
LEMMA OneRequest ==
  ASSUME TypeOK, DialogInv, autoDue
  PROVE  checking = FALSE \/ active = FALSE
  BY DEF TypeOK, DialogInv

\* A request ends, with or without a dialog.
LEMMA EndKeeps ==
  ASSUME TypeOK, DialogInv, autoDue' = autoDue,
         \/ checking = TRUE /\ checking' = FALSE /\ active' = active
         \/ active = TRUE /\ active' = FALSE /\ checking' = checking,
         dialogs' = dialogs \/ \E d \in Dialogs : dialogs' = Append(dialogs, d)
  PROVE  DialogInv'
<1>1. Len(dialogs) \in Nat
  BY DEF TypeOK
<1>2. /\ Len(dialogs') = Len(dialogs) \/ Len(dialogs') = Len(dialogs) + 1
      /\ \A i \in 1 .. Len(dialogs') - 1 : i \in 1 .. Len(dialogs) /\ dialogs'[i] = dialogs[i]
  <2>1. CASE dialogs' = dialogs
    BY <1>1, <2>1
  <2>2. CASE \E d \in Dialogs : dialogs' = Append(dialogs, d)
    BY <1>1, <2>2, AppendFacts
  <2>3. QED BY <2>1, <2>2
<1>3. One(checking') + One(active') + 1 = One(checking) + One(active)
  <2>1. CASE checking = TRUE /\ checking' = FALSE /\ active' = active
    <3>1. One(checking) = 1 /\ One(checking') = 0 /\ One(active') = One(active)
      BY <2>1, OneFacts
    <3>2. One(active) \in 0 .. 1
      BY OneFacts
    <3>3. QED BY <3>1, <3>2
  <2>2. CASE active = TRUE /\ active' = FALSE /\ checking' = checking
    <3>1. One(active) = 1 /\ One(active') = 0 /\ One(checking') = One(checking)
      BY <2>2, OneFacts
    <3>2. One(checking) \in 0 .. 1
      BY OneFacts
    <3>3. QED BY <3>1, <3>2
  <2>3. QED BY <2>1, <2>2
<1>4. Pending' <= Pending /\ Pending' \in Nat /\ Pending \in Nat
  <2>1. /\ One(checking) \in 0 .. 1 /\ One(active) \in 0 .. 1
        /\ One(checking') \in 0 .. 1 /\ One(active') \in 0 .. 1
    BY OneFacts
  <2>2. QED BY <1>1, <1>2, <1>3, <2>1 DEF Pending
<1>5. ASSUME autoDue'
      PROVE  /\ checking' = FALSE /\ active' = FALSE
             /\ \A i \in 1 .. Len(dialogs') - 1 : dialogs'[i].kind = "info"
  <2>1. checking' = FALSE /\ active' = FALSE
    BY <1>5, OneRequest
  <2>2. \A i \in 1 .. Len(dialogs) : dialogs[i].kind = "info"
    BY <1>5 DEF DialogInv
  <2>3. QED BY <1>2, <2>1, <2>2
<1>6. Pending' <= 3 /\ (autoDue' => Pending' <= 2)
  BY <1>4 DEF DialogInv
<1>7. QED BY <1>5, <1>6 DEF DialogInv

\* A dialog that is not an info is answered, with or without another instead.
LEMMA AnswerKeeps ==
  ASSUME TypeOK, DialogInv, UNCHANGED <<autoDue, checking, active>>,
         dialogs # << >>, Top.kind # "info",
         dialogs' = Rest \/ \E d \in Dialogs : dialogs' = Append(Rest, d)
  PROVE  DialogInv'
<1>1. /\ Len(dialogs) \in Nat \ {0}
      /\ Len(dialogs') = Len(dialogs) \/ Len(dialogs') = Len(dialogs) - 1
      /\ \A i \in 1 .. Len(dialogs') - 1 : i \in 1 .. Len(dialogs) - 1 /\ dialogs'[i] = dialogs[i]
  <2>1. CASE dialogs' = Rest
    BY <2>1, RestFacts
  <2>2. CASE \E d \in Dialogs : dialogs' = Append(Rest, d)
    BY <2>2, ReplaceFacts
  <2>3. QED BY <2>1, <2>2
<1>2. Pending' <= Pending /\ Pending' \in Nat /\ Pending \in Nat
  <2>1. One(checking) \in 0 .. 1 /\ One(active) \in 0 .. 1
    BY OneFacts
  <2>2. One(checking') = One(checking) /\ One(active') = One(active)
    OBVIOUS
  <2>3. QED BY <1>1, <2>1, <2>2 DEF Pending
<1>3. Pending' <= 3 /\ (autoDue' => Pending' <= 2)
  BY <1>2 DEF DialogInv
<1>4. ASSUME autoDue
      PROVE  /\ ~checking' /\ ~active'
             /\ \A i \in 1 .. Len(dialogs') - 1 : dialogs'[i].kind = "info"
  <2>1. Len(dialogs) \in 1 .. Len(dialogs)
    BY <1>1
  <2>2. ~checking /\ ~active
    BY <1>4, <2>1 DEF DialogInv, Top
  <2>3. QED BY <1>1, <1>4, <2>2 DEF DialogInv
<1>5. QED BY <1>3, <1>4 DEF DialogInv

\* CheckFailed ends the check, with a dialog or without.
LEMMA CheckFailedKeeps ==
  ASSUME TypeOK, DialogInv, checking, UNCHANGED <<autoDue, active>>,
         NEW how, CheckFailed(how)
  PROVE  DialogInv'
<1>1. checking = TRUE /\ checking' = FALSE
  BY DEF TypeOK, CheckFailed
<1>2. dialogs' = dialogs \/ \E d \in Dialogs : dialogs' = Append(dialogs, d)
  BY DEF CheckFailed, Open, Dialogs
<1>3. QED BY <1>1, <1>2, EndKeeps

\* Fail ends the download with a dialog.
LEMMA FailKeeps ==
  ASSUME TypeOK, DialogInv, active, UNCHANGED <<autoDue, checking>>, Fail
  PROVE  DialogInv'
<1>1. active = TRUE /\ active' = FALSE
  BY DEF TypeOK, Fail
<1>2. \E d \in Dialogs : dialogs' = Append(dialogs, d)
  BY DEF Fail, Open, Dialogs
<1>3. QED BY <1>1, <1>2, EndKeeps

\* What DialogInv reads is unchanged.
LEMMA StutterKeeps ==
  ASSUME DialogInv, UNCHANGED <<dialogs, autoDue, checking, active, state>>
  PROVE  DialogInv'
  BY DEF DialogInv, Pending, One

\* The first dialogs: a check is asked for when none is open.
LEMMA CheckManuallyKeeps ==
  ASSUME TypeOK, BusyStateIsTrue, DialogInv, CheckManually
  PROVE  DialogInv'
<1> USE DEF CheckManually, checker, downloader
<1>1. /\ Len(dialogs) = 0 /\ autoDue' = autoDue /\ active' = active
      /\ One(checking) \in 0 .. 1 /\ One(active) \in 0 .. 1 /\ One(active') = One(active)
      /\ One(checking') \in 0 .. 1
  BY OneFacts DEF TypeOK
<1>2. CASE Busy
  <2>1. checking' = checking /\ state' = state
        /\ dialogs' = Append(dialogs, [kind |-> "info", about |-> NoManifest])
    BY <1>2 DEF Check, Open
  <2>2. [kind |-> "info", about |-> NoManifest] \in Dialogs
    BY DEF Dialogs
  <2>3. Len(dialogs') = 1 /\ \A i \in 1 .. 1 : dialogs'[i].kind = "info"
    BY <1>1, <2>1, <2>2, AppendFacts
  <2>4. Pending' = 1 + One(checking) + One(active)
    BY <1>1, <2>1, <2>3 DEF Pending
  <2>5. autoDue => Pending' <= 2
    <3>1. autoDue => One(checking) = 0 \/ One(active) = 0
      BY OneRequest, OneFacts
    <3>2. QED BY <1>1, <2>4, <3>1
  <2>6. Pending' <= 3
    BY <1>1, <2>4
  <2>7. QED BY <1>1, <2>1, <2>3, <2>5, <2>6 DEF DialogInv
<1>3. CASE ~Busy
  <2>1. autoDue => active = FALSE
    BY <1>3 DEF DialogInv, Busy, TypeOK
  <2>2. autoDue => One(active) = 0
    BY <2>1, OneFacts
  <2>3. CASE checking' = TRUE /\ state' = "Checking" /\ dialogs' = dialogs
    <3>1. Pending' = One(checking') + One(active)
      <4>1. Len(dialogs') = 0
        BY <1>1, <2>3
      <4>2. QED BY <1>1, <4>1 DEF Pending
    <3>2. Pending' <= 2 /\ Pending' <= 3
      BY <1>1, <3>1
    <3>3. QED BY <1>1, <2>1, <2>3, <3>2 DEF DialogInv
  <2>4. CASE CheckFailed("Manual")
    <3>1. [kind |-> "checkFailed", about |-> NoManifest] \in Dialogs
      BY DEF Dialogs
    <3>2. checking' = FALSE
          /\ dialogs' = Append(dialogs, [kind |-> "checkFailed", about |-> NoManifest])
      BY <2>4 DEF CheckFailed, Open
    <3>3. Len(dialogs') = 1 /\ One(checking') = 0
      BY <1>1, <3>1, <3>2, AppendFacts, OneFacts
    <3>4. Pending' = 1 + One(active)
      BY <1>1, <3>3 DEF Pending
    <3>5. Pending' <= 2 /\ Pending' <= 3
      BY <1>1, <3>4
    <3>6. QED BY <1>1, <2>1, <3>2, <3>3, <3>5 DEF DialogInv
  <2>5. QED BY <1>3, <2>3, <2>4 DEF Check
<1>4. QED BY <1>2, <1>3

\* The automatic check, over whatever is open: once it is made, one more may be.
LEMMA CheckAutomaticallyKeeps ==
  ASSUME TypeOK, DialogInv, CheckAutomatically
  PROVE  DialogInv'
<1> USE DEF CheckAutomatically, checker, downloader
<1>1. autoDue' = FALSE /\ dialogs' = dialogs /\ active' = active
  BY DEF Check, CheckFailed
<1>2. Len(dialogs) \in Nat /\ Pending <= 2
  BY DEF TypeOK, DialogInv
<1>3. /\ One(checking) \in 0 .. 1 /\ One(active) \in 0 .. 1 /\ One(checking') \in 0 .. 1
      /\ One(active') = One(active)
  BY <1>1, OneFacts
<1>4. Pending' <= 3
  BY <1>1, <1>2, <1>3 DEF Pending
<1>5. QED BY <1>1, <1>4 DEF DialogInv

\* The offer is closed for the download it starts.
LEMMA OfferAcceptedKeeps ==
  ASSUME TypeOK, DialogInv, OfferAccepted
  PROVE  DialogInv'
<1>1. dialogs # << >> /\ Top.kind = "offer" /\ UNCHANGED <<autoDue, checking>>
  BY DEF OfferAccepted, Accepted, Answering, checker
<1>2. CASE active = FALSE /\ active' = TRUE /\ state' = "Downloading" /\ dialogs' = Rest
  <2>1. /\ Len(dialogs) \in Nat \ {0} /\ Len(dialogs') = Len(dialogs) - 1
        /\ \A i \in 1 .. Len(dialogs') : i \in 1 .. Len(dialogs) - 1 /\ dialogs'[i] = dialogs[i]
    BY <1>1, <1>2, RestFacts
  <2>2. /\ One(active) = 0 /\ One(active') = 1 /\ One(checking) \in 0 .. 1
        /\ One(checking') = One(checking)
    BY <1>1, <1>2, OneFacts
  <2>3. Pending' = Pending
    BY <2>1, <2>2 DEF Pending
  <2>4. ASSUME autoDue PROVE ~checking /\ \A i \in 1 .. Len(dialogs') : dialogs'[i].kind = "info"
    <3>1. Len(dialogs) \in 1 .. Len(dialogs)
      BY <2>1
    <3>2. ~checking
      <4>1. dialogs[Len(dialogs)].kind # "info"
        BY <1>1 DEF Top
      <4>2. ~\A i \in 1 .. Len(dialogs) : dialogs[i].kind = "info"
        BY <3>1, <4>1
      <4>3. QED BY <2>4, <4>2 DEF DialogInv
    <3>3. QED BY <2>1, <2>4, <3>2 DEF DialogInv
  <2>5. \A i \in 1 .. Len(dialogs') - 1 : i \in 1 .. Len(dialogs')
    BY <2>1
  <2>6. QED BY <1>1, <1>2, <2>3, <2>4, <2>5 DEF DialogInv
<1>3. CASE active' = active /\ \E d \in Dialogs : dialogs' = Append(Rest, d)
  BY <1>1, <1>3, AnswerKeeps
<1>4. [kind |-> "downloadFailed", about |-> NoManifest] \in Dialogs
  BY DEF Dialogs
<1>5. QED BY <1>2, <1>3, <1>4 DEF OfferAccepted, Accepted, TypeOK

\* An info dialog is closed, and nothing else happens.
LEMMA InfoClosedKeeps ==
  ASSUME TypeOK, DialogInv, InfoClosed
  PROVE  DialogInv'
<1>1. /\ dialogs # << >> /\ dialogs' = Rest
      /\ UNCHANGED <<autoDue, checking, active, state>>
  BY DEF InfoClosed, Answering, checker, downloader
<1>2. /\ Len(dialogs) \in Nat \ {0} /\ Len(dialogs') = Len(dialogs) - 1
      /\ \A i \in 1 .. Len(dialogs') : i \in 1 .. Len(dialogs) - 1 /\ dialogs'[i] = dialogs[i]
  BY <1>1, RestFacts
<1>3. /\ One(checking) \in 0 .. 1 /\ One(active) \in 0 .. 1
      /\ One(checking') = One(checking) /\ One(active') = One(active)
  BY <1>1, OneFacts
<1>4. Pending' <= Pending /\ Pending' \in Nat /\ Pending \in Nat
  BY <1>2, <1>3 DEF Pending
<1>5. Pending' <= 3 /\ (autoDue' => Pending' <= 2)
  BY <1>1, <1>4 DEF DialogInv
<1>6. \A i \in 1 .. Len(dialogs') - 1 : i \in 1 .. Len(dialogs')
  BY <1>2
<1>7. autoDue' => \A i \in 1 .. Len(dialogs') : dialogs'[i].kind = "info"
  BY <1>1, <1>2 DEF DialogInv
<1>8. QED BY <1>1, <1>5, <1>6, <1>7 DEF DialogInv

\* Every step keeps the invariant about dialogs.
LEMMA DialogNext == IInv /\ DialogInv /\ [Next]_vars => DialogInv'
<1> SUFFICES ASSUME IInv, DialogInv, [Next]_vars PROVE DialogInv'
  OBVIOUS
<1> USE DEF checker, downloader
<1>1. TypeOK /\ BusyStateIsTrue
  BY DEF IInv
<1>2. CASE CheckRedirected
  BY <1>1, <1>2, CheckFailedKeeps, StutterKeeps DEF CheckRedirected
<1>3. CASE CheckErrs
  BY <1>1, <1>3, CheckFailedKeeps DEF CheckErrs
<1>4. CASE UpToDate \/ UpdateAvailable
  <2>1. /\ checking = TRUE /\ checking' = FALSE /\ active' = active /\ autoDue' = autoDue
    BY <1>1, <1>4 DEF UpToDate, UpdateAvailable, TypeOK
  <2>2. dialogs' = dialogs \/ \E d \in Dialogs : dialogs' = Append(dialogs, d)
    BY <1>4 DEF UpToDate, UpdateAvailable, Open, Dialogs
  <2>3. QED BY <1>1, <2>1, <2>2, EndKeeps
<1>5. CASE Receive
  BY <1>1, <1>5, FailKeeps, StutterKeeps DEF Receive
<1>6. CASE DownloadRedirected
  BY <1>1, <1>6, FailKeeps, StutterKeeps DEF DownloadRedirected
<1>7. CASE DownloadErrs
  BY <1>1, <1>7, FailKeeps DEF DownloadErrs
<1>8. CASE DownloadFinished \/ (Cancel /\ active)
  <2>1. active = TRUE /\ active' = FALSE /\ checking' = checking /\ autoDue' = autoDue
    BY <1>1, <1>8 DEF DownloadFinished, Cancel, Fail, TypeOK
  <2>2. dialogs' = dialogs \/ \E d \in Dialogs : dialogs' = Append(dialogs, d)
    BY <1>8 DEF DownloadFinished, Cancel, Fail, Open, Dialogs
  <2>3. QED BY <1>1, <2>1, <2>2, EndKeeps
<1>9. CASE OfferDeclined \/ FailureClosed \/ InstallDeclined \/ InstallAccepted
  <2>1. /\ dialogs # << >> /\ Top.kind # "info"
        /\ UNCHANGED <<autoDue, checking, active>>
    BY <1>9 DEF OfferDeclined, FailureClosed, InstallDeclined, InstallAccepted, Answering
  <2>2. [kind |-> "launchFailed", about |-> NoManifest] \in Dialogs
    BY DEF Dialogs
  <2>3. dialogs' = Rest \/ \E d \in Dialogs : dialogs' = Append(Rest, d)
    BY <1>9, <2>2 DEF OfferDeclined, FailureClosed, InstallDeclined, InstallAccepted
  <2>4. QED BY <1>1, <2>1, <2>3, AnswerKeeps
<1>10. CASE CheckManually
  BY <1>1, <1>10, CheckManuallyKeeps
<1>11. CASE CheckAutomatically
  BY <1>1, <1>11, CheckAutomaticallyKeeps
<1>12. CASE OfferAccepted \/ InfoClosed
  BY <1>1, <1>12, OfferAcceptedKeeps, InfoClosedKeeps
<1>13. CASE Cancel /\ ~active
  BY <1>13, StutterKeeps DEF Cancel
<1>14. CASE UNCHANGED vars
  BY <1>14, StutterKeeps DEF vars
<1>15. QED
  BY <1>2, <1>3, <1>4, <1>5, <1>6, <1>7, <1>8, <1>9, <1>10, <1>11, <1>12, <1>13, <1>14
     DEF Next, CheckerStep, DownloaderStep, User

\* The invariant about dialogs holds for any manifests and bounds.
THEOREM DialogInvariant == Spec => []DialogInv
<1>1. Init => DialogInv
  BY DEF Init, DialogInv, Pending, One
<1>2. QED BY <1>1, DialogNext, Invariant, PTL DEF Spec

\* However checks, downloads and answers interleave, no more than three dialogs
\* are open: the nested event loops of the handlers do not pile up.
THEOREM DialogsAlwaysBounded == Spec => []DialogsBounded
<1>1. IInv /\ DialogInv => DialogsBounded
  <2> SUFFICES ASSUME TypeOK, DialogInv PROVE Len(dialogs) <= 3
    BY DEF IInv, DialogsBounded
  <2>1. Len(dialogs) \in Nat /\ One(checking) \in 0 .. 1 /\ One(active) \in 0 .. 1
    BY OneFacts DEF TypeOK
  <2>2. QED BY <2>1 DEF DialogInv, Pending
<1>2. QED BY <1>1, Invariant, DialogInvariant, PTL

-----------------------------------------------------------------------------
\* Requests end: what of it is a safety property.

\* Each answer counts down a download, or a check.
LEMMA AnswersCount ==
  ASSUME TypeOK
  PROVE  /\ DownloaderStep => DownloadLeft' < DownloadLeft /\ CheckLeft' = CheckLeft
         /\ CheckerStep => CheckLeft' < CheckLeft /\ DownloadLeft' = DownloadLeft
<1> USE ClientAssumption DEF TypeOK, DownloadLeft, CheckLeft, checker, downloader
<1>1. DownloaderStep => DownloadLeft' < DownloadLeft /\ CheckLeft' = CheckLeft
  BY DEF DownloaderStep, Receive, DownloadRedirected, DownloadErrs, DownloadFinished, Fail
<1>2. CheckerStep => CheckLeft' < CheckLeft /\ DownloadLeft' = DownloadLeft
  BY DEF CheckerStep, CheckRedirected, CheckErrs, UpToDate, UpdateAvailable, CheckFailed
<1>3. QED BY <1>1, <1>2

\* A click, or the automatic check, prolongs nothing: at most it makes a new check.
LEMMA ClicksProlongNothing ==
  ASSUME TypeOK, User \/ CheckAutomatically
  PROVE  /\ active => DownloadLeft' <= DownloadLeft
         /\ checking => CheckLeft' <= CheckLeft \/ (state' = "Checking" /\ ~Busy)
<1> USE ClientAssumption DEF TypeOK, DownloadLeft, CheckLeft, checker, downloader
<1>1. CASE CheckManually \/ CheckAutomatically
  BY <1>1 DEF CheckManually, CheckAutomatically, Check, CheckFailed
<1>2. CASE Cancel
  BY <1>2 DEF Cancel, Fail
<1>3. CASE OfferAccepted
  BY <1>3 DEF OfferAccepted, Accepted
<1>4. CASE OfferDeclined \/ InfoClosed \/ FailureClosed \/ InstallDeclined \/ InstallAccepted
  BY <1>4 DEF OfferDeclined, InfoClosed, FailureClosed, InstallDeclined, InstallAccepted
<1>5. QED BY <1>1, <1>2, <1>3, <1>4 DEF User

\* A download takes at most as many answers as it has chunks and redirects left, and
\* so does a check that is not replaced, in whatever order dialogs are answered.
THEOREM RequestsAlwaysDescend == Spec => RequestsDescend
<1>1. IInv /\ [Next]_vars =>
        [/\ DownloaderStep => DownloadLeft' < DownloadLeft
         /\ active => DownloadLeft' <= DownloadLeft
         /\ CheckerStep => CheckLeft' < CheckLeft
         /\ checking => CheckLeft' <= CheckLeft \/ (state' = "Checking" /\ ~Busy)]_vars
  <2> SUFFICES ASSUME IInv, Next
               PROVE  /\ DownloaderStep => DownloadLeft' < DownloadLeft
                      /\ active => DownloadLeft' <= DownloadLeft
                      /\ CheckerStep => CheckLeft' < CheckLeft
                      /\ checking => CheckLeft' <= CheckLeft \/ (state' = "Checking" /\ ~Busy)
    OBVIOUS
  <2> USE DEF IInv
  <2>1. DownloadLeft \in Int /\ CheckLeft \in Int
    BY ClientAssumption DEF TypeOK, DownloadLeft, CheckLeft
  <2>2. TypeOK'
    BY NextInv
  <2>3. DownloadLeft' \in Int /\ CheckLeft' \in Int
    BY ClientAssumption, <2>2 DEF TypeOK, DownloadLeft, CheckLeft
  <2>4. CASE DownloaderStep \/ CheckerStep
    BY <2>1, <2>3, <2>4, AnswersCount
  <2>5. CASE User \/ CheckAutomatically
    BY <2>5, AnswersCount, ClicksProlongNothing
  <2>6. QED BY <2>4, <2>5 DEF Next
<1>2. QED BY <1>1, Invariant, PTL DEF Spec, RequestsDescend

=============================================================================
