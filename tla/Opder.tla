------------------------------- MODULE Opder -------------------------------
(***************************************************************************)
(* The OSCAR package downloader (src/Opder): the main window with the      *)
(* table of packages, the form that reads the repositories, the form that  *)
(* downloads the checked packages and the form for the user's own          *)
(* repositories.  None of them is modal.  Each of the two working forms    *)
(* has one QProcess that runs opd, a phase, and timers that outlive it.    *)
(* The forms only read the standard output of opd, which dies with its     *)
(* complaint on the other one.                                             *)
(*                                                                         *)
(* Every package is installable here: populateTable leaves the row of one  *)
(* that is not without items, and then uses them.                          *)
(***************************************************************************)
EXTENDS Naturals, Sequences, FiniteSets, SequencesExt

CONSTANTS
    Urls,       \* the repositories
    Listed,     \* those that "opd -f" prints when all goes well
    Offers,     \* and the names of the packages of each repository
    Texts,      \* bound: what the user types, as sets of addresses
    UserSpecified, \* the name of a repository the user has typed
    MaxShows,   \* bound: how often the two working forms are shown
    MaxEdits    \* bound: and the form for the repositories

ASSUME UrlsAssumption ==
    /\ Listed \subseteq Urls
    /\ Texts \subseteq SUBSET Urls
    /\ UserSpecified \notin Urls
ASSUME BoundsAssumption == MaxShows \in Nat /\ MaxEdits \in Nat

Names == UNION {Offers[url] : url \in Urls}
RepositoryNames == Urls \cup {UserSpecified}
TableRows == [package : Names, repositoryURL : Urls, repositoryName : RepositoryNames]
\* opd lists finitely many packages.
ASSUME RowsAssumption == IsFiniteSet(TableRows)
Proc == {"idle", "running", "killed"}

VARIABLES
    app,           \* "open" or "closed"
    opdcmd,        \* TRUE iff the script of opd is there
    minimized,     \* of the main window
    shot,          \* TRUE until the first refresh, 500 ms after the start
    refreshButton, downloadButton, \* TRUE iff enabled
    addRepositoryForm, urlText, useRepositoriesExclusively,
    downloadInfoForm, \* TRUE iff it is shown, the next one too
    downloadPackageForm,
    readPhase,     \* 0: nothing, 1: the repositories, 2: the packages of one
    readProc, readKills, readHides, \* the QProcess, and the pending timers
    repositories,  \* those still to be read, each with its name
    currRepositoryURL, currRepositoryName,
    readPackages, successfullyReadPackages,
    checked,       \* the rows of the table with a check mark
    dlPhase, dlPackages, dlProc, dlKills, dlHides,
    asked,         \* history: the repositories this refresh is to read
    missed,        \* history: those it has lost, since opd ended before it had
                   \* printed all, by itself or killed for an earlier refresh
    leftover,      \* history: those still in the hash when the user cancelled
                   \* a refresh, since the table was last shown
    readHasty,     \* history: this refresh began with timers of another pending
    staleHides, staleKills, \* history: the timers set before this download
                   \* began that are still pending
    silences,      \* history: how often in a row opd has printed nothing about
                   \* the package: 0, 1, then 2 and 1 in turn
    dlFailed,      \* history: opd could not be started for this download
    away,          \* history: minimized in the middle of this download
    shows, edits   \* the counters of MaxShows and MaxEdits

main == <<app, opdcmd, minimized, shot>>
budget == <<shows, edits>>
buttons == <<refreshButton, downloadButton>>
adding == <<addRepositoryForm, urlText, useRepositoriesExclusively>>
phase1and2 == <<readPhase, readProc, repositories, currRepositoryURL,
                currRepositoryName, readPackages, asked, missed>>
reading == <<downloadInfoForm, phase1and2, readKills, readHides, leftover,
             readHasty>>
table == <<successfullyReadPackages, checked>>
dlHistory == <<staleHides, staleKills, silences, dlFailed, away>>
downloading == <<downloadPackageForm, dlPhase, dlPackages, dlProc, dlKills,
                 dlHides, dlHistory>>
opderVars == <<main, budget, buttons, adding, reading, table, downloading>>

OpderTypeOK ==
    /\ app \in {"open", "closed"}
    /\ {opdcmd, minimized, shot, refreshButton, downloadButton, addRepositoryForm,
        useRepositoriesExclusively, downloadInfoForm, downloadPackageForm,
        readHasty, dlFailed, away} \subseteq BOOLEAN
    /\ urlText \subseteq Urls
    /\ readPhase \in 0..2 /\ readProc \in Proc
    /\ shows \in 0..MaxShows /\ edits \in 0..MaxEdits
    /\ {readKills, readHides, dlKills, dlHides, staleHides, staleKills}
         \subseteq 0..MaxShows
    /\ silences \in 0..2
    /\ DOMAIN repositories \subseteq Urls
    /\ \A url \in DOMAIN repositories : repositories[url] \in {url, UserSpecified}
    /\ currRepositoryURL \in Urls \cup {UserSpecified}
    /\ currRepositoryName \in RepositoryNames
    /\ readPackages \subseteq TableRows
    /\ successfullyReadPackages \subseteq TableRows
    /\ checked \subseteq successfullyReadPackages
    /\ dlPackages \in Seq(TableRows)
    /\ dlPhase \in 0..(Len(dlPackages) + 2) /\ dlProc \in Proc
    /\ asked \subseteq Urls /\ missed \subseteq Urls /\ leftover \subseteq Urls
    /\ dlProc = "running" => dlPhase \in 1..Len(dlPackages)
    /\ readProc = "running" => readPhase # 0

None == [url \in {} |-> UserSpecified]

OpderInit ==
    /\ app = "open" /\ opdcmd \in BOOLEAN /\ minimized = FALSE /\ shot = TRUE
    /\ refreshButton = TRUE /\ downloadButton = FALSE
    /\ addRepositoryForm = FALSE /\ urlText = {}
    /\ useRepositoriesExclusively = FALSE
    /\ downloadInfoForm = FALSE /\ readPhase = 0 /\ readProc = "idle"
    /\ readKills = 0 /\ readHides = 0
    /\ repositories = None /\ currRepositoryURL = UserSpecified
    /\ currRepositoryName = UserSpecified
    /\ readPackages = {} /\ successfullyReadPackages = {} /\ checked = {}
    /\ asked = {} /\ missed = {} /\ leftover = {} /\ readHasty = FALSE
    /\ downloadPackageForm = FALSE /\ dlPhase = 0 /\ dlPackages = <<>>
    /\ dlProc = "idle" /\ dlKills = 0 /\ dlHides = 0
    /\ staleHides = 0 /\ staleKills = 0 /\ silences = 0
    /\ dlFailed = FALSE /\ away = FALSE
    /\ shows = 0 /\ edits = 0

(* The user can use the window and its forms.                              *)
InFront == app = "open" /\ ~minimized

(* QProcess::start.  A process that still runs is forgotten: it neither    *)
(* answers nor exits any more as far as the program sees.                  *)
startRead == \E ok \in BOOLEAN : readProc' = IF ok THEN "running" ELSE "idle"

(* tryTerminate and kill: it ends, some of its output is lost.             *)
Killed(proc) == IF proc = "running" THEN "killed" ELSE proc

readKept == <<currRepositoryURL, currRepositoryName, readPackages, asked, readHasty>>

(* When nothing is read the current repository and the packages read so    *)
(* far are never looked at again: the code leaves them, the model does not.*)
forgetRead ==
    /\ currRepositoryURL' = UserSpecified
    /\ currRepositoryName' = UserSpecified
    /\ readPackages' = {}
    /\ asked' = {}
    /\ readHasty' = FALSE

-----------------------------------------------------------------------------
(* processRepository, with a repository left to read.                      *)
readNext(left) ==
    \E url \in DOMAIN left :
       /\ currRepositoryURL' = url
       /\ currRepositoryName' = left[url]
       /\ repositories' = [u \in DOMAIN left \ {url} |-> left[u]]
       /\ readPhase' = 2
       /\ startRead

(* refreshReadPackages.  Repositories left by a refresh that was cancelled *)
(* are still in the hash.                                                  *)
refreshReadPackages(text, exclusive) ==
    LET all == [u \in text \cup DOMAIN repositories |->
                  IF u \in text THEN UserSpecified ELSE repositories[u]]
    IN CASE readPhase # 0 \/ (exclusive /\ text = {}) -> UNCHANGED phase1and2
         [] readPhase = 0 /\ exclusive /\ text # {} ->
              /\ readPackages' = {}
              /\ readNext(all)
              /\ asked' = text
              /\ missed' = {}
         [] OTHER ->
              /\ repositories' = all
              /\ readPhase' = 1
              /\ readPackages' = {}
              /\ startRead
              /\ asked' = text \cup Listed
              /\ missed' = {}
              /\ UNCHANGED <<currRepositoryURL, currRepositoryName>>

(* OpderDownloadInfo::showEvent.                                           *)
infoShowEvent(text, exclusive) ==
    IF opdcmd
    THEN /\ downloadButton' = FALSE
         /\ refreshReadPackages(text, exclusive)
         /\ UNCHANGED readHides
    ELSE /\ readHides < MaxShows
         /\ readHides' = readHides + 1
         /\ UNCHANGED <<downloadButton, phase1and2>>

(* Opder::refreshButton_clicked.  show() on a form that is shown already   *)
(* does nothing.                                                           *)
showInfo(text, exclusive) ==
    IF downloadInfoForm
    THEN UNCHANGED <<shows, downloadButton, reading>>
    ELSE /\ shows < MaxShows
         /\ shows' = shows + 1
         /\ downloadInfoForm' = TRUE
         /\ infoShowEvent(text, exclusive)
         /\ readHasty' = (readKills + readHides > 0)
         /\ UNCHANGED <<readKills, leftover>>

refreshButton_clicked ==
    /\ InFront /\ refreshButton /\ ~downloadInfoForm
    /\ showInfo(urlText, useRepositoriesExclusively)
    /\ UNCHANGED <<main, edits, refreshButton, adding, table, downloading>>

(* The first refresh, started by the timer of Opder::init.                 *)
firstRefresh ==
    /\ app = "open" /\ shot
    /\ shot' = FALSE
    /\ showInfo(urlText, useRepositoriesExclusively)
    /\ UNCHANGED <<app, opdcmd, minimized, edits, refreshButton, adding, table,
                   downloading>>

(* Mutant: the phase is kept, as when the window is minimized.             *)
infoHideEvent_keeping_phase ==
    /\ downloadInfoForm' = FALSE
    /\ downloadButton' = (checked # {})
    /\ readProc' = Killed(readProc)
    /\ readKills' = readKills + 1
    /\ UNCHANGED <<readPhase, leftover, readKept>>

(* OpderDownloadInfo::hideEvent, when the user cancels the refresh or no   *)
(* opd was found.                                                          *)
infoHideEvent ==
    /\ downloadInfoForm' = FALSE
    /\ downloadButton' = (checked # {})
    /\ IF minimized
       THEN UNCHANGED <<readPhase, readProc, readKills, leftover, readKept>>
       ELSE /\ readPhase' = 0
            /\ readProc' = Killed(readProc)
            /\ readKills' = readKills + 1
            /\ leftover' = DOMAIN repositories
            /\ forgetRead

infoCancel ==
    /\ InFront /\ downloadInfoForm
    /\ infoHideEvent
    /\ UNCHANGED <<main, budget, refreshButton, adding, table, downloading, readHides,
                   repositories, missed>>

infoHideTimer ==
    /\ app = "open" /\ readHides > 0
    /\ readHides' = readHides - 1
    /\ IF downloadInfoForm
       THEN infoHideEvent
       ELSE UNCHANGED <<downloadInfoForm, downloadButton, readPhase, readProc, readKills,
                        leftover, readKept>>
    /\ UNCHANGED <<main, budget, refreshButton, adding, table, downloading, repositories, missed>>

readKill ==
    /\ app = "open" /\ readKills > 0
    /\ readKills' = readKills - 1
    /\ readProc' = Killed(readProc)
    /\ UNCHANGED <<main, budget, buttons, adding, downloadInfoForm, readPhase, repositories, missed,
                   readKept, readHides, leftover, table, downloading>>

-----------------------------------------------------------------------------
(* What opd prints when all goes well, and what it can have printed when   *)
(* it ends: all of it; nothing, as when it dies since it cannot get a file *)
(* or read it; any part of it if it was killed.  An ERROR on the standard  *)
(* output, as the form expects it, takes the place of all.                 *)
Lines == IF readPhase = 1 THEN Listed ELSE Offers[currRepositoryURL]
Printed(error) ==
    IF error THEN {{}}
    ELSE IF readProc = "killed" THEN SUBSET Lines ELSE {{}, Lines}

(* The hash and the list of packages once those lines are taken in.        *)
FoundRepositories(lines, error) ==
    CASE error -> None
      [] readPhase = 1 /\ ~error ->
           [u \in lines \cup DOMAIN repositories |->
              IF u \in lines THEN u ELSE repositories[u]]
      [] OTHER -> repositories
FoundPackages(lines) ==
    IF readPhase = 1 THEN readPackages
    ELSE readPackages \cup
           {[package |-> n, repositoryURL |-> currRepositoryURL,
             repositoryName |-> currRepositoryName] : n \in lines}

(* History: the repositories that were due and are not read, or not        *)
(* completely, because that is all that was printed.                       *)
Lost(error, lines) ==
    LET due == DOMAIN repositories \cup
               IF readPhase = 1 THEN Listed ELSE {currRepositoryURL}
    IN IF ~error /\ lines = Lines THEN {}
       ELSE due \ DOMAIN FoundRepositories(lines, error)

(* processRepository with no repository left: the form hides, and the      *)
(* table is built anew, with no row checked.                               *)
populateTable(packages) ==
    /\ successfullyReadPackages' = packages
    /\ checked' = {}
    /\ downloadButton' = FALSE
    /\ downloadInfoForm' = FALSE
    /\ readKills' = IF minimized THEN readKills ELSE readKills + 1
    /\ leftover' = {}
    /\ readPhase' = 0
    /\ readProc' = "idle"
    /\ forgetRead

(* OpderDownloadInfo::readDone.                                            *)
readDone ==
    /\ app = "open" /\ readProc # "idle" /\ readPhase # 0
    /\ \E error \in BOOLEAN : \E lines \in Printed(error) :
          LET left == FoundRepositories(lines, error)
              packages == FoundPackages(lines)
          IN /\ missed' = IF readProc = "killed" /\ ~readHasty THEN missed
                          ELSE missed \cup Lost(error, lines)
             /\ IF DOMAIN left # {}
                THEN /\ readNext(left)
                     /\ readPackages' = packages
                     /\ UNCHANGED <<table, downloadButton, downloadInfoForm, readKills,
                                    leftover, asked, readHasty>>
                ELSE /\ populateTable(packages)
                     /\ repositories' = left
    /\ UNCHANGED <<main, budget, refreshButton, adding, readHides, downloading>>

(* A process nobody waits for any more.                                    *)
readDropped ==
    /\ app = "open" /\ readProc # "idle" /\ readPhase = 0
    /\ readProc' = "idle"
    /\ UNCHANGED <<main, budget, buttons, adding, downloadInfoForm, readPhase, repositories, missed,
                   readKept, readKills, readHides, leftover, table, downloading>>

-----------------------------------------------------------------------------
addRepositoryMenuItem_activated ==
    /\ InFront /\ ~addRepositoryForm
    /\ edits < MaxEdits
    /\ edits' = edits + 1
    /\ addRepositoryForm' = TRUE
    /\ UNCHANGED <<main, shows, buttons, urlText, useRepositoriesExclusively, reading,
                   table, downloading>>

(* OpderAddRepository::hideEvent.  The text of the box is compared with    *)
(* the text made of it, which ends in a newline: any address makes a       *)
(* refresh, whether the "Refresh Table" button is enabled or not.          *)
addRepositoryDone(text, exclusive) ==
    /\ InFront /\ addRepositoryForm
    /\ addRepositoryForm' = FALSE
    /\ urlText' = text
    /\ useRepositoriesExclusively' = exclusive
    /\ IF text # {} \/ exclusive # useRepositoriesExclusively
       THEN showInfo(text, exclusive)
       ELSE UNCHANGED <<shows, downloadButton, reading>>
    /\ UNCHANGED <<main, edits, refreshButton, table, downloading>>

-----------------------------------------------------------------------------
(* The user clicks on the box of a row: no other row of that name stays    *)
(* checked.                                                                *)
cellValueChanged(row) ==
    /\ InFront
    /\ row \in successfullyReadPackages
    /\ checked' = IF row \in checked THEN checked \ {row}
                  ELSE {r \in checked : r.package # row.package} \cup {row}
    /\ downloadButton' = (checked' # {})
    /\ UNCHANGED <<main, budget, refreshButton, adding, reading, successfullyReadPackages,
                   downloading>>

(* Mutant: one package too many.                                           *)
downloadNext_one_more(number, list, proc) ==
    /\ dlPhase' = number
    /\ IF number <= Len(list) + 1
       THEN /\ dlProc' = "running"
            /\ UNCHANGED <<downloadButton, dlHides, dlFailed>>
       ELSE /\ dlProc' = proc
            /\ downloadButton' = (checked' # {})
            /\ dlHides' = dlHides + 1
            /\ UNCHANGED dlFailed

(* Mutant: the form is not told to hide when all is done.                  *)
downloadNext_staying(number, list, proc) ==
    /\ dlPhase' = number
    /\ dlProc' = IF number <= Len(list) THEN "running" ELSE proc
    /\ downloadButton' = IF number <= Len(list) THEN downloadButton
                         ELSE checked' # {}
    /\ UNCHANGED <<dlHides, dlFailed>>

(* Mutant: it is told so when the last package is begun.                   *)
downloadNext_hiding_early(number, list, proc) ==
    /\ dlPhase' = number
    /\ dlProc' = IF number <= Len(list) THEN "running" ELSE proc
    /\ downloadButton' = IF number < Len(list) THEN downloadButton
                         ELSE checked' # {}
    /\ dlHides' = IF number = Len(list) THEN dlHides + 1 ELSE dlHides
    /\ UNCHANGED dlFailed

(* downloadNext, for the package of that number.                           *)
downloadNext(number, list, proc) ==
    /\ dlPhase' = number
    /\ IF number <= Len(list)
       THEN /\ \E ok \in BOOLEAN :
                 /\ dlProc' = IF ok THEN "running" ELSE "idle"
                 /\ dlFailed' = (dlFailed \/ ~ok)
            /\ UNCHANGED <<downloadButton, dlHides>>
       ELSE /\ dlProc' = proc
            /\ downloadButton' = (checked' # {})
            /\ dlHides' = dlHides + 1
            /\ UNCHANGED dlFailed

(* Opder::downloadButton_clicked, OpderDownloadPackage::showEvent and      *)
(* downloadStart: nothing is started while dlPhase says that a download    *)
(* goes on.                                                                *)
downloadButton_clicked ==
    /\ InFront /\ downloadButton /\ ~downloadPackageForm
    /\ shows < MaxShows
    /\ shows' = shows + 1
    /\ downloadPackageForm' = TRUE
    /\ refreshButton' = FALSE
    /\ UNCHANGED checked
    /\ IF dlPhase # 0
       THEN UNCHANGED <<downloadButton, dlPhase, dlPackages, dlProc, dlHides, dlFailed,
                        staleHides, staleKills>>
       ELSE /\ \E list \in SetToSeqs(checked) :
                  dlPackages' = list /\ downloadNext(1, list, dlProc)
            /\ staleHides' = dlHides /\ staleKills' = dlKills
    /\ UNCHANGED <<main, edits, adding, reading, successfullyReadPackages, dlKills, silences, away>>

(* OpderDownloadPackage::hideEvent.                                        *)
packageHideEvent ==
    /\ downloadPackageForm' = FALSE
    /\ refreshButton' = TRUE
    /\ IF minimized
       THEN UNCHANGED <<dlPhase, dlPackages, dlProc, dlKills, staleKills, silences,
                        dlFailed, away>>
       ELSE /\ dlPhase' = 0
            /\ dlPackages' = <<>>     \* not looked at any more
            /\ dlProc' = Killed(dlProc)
            /\ dlKills' = dlKills + 1
            /\ staleKills' = 0 /\ silences' = 0
            /\ dlFailed' = FALSE /\ away' = FALSE

packageCancel ==
    /\ InFront /\ downloadPackageForm
    /\ packageHideEvent
    /\ staleHides' = 0
    /\ UNCHANGED <<main, budget, downloadButton, adding, reading, table, dlHides>>

packageHideTimer ==
    /\ app = "open" /\ dlHides > 0
    /\ dlHides' = dlHides - 1
    /\ staleHides' = IF staleHides = 0 THEN 0 ELSE staleHides - 1
    /\ IF downloadPackageForm
       THEN packageHideEvent
       ELSE UNCHANGED <<downloadPackageForm, refreshButton, dlPhase, dlPackages, dlProc,
                        dlKills, staleKills, silences, dlFailed, away>>
    /\ UNCHANGED <<main, budget, downloadButton, adding, reading, table>>

dlKill ==
    /\ app = "open" /\ dlKills > 0
    /\ dlKills' = dlKills - 1
    /\ staleKills' = IF staleKills = 0 THEN 0 ELSE staleKills - 1
    /\ dlProc' = Killed(dlProc)
    /\ UNCHANGED <<main, budget, buttons, adding, reading, table, downloadPackageForm, dlPhase,
                   dlPackages, dlHides, staleHides, silences, dlFailed, away>>

(* The first row with the name, version and repository name of the         *)
(* package loses its mark: any row with these, for the user sorts them.    *)
Uncheck(p) ==
    LET rows == {r \in successfullyReadPackages :
                   r.package = p.package /\ r.repositoryName = p.repositoryName}
    IN IF rows = {} THEN checked' = checked
       ELSE \E r \in rows : checked' = checked \ {r}

(* Mutant: after a package that cannot be downloaded, all over again.      *)
PhaseAfter_starting_over(line) ==
    CASE line = "" -> dlPhase [] line = "failed" -> 1 [] OTHER -> dlPhase + 1

PhaseAfter(line) == IF line = "" THEN dlPhase ELSE dlPhase + 1

(* OpderDownloadPackage::downloadDone, by what opd has printed: success,   *)
(* an error, or nothing, and then the same package is asked for again.     *)
downloadDone(line) ==
    /\ app = "open" /\ dlProc # "idle" /\ dlPhase # 0
    /\ IF line = "downloaded" /\ dlPhase <= Len(dlPackages)
       THEN Uncheck(dlPackages[dlPhase])
       ELSE checked' = checked
    /\ downloadNext(PhaseAfter(line), dlPackages, "idle")
    /\ silences' = IF line # "" THEN 0 ELSE IF silences = 1 THEN 2 ELSE 1
    /\ UNCHANGED <<main, budget, refreshButton, adding, reading, successfullyReadPackages,
                   downloadPackageForm, dlPackages, dlKills, staleHides, staleKills, away>>

dlDropped ==
    /\ app = "open" /\ dlProc # "idle" /\ dlPhase = 0
    /\ dlProc' = "idle"
    /\ UNCHANGED <<main, budget, buttons, adding, reading, table, downloadPackageForm, dlPhase,
                   dlPackages, dlKills, dlHides, dlHistory>>

-----------------------------------------------------------------------------
(* The window is minimized and its forms with it: their hideEvent runs,    *)
(* and leaves the processes alone.  Bound: not while the form for the      *)
(* repositories is shown.                                                  *)
Minimize ==
    /\ InFront /\ ~addRepositoryForm
    /\ minimized' = TRUE
    /\ downloadButton' = IF downloadInfoForm THEN checked # {} ELSE downloadButton
    /\ refreshButton' = (refreshButton \/ downloadPackageForm)
    /\ away' = (away \/ dlPhase # 0)
    /\ UNCHANGED <<app, opdcmd, shot, budget, adding, reading, table, downloadPackageForm, dlPhase,
                   dlPackages, dlProc, dlKills, dlHides, staleHides, staleKills, silences, dlFailed>>

Restore ==
    /\ app = "open" /\ minimized
    /\ minimized' = FALSE
    /\ IF downloadInfoForm
       THEN infoShowEvent(urlText, useRepositoriesExclusively)
       ELSE UNCHANGED <<downloadButton, phase1and2, readHides>>
    /\ refreshButton' = (refreshButton /\ ~downloadPackageForm)
    /\ UNCHANGED <<app, opdcmd, shot, budget, adding, downloadInfoForm, readKills, leftover,
                   readHasty, table, downloading>>

(* closeButton_clicked: the window is destroyed, its forms, processes and  *)
(* timers with it: nothing is left of what they held.                      *)
Close ==
    /\ InFront
    /\ app' = "closed" /\ shot' = FALSE
    /\ refreshButton' = FALSE /\ downloadButton' = FALSE
    /\ addRepositoryForm' = FALSE /\ urlText' = {}
    /\ useRepositoriesExclusively' = FALSE
    /\ downloadInfoForm' = FALSE /\ readPhase' = 0 /\ readProc' = "idle"
    /\ readKills' = 0 /\ readHides' = 0
    /\ repositories' = None /\ forgetRead
    /\ successfullyReadPackages' = {} /\ checked' = {}
    /\ missed' = {} /\ leftover' = {}
    /\ downloadPackageForm' = FALSE /\ dlPhase' = 0 /\ dlPackages' = <<>>
    /\ dlProc' = "idle" /\ dlKills' = 0 /\ dlHides' = 0
    /\ staleHides' = 0 /\ staleKills' = 0 /\ silences' = 0
    /\ dlFailed' = FALSE /\ away' = FALSE
    /\ UNCHANGED <<opdcmd, minimized, budget>>

User ==
    \/ refreshButton_clicked \/ infoCancel
    \/ addRepositoryMenuItem_activated
    \/ \E text \in Texts, exclusive \in BOOLEAN : addRepositoryDone(text, exclusive)
    \/ \E row \in successfullyReadPackages : cellValueChanged(row)
    \/ downloadButton_clicked \/ packageCancel
    \/ Minimize \/ Restore \/ Close

Reading == readDone \/ readDropped
Timers == firstRefresh \/ infoHideTimer \/ readKill \/ packageHideTimer \/ dlKill
Downloading == (\E line \in {"downloaded", "failed", ""} : downloadDone(line)) \/ dlDropped

OpderNext == User \/ Reading \/ Timers \/ Downloading

(* Every process of opd ends, whatever it has printed, and the timers that *)
(* hide the forms fire.                                                    *)
Fairness ==
    /\ WF_opderVars(Reading) /\ WF_opderVars(Downloading)
    /\ WF_opderVars(infoHideTimer) /\ WF_opderVars(packageHideTimer)

OpderSpec == OpderInit /\ [][OpderNext]_opderVars /\ Fairness

-----------------------------------------------------------------------------
(* The table a refresh ends with has every package of every repository it  *)
(* was to read but those about which opd did not print everything, of its  *)
(* own accord or since it was killed for an earlier refresh, half a second *)
(* or less before this one began.  One repository is lost by that, or all  *)
(* the listed ones with the listing; what is printed for a refresh that    *)
(* was cancelled never takes the place of an answer.  And every row is     *)
(* from a repository that this refresh was to read, or that was left over  *)
(* by one cancelled since the table was last shown                         *)
(* (OpderDownloadInfo.ui.h:79-84, 130-166, 216, 328-336).                  *)
Shows ==
    /\ readPhase # 0 /\ readPhase' = 0
    /\ readProc # "idle" /\ readProc' = "idle" /\ app' = "open"
Complete(packages, urls) ==
    \A url \in urls : \A n \in Offers[url] :
        \E p \in packages : p.package = n /\ p.repositoryURL = url
Sound(packages, urls) == {p.repositoryURL : p \in packages} \subseteq urls
TableIsTheAnswer ==
    [][Shows => /\ Complete(successfullyReadPackages', asked \ missed')
                /\ Sound(successfullyReadPackages', asked \cup leftover)]_opderVars

(* A download waits for nothing, its form shown for good until the user    *)
(* cancels it, only if opd could not be started or if the window was       *)
(* minimized meanwhile; the timers of the download before, which can end   *)
(* this one, never leave it waiting (OpderDownloadPackage.ui.h:159-168).   *)
Stalled == dlPhase # 0 /\ dlProc = "idle" /\ dlHides = 0
StalledOnlyIfAway == app = "open" /\ Stalled => dlFailed \/ away

(* A timer only ends a download that goes on if it was set for an earlier  *)
(* one and was still pending when this one began: neither the timer that   *)
(* hides the form nor the one that kills the process is ever its own       *)
(* (OpderDownloadPackage.ui.h:79-85, 163-167).                             *)
EndsDownload ==
    /\ dlProc = "running" /\ dlPhase # 0 /\ dlProc' # "running"
    /\ ~minimized /\ app' = "open"
TimersSpareDownloads ==
    [][EndsDownload => /\ dlHides' < dlHides => staleHides > 0
                       /\ dlKills' < dlKills => staleKills > 0]_opderVars

(* Every refresh comes to an end: its form hides, unless nothing runs for  *)
(* it.  Nothing does if opd cannot be started, or if the user wants only   *)
(* the repositories she has typed and has typed none: then the form stays  *)
(* until it is cancelled.  A download comes to an end too, or is Stalled,  *)
(* unless opd never again prints anything about the package, which is      *)
(* asked for again without end (OpderDownloadInfo.ui.h:141-165, 299-337,   *)
(* OpderDownloadPackage.ui.h:132-169, 186-222).                            *)
NothingRuns == opdcmd /\ readProc = "idle"
RequestsEnd ==
    /\ []<>(~downloadInfoForm \/ NothingRuns)
    /\ \/ []<>(~downloadPackageForm \/ Stalled)
       \/ <>[](dlProc # "idle" /\ silences # 0)
=============================================================================
