-------------------------------- MODULE Orm --------------------------------
(***************************************************************************)
(* The OSCAR repository manager (src/ORM): a window with the list of the   *)
(* repositories and the packages of one of them, and a thread that runs    *)
(* opd2 and sends what it printed to the window as an event.  The two      *)
(* share the mode and the address of the query without a lock.  opd2 and   *)
(* Qt are external: opd2 prints anything and ends.                         *)
(***************************************************************************)
EXTENDS Naturals, Sequences

CONSTANTS
    Items,          \* what a line of the list of repositories can say
    NoRepo,         \* the empty string: no line is selected
    MaxConnections, \* bound: clicks on "Add repo"
    MaxAnswers      \* bound: events the window has not yet handled

ASSUME ItemsAssumption == NoRepo \notin Items
ASSUME BoundsAssumption ==
    /\ MaxConnections \in Nat
    /\ MaxAnswers \in Nat

GET_LIST_REPO == 1
GET_LIST_OPKGS == 2
Modes == {GET_LIST_REPO, GET_LIST_OPKGS}
Urls == Items \cup {NoRepo}
Answers == [repos : SUBSET Items, opkgs : SUBSET Urls]

VARIABLES
    app,         \* "starting", "running", "closed", "exited" or "aborted"
    listRepos,   \* listReposWidget: its lines
    selected,    \* listReposWidget: the selected one, or NoRepo
    listOPKGs,   \* listOPKGsWidget: whose packages it shows, or {}
    addWidget,   \* TRUE iff the window for a new repository is shown
    connections, \* how often its accepted() is connected to the window
    slots,       \* the queries that accepted() has still to start
    typed,       \* the text of its line
    wait_popup,  \* "none" (not initialised), "open" or "closed"
    asked,       \* the repository that *wait_popup names
    orphan,      \* TRUE iff a popup is open to which nothing points
    repo_url, mode, \* the members of the thread, written by the window
    thread,      \* where the thread is, "idle" when it does not run
    query,       \* the repository on the command line of opd2
    events,      \* opd_done events sent to the window
    overlapped,  \* history: a popup was opened since the thread started
    alone,       \* history: *wait_popup was opened when nothing was going on
    fresh        \* history: the last init started the thread for packages,
                 \* and opd2 has not yet failed to name one

window == <<app, listRepos, selected, listOPKGs>>
adding == <<addWidget, connections, slots, typed>>
popup == <<wait_popup, asked, orphan, alone>>
params == <<repo_url, mode>>
worker == <<thread, query, events, overlapped, fresh>>
vars == <<window, adding, popup, params, worker>>

TypeOK ==
    /\ app \in {"starting", "running", "closed", "exited", "aborted"}
    /\ listRepos \subseteq Items
    /\ selected \in listRepos \cup {NoRepo}
    /\ listOPKGs \subseteq Urls
    /\ addWidget \in BOOLEAN
    /\ connections \in 0..MaxConnections
    /\ slots \in Seq(Modes)
    /\ typed \in Urls
    /\ wait_popup \in {"none", "open", "closed"}
    /\ asked \in Urls
    /\ {orphan, alone, overlapped, fresh} \subseteq BOOLEAN
    /\ repo_url \in Urls
    /\ mode \in Modes \cup {0}
    /\ thread \in {"idle", "started", "compared", "repos", "opkgs", "done"}
    /\ query \in Urls
    /\ events \in Seq(Answers)
    /\ thread # "idle" => mode \in Modes
    /\ events # <<>> => wait_popup # "none"

Init ==
    /\ app = "starting"
    /\ listRepos = {} /\ selected = NoRepo /\ listOPKGs = {}
    /\ addWidget = FALSE /\ connections = 0 /\ slots = <<>> /\ typed = NoRepo
    /\ wait_popup = "none" /\ asked = NoRepo
    /\ orphan = FALSE /\ alone = FALSE
    /\ repo_url = NoRepo /\ mode = 0
    /\ thread = "idle" /\ query = NoRepo /\ events = <<>>
    /\ overlapped = FALSE /\ fresh = FALSE

-----------------------------------------------------------------------------
(* Mutant: the thread is started, then told what to do.                    *)
init_started_first(url, m) ==
    /\ IF thread = "idle"
       THEN /\ thread' = "started"
            /\ repo_url' = repo_url
            /\ mode' = m
       ELSE /\ thread' = thread
            /\ repo_url' = url
            /\ mode' = m
    /\ fresh' = (thread = "idle" /\ m = GET_LIST_OPKGS)
    /\ UNCHANGED <<query, events>>

(* CommandExecutionThread::init.  start() does nothing when the thread     *)
(* runs, and its members are assigned all the same.                        *)
init(url, m) ==
    /\ repo_url' = url
    /\ mode' = m
    /\ thread' = IF thread = "idle" THEN "started" ELSE thread
    /\ fresh' = (thread = "idle" /\ m = GET_LIST_OPKGS)
    /\ UNCHANGED <<query, events>>

(* new ORMWaitDialog, show: the one wait_popup pointed to is not deleted,  *)
(* and stays on the screen if it was there.                                *)
ask_to_wait(url) ==
    /\ wait_popup' = "open"
    /\ asked' = url
    /\ orphan' = (orphan \/ wait_popup = "open")
    /\ overlapped' = (thread # "idle")
    /\ alone' = (thread = "idle" /\ events = <<>> /\ wait_popup # "open")

(* The constructor: opd2 is run while the window is built, and each word   *)
(* it prints becomes a line.                                               *)
ORMMainWindow ==
    /\ app' = "running"
    /\ listRepos' \in SUBSET Items

main ==
    /\ app = "starting"
    /\ \/ ORMMainWindow
       \/ app' = "closed" /\ UNCHANGED listRepos    \* no OSCAR_HOME
    /\ UNCHANGED <<selected, listOPKGs, adding, popup, params, worker>>

(* The window takes input between two slots; the window for a new          *)
(* repository blocks it, a popup does not.                                 *)
Attentive == app = "running" /\ slots = <<>>
InFront == Attentive /\ ~addWidget

(* The button "Add repo".                                                  *)
create_add_repo_window ==
    /\ InFront
    /\ connections < MaxConnections
    /\ connections' = connections + 1
    /\ addWidget' = TRUE
    /\ UNCHANGED <<window, slots, typed, popup, params, worker>>

rejected ==
    /\ Attentive /\ addWidget
    /\ addWidget' = FALSE
    /\ UNCHANGED <<window, connections, slots, typed, popup, params, worker>>

(* OK in that window: as many calls of add_repo_to_list as there are       *)
(* connections, each of them two calls of init.                            *)
accepted(text) ==
    /\ Attentive /\ addWidget
    /\ addWidget' = FALSE
    /\ typed' = text
    /\ slots' = [i \in 1..(2 * connections) |->
                   IF i % 2 = 1 THEN GET_LIST_REPO ELSE GET_LIST_OPKGS]
    /\ UNCHANGED <<window, connections, popup, params, worker>>

(* Mutant: the packages first, then the repositories.                      *)
add_repo_to_list_swapped ==
    /\ app = "running" /\ slots # <<>>
    /\ slots' = Tail(slots)
    /\ init(typed, 3 - Head(slots))
    /\ IF Head(slots) = GET_LIST_REPO
       THEN ask_to_wait(typed)
       ELSE UNCHANGED <<popup, overlapped>>
    /\ UNCHANGED <<window, addWidget, connections, typed>>

(* add_repo_to_list: the popup and the first query, then the second one.   *)
(* The thread runs between the two.                                        *)
add_repo_to_list ==
    /\ app = "running" /\ slots # <<>>
    /\ slots' = Tail(slots)
    /\ init(typed, Head(slots))
    /\ IF Head(slots) = GET_LIST_REPO
       THEN ask_to_wait(typed)
       ELSE UNCHANGED <<popup, overlapped>>
    /\ UNCHANGED <<window, addWidget, connections, typed>>

(* A line is selected, or none any more.                                   *)
display_opkgs_from_repo(line) ==
    /\ InFront
    /\ line \in (listRepos \cup {NoRepo}) \ {selected}
    /\ selected' = line
    /\ ask_to_wait(line)
    /\ init(line, GET_LIST_OPKGS)
    /\ UNCHANGED <<app, listRepos, listOPKGs, adding>>

(* The user closes the popups, or the window.  A thread that is destroyed  *)
(* while it runs takes the program with it.                                *)
ClosePopups ==
    /\ Attentive
    /\ orphan \/ wait_popup = "open"
    /\ orphan' = FALSE
    /\ wait_popup' = "closed"
    /\ UNCHANGED <<window, adding, asked, alone, params, worker>>

Close ==
    /\ InFront
    /\ app' = IF thread = "idle" THEN "closed" ELSE "aborted"
    /\ UNCHANGED <<listRepos, selected, listOPKGs, adding, popup, params, worker>>

-----------------------------------------------------------------------------
(* Mutant: only an answer that says something closes the popup.            *)
kill_popup_if_answered ==
    /\ Attentive /\ events # <<>>
    /\ events' = Tail(events)
    /\ LET answer == Head(events) IN
       /\ listOPKGs' = IF answer.opkgs # {} THEN answer.opkgs ELSE listOPKGs
       /\ listRepos' = IF answer.repos # {} THEN answer.repos ELSE listRepos
       /\ selected' = IF answer.repos # {} THEN NoRepo ELSE selected
       /\ wait_popup' = IF answer.repos \cup answer.opkgs = {}
                        THEN wait_popup ELSE "closed"
    /\ UNCHANGED <<app, adding, asked, orphan, alone, params, thread, query,
                   overlapped, fresh>>

(* The slot for opd_done.  An empty list changes nothing.  clear() on a    *)
(* list with a selection emits itemSelectionChanged: before the list is    *)
(* filled again display_opkgs_from_repo runs for no repository, with a     *)
(* popup of its own, and that popup is the one closed at the end.          *)
kill_popup ==
    /\ Attentive /\ events # <<>>
    /\ LET answer == Head(events)
           reenters == answer.repos # {} /\ selected # NoRepo
       IN
       /\ listOPKGs' = IF answer.opkgs # {} THEN answer.opkgs ELSE listOPKGs
       /\ listRepos' = IF answer.repos # {} THEN answer.repos ELSE listRepos
       /\ selected' = IF answer.repos # {} THEN NoRepo ELSE selected
       /\ events' = Tail(events)
       /\ wait_popup' = "closed"
       /\ IF reenters
          THEN /\ asked' = NoRepo
               /\ orphan' = (orphan \/ wait_popup = "open")
               /\ overlapped' = (thread # "idle")
               /\ alone' = FALSE
               /\ repo_url' = NoRepo
               /\ mode' = GET_LIST_OPKGS
               /\ thread' = IF thread = "idle" THEN "started" ELSE thread
               /\ fresh' = (thread = "idle")
          ELSE UNCHANGED <<asked, orphan, alone, params, thread, overlapped, fresh>>
    /\ UNCHANGED <<app, adding, query>>

-----------------------------------------------------------------------------
(* CommandExecutionThread::run.  mode and repo_url are read without a      *)
(* lock, mode once for each comparison.                                    *)
compare_repo ==
    /\ app = "running" /\ thread = "started"
    /\ thread' = IF mode = GET_LIST_REPO THEN "repos" ELSE "compared"
    /\ UNCHANGED <<window, adding, popup, params, query, events, overlapped, fresh>>

compare_opkgs ==
    /\ app = "running" /\ thread = "compared"
    /\ IF mode = GET_LIST_OPKGS
       THEN thread' = "opkgs" /\ query' = repo_url /\ UNCHANGED app
       ELSE app' = "exited" /\ UNCHANGED <<thread, query>>
    /\ UNCHANGED <<listRepos, selected, listOPKGs, adding, popup, params, events,
                   overlapped, fresh>>

emit(answer) ==
    /\ Len(events) < MaxAnswers
    /\ events' = Append(events, answer)
    /\ thread' = "done"

opd2_list_repos ==
    /\ app = "running" /\ thread = "repos"
    /\ \E lines \in SUBSET Items : emit([repos |-> lines, opkgs |-> {}])
    /\ UNCHANGED <<window, adding, popup, params, query, overlapped, fresh>>

opd2_list_opkgs ==
    /\ app = "running" /\ thread = "opkgs"
    /\ \/ emit([repos |-> {}, opkgs |-> {query}]) /\ UNCHANGED fresh
       \/ emit([repos |-> {}, opkgs |-> {}]) /\ fresh' = FALSE
    /\ UNCHANGED <<window, adding, popup, params, query, overlapped>>

(* run has returned: from here on start() starts the thread again.         *)
finished ==
    /\ app = "running" /\ thread = "done"
    /\ thread' = "idle"
    /\ overlapped' = FALSE
    /\ UNCHANGED <<window, adding, popup, params, query, events, fresh>>

-----------------------------------------------------------------------------
User == \/ create_add_repo_window
        \/ rejected
        \/ \E text \in Items : accepted(text)
        \/ \E line \in Urls : display_opkgs_from_repo(line)
        \/ ClosePopups
        \/ Close
Window == add_repo_to_list \/ kill_popup
Thread == \/ compare_repo \/ compare_opkgs
          \/ opd2_list_repos \/ opd2_list_opkgs
          \/ finished

Next == main \/ User \/ Window \/ Thread

(* The event loop of Qt and the scheduler of the system serve the window   *)
(* and the thread; opd2 ends.  The user owes nothing.                      *)
Fairness == WF_vars(Window) /\ WF_vars(Thread)

Spec == Init /\ [][Next]_vars /\ Fairness

(* A user who does one thing at a time, as CommandExecutionThread.h        *)
(* assumes: nothing is touched while a query runs or a popup is open.      *)
Idle == thread = "idle" /\ events = <<>> /\ wait_popup # "open"
Patient == Idle /\ ~orphan /\ (User \/ main)
PatientSpec == Init /\ [][Patient \/ Window \/ Thread]_vars /\ Fairness

-----------------------------------------------------------------------------
(* The thread gives up ("Unsupported mode", and the program exits) only    *)
(* when the window has opened another popup during this run of the thread: *)
(* the two writes of mode by one add_repo_to_list never cause it, whenever *)
(* the thread reads them (CommandExecutionThread.cpp:54-82).               *)
ExitsOnlyWhenOverlapped == app = "exited" => overlapped

(* When nothing goes on any more and the last query was one for packages   *)
(* that found the thread idle and an answer, the packages shown are those  *)
(* of the repository its popup named, whatever answers came before it      *)
(* (ORM_MainGUI.cpp:100-139, 181-198).                                     *)
Quiet == thread = "idle" /\ events = <<>> /\ slots = <<>>
ShowsWhatWasAsked ==
    app = "running" /\ Quiet /\ fresh => listOPKGs = {asked}

(* A popup opened while nothing was going on is closed again, unless       *)
(* another one takes its place (ORM_MainGUI.cpp:138: "We close the popup   *)
(* window that asks the user to wait").                                    *)
LonePopupCloses ==
    (wait_popup = "open" /\ alone) ~>
        (wait_popup = "closed" \/ ~alone \/ app # "running")

(* ORM_MainGUI.cpp:85: when an opd2 command ends "we also need to close    *)
(* the dialog that asks to user to wait".  With a user who does one thing  *)
(* at a time every popup would then be closed.                             *)
PopupsClose ==
    (wait_popup = "open" \/ orphan) ~>
        ((wait_popup # "open" /\ ~orphan) \/ app # "running")
=============================================================================
