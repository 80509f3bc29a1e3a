---------------------------- MODULE OscarWizard ----------------------------
(***************************************************************************)
(* The OSCAR wizard (bin/oscar_wizard, lib/OSCAR/AddNode.pm): a sequence   *)
(* of sessions, in install or in manage mode, each of which shows a button *)
(* per step.  The steps a site has reached are recorded in ODA; a session  *)
(* reads the record once and works from that copy, from the state of its   *)
(* buttons and from a list of clients it fetches once.                     *)
(*                                                                         *)
(* The windows the steps open return at once; what their buttons do comes  *)
(* later, through callbacks into the wizard.                               *)
(***************************************************************************)

CONSTANTS Clients      \* the client names

InstallSteps == {"build_image", "addclients", "netboot", "post_install",
                 "test_install"}
ManageSteps == {"delete_nodes5", "monitor_deployment", "netbootmgr",
                "ganglia", "add_nodes", "delete_nodes8"}

VARIABLES
    wizard,         \* ODA: the install steps whose status is not "disabled"
    manage,         \* ODA: the same for the manage steps
    sis,            \* clients in the SIS database
    oda,            \* clients in ODA
    grouped,        \* clients in the group "oscar_clients"
    status,         \* each client's package status: 0 (none), 2 or 8
    image,          \* TRUE iff an image has been built and set up
    mode,           \* of the running session: "none", "install" or "manage"
    step_status,    \* the session's copy of wizard
    manage_status,  \* the session's copy of manage
    buttons,        \* the keys of %buttons
    normal,         \* the buttons that can be pressed
    client_nodes,   \* the list @client_nodes
    windows,        \* windows that can still call back
    serverDone,     \* history: install_server has succeeded
    setupDone       \* history: post_install has succeeded

recorded == <<wizard, manage>>
nodes == <<sis, oda, grouped, status>>
session == <<mode, step_status, manage_status, buttons, normal, client_nodes,
             windows>>
history == <<serverDone, setupDone>>
vars == <<recorded, nodes, image, session, history>>

-----------------------------------------------------------------------------
Init == /\ wizard = {} /\ manage = {}
        /\ sis = {} /\ oda = {} /\ grouped = {}
        /\ status = [c \in Clients |-> 0]
        /\ image = FALSE
        /\ mode = "none"
        /\ step_status = {} /\ manage_status = {}
        /\ buttons = {} /\ normal = {} /\ client_nodes = {} /\ windows = {}
        /\ serverDone = FALSE /\ setupDone = FALSE

(* oscar_button: "normal" when the copies say so or have no such step.     *)
oscar_button(b) == b \in InstallSteps \cup ManageSteps =>
                     b \in step_status \cup manage_status

InstallButtons == {"install_server", "build_image", "addclients", "netboot",
                   "delete_nodes5", "monitor_deployment", "post_install",
                   "test_install"}
ManageButtons == {"build_image", "add_nodes", "delete_nodes8",
                  "install_uninstall_packages", "test_install"}
AddNodeButtons == {"addclients", "netboot", "monitor_deployment",
                   "post_install"}

start(m) ==
    /\ mode = "none"
    /\ mode' = m
    /\ step_status' = wizard
    /\ manage_status' = manage
    /\ buttons' = IF m = "install" THEN InstallButtons ELSE ManageButtons
    /\ normal' = {b \in buttons' : oscar_button(b)'}
                   \cup (IF m = "install" THEN {"delete_nodes5"} ELSE {})
    /\ client_nodes' = {}
    /\ windows' = {}
    /\ UNCHANGED <<recorded, nodes, image, history>>

Quit ==
    /\ mode # "none"
    /\ mode' = "none"
    /\ step_status' = {} /\ manage_status' = {} /\ buttons' = {}
    /\ normal' = {} /\ client_nodes' = {} /\ windows' = {}
    /\ UNCHANGED <<recorded, nodes, image, history>>

-----------------------------------------------------------------------------
(* A step enables the next one, unless the copy says it is enabled.        *)
Enable(step) ==
    IF step \in step_status
      THEN UNCHANGED <<wizard, normal>>
      ELSE /\ normal' = normal \cup {step}
           /\ wizard' = wizard \cup {step}

(* Mutant: the next step is enabled whatever install_server returned.      *)
run_server_install_unchecked(ok) ==
    /\ "install_server" \in normal
    /\ serverDone' = (serverDone \/ ok)
    /\ wizard' = wizard \cup {"build_image"}
    /\ step_status' = wizard'
    /\ normal' = normal \cup {"build_image"}
    /\ UNCHANGED <<manage, nodes, image, mode, manage_status, buttons,
                   client_nodes, windows, setupDone>>

run_server_install(ok) ==
    LET next == IF ok /\ "build_image" \notin step_status
                  THEN {"build_image"} ELSE {}
    IN  /\ "install_server" \in normal
        /\ serverDone' = (serverDone \/ ok)
        /\ wizard' = wizard \cup next
        /\ step_status' = wizard'
        /\ normal' = normal \cup next \cup (wizard' \cap {"addclients"})
        /\ UNCHANGED <<manage, nodes, image, mode, manage_status, buttons,
                       client_nodes, windows, setupDone>>

(* The window is open when the next step is enabled.  In a manage session  *)
(* the button of that step exists once "Add OSCAR Clients..." has been     *)
(* pressed; before, the callback dies on it.                               *)
build_oscar_image ==
    /\ "build_image" \in normal
    /\ windows' = windows \cup {"image"}
    /\ IF "addclients" \in step_status \cup buttons
         THEN /\ wizard' = wizard \cup {"addclients"}
              /\ step_status' = wizard'
              /\ normal' = normal \cup ({"addclients"} \cap buttons)
         ELSE UNCHANGED <<wizard, step_status, normal>>
    /\ UNCHANGED <<manage, nodes, image, mode, manage_status, buttons,
                   client_nodes, history>>

(* The image window has built an image; the package scripts may fail.      *)
postimagebuild ==
    /\ "image" \in windows
    /\ \/ /\ image' = TRUE
          /\ IF "addclients" \in buttons
               THEN Enable("addclients")
               ELSE UNCHANGED <<wizard, normal>>
       \/ UNCHANGED <<image, wizard, normal>>
    /\ UNCHANGED <<manage, nodes, mode, step_status, manage_status, buttons,
                   client_nodes, windows, history>>

(* The manage mode's window to add clients, with four buttons of its own.  *)
addnode_window ==
    /\ "add_nodes" \in normal
    /\ buttons' = buttons \cup AddNodeButtons
    /\ normal' = normal \cup {b \in AddNodeButtons : oscar_button(b)}
    /\ UNCHANGED <<recorded, nodes, image, mode, step_status, manage_status,
                   client_nodes, windows, history>>

-----------------------------------------------------------------------------
(* get_client_nodes, only "if @client_nodes is empty".                     *)
fetched(now) == IF client_nodes = {} THEN now ELSE client_nodes

build_oscar_clients ==
    /\ "addclients" \in normal
    /\ client_nodes' = fetched(oda)
    /\ windows' = windows \cup {"addclients"}
    /\ UNCHANGED <<recorded, nodes, image, mode, step_status, manage_status,
                   buttons, normal, history>>

(* Mutant: the group only gets the clients the list did not have.          *)
populate_client_group_nodes_once(now) ==
    /\ client_nodes' = fetched(now)
    /\ grouped' = IF client_nodes = {} THEN client_nodes' ELSE grouped
    /\ status' = [c \in Clients |-> IF c \in client_nodes' THEN 2
                                                           ELSE status[c]]

(* populate_client_group_nodes, for the clients in ODA now.                *)
populate_client_group_nodes(now) ==
    /\ client_nodes' = fetched(now)
    /\ grouped' = grouped \cup client_nodes'
    /\ status' = [c \in Clients |-> IF c \in client_nodes' THEN 2
                                                           ELSE status[c]]

(* Mutant: the status of the step is only shown, not recorded.             *)
enable_netboot_on_screen_only ==
    /\ normal' = normal \cup {"netboot", "delete_nodes5", "monitor_deployment"}
    /\ UNCHANGED <<wizard, manage>>

enable_netboot ==
    IF "netboot" \in step_status
      THEN UNCHANGED <<wizard, manage, normal>>
      ELSE /\ normal' = normal \cup {"netboot", "delete_nodes5",
                                     "monitor_deployment"}
           /\ wizard' = wizard \cup {"netboot"}
           /\ manage' = manage \cup {"delete_nodes5", "monitor_deployment",
                                     "netbootmgr", "ganglia"}

(* The window has defined the clients new (mksirange) and calls back       *)
(* postaddclients, which gives up at once when $step_number is undefined:  *)
(* that is so in a manage session, since line 497.  post_clients makes ODA *)
(* follow SIS (module NodeDelete); ok says whether it succeeds.            *)
postaddclients(new, ok) ==
    /\ "addclients" \in windows
    /\ new # {}
    /\ sis' = sis \cup new
    /\ \/ /\ mode = "manage"
          /\ UNCHANGED <<recorded, oda, grouped, status, normal, client_nodes>>
       \/ /\ mode = "install"
          /\ ok
          /\ oda' = sis'
          /\ populate_client_group_nodes(oda')
          /\ enable_netboot
       \/ /\ mode = "install"
          /\ ~ok
          /\ oda' \in {oda, sis'}
          /\ UNCHANGED <<recorded, grouped, status, normal, client_nodes>>
    /\ UNCHANGED <<image, mode, step_status, manage_status, buttons, windows,
                   history>>

(* setup_network; the window of an "Add OSCAR Clients" session opens       *)
(* mac_window itself and enables nothing.                                  *)
setup_network ==
    /\ mode = "install"
    /\ "netboot" \in normal
    /\ Enable("post_install")
    /\ UNCHANGED <<manage, nodes, image, mode, step_status, manage_status,
                   buttons, client_nodes, windows, history>>

(* A deletion that succeeds (module NodeDelete); SIS keeps the clients.    *)
delnodes(selected) ==
    /\ {"delete_nodes5", "delete_nodes8"} \cap normal # {}
    /\ selected # {}
    /\ oda' = oda \ selected
    /\ grouped' = grouped \ selected
    /\ status' = [c \in Clients |-> IF c \in selected THEN 0 ELSE status[c]]
    /\ UNCHANGED <<recorded, sis, image, session, history>>

(* Every client in ODA, fetched anew, whatever post_install returned.      *)
update_client_node_package_status ==
    /\ grouped' = grouped \cup oda
    /\ status' = [c \in Clients |-> IF c \in oda THEN 8 ELSE status[c]]

run_post_install(ok) ==
    /\ "post_install" \in normal
    /\ update_client_node_package_status
    /\ setupDone' = (setupDone \/ ok)
    /\ IF ok THEN Enable("test_install") ELSE UNCHANGED <<wizard, normal>>
    /\ UNCHANGED <<manage, sis, oda, image, mode, step_status,
                   manage_status, buttons, client_nodes, windows, serverDone>>

run_tests ==
    /\ "test_install" \in normal
    /\ \/ manage' = manage                               \* a test has failed
       \/ IF "delete_nodes8" \in manage_status
            THEN manage' = manage
            ELSE manage' = manage \cup {"add_nodes", "delete_nodes8"}
    /\ UNCHANGED <<wizard, nodes, image, session, history>>

-----------------------------------------------------------------------------
Next == \/ \E m \in {"install", "manage"} : start(m)
        \/ Quit
        \/ \E ok \in BOOLEAN : run_server_install(ok) \/ run_post_install(ok)
        \/ build_oscar_image \/ postimagebuild
        \/ addnode_window \/ build_oscar_clients
        \/ \E new \in SUBSET (Clients \ sis), ok \in BOOLEAN :
              postaddclients(new, ok)
        \/ setup_network
        \/ \E selected \in SUBSET oda : delnodes(selected)
        \/ run_tests

Spec == Init /\ [][Next]_vars

-----------------------------------------------------------------------------
(* The type invariant; what the screen offers there is a button for.       *)
TypeOK == /\ wizard \subseteq InstallSteps /\ manage \subseteq ManageSteps
          /\ sis \subseteq Clients /\ oda \subseteq sis
          /\ grouped \subseteq sis
          /\ status \in [Clients -> {0, 2, 8}]
          /\ image \in BOOLEAN
          /\ mode \in {"none", "install", "manage"}
          /\ step_status \subseteq InstallSteps
          /\ manage_status \subseteq ManageSteps
          /\ normal \subseteq buttons
          /\ client_nodes \subseteq sis
          /\ windows \subseteq {"image", "addclients"}
          /\ serverDone \in BOOLEAN /\ setupDone \in BOOLEAN

(* The steps open one after the other, over all the sessions and whatever  *)
(* copy of the record each has: each only after the one before it, the     *)
(* first after the server's packages and the last after a complete setup.  *)
StepsInOrder ==
    /\ "build_image" \in wizard => serverDone
    /\ "addclients" \in wizard => "build_image" \in wizard
    /\ "netboot" \in wizard => "addclients" \in wizard /\ sis # {}
    /\ "post_install" \in wizard => "netboot" \in wizard
    /\ "test_install" \in wizard => "post_install" \in wizard /\ setupDone
    /\ "add_nodes" \in manage => "test_install" \in wizard

(* A step the screen offers is recorded: leaving the wizard and coming     *)
(* back loses no progress.                                                 *)
ScreenIsRecorded == normal \cap InstallSteps \subseteq wizard

(* A client with a package status is in the clients' group: the two        *)
(* are set from lists fetched at different times, in any session.          *)
StatusOnlyInGroup == \A c \in Clients : status[c] # 0 => c \in grouped
=============================================================================
