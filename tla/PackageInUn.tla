---------------------------- MODULE PackageInUn ----------------------------
(***************************************************************************)
(* Adding and removing OSCAR packages on a running cluster                 *)
(* (lib/OSCAR/PackageInUn.pm, install_uninstall_packages).                 *)
(*                                                                         *)
(* One session of the Selector yields a set of packages to remove and a    *)
(* set to install.  Each package is pushed through a fixed sequence of     *)
(* commands: clients (cexec / cpush), head node, image, and at last the    *)
(* 'installed' field of the database.  Any command may fail, on some of    *)
(* the nodes only, after which the package is given up but nothing that    *)
(* was done is undone; the session may also be killed between two          *)
(* commands.  What survives a session is the database and the rpm          *)
(* databases of the nodes, of the head node and of the image.              *)
(***************************************************************************)
EXTENDS FiniteSets

CONSTANTS
    Packages,       \* the OSCAR packages (opkgs)
    Nodes,          \* the clients
    Requires,       \* the direct "requires" pairs <<p, r>> of the database
    Rpms,           \* for each opkg, the groups its rpm list names rpms for
    OnDisk,         \* the opkgs whose rpm files are found on the head node
    ClientScripts,  \* the opkgs with scripts to run on the clients
    NoPackage

(* Rpms[p] holds the groups create_and_populate_basic_node_info makes.     *)
(* "oscar_client", the group uninstall_rpms_patch asks for, is not one.    *)
Groups == {"oscar_clients", "oscar_server", "all"}

ASSUME RequiresAssumption == Requires \subseteq Packages \X Packages
ASSUME RpmsAssumption == Rpms \in [Packages -> SUBSET Groups]
ASSUME NoPackageAssumption == NoPackage \notin Packages

VARIABLES
    installed,      \* opkgs with the 'installed' field set for the head node
    clients,        \* for each client, the opkgs whose rpms it has
    server,         \* the opkgs whose rpms the head node has
    image,          \* the opkgs whose rpms the one image has
    toRemove,       \* @packagesThatShouldBeUninstalled not dealt with yet
    toInstall,      \* @packagesThatShouldBeInstalled not dealt with yet
    pkg,            \* the package of the current iteration
    pc              \* the next command of the session

vars == <<installed, clients, server, image, toRemove, toInstall, pkg, pc>>

UninstallSteps == {"u_clients", "u_image", "u_script", "u_server",
                   "u_imagescript", "u_done"}
InstallSteps == {"i_clients", "i_script", "i_server", "i_image", "i_done"}
Busy == UninstallSteps \cup InstallSteps \cup {"succeeded", "failed"}

-----------------------------------------------------------------------------
(* Reading the database and the package directories.                       *)

check_package_dependency(p) == \E r \in Packages :
                                  <<p, r>> \in Requires /\ r \notin installed

(* Mutant: looks at the packages selected for removal only.               *)
check_dependent_package_of_selected(p) ==
    \E q \in toRemove : q # p /\ <<q, p>> \in Requires

check_dependent_package(p) == \E q \in installed : <<q, p>> \in Requires

(* Mutant: rpms that are nowhere to be found count as nothing to do.       *)
get_rpm_list_missing_is_nothing(p, group) ==
    IF p \in OnDisk /\ (group \in Rpms[p] \/ "all" \notin Rpms[p])
      THEN [retval |-> 0, list |-> {p}]
      ELSE [retval |-> 1, list |-> {}]

(* The list stays empty, and the call successful, when the only rpms are   *)
(* those of the group "all": no branch copies them into the result.        *)
get_rpm_list(p, group) ==
    CASE group \in Rpms[p] -> IF p \in OnDisk
                                 THEN [retval |-> 0, list |-> {p}]
                                 ELSE [retval |-> 2, list |-> {}]
      [] group \notin Rpms[p] /\ "all" \in Rpms[p] ->
                                      [retval |-> 0, list |-> {}]
      [] OTHER -> IF p \in OnDisk THEN [retval |-> 0, list |-> {p}]
                                  ELSE [retval |-> 1, list |-> {}]

(* The rpms of the list a target does not have yet.  For the clients the   *)
(* target consulted is the image as well.                                  *)
check_rpm_list(p, group, target) == get_rpm_list(p, group).list \ target

(* What uninstall_rpms_patch removes: the database's list for that group.  *)
pkgs_of_opkg(p, group) == IF group \in Rpms[p] THEN {p} ELSE {}

-----------------------------------------------------------------------------
(* delete_group_packages, as set_uninstalled uses it: clears 'installed'.  *)
delete_group_packages(p) == installed' = installed \ {p}
set_uninstalled(p) == delete_group_packages(p)
set_installed(p) == installed' = installed \cup {p}

Goto(label) == pc' = label

Init ==
    \E deployed \in SUBSET Packages :
        /\ \A p \in deployed : \A r \in Packages :
              <<p, r>> \in Requires => r \in deployed
        /\ installed = deployed
        /\ image = {p \in deployed :
                       get_rpm_list(p, "oscar_clients").list # {}}
        /\ clients = [n \in Nodes |-> image]
        /\ server = {p \in deployed :
                       get_rpm_list(p, "oscar_server").list # {}}
        /\ toRemove = {}
        /\ toInstall = {}
        /\ pkg = NoPackage
        /\ pc = "idle"

(* The Selector, the single-image test and sanity_check have succeeded.    *)
install_uninstall_packages(selected, unselected) ==
    /\ pc = "idle"
    /\ selected \cap unselected = {}
    /\ selected \cup unselected # {}
    /\ toInstall' = selected
    /\ toRemove' = unselected
    /\ Goto("loop")
    /\ UNCHANGED <<installed, clients, server, image, pkg>>

-----------------------------------------------------------------------------
(* package_uninstall: its guards, then one action per command.             *)

package_uninstall(p) ==
    /\ pc = "loop"
    /\ p \in toRemove
    /\ pkg' = p
    /\ IF p \notin installed \/ check_dependent_package(p)
         THEN Goto("failed")
         ELSE Goto("u_clients")
    /\ UNCHANGED <<installed, clients, server, image, toRemove, toInstall>>

(* cexec yume remove: reaches the nodes in done; any output is an error.   *)
uninstall_clients(done) ==
    /\ pc = "u_clients"
    /\ clients' = [n \in Nodes |->
                     IF n \in done
                       THEN clients[n] \ pkgs_of_opkg(pkg, "oscar_client")
                       ELSE clients[n]]
    /\ \/ done = Nodes /\ Goto("u_image")
       \/ Goto("failed")
    /\ UNCHANGED <<installed, server, image, toRemove, toInstall, pkg>>

uninstall_image ==
    /\ pc = "u_image"
    /\ \/ /\ image' = image \ pkgs_of_opkg(pkg, "oscar_client")
          /\ Goto("u_script")
       \/ image' = image /\ Goto("failed")
    /\ UNCHANGED <<installed, clients, server, toRemove, toInstall, pkg>>

(* Only the cpush of the script can fail: an error of the script itself,   *)
(* or of its removal, is printed and reported as success.                  *)
run_uninstall_client ==
    /\ pc = "u_script"
    /\ \/ Goto("u_server")
       \/ pkg \in ClientScripts /\ Goto("failed")
    /\ UNCHANGED <<installed, clients, server, image, toRemove, toInstall,
                   pkg>>

run_uninstall_server ==
    /\ pc = "u_server"
    /\ \/ /\ server' = server \ pkgs_of_opkg(pkg, "oscar_server")
          /\ Goto("u_imagescript") \/ Goto("failed")
       \/ server' = server /\ Goto("failed")
    /\ UNCHANGED <<installed, clients, image, toRemove, toInstall, pkg>>

run_uninstall_image ==
    /\ pc = "u_imagescript"
    /\ \/ Goto("u_done")
       \/ pkg \in ClientScripts /\ Goto("failed")
    /\ UNCHANGED <<installed, clients, server, image, toRemove, toInstall,
                   pkg>>

uninstall_done ==
    /\ pc = "u_done"
    /\ set_uninstalled(pkg)
    /\ Goto("succeeded")
    /\ UNCHANGED <<clients, server, image, toRemove, toInstall, pkg>>

-----------------------------------------------------------------------------
(* package_install.                                                        *)

package_install(p) ==
    /\ pc = "loop"
    /\ toRemove = {}
    /\ p \in toInstall
    /\ pkg' = p
    /\ IF p \in installed \/ check_package_dependency(p)
         THEN Goto("failed")
         ELSE Goto("i_clients")
    /\ UNCHANGED <<installed, clients, server, image, toRemove, toInstall>>

(* Mutant: rpm -Uvh --replacepkgs.                                         *)
run_install_client_replacepkgs(done) ==
    /\ pc = "i_clients"
    /\ clients' = [n \in Nodes |->
                     IF n \in done
                       THEN clients[n] \cup check_rpm_list(pkg, "oscar_clients", image)
                       ELSE clients[n]]
    /\ IF get_rpm_list(pkg, "oscar_clients").retval # 2 /\ done = Nodes
         THEN Goto("i_script") ELSE Goto("failed")
    /\ UNCHANGED <<installed, server, image, toRemove, toInstall, pkg>>

(* mkdir, cpush, rpm -Uvh and rm on the clients: done is the set of nodes  *)
(* on which rpm ran.  It fails where the rpms are installed already.       *)
run_install_client(done) ==
    LET missing == check_rpm_list(pkg, "oscar_clients", image)
    IN  /\ pc = "i_clients"
        /\ clients' = [n \in Nodes |-> IF n \in done
                                         THEN clients[n] \cup missing
                                         ELSE clients[n]]
        /\ \/ /\ get_rpm_list(pkg, "oscar_clients").retval # 2
              /\ done = Nodes
              /\ \A n \in Nodes : clients[n] \cap missing = {}
              /\ Goto("i_script")
           \/ /\ \/ get_rpm_list(pkg, "oscar_clients").retval = 2
                 \/ missing # {}
              /\ Goto("failed")
        /\ UNCHANGED <<installed, server, image, toRemove, toInstall, pkg>>

run_client_scripts ==
    /\ pc = "i_script"
    /\ \/ Goto("i_server")
       \/ pkg \in ClientScripts /\ Goto("failed")
    /\ UNCHANGED <<installed, clients, server, image, toRemove, toInstall,
                   pkg>>

(* The scripts of the head node that follow only log what they return.     *)
run_install_server ==
    LET missing == check_rpm_list(pkg, "oscar_server", server)
    IN  /\ pc = "i_server"
        /\ \/ /\ get_rpm_list(pkg, "oscar_server").retval # 2
              /\ server' = server \cup missing
              /\ Goto("i_image")
           \/ /\ \/ get_rpm_list(pkg, "oscar_server").retval = 2
                 \/ missing # {}
              /\ server' = server
              /\ Goto("failed")
        /\ UNCHANGED <<installed, clients, image, toRemove, toInstall, pkg>>

(* The removal of the copied files may fail after rpm has succeeded.       *)
run_install_image ==
    LET missing == check_rpm_list(pkg, "oscar_clients", image)
    IN  /\ pc = "i_image"
        /\ \/ /\ get_rpm_list(pkg, "oscar_clients").retval # 2
              /\ image' = image \cup missing
              /\ Goto("i_done")
           \/ /\ missing # {}
              /\ image' \in {image, image \cup missing}
              /\ Goto("failed")
        /\ UNCHANGED <<installed, clients, server, toRemove, toInstall, pkg>>

install_done ==
    /\ pc = "i_done"
    /\ set_installed(pkg)
    /\ Goto("succeeded")
    /\ UNCHANGED <<clients, server, image, toRemove, toInstall, pkg>>

-----------------------------------------------------------------------------
(* The end of an iteration, the same call in both loops; the roll back of  *)
(* a failed package touches its requested status only.                     *)
EndIteration ==
    /\ pc \in {"succeeded", "failed"}
    /\ IF pc = "succeeded" THEN delete_group_packages(pkg)
                           ELSE UNCHANGED installed
    /\ toRemove' = toRemove \ {pkg}
    /\ toInstall' = toInstall \ {pkg}
    /\ pkg' = NoPackage
    /\ Goto("loop")
    /\ UNCHANGED <<clients, server, image>>

EndSession ==
    /\ pc = "loop"
    /\ toRemove = {} /\ toInstall = {}
    /\ Goto("idle")
    /\ UNCHANGED <<installed, clients, server, image, toRemove, toInstall,
                   pkg>>

(* The session is killed, or dies in a call of an undefined subroutine     *)
(* (list_image in uninstall_rpms_patch).                                   *)
Die ==
    /\ pc # "idle"
    /\ toRemove' = {} /\ toInstall' = {}
    /\ pkg' = NoPackage
    /\ Goto("idle")
    /\ UNCHANGED <<installed, clients, server, image>>

(* A client is installed again from the image, between two sessions.       *)
Reimage(n) ==
    /\ pc = "idle"
    /\ clients' = [clients EXCEPT ![n] = image]
    /\ UNCHANGED <<installed, server, image, toRemove, toInstall, pkg, pc>>

Next ==
    \/ \E selected, unselected \in SUBSET Packages :
          install_uninstall_packages(selected, unselected)
    \/ \E p \in Packages : package_uninstall(p) \/ package_install(p)
    \/ \E done \in SUBSET Nodes : uninstall_clients(done)
    \/ uninstall_image
    \/ run_uninstall_client
    \/ run_uninstall_server
    \/ run_uninstall_image
    \/ uninstall_done
    \/ \E done \in SUBSET Nodes : run_install_client(done)
    \/ run_client_scripts
    \/ run_install_server
    \/ run_install_image
    \/ install_done
    \/ EndIteration
    \/ EndSession
    \/ Die
    \/ \E n \in Nodes : Reimage(n)

Spec == Init /\ [][Next]_vars
-----------------------------------------------------------------------------
(* Properties.                                                             *)

(* Every variable has its type, and a package is current exactly while one *)
(* of its commands is due.                                                 *)
TypeOK ==
    /\ installed \subseteq Packages
    /\ clients \in [Nodes -> SUBSET Packages]
    /\ server \subseteq Packages
    /\ image \subseteq Packages
    /\ toRemove \subseteq Packages
    /\ toInstall \subseteq Packages
    /\ pc \in {"idle", "loop"} \cup Busy
    /\ pkg \in Packages \cup {NoPackage}
    /\ pkg = NoPackage <=> pc \in {"idle", "loop"}

(* The packages recorded as installed hold everything they require, at     *)
(* every point of a session: the dependency tests at the start of a        *)
(* package's sequence still hold when its record changes at the end of it. *)
RecordClosed ==
    \A p \in installed, r \in Packages : <<p, r>> \in Requires => r \in installed

(* No rpms are in the image that some client lacks: a new node never gets  *)
(* software the rest of the cluster has not, whatever failed on the way.   *)
(* Skipping the clients' rpms because the image has them rests on this.    *)
ImageOnClients == \A n \in Nodes : image \subseteq clients[n]

HasRpms(p, group) == \/ group \in Rpms[p]
                     \/ "all" \notin Rpms[p] /\ p \in OnDisk

Delivered(p) ==
    /\ HasRpms(p, "oscar_clients") => /\ p \in image
                                       /\ \A n \in Nodes : p \in clients[n]
    /\ HasRpms(p, "oscar_server") => p \in server

(* A package becomes recorded as installed only when its rpms are on every *)
(* client, the head node and the image, retries and skips included.        *)
RecordedOnlyDelivered ==
    [][\A p \in installed' \ installed : Delivered(p)]_vars

(* An install that stopped between the clients and the image.  Trying      *)
(* again fails, since rpm -Uvh refuses the nodes that have the rpms, and   *)
(* removing it is refused, since it is not recorded.                       *)
Wedged(p) ==
    /\ p = pkg => pc \notin {"i_script", "i_server", "i_image", "i_done"}
    /\ p \notin installed \cup image
    /\ HasRpms(p, "oscar_clients")
    /\ \E n \in Nodes : p \in clients[n]

(* No sequence of sessions brings a wedged package out of that state: only *)
(* installing the node again from the image does.                          *)
WedgedUntilReimaged ==
    [][\A p \in Packages :
          Wedged(p) /\ (\A n \in Nodes : ~Reimage(n)) => Wedged(p)']_vars
=============================================================================
