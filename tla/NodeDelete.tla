----------------------------- MODULE NodeDelete -----------------------------
(***************************************************************************)
(* Defining and deleting clients: lib/OSCAR/NodeMgt.pm (delete_clients),   *)
(* lib/OSCAR/DelNode.pm (delnodes) and scripts/post_clients with the       *)
(* package scripts it runs (sis, c3).                                      *)
(*                                                                         *)
(* A client has a record in the SIS database, a record in the OSCAR        *)
(* database (ODA), boot files, and entries in /etc/hosts (of the head node *)
(* and of the image), known_hosts, c3.conf and dhcpd.conf.  Deletion goes  *)
(* through them one after the other and gives up at the first error,       *)
(* undoing nothing.  Nothing removes the SIS record: the call that did is  *)
(* commented out; and post_clients, which both operations run, rebuilds    *)
(* the other records from SIS.                                             *)
(***************************************************************************)

CONSTANTS
    Nodes,          \* the client names
    Occurs          \* <<c, d>>: the name c occurs within the name d

ASSUME OccursAssumption == /\ Occurs \subseteq Nodes \X Nodes
                           /\ \A n \in Nodes : <<n, n>> \in Occurs

VARIABLES
    sis,            \* clients in the SIS database
    oda,            \* clients in the table Nodes of ODA
    pxe,            \* clients with a PXE or ELILO configuration file
    hosts,          \* clients in the block "OSCAR hosts" of /etc/hosts
    imageHosts,     \* the same for the /etc/hosts of the images
    known,          \* clients with a line in root's known_hosts
    c3,             \* clients of the oscar_cluster in c3.conf
    dhcp,           \* clients in dhcpd.conf
    headServices,   \* TRUE iff every generic service runs on the head node
    nodeServices,   \* clients on which the generic services run
    sel,            \* @clients, the ones being deleted
    op,             \* who called post_clients: "define" or "delete"
    pc,             \* the next command
    outcome,        \* what the user was told last
    gone,           \* history: clients reported as deleted
    undeleted       \* history: clients whose boot file this deletion could not
                    \* unlink

records == <<oda, pxe, hosts, imageHosts, known, c3, dhcp>>
services == <<headServices, nodeServices>>
vars == <<sis, records, services, sel, op, pc, outcome, gone, undeleted>>

PostClients == {"push_hosts", "known_hosts", "scripts"}
Deletion == {"stop", "pxe", "records", "post_install", "restart", "c3",
             "ssh_keygen", "cexec", "dhcp", "opkgs", "hosts"}

Goto(label) == /\ pc' = label
               /\ UNCHANGED outcome

(* return -1, or a non-zero exit: the window shows an error.               *)
Fail == /\ pc' = "idle"
        /\ outcome' = "failed"

OccursIn(c, lines) == \E d \in lines : <<c, d>> \in Occurs

-----------------------------------------------------------------------------
Init == /\ sis = {} /\ oda = {} /\ pxe = {} /\ hosts = {} /\ imageHosts = {}
        /\ known = {} /\ c3 = {} /\ dhcp = {}
        /\ headServices = TRUE
        /\ nodeServices = {}
        /\ sel = {}
        /\ op = "define"
        /\ pc = "idle"
        /\ outcome = "none"
        /\ gone = {}
        /\ undeleted = {}

(* External: the "Define OSCAR Clients" window runs mksimachine, which     *)
(* creates the SIS records and the /etc/hosts entries, and then            *)
(* postaddclients, which runs post_clients.                                *)
mksimachine(new) ==
    /\ pc = "idle"
    /\ new # {}
    /\ sis' = sis \cup new
    /\ hosts' = hosts \cup new
    /\ op' = "define"
    /\ Goto("push_hosts")
    /\ UNCHANGED <<oda, pxe, imageHosts, known, c3, dhcp, services, sel, gone,
                   undeleted>>

(* External: a client is installed over the network and boots.  A client   *)
(* reported deleted is not installed again.                                *)
deploy(n) ==
    /\ pc = "idle"
    /\ n \in sis \ gone
    /\ pxe' = pxe \cup {n}
    /\ dhcp' = dhcp \cup {n}
    /\ nodeServices' = nodeServices \cup {n}
    /\ UNCHANGED <<sis, oda, hosts, imageHosts, known, c3, headServices, sel,
                   op, pc, outcome, gone, undeleted>>

-----------------------------------------------------------------------------
(* scripts/post_clients.                                                   *)
push_hosts ==
    /\ pc = "push_hosts"
    /\ \/ /\ imageHosts' = hosts
          /\ Goto("known_hosts")
       \/ /\ Fail
          /\ UNCHANGED imageHosts
    /\ UNCHANGED <<sis, oda, pxe, hosts, known, c3, dhcp, services, sel, op,
                   gone, undeleted>>

(* Clients whose name "grep" does not find in the file get a line; not one *)
(* without an adapter, nor one for which "echo" or "cat" fails, and neither *)
(* is an error.  Only a file that cannot be created is.                    *)
populate_known_hosts ==
    {known \cup added : added \in SUBSET {n \in sis : ~OccursIn(n, known)}}

known_hosts ==
    /\ pc = "known_hosts"
    /\ \/ /\ known' \in populate_known_hosts
          /\ Goto("scripts")
       \/ /\ known = {}
          /\ Fail
          /\ UNCHANGED known
    /\ UNCHANGED <<sis, oda, pxe, hosts, imageHosts, c3, dhcp, services, sel,
                   op, gone, undeleted>>

(* api-post-clientdef of sis: ODA is made to follow the SIS database.      *)
sync_oda_with_sis == {sis}
sync_oda_interrupted == {oda \cup created : created \in SUBSET (sis \ oda)}

(* api-post-clientdef of c3: "c3config delcluster", then "addcluster" with *)
(* the SIS clients.  An error in between leaves no cluster.                *)
rebuild_c3 == {sis}
rebuild_c3_interrupted == {c3, {}}

(* The scripts of all the packages are run, whatever becomes of each.      *)
run_pkg_scripts ==
    /\ pc = "scripts"
    /\ \/ /\ oda' \in sync_oda_with_sis
          /\ c3' \in rebuild_c3
          /\ IF op = "define"
                THEN pc' = "idle" /\ outcome' = "defined"
                ELSE Goto("post_install")
       \/ /\ oda' \in sync_oda_with_sis \cup sync_oda_interrupted
          /\ c3' \in rebuild_c3 \cup rebuild_c3_interrupted
          /\ Fail
    /\ UNCHANGED <<sis, pxe, hosts, imageHosts, known, dhcp, services, sel, op,
                   gone, undeleted>>

-----------------------------------------------------------------------------
(* delnodes: the listbox shows the SIS clients.  For an empty selection    *)
(* delete_clients returns at once and nothing changes.                     *)
delnodes(selected) ==
    /\ pc = "idle"
    /\ selected # {}
    /\ selected \subseteq sis
    /\ sel' = selected
    /\ op' = "delete"
    /\ undeleted' = {}
    /\ Goto("stop")
    /\ UNCHANGED <<sis, records, services, gone>>

(* Mutant: the errors are counted, and the count is not looked at.         *)
stop_generic_services_unchecked ==
    /\ pc = "stop"
    /\ \E stopped \in SUBSET sel : nodeServices' = nodeServices \ stopped
    /\ headServices' \in {headServices, FALSE}
    /\ Goto("pxe")
    /\ UNCHANGED <<sis, records, sel, op, gone, undeleted>>

(* On the head node and, over ssh, on each selected client; every command  *)
(* is tried, and one error is enough to give up.                           *)
stop_generic_services ==
    /\ pc = "stop"
    /\ \/ /\ nodeServices' = nodeServices \ sel
          /\ headServices' = FALSE
          /\ Goto("pxe")
       \/ /\ \E stopped \in SUBSET sel : nodeServices' = nodeServices \ stopped
          /\ headServices' \in {headServices, FALSE}
          /\ Fail
    /\ UNCHANGED <<sis, records, sel, op, gone, undeleted>>

(* del_ip_node for each client, up to the first error; a file that cannot *)
(* be unlinked is none.                                                    *)
del_ip_nodes ==
    /\ pc = "pxe"
    /\ \E left \in SUBSET (sel \cap pxe) :
          /\ pxe' = pxe \ (sel \ left)
          /\ undeleted' = left
    /\ Goto("records") \/ Fail
    /\ UNCHANGED <<sis, oda, hosts, imageHosts, known, c3, dhcp, services, sel,
                   op, gone>>

(* DELETE FROM Nodes for each client, and the configuration file is read;  *)
(* SIS is left alone.                                                      *)
delete_from_nodes ==
    /\ pc = "records"
    /\ \/ /\ oda' = oda \ sel
          /\ Goto("push_hosts")
       \/ /\ \E done \in SUBSET sel : oda' = oda \ done
          /\ Fail
    /\ UNCHANGED <<sis, pxe, hosts, imageHosts, known, c3, dhcp, services, sel,
                   op, gone, undeleted>>

(* NodeMgt.pm line 312: "We do not check the return code"; but it is.      *)
post_install ==
    /\ pc = "post_install"
    /\ Goto("restart") \/ Fail
    /\ UNCHANGED <<sis, records, services, sel, op, gone, undeleted>>

(* The generic services, then the server services, of the head node.       *)
restart_head_services ==
    /\ pc = "restart"
    /\ \/ /\ headServices' = TRUE
          /\ Goto("c3")
       \/ /\ headServices' \in BOOLEAN
          /\ Fail
    /\ UNCHANGED <<sis, records, nodeServices, sel, op, gone, undeleted>>

update_c3 ==
    /\ pc = "c3"
    /\ \/ /\ c3' \in rebuild_c3
          /\ Goto("ssh_keygen")
       \/ /\ c3' \in rebuild_c3_interrupted
          /\ Fail
    /\ UNCHANGED <<sis, oda, pxe, hosts, imageHosts, known, dhcp, services, sel,
                   op, gone, undeleted>>

(* Mutant: the entries are left to post_clients.                           *)
ssh_keygen_skipped ==
    /\ pc = "ssh_keygen"
    /\ Goto("cexec")
    /\ UNCHANGED <<sis, records, services, sel, op, gone, undeleted>>

(* ssh-keygen -R for each client, up to the first error.                   *)
ssh_keygen ==
    /\ pc = "ssh_keygen"
    /\ \/ /\ known' = known \ sel
          /\ Goto("cexec")
       \/ /\ \E done \in SUBSET sel : done # sel /\ known' = known \ done
          /\ Fail
    /\ UNCHANGED <<sis, oda, pxe, hosts, imageHosts, c3, dhcp, services, sel,
                   op, gone, undeleted>>

(* cexec reaches the clients of c3.conf; errors are only a warning.        *)
restart_client_services ==
    /\ pc = "cexec"
    /\ \E restarted \in SUBSET c3 :
          nodeServices' = nodeServices \cup restarted
    /\ Goto("dhcp")
    /\ UNCHANGED <<sis, records, headServices, sel, op, gone, undeleted>>

(* Start dhcpd, back up and rewrite dhcpd.conf from SIS, start dhcpd.      *)
mkdhcpconf ==
    /\ pc = "dhcp"
    /\ \/ /\ dhcp' = sis
          /\ Goto("opkgs")
       \/ /\ dhcp' \in {dhcp, sis}
          /\ Fail
    /\ UNCHANGED <<sis, oda, pxe, hosts, imageHosts, known, c3, services, sel,
                   op, gone, undeleted>>

(* delete_node for each client, errors only logged; then "Clients deleted."*)
delete_client_node_opkgs ==
    /\ pc = "opkgs"
    /\ \E done \in SUBSET sel : oda' = oda \ done
    /\ gone' = gone \cup sel
    /\ pc' = "hosts"
    /\ outcome' = "deleted"
    /\ UNCHANGED <<sis, pxe, hosts, imageHosts, known, c3, dhcp, services, sel,
                   op, undeleted>>

(* Mutant: the pattern and the text it is sought in are exchanged.         *)
hosts_left_exchanged(selected) ==
    {d \in hosts : \A c \in selected : <<d, c>> \notin Occurs}

(* A line goes when the name of a selected client matches within it.       *)
hosts_left(selected) ==
    {d \in hosts : \A c \in selected : <<c, d>> \notin Occurs}

update_hosts ==
    /\ pc = "hosts"
    /\ hosts' = hosts_left(sel) \/ UNCHANGED hosts
    /\ Goto("idle")
    /\ UNCHANGED <<sis, oda, pxe, imageHosts, known, c3, dhcp, services, sel,
                   op, gone, undeleted>>

-----------------------------------------------------------------------------
Next == \/ \E new \in SUBSET (Nodes \ sis) : mksimachine(new)
        \/ \E n \in Nodes : deploy(n)
        \/ push_hosts \/ known_hosts \/ run_pkg_scripts
        \/ \E selected \in SUBSET sis : delnodes(selected)
        \/ stop_generic_services \/ del_ip_nodes \/ delete_from_nodes
        \/ post_install \/ restart_head_services \/ update_c3 \/ ssh_keygen
        \/ restart_client_services \/ mkdhcpconf \/ delete_client_node_opkgs
        \/ update_hosts

Spec == Init /\ [][Next]_vars

-----------------------------------------------------------------------------
(* The type invariant; a deletion that runs is one of clients SIS has.     *)
TypeOK == /\ sis \subseteq Nodes /\ oda \subseteq Nodes /\ pxe \subseteq Nodes
          /\ hosts \subseteq Nodes /\ imageHosts \subseteq Nodes
          /\ known \subseteq Nodes /\ c3 \subseteq Nodes /\ dhcp \subseteq Nodes
          /\ headServices \in BOOLEAN
          /\ nodeServices \subseteq Nodes
          /\ sel \subseteq Nodes
          /\ op \in {"define", "delete"}
          /\ pc \in {"idle"} \cup PostClients \cup Deletion
          /\ outcome \in {"none", "defined", "deleted", "failed"}
          /\ gone \subseteq Nodes
          /\ undeleted \subseteq Nodes
          /\ pc \in Deletion => op = "delete"
          /\ op = "delete" => sel # {} /\ sel \subseteq sis

(* When the user has just been told "Clients deleted.", the clients have   *)
(* no known_hosts line left, no boot file but one that this deletion tried *)
(* and failed to unlink, and the head node's services are back; although   *)
(* post_clients wrote known_hosts again on the way and any number of       *)
(* earlier attempts may have stopped half way.                             *)
DeletionComplete ==
    outcome = "deleted" /\ pc = "idle" =>
        /\ sel \cap known = {}
        /\ sel \cap pxe \subseteq undeleted
        /\ headServices

(* delete_clients takes a client out of ODA only when its services have    *)
(* stopped, and its boot files are gone but for one it could not unlink.   *)
RecordsGoLast ==
    [][pc = "records" =>
         /\ (oda \ oda') \cap nodeServices = {}
         /\ (oda \ oda') \cap pxe \subseteq undeleted]_vars

(* A client that was not deleted ("select the nodes you want to delete",   *)
(* the label of the window) loses its entry in /etc/hosts only to the name *)
(* of a client reported deleted, found within its own, as node1 is within  *)
(* node10: never to a deletion that failed, nor to any other name.         *)
OthersKeepHosts ==
    \A d \in (sis \ gone) \ hosts : \E c \in gone : <<c, d>> \in Occurs

(* The error path leaves known_hosts, c3.conf and ODA naming only clients  *)
(* SIS has: a half-done deletion never leaves a record nobody can select   *)
(* again in the deletion window.                                           *)
LeftoversCanBeSelected == oda \cup pxe \cup known \cup c3 \cup dhcp \subseteq sis
=============================================================================
