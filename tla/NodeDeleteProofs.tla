-------------------------- MODULE NodeDeleteProofs --------------------------
(* Proofs about defining and deleting clients, for any set of clients.     *)
EXTENDS NodeDelete, TLAPS

(* Every step keeps the variables in their types.                          *)
THEOREM TypeCorrect == Spec => []TypeOK
<1>1. Init => TypeOK
  BY DEF Init, TypeOK, PostClients, Deletion
<1>2. TypeOK /\ [Next]_vars => TypeOK'
  <2> USE DEF TypeOK, PostClients, Deletion, Goto, Fail
  <2> SUFFICES ASSUME TypeOK, [Next]_vars PROVE TypeOK'
    OBVIOUS
  <2>1. CASE \E new \in SUBSET (Nodes \ sis) : mksimachine(new)
    BY <2>1 DEF mksimachine, services
  <2>2. CASE \E n \in Nodes : deploy(n)
    BY <2>2 DEF deploy
  <2>3. CASE push_hosts
    BY <2>3 DEF push_hosts, services
  <2>4. CASE known_hosts
    BY <2>4 DEF known_hosts, populate_known_hosts, services
  <2>5. CASE run_pkg_scripts
    BY <2>5 DEF run_pkg_scripts, services, sync_oda_with_sis,
                sync_oda_interrupted, rebuild_c3, rebuild_c3_interrupted
  <2>6. CASE \E selected \in SUBSET sis : delnodes(selected)
    BY <2>6 DEF delnodes, services, records
  <2>7. CASE stop_generic_services
    BY <2>7 DEF stop_generic_services, records
  <2>8. CASE del_ip_nodes
    BY <2>8 DEF del_ip_nodes, services
  <2>9. CASE delete_from_nodes
    BY <2>9 DEF delete_from_nodes, services
  <2>10. CASE post_install
    BY <2>10 DEF post_install, records, services
  <2>11. CASE restart_head_services
    BY <2>11 DEF restart_head_services, records
  <2>12. CASE update_c3
    BY <2>12 DEF update_c3, services, rebuild_c3, rebuild_c3_interrupted
  <2>13. CASE ssh_keygen
    BY <2>13 DEF ssh_keygen, services
  <2>14. CASE restart_client_services
    BY <2>14 DEF restart_client_services, records
  <2>15. CASE mkdhcpconf
    BY <2>15 DEF mkdhcpconf, services
  <2>16. CASE delete_client_node_opkgs
    BY <2>16 DEF delete_client_node_opkgs, services
  <2>17. CASE update_hosts
    BY <2>17 DEF update_hosts, hosts_left, services
  <2>18. CASE UNCHANGED vars
    BY <2>18 DEF vars, records, services
  <2> QED
    BY <2>1, <2>2, <2>3, <2>4, <2>5, <2>6, <2>7, <2>8, <2>9, <2>10, <2>11,
       <2>12, <2>13, <2>14, <2>15, <2>16, <2>17, <2>18 DEF Next
<1> QED
  BY <1>1, <1>2, PTL DEF Spec

-----------------------------------------------------------------------------
(* What a deletion has achieved when it has got as far as a given command. *)
AfterStop == {"pxe", "records"}
AfterPxe == Deletion \ {"stop", "pxe"}
AfterRestart == {"c3", "ssh_keygen", "cexec", "dhcp", "opkgs", "hosts"}
AfterKeygen == {"cexec", "dhcp", "opkgs", "hosts"}

(* The strengthening of DeletionComplete and RecordsGoLast: one conjunct   *)
(* for each thing that, once done, stays done until the deletion ends.     *)
Progress ==
    /\ pc \in AfterStop => sel \cap nodeServices = {}
    /\ pc \in AfterPxe => sel \cap pxe \subseteq undeleted
    /\ pc \in PostClients /\ op = "delete" => sel \cap pxe \subseteq undeleted
    /\ pc \in AfterRestart => headServices
    /\ pc \in AfterKeygen => sel \cap known = {}
    /\ pc = "hosts" => outcome = "deleted" /\ sel \subseteq gone
    /\ pc = "idle" /\ outcome = "deleted" => sel \subseteq gone
    /\ DeletionComplete

LEMMA ProgressInductive == TypeOK /\ Progress /\ [Next]_vars => Progress'
<1> USE DEF Progress, DeletionComplete, AfterStop, AfterPxe, AfterRestart,
            AfterKeygen, PostClients, Deletion, Goto, Fail
<1> SUFFICES ASSUME TypeOK, Progress, [Next]_vars PROVE Progress'
  OBVIOUS
<1>0. /\ pc \in Deletion => op = "delete"
      /\ pc \in {"idle"} \cup PostClients \cup Deletion
      /\ op \in {"define", "delete"}
  BY DEF TypeOK
<1>1. CASE \E new \in SUBSET (Nodes \ sis) : mksimachine(new)
  BY <1>1, <1>0 DEF mksimachine, services
<1>2. CASE \E n \in Nodes : deploy(n)
  BY <1>2, <1>0 DEF deploy
<1>3. CASE push_hosts
  BY <1>3, <1>0 DEF push_hosts, services
<1>4. CASE known_hosts
  BY <1>4, <1>0 DEF known_hosts, services
<1>5. CASE run_pkg_scripts
  BY <1>5, <1>0 DEF run_pkg_scripts, services
<1>6. CASE \E selected \in SUBSET sis : delnodes(selected)
  BY <1>6, <1>0 DEF delnodes, services, records
<1>7. CASE stop_generic_services
  BY <1>7, <1>0 DEF stop_generic_services, records
<1>8. CASE del_ip_nodes
  BY <1>8, <1>0 DEF del_ip_nodes, services
<1>9. CASE delete_from_nodes
  BY <1>9, <1>0 DEF delete_from_nodes, services
<1>10. CASE post_install
  BY <1>10, <1>0 DEF post_install, records, services
<1>11. CASE restart_head_services
  BY <1>11, <1>0 DEF restart_head_services, records
<1>12. CASE update_c3
  BY <1>12, <1>0 DEF update_c3, services
<1>13. CASE ssh_keygen
  BY <1>13, <1>0 DEF ssh_keygen, services
<1>14. CASE restart_client_services
  BY <1>14, <1>0 DEF restart_client_services, records
<1>15. CASE mkdhcpconf
  BY <1>15, <1>0 DEF mkdhcpconf, services
<1>16. CASE delete_client_node_opkgs
  BY <1>16, <1>0 DEF delete_client_node_opkgs, services
<1>17. CASE update_hosts
  BY <1>17, <1>0 DEF update_hosts, services
<1>18. CASE UNCHANGED vars
  BY <1>18 DEF vars, records, services
<1> QED
  BY <1>1, <1>2, <1>3, <1>4, <1>5, <1>6, <1>7, <1>8, <1>9, <1>10, <1>11,
     <1>12, <1>13, <1>14, <1>15, <1>16, <1>17, <1>18 DEF Next

LEMMA ProgressInvariant == Spec => []Progress
<1>1. Init => Progress
  BY DEF Init, Progress, DeletionComplete, AfterStop, AfterPxe, AfterRestart,
         AfterKeygen, PostClients, Deletion
<1> QED
  BY <1>1, TypeCorrect, ProgressInductive, PTL DEF Spec

(* "Clients deleted." means that the known_hosts lines of the clients are  *)
(* gone, their boot files too except where unlink failed, and the head     *)
(* node's services run.                                                    *)
THEOREM DeletionIsComplete == Spec => []DeletionComplete
BY ProgressInvariant, PTL DEF Progress

(* ODA loses the record of a client only after its services are stopped    *)
(* and its boot files are gone or could not be unlinked.                   *)
THEOREM RecordsAreLast == Spec => RecordsGoLast
<1> DEFINE Last == /\ (oda \ oda') \cap nodeServices = {}
                   /\ (oda \ oda') \cap pxe \subseteq undeleted
<1>1. TypeOK /\ Progress /\ [Next]_vars => [pc = "records" => Last]_vars
  <2> SUFFICES ASSUME TypeOK, Progress, [Next]_vars, pc = "records"
               PROVE Last
    OBVIOUS
  <2>1. sel \cap pxe \subseteq undeleted /\ sel \cap nodeServices = {}
    BY DEF Progress, AfterStop, AfterPxe, Deletion
  <2>2. delete_from_nodes \/ UNCHANGED vars
    BY DEF Next, mksimachine, deploy, push_hosts, known_hosts, delnodes,
           run_pkg_scripts, stop_generic_services, del_ip_nodes, post_install,
           restart_head_services, update_c3, ssh_keygen, mkdhcpconf,
           restart_client_services, delete_client_node_opkgs, update_hosts
  <2>3. oda \ oda' \subseteq sel
    BY <2>2 DEF delete_from_nodes, vars, records
  <2> QED
    BY <2>1, <2>3
<1> QED
  BY <1>1, TypeCorrect, ProgressInvariant, PTL DEF Spec, RecordsGoLast

-----------------------------------------------------------------------------
(* Every record left behind, by whatever failure, is of a client SIS still *)
(* has, so that it can be selected for another attempt.                    *)
THEOREM LeftoversAreInSIS == Spec => []LeftoversCanBeSelected
<1>1. Init => LeftoversCanBeSelected
  BY DEF Init, LeftoversCanBeSelected
<1>2. TypeOK /\ LeftoversCanBeSelected /\ [Next]_vars =>
        LeftoversCanBeSelected'
  <2> USE DEF LeftoversCanBeSelected
  <2> SUFFICES ASSUME TypeOK, LeftoversCanBeSelected, [Next]_vars
               PROVE LeftoversCanBeSelected'
    OBVIOUS
  <2>1. CASE \E new \in SUBSET (Nodes \ sis) : mksimachine(new)
    BY <2>1 DEF mksimachine
  <2>2. CASE \E n \in Nodes : deploy(n)
    BY <2>2 DEF deploy
  <2>3. CASE known_hosts
    BY <2>3 DEF known_hosts, populate_known_hosts
  <2>4. CASE run_pkg_scripts
    BY <2>4 DEF run_pkg_scripts, sync_oda_with_sis, sync_oda_interrupted,
                rebuild_c3, rebuild_c3_interrupted
  <2>5. CASE del_ip_nodes \/ delete_from_nodes \/ ssh_keygen \/ mkdhcpconf
             \/ delete_client_node_opkgs
    BY <2>5 DEF del_ip_nodes, delete_from_nodes, ssh_keygen, mkdhcpconf,
                delete_client_node_opkgs
  <2>6. CASE update_c3
    BY <2>6 DEF update_c3, rebuild_c3, rebuild_c3_interrupted
  <2>7. CASE \/ push_hosts \/ update_hosts \/ restart_client_services
             \/ \E selected \in SUBSET sis : delnodes(selected)
             \/ stop_generic_services \/ post_install
             \/ restart_head_services \/ UNCHANGED vars
    BY <2>7 DEF push_hosts, update_hosts, restart_client_services, delnodes,
                stop_generic_services, post_install, restart_head_services,
                vars, records
  <2> QED
    BY <2>1, <2>2, <2>3, <2>4, <2>5, <2>6, <2>7 DEF Next
<1> QED
  BY <1>1, <1>2, TypeCorrect, PTL DEF Spec

-----------------------------------------------------------------------------
(* A client loses its entry in /etc/hosts only when it, or a client whose  *)
(* name occurs within its own, was reported deleted.                       *)
THEOREM OthersAreKept == Spec => []OthersKeepHosts
<1> DEFINE Inv == OthersKeepHosts /\ (pc = "hosts" => sel \subseteq gone)
<1>1. Init => Inv
  BY DEF Init, OthersKeepHosts
<1>2. TypeOK /\ Inv /\ [Next]_vars => Inv'
  <2> USE DEF OthersKeepHosts, Goto, Fail
  <2> SUFFICES ASSUME TypeOK, Inv, [Next]_vars PROVE Inv'
    OBVIOUS
  <2>1. CASE \E new \in SUBSET (Nodes \ sis) : mksimachine(new)
    BY <2>1 DEF mksimachine
  <2>2. CASE delete_client_node_opkgs
    BY <2>2 DEF delete_client_node_opkgs
  <2>3. CASE update_hosts
    <3>1. \A d \in hosts : d \in hosts' \/ \E c \in sel : <<c, d>> \in Occurs
      BY <2>3 DEF update_hosts, hosts_left
    <3> QED
      BY <2>3, <3>1 DEF update_hosts
  <2>4. CASE \/ \E n \in Nodes : deploy(n)
             \/ push_hosts \/ known_hosts \/ run_pkg_scripts
             \/ \E selected \in SUBSET sis : delnodes(selected)
             \/ stop_generic_services \/ del_ip_nodes \/ delete_from_nodes
             \/ post_install \/ restart_head_services \/ update_c3
             \/ ssh_keygen \/ restart_client_services \/ mkdhcpconf
             \/ UNCHANGED vars
    BY <2>4 DEF deploy, push_hosts, known_hosts, run_pkg_scripts, delnodes,
                stop_generic_services, del_ip_nodes, delete_from_nodes,
                post_install, restart_head_services, update_c3, ssh_keygen,
                restart_client_services, mkdhcpconf, vars, records
  <2> QED
    BY <2>1, <2>2, <2>3, <2>4 DEF Next
<1> QED
  BY <1>1, <1>2, TypeCorrect, PTL DEF Spec
=============================================================================
