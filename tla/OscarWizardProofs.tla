------------------------- MODULE OscarWizardProofs -------------------------
(* Proofs about the wizard: its record of steps, for any set of clients,   *)
(* and the lock that keeps wizards apart, for any set of process ids.      *)
EXTENDS OscarWizard, WizardLock, TLAPS

(* What ties a session to the record: its copy never claims more than the  *)
(* record, nor does its screen, and a window is open only if its button    *)
(* could be pressed.                                                       *)
Session ==
    /\ step_status \subseteq wizard
    /\ manage_status \subseteq manage
    /\ ScreenIsRecorded
    /\ "image" \in windows => "build_image" \in wizard
    /\ "addclients" \in windows => "addclients" \in wizard
    /\ "add_nodes" \in normal => "add_nodes" \in manage
    /\ wizard \subseteq InstallSteps /\ manage \subseteq ManageSteps
    /\ serverDone \in BOOLEAN /\ setupDone \in BOOLEAN

SessionInv == Session /\ StepsInOrder

LEMMA SessionInductive == SessionInv /\ [Next]_vars => SessionInv'
<1> USE DEF SessionInv, Session, ScreenIsRecorded, StepsInOrder, InstallSteps,
            ManageSteps
<1> SUFFICES ASSUME SessionInv, [Next]_vars PROVE SessionInv'
  OBVIOUS
<1>1. CASE \E m \in {"install", "manage"} : start(m)
  <2>1. /\ wizard' = wizard /\ manage' = manage /\ windows' = {}
        /\ step_status' = wizard /\ manage_status' = manage
        /\ UNCHANGED <<sis, serverDone, setupDone>>
    BY <1>1 DEF start, recorded, nodes, history
  <2>2. \A b \in normal' : \/ b = "delete_nodes5"
                           \/ b \in InstallSteps \cup ManageSteps =>
                                b \in wizard \cup manage
    BY <1>1, <2>1 DEF start, oscar_button
  <2>3. /\ normal' \cap InstallSteps \subseteq wizard
        /\ "add_nodes" \in normal' => "add_nodes" \in manage
    <3>1. wizard \cap ManageSteps = {}
      OBVIOUS
    <3> QED
      BY <2>2
  <2> QED
    BY <2>1, <2>2, <2>3
<1>2. CASE Quit
  BY <1>2 DEF Quit, recorded, nodes, history
<1>3. CASE \E ok \in BOOLEAN : run_server_install(ok)
  <2>1. PICK ok \in BOOLEAN : run_server_install(ok)
    BY <1>3
  <2>2. /\ serverDone' \in BOOLEAN
        /\ serverDone => serverDone'
        /\ ok => serverDone'
    BY <2>1 DEF run_server_install
  <2>3. /\ wizard \subseteq wizard'
        /\ wizard' \subseteq wizard \cup {"build_image"}
        /\ "build_image" \in wizard' => serverDone'
    BY <2>1, <2>2 DEF run_server_install
  <2> QED
    BY <2>1, <2>2, <2>3 DEF run_server_install, nodes
<1>4. CASE \E ok \in BOOLEAN : run_post_install(ok)
  <2>1. PICK ok \in BOOLEAN : run_post_install(ok)
    BY <1>4
  <2>2. /\ setupDone' \in BOOLEAN
        /\ setupDone => setupDone'
        /\ ok => setupDone'
    BY <2>1 DEF run_post_install
  <2>3. CASE ok
    <3>1. /\ setupDone' /\ "post_install" \in wizard
          /\ UNCHANGED <<manage, sis, step_status, manage_status, windows,
                         serverDone>>
      BY <2>1, <2>2, <2>3 DEF run_post_install
    <3>2. \/ UNCHANGED <<wizard, normal>>
          \/ /\ normal' = normal \cup {"test_install"}
             /\ wizard' = wizard \cup {"test_install"}
      BY <2>1, <2>3 DEF run_post_install, Enable
    <3> QED
      BY <3>1, <3>2
  <2>4. CASE ~ok
    BY <2>1, <2>2, <2>4 DEF run_post_install
  <2> QED
    BY <2>3, <2>4
<1>5. CASE build_oscar_image
  BY <1>5 DEF build_oscar_image, nodes, history
<1>6. CASE postimagebuild
  BY <1>6 DEF postimagebuild, nodes, history, Enable
<1>7. CASE addnode_window
  BY <1>7 DEF addnode_window, recorded, nodes, history, oscar_button
<1>8. CASE build_oscar_clients
  BY <1>8 DEF build_oscar_clients, recorded, nodes, history
<1>9. CASE \E new \in SUBSET (Clients \ sis), ok \in BOOLEAN :
              postaddclients(new, ok)
  <2>1. PICK new \in SUBSET (Clients \ sis), ok \in BOOLEAN :
                postaddclients(new, ok)
    BY <1>9
  <2>2. /\ "addclients" \in wizard
        /\ sis' # {}
        /\ UNCHANGED <<step_status, manage_status, windows, serverDone,
                       setupDone>>
    BY <2>1 DEF postaddclients, history
  <2>3. \/ UNCHANGED <<wizard, manage, normal>>
        \/ enable_netboot
    BY <2>1 DEF postaddclients, recorded
  <2>4. CASE UNCHANGED <<wizard, manage, normal>>
    BY <2>2, <2>4
  <2>5. CASE enable_netboot
    BY <2>2, <2>5 DEF enable_netboot
  <2> QED
    BY <2>3, <2>4, <2>5
<1>10. CASE setup_network
  BY <1>10 DEF setup_network, nodes, history, Enable
<1>11. CASE \E selected \in SUBSET oda : delnodes(selected)
  BY <1>11 DEF delnodes, recorded, session, history
<1>12. CASE run_tests
  BY <1>12 DEF run_tests, nodes, session, history
<1>13. CASE UNCHANGED vars
  BY <1>13 DEF vars, recorded, nodes, session, history
<1> QED
  BY <1>1, <1>2, <1>3, <1>4, <1>5, <1>6, <1>7, <1>8, <1>9, <1>10, <1>11,
     <1>12, <1>13 DEF Next

LEMMA SessionInvariant == Spec => []SessionInv
<1>1. Init => SessionInv
  BY DEF Init, SessionInv, Session, ScreenIsRecorded, StepsInOrder,
         InstallSteps, ManageSteps
<1> QED
  BY <1>1, SessionInductive, PTL DEF Spec

(* Over any number of sessions, in either mode, a step is open only after  *)
(* the one before it.                                                      *)
THEOREM StepsStayInOrder == Spec => []StepsInOrder
<1>1. SessionInv => StepsInOrder
  BY DEF SessionInv
<1> QED
  BY <1>1, SessionInvariant, PTL

(* What a session offers is what the database records.                     *)
THEOREM ScreenStaysRecorded == Spec => []ScreenIsRecorded
<1>1. SessionInv => ScreenIsRecorded
  BY DEF SessionInv, Session
<1> QED
  BY <1>1, SessionInvariant, PTL

-----------------------------------------------------------------------------
(* Which buttons a session has depends on its mode.                        *)
ButtonInv ==
    /\ mode = "none" => normal = {} /\ windows = {}
    /\ mode = "install" => InstallButtons \subseteq buttons
    /\ mode = "manage" => ManageButtons \subseteq buttons /\ "install_server" \notin buttons

LEMMA TypeInductive == TypeOK /\ ButtonInv /\ [Next]_vars => TypeOK' /\ ButtonInv'
<1> USE DEF TypeOK, ButtonInv, InstallSteps, ManageSteps, InstallButtons, ManageButtons
<1> SUFFICES ASSUME TypeOK, ButtonInv, [Next]_vars PROVE TypeOK' /\ ButtonInv'
  OBVIOUS
<1>1. CASE \E m \in {"install", "manage"} : start(m)
  <2>1. PICK m \in {"install", "manage"} : start(m)
    BY <1>1
  <2>2. UNCHANGED <<wizard, manage, sis, oda, grouped, status, image, serverDone, setupDone>>
    BY <2>1 DEF start, recorded, nodes, history
  <2>3. normal' \subseteq buttons'
    BY <2>1 DEF start
  <2> QED
    BY <2>1, <2>2, <2>3 DEF start
<1>2. CASE Quit
  BY <1>2 DEF Quit, recorded, nodes, history
<1>3. CASE \E ok \in BOOLEAN : run_server_install(ok)
  <2>1. PICK ok \in BOOLEAN : run_server_install(ok)
    BY <1>3
  <2>2. mode = "install" /\ {"build_image", "addclients"} \subseteq buttons
    BY <2>1 DEF run_server_install
  <2>3. serverDone' \in BOOLEAN
    BY <2>1 DEF run_server_install
  <2>4. /\ wizard' \subseteq wizard \cup {"build_image"} /\ step_status' = wizard'
        /\ normal' \subseteq normal \cup {"build_image", "addclients"}
    BY <2>1 DEF run_server_install
  <2> QED
    BY <2>1, <2>2, <2>3, <2>4 DEF run_server_install, nodes
<1>4. CASE \E ok \in BOOLEAN : run_post_install(ok)
  <2>1. PICK ok \in BOOLEAN : run_post_install(ok)
    BY <1>4
  <2>2. "test_install" \in buttons /\ mode # "none"
    BY <2>1 DEF run_post_install
  <2>3. setupDone' \in BOOLEAN
    BY <2>1 DEF run_post_install
  <2>4. /\ wizard' \subseteq wizard \cup {"test_install"}
        /\ normal' \subseteq normal \cup {"test_install"}
    BY <2>1 DEF run_post_install, Enable
  <2>5. /\ grouped' \subseteq sis /\ status' \in [Clients -> {0, 2, 8}]
    BY <2>1 DEF run_post_install, update_client_node_package_status
  <2> QED
    BY <2>1, <2>2, <2>3, <2>4, <2>5 DEF run_post_install
<1>5. CASE build_oscar_image
  BY <1>5 DEF build_oscar_image, nodes, history
<1>6. CASE postimagebuild
  <2>1. image' \in BOOLEAN
    BY <1>6 DEF postimagebuild
  <2>2. \/ UNCHANGED <<wizard, normal>>
        \/ /\ "addclients" \in buttons /\ mode # "none"
           /\ wizard' = wizard \cup {"addclients"}
           /\ normal' = normal \cup {"addclients"}
    BY <1>6 DEF postimagebuild, Enable
  <2>3. UNCHANGED <<manage, nodes, mode, step_status, manage_status, buttons,
                    client_nodes, windows, history>>
    BY <1>6 DEF postimagebuild
  <2> QED
    BY <2>1, <2>2, <2>3 DEF nodes, history
<1>7. CASE addnode_window
  <2>1. /\ buttons \subseteq buttons' /\ normal' \subseteq buttons'
        /\ buttons' = buttons \cup AddNodeButtons /\ mode # "none"
    BY <1>7 DEF addnode_window
  <2>2. UNCHANGED <<recorded, nodes, image, mode, step_status, manage_status,
                    client_nodes, windows, history>>
    BY <1>7 DEF addnode_window
  <2> QED
    BY <2>1, <2>2 DEF recorded, nodes, history, AddNodeButtons
<1>8. CASE build_oscar_clients
  BY <1>8 DEF build_oscar_clients, recorded, nodes, history, fetched
<1>9. CASE \E new \in SUBSET (Clients \ sis), ok \in BOOLEAN :
              postaddclients(new, ok)
  <2>1. PICK new \in SUBSET (Clients \ sis), ok \in BOOLEAN :
                postaddclients(new, ok)
    BY <1>9
  <2>2. /\ sis \subseteq sis' /\ sis' \subseteq Clients
        /\ UNCHANGED <<image, mode, step_status, manage_status, buttons, windows,
                       serverDone, setupDone>>
    BY <2>1 DEF postaddclients, history
  <2>3. CASE UNCHANGED <<recorded, grouped, status, normal, client_nodes>>
    <3>1. oda' \subseteq sis'
      BY <2>1, <2>2 DEF postaddclients, populate_client_group_nodes
    <3> QED
      BY <2>2, <2>3, <3>1 DEF recorded
  <2>4. CASE oda' = sis' /\ populate_client_group_nodes(oda') /\ enable_netboot
             /\ mode = "install"
    <3>1. /\ client_nodes' \subseteq sis' /\ grouped' \subseteq sis'
          /\ status' \in [Clients -> {0, 2, 8}]
      BY <2>2, <2>4 DEF populate_client_group_nodes, fetched
    <3>2. /\ wizard' \subseteq InstallSteps /\ manage' \subseteq ManageSteps
          /\ normal' \subseteq buttons
      BY <2>4 DEF enable_netboot
    <3> QED
      BY <2>2, <2>4, <3>1, <3>2
  <2> QED
    BY <2>1, <2>3, <2>4 DEF postaddclients, recorded
<1>10. CASE setup_network
  BY <1>10 DEF setup_network, nodes, history, Enable
<1>11. CASE \E selected \in SUBSET oda : delnodes(selected)
  BY <1>11 DEF delnodes, recorded, session, history
<1>12. CASE run_tests
  BY <1>12 DEF run_tests, nodes, session, history
<1>13. CASE UNCHANGED vars
  BY <1>13 DEF vars, recorded, nodes, session, history
<1> QED
  BY <1>1, <1>2, <1>3, <1>4, <1>5, <1>6, <1>7, <1>8, <1>9, <1>10, <1>11,
     <1>12, <1>13 DEF Next

(* The record, the copies and the screen keep their types: no handler      *)
(* offers a step there is no button for.                                   *)
THEOREM TypeCorrect == Spec => []TypeOK
<1>1. Init => TypeOK /\ ButtonInv
  BY DEF Init, TypeOK, ButtonInv
<1> QED
  BY <1>1, TypeInductive, PTL DEF Spec

(* Clients get a package status only with, or after, their group.          *)
THEOREM StatusIsInGroup == Spec => []StatusOnlyInGroup
<1>1. Init => StatusOnlyInGroup
  BY DEF Init, StatusOnlyInGroup
<1>2. StatusOnlyInGroup /\ [Next]_vars => StatusOnlyInGroup'
  <2> USE DEF StatusOnlyInGroup
  <2> SUFFICES ASSUME StatusOnlyInGroup, [Next]_vars PROVE StatusOnlyInGroup'
    OBVIOUS
  <2>0. ASSUME UNCHANGED <<grouped, status>> PROVE StatusOnlyInGroup'
    BY <2>0
  <2>1. ASSUME NEW new, NEW ok, postaddclients(new, ok) PROVE StatusOnlyInGroup'
    BY <2>1 DEF postaddclients, populate_client_group_nodes
  <2>2. ASSUME NEW selected, delnodes(selected) PROVE StatusOnlyInGroup'
    BY <2>2 DEF delnodes
  <2>3. ASSUME NEW ok, run_post_install(ok) PROVE StatusOnlyInGroup'
    BY <2>3 DEF run_post_install, update_client_node_package_status
  <2>4. CASE \/ \E m \in {"install", "manage"} : start(m)
             \/ Quit \/ build_oscar_image \/ postimagebuild \/ addnode_window
             \/ build_oscar_clients \/ setup_network \/ run_tests
             \/ \E ok \in BOOLEAN : run_server_install(ok)
             \/ UNCHANGED vars
    BY <2>0, <2>4 DEF start, Quit, build_oscar_image, postimagebuild, addnode_window,
       build_oscar_clients, setup_network, run_tests, run_server_install, nodes, vars
  <2> QED
    BY <2>1, <2>2, <2>3, <2>4 DEF Next
<1> QED
  BY <1>1, <1>2, PTL DEF Spec

-----------------------------------------------------------------------------
(***************************************************************************)
(* The lock file of the wizard, for any set of process ids.                *)
(*                                                                         *)
(* As long as no two wizards were starting at the same time, a wizard that *)
(* works has its id in the file, and one that starts meanwhile is on its   *)
(* way to find that id: LockHeld.  A file without a wizard that will       *)
(* unlink it has been abandoned: LockOwned.  Once a wizard has died of the *)
(* file, the file is gone or somebody is about to replace it: LockBroken.  *)
(***************************************************************************)
LockHeld ==
    ~raced =>
      /\ \A p, q \in Pids : p # q => ~(pc[p] \in Starting /\ pc[q] \in Starting)
      /\ \A p \in Pids : pc[p] = "write" => lockfile = Empty /\ p \in handles
      /\ \A p \in Pids : pc[p] \in Working =>
           /\ lockfile = p
           /\ \A q \in Pids \ {p} :
                /\ pc[q] \notin Working
                /\ pc[q] \in Starting => pc[q] \in {"test", "open", "check"}
                /\ pc[q] = "check" => read[q] = p

LockOwned ==
    lockfile # NoFile /\ ~abandoned =>
      \E p \in Pids : pc[p] \in Working \cup {"write"}

LockBroken ==
    died =>
      /\ lockfile # NoFile => \E p \in Pids : pc[p] \in {"dying", "write"}
      /\ ~raced => \A p \in Pids : pc[p] # "open"

LockInv == LockTypeOK /\ LockHeld /\ LockOwned /\ LockBroken

LEMMA LockTyped == LockTypeOK /\ [LockNext]_lockVars => LockTypeOK'
<1> SUFFICES ASSUME LockTypeOK, [LockNext]_lockVars PROVE LockTypeOK'
  OBVIOUS
<1> USE ValuesAssumption DEF LockTypeOK, Starting, Working
<1>1. CASE RemoveByHand
  BY <1>1 DEF RemoveByHand, unlink
<1>2. CASE UNCHANGED lockVars
  BY <1>2 DEF lockVars
<1>3. ASSUME NEW p \in Pids,
             \/ Start(p) \/ test(p) \/ open(p) \/ check(p) \/ remove(p) \/ create(p)
             \/ write(p) \/ PressQuit(p) \/ END(p) \/ Kill(p) \/ Restart(p) \/ Other(p)
      PROVE  LockTypeOK'
  <2>1. CASE Start(p)
    BY <2>1 DEF Start, goto
  <2>2. CASE test(p)
    BY <2>2 DEF test, goto
  <2>3. CASE open(p)
    <3>1. CASE lockfile \in Pids
      BY <2>3, <3>1 DEF open, goto
    <3>2. CASE lockfile \notin Pids
      BY <2>3, <3>2 DEF open, goto
    <3> QED
      BY <3>1, <3>2
  <2>4. CASE check(p)
    BY <2>4 DEF check, gone, goto
  <2>5. CASE remove(p)
    BY <2>5 DEF remove, unlink, goto
  <2>6. CASE create(p)
    BY <2>6 DEF create, goto
  <2>7. CASE write(p)
    BY <2>7 DEF write, goto
  <2>8. CASE PressQuit(p)
    BY <2>8 DEF PressQuit, goto
  <2>9. CASE END(p)
    BY <2>9 DEF END, gone, unlink
  <2>10. CASE Kill(p)
    BY <2>10 DEF Kill, gone
  <2>11. CASE Restart(p)
    BY <2>11 DEF Restart
  <2>12. CASE Other(p)
    BY <2>12 DEF Other, goto
  <2> QED
    BY <1>3, <2>1, <2>2, <2>3, <2>4, <2>5, <2>6, <2>7, <2>8, <2>9, <2>10, <2>11, <2>12
<1> QED
  BY <1>1, <1>2, <1>3 DEF LockNext

LEMMA LockStaysHeld == LockTypeOK /\ LockHeld /\ [LockNext]_lockVars => LockHeld'
<1> SUFFICES ASSUME LockTypeOK /\ LockHeld, [LockNext]_lockVars PROVE LockHeld'
  OBVIOUS
<1> USE ValuesAssumption DEF LockTypeOK, LockHeld, Starting, Working
<1>1. CASE RemoveByHand
  BY <1>1 DEF RemoveByHand, unlink
<1>2. CASE UNCHANGED lockVars
  BY <1>2 DEF lockVars
<1>3. ASSUME NEW p \in Pids,
             \/ Start(p) \/ test(p) \/ open(p) \/ check(p) \/ remove(p) \/ create(p)
             \/ write(p) \/ PressQuit(p) \/ END(p) \/ Kill(p) \/ Restart(p) \/ Other(p)
      PROVE  LockHeld'
  <2>1. CASE Start(p)
    <3>1. CASE raced'
      BY <3>1
    <3>2. CASE ~raced'
      <4>1. ~raced /\ \A q \in Pids : pc[q] \notin Starting
        BY <2>1, <3>2 DEF Start
      <4> QED
        BY <2>1, <4>1 DEF Start, goto
    <3> QED
      BY <3>1, <3>2
  <2>2. CASE test(p)
    BY <2>2 DEF test, goto
  <2>3. CASE open(p)
    BY <2>3 DEF open, goto
  <2>4. CASE check(p)
    BY <2>4 DEF check, gone, goto
  <2>5. CASE remove(p)
    BY <2>5 DEF remove, unlink, goto
  <2>6. CASE create(p)
    BY <2>6 DEF create, goto
  <2>7. CASE write(p)
    BY <2>7 DEF write, goto
  <2>8. CASE PressQuit(p)
    BY <2>8 DEF PressQuit, goto
  <2>9. CASE END(p)
    BY <2>9 DEF END, gone, unlink
  <2>10. CASE Kill(p)
    BY <2>10 DEF Kill, gone
  <2>11. CASE Restart(p)
    BY <2>11 DEF Restart
  <2>12. CASE Other(p)
    BY <2>12 DEF Other, goto
  <2> QED
    BY <1>3, <2>1, <2>2, <2>3, <2>4, <2>5, <2>6, <2>7, <2>8, <2>9, <2>10, <2>11, <2>12
<1> QED
  BY <1>1, <1>2, <1>3 DEF LockNext

LEMMA LockStaysOwned == LockTypeOK /\ LockOwned /\ [LockNext]_lockVars => LockOwned'
<1> SUFFICES ASSUME LockTypeOK /\ LockOwned, [LockNext]_lockVars PROVE LockOwned'
  OBVIOUS
<1> USE ValuesAssumption DEF LockTypeOK, LockOwned, Starting, Working
<1>1. CASE RemoveByHand
  BY <1>1 DEF RemoveByHand, unlink
<1>2. CASE UNCHANGED lockVars
  BY <1>2 DEF lockVars
<1>3. ASSUME NEW p \in Pids,
             \/ Start(p) \/ test(p) \/ open(p) \/ check(p) \/ remove(p) \/ create(p)
             \/ write(p) \/ PressQuit(p) \/ END(p) \/ Kill(p) \/ Restart(p) \/ Other(p)
      PROVE  LockOwned'
  <2>1. CASE Start(p)
    BY <2>1 DEF Start, goto
  <2>2. CASE test(p)
    BY <2>2 DEF test, goto
  <2>3. CASE open(p)
    BY <2>3 DEF open, goto
  <2>4. CASE check(p)
    BY <2>4 DEF check, gone, goto
  <2>5. CASE remove(p)
    BY <2>5 DEF remove, unlink, goto
  <2>6. CASE create(p)
    BY <2>6 DEF create, goto
  <2>7. CASE write(p)
    BY <2>7 DEF write, goto
  <2>8. CASE PressQuit(p)
    BY <2>8 DEF PressQuit, goto
  <2>9. CASE END(p)
    BY <2>9 DEF END, gone, unlink
  <2>10. CASE Kill(p)
    BY <2>10 DEF Kill, gone
  <2>11. CASE Restart(p)
    BY <2>11 DEF Restart
  <2>12. CASE Other(p)
    BY <2>12 DEF Other, goto
  <2> QED
    BY <1>3, <2>1, <2>2, <2>3, <2>4, <2>5, <2>6, <2>7, <2>8, <2>9, <2>10, <2>11, <2>12
<1> QED
  BY <1>1, <1>2, <1>3 DEF LockNext

LEMMA LockStaysBroken == LockTypeOK /\ LockHeld /\ LockBroken /\ [LockNext]_lockVars => LockBroken'
<1> SUFFICES ASSUME LockTypeOK /\ LockHeld /\ LockBroken, [LockNext]_lockVars PROVE LockBroken'
  OBVIOUS
<1> USE ValuesAssumption DEF LockTypeOK, LockHeld, LockBroken, Starting, Working
<1>1. CASE RemoveByHand
  BY <1>1 DEF RemoveByHand, unlink
<1>2. CASE UNCHANGED lockVars
  BY <1>2 DEF lockVars
<1>3. ASSUME NEW p \in Pids,
             \/ Start(p) \/ test(p) \/ open(p) \/ check(p) \/ remove(p) \/ create(p)
             \/ write(p) \/ PressQuit(p) \/ END(p) \/ Kill(p) \/ Restart(p) \/ Other(p)
      PROVE  LockBroken'
  <2>1. CASE Start(p)
    BY <2>1 DEF Start, goto
  <2>2. CASE test(p)
    BY <2>2 DEF test, goto
  <2>3. CASE open(p)
    BY <2>3 DEF open, goto
  <2>4. CASE check(p)
    BY <2>4 DEF check, gone, goto
  <2>5. CASE remove(p)
    BY <2>5 DEF remove, unlink, goto
  <2>6. CASE create(p)
    BY <2>6 DEF create, goto
  <2>7. CASE write(p)
    BY <2>7 DEF write, goto
  <2>8. CASE PressQuit(p)
    BY <2>8 DEF PressQuit, goto
  <2>9. CASE END(p)
    BY <2>9 DEF END, gone, unlink
  <2>10. CASE Kill(p)
    BY <2>10 DEF Kill, gone
  <2>11. CASE Restart(p)
    BY <2>11 DEF Restart
  <2>12. CASE Other(p)
    BY <2>12 DEF Other, goto
  <2> QED
    BY <1>3, <2>1, <2>2, <2>3, <2>4, <2>5, <2>6, <2>7, <2>8, <2>9, <2>10, <2>11, <2>12
<1> QED
  BY <1>1, <1>2, <1>3 DEF LockNext

LEMMA LockInductive == LockSpec => []LockInv
<1>1. LockInit => LockInv
  BY ValuesAssumption DEF LockInit, LockInv, LockTypeOK, LockHeld, LockOwned, LockBroken,
                          Starting, Working
<1>2. LockInv /\ [LockNext]_lockVars => LockInv'
  BY LockTyped, LockStaysHeld, LockStaysOwned, LockStaysBroken DEF LockInv
<1> QED
  BY <1>1, <1>2, PTL DEF LockSpec

(* The state of the lock has its types: who has the file open is about to  *)
(* write it, and only an id that was read is tested (oscar_wizard:184-209).*)
THEOREM LockTypeCorrect == LockSpec => []LockTypeOK
<1>1. LockInv => LockTypeOK
  BY DEF LockInv
<1> QED
  BY <1>1, LockInductive, PTL

(* Two wizards work at the same time only if two of them were starting at  *)
(* the same time (oscar_wizard:180-181).                                   *)
THEOREM LockKeepsApart == LockSpec => []AloneUnlessRaced
<1>1. LockInv => AloneUnlessRaced
  BY DEF LockInv, LockHeld, AloneUnlessRaced
<1> QED
  BY <1>1, LockInductive, PTL

(* The last wizard to leave takes the lock with it, unless one was ended   *)
(* without END since the file was made (oscar_wizard:171-174).             *)
THEOREM LastWizardUnlocks == LockSpec => []LeftoversAreAbandoned
<1>1. LockInv => LeftoversAreAbandoned
  BY DEF LockInv, LockOwned, LeftoversAreAbandoned, Starting
<1> QED
  BY <1>1, LockInductive, PTL

(* A lock that nothing can be read from stops one wizard and not the next, *)
(* unless wizards were starting together (oscar_wizard:183-191).           *)
THEOREM UnreadableLockStopsOne == LockSpec => DiesOnce
<1>1. LockInv /\ [LockNext]_lockVars =>
        [\A p \in Pids : pc'[p] = "dying" /\ pc[p] = "open" /\ died => raced]_lockVars
  BY DEF LockInv, LockBroken
<1> QED
  BY <1>1, LockInductive, PTL DEF LockSpec, DiesOnce
=============================================================================
