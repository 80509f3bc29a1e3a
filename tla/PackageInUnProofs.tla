------------------------- MODULE PackageInUnProofs -------------------------
(***************************************************************************)
(* Proofs about PackageInUn, for any opkgs, clients, dependencies and rpm  *)
(* lists, and about Opder, for any repositories and what they offer.       *)
(*                                                                         *)
(* The invariants of the runs are not inductive.  In PackageInUn each is   *)
(* proved with what the guards at the start of a package's sequence        *)
(* established and the commands so far have kept; in Opder with what is    *)
(* still due, and with the timers that may be pending.                     *)
(***************************************************************************)
EXTENDS PackageInUn, Opder, FiniteSetTheorems, TLAPS

(* The type invariant of PackageInUn.pm's session and machines.            *)
THEOREM TypeCorrect == Spec => []TypeOK
<1>1. Init => TypeOK
  BY DEF Init, TypeOK, Busy, UninstallSteps, InstallSteps
<1>2. TypeOK /\ [Next]_vars => TypeOK'
  <2> SUFFICES ASSUME TypeOK, [Next]_vars PROVE TypeOK'
    OBVIOUS
  <2> USE NoPackageAssumption
      DEF TypeOK, Busy, UninstallSteps, InstallSteps, Goto
  <2>1. ASSUME NEW s \in SUBSET Packages, NEW u \in SUBSET Packages,
               install_uninstall_packages(s, u)
        PROVE  TypeOK'
    BY <2>1 DEF install_uninstall_packages
  <2>2. ASSUME NEW p \in Packages, package_uninstall(p) PROVE TypeOK'
    BY <2>2 DEF package_uninstall
  <2>3. ASSUME NEW p \in Packages, package_install(p) PROVE TypeOK'
    BY <2>3 DEF package_install
  <2>4. ASSUME NEW done \in SUBSET Nodes, uninstall_clients(done) PROVE TypeOK'
    BY <2>4 DEF uninstall_clients
  <2>5. CASE uninstall_image
    BY <2>5 DEF uninstall_image
  <2>6. CASE run_uninstall_client
    BY <2>6 DEF run_uninstall_client
  <2>7. CASE run_uninstall_server
    BY <2>7 DEF run_uninstall_server
  <2>8. CASE run_uninstall_image
    BY <2>8 DEF run_uninstall_image
  <2>9. CASE uninstall_done
    BY <2>9 DEF uninstall_done, set_uninstalled, delete_group_packages
  <2>10. ASSUME NEW p \in Packages, NEW g \in Groups
         PROVE  get_rpm_list(p, g).list \subseteq Packages
    BY <2>10 DEF get_rpm_list
  <2>11. pc \in InstallSteps =>
           /\ get_rpm_list(pkg, "oscar_clients").list \subseteq Packages
           /\ get_rpm_list(pkg, "oscar_server").list \subseteq Packages
    BY <2>10 DEF Groups
  <2>12. ASSUME NEW done \in SUBSET Nodes, run_install_client(done)
         PROVE  TypeOK'
    BY <2>11, <2>12 DEF run_install_client, check_rpm_list
  <2>13. CASE run_client_scripts
    BY <2>13 DEF run_client_scripts
  <2>14. CASE run_install_server
    BY <2>11, <2>14 DEF run_install_server, check_rpm_list
  <2>15. CASE run_install_image
    BY <2>11, <2>15 DEF run_install_image, check_rpm_list
  <2>16. CASE install_done
    BY <2>16 DEF install_done, set_installed
  <2>17. CASE EndIteration
    BY <2>17 DEF EndIteration, delete_group_packages
  <2>18. CASE EndSession
    BY <2>18 DEF EndSession
  <2>19. CASE Die
    BY <2>19 DEF Die
  <2>20. ASSUME NEW n \in Nodes, Reimage(n) PROVE TypeOK'
    BY <2>20 DEF Reimage
  <2>21. CASE UNCHANGED vars
    BY <2>21 DEF vars
  <2> QED
    BY <2>1, <2>2, <2>3, <2>4, <2>5, <2>6, <2>7, <2>8, <2>9, <2>12, <2>13,
       <2>14, <2>15, <2>16, <2>17, <2>18, <2>19, <2>20, <2>21 DEF Next
<1> QED
  BY <1>1, <1>2, PTL DEF Spec

-----------------------------------------------------------------------------
(* What the dependency tests established stays true up to the record.      *)
TestsStillHold ==
    /\ pc \in InstallSteps => /\ pkg \notin installed
                              /\ ~check_package_dependency(pkg)
    /\ pc \in UninstallSteps \cup {"succeeded"} =>
                              ~check_dependent_package(pkg)

RecordInv == TypeOK /\ RecordClosed /\ TestsStillHold

(* The set of packages recorded as installed is closed under the "requires" *)
(* relation of the database, whatever fails and whenever a session dies.   *)
THEOREM RecordStaysClosed == Spec => []RecordClosed
<1>1. Init => RecordClosed /\ TestsStillHold
  BY RequiresAssumption
     DEF Init, RecordClosed, TestsStillHold, InstallSteps, UninstallSteps
<1>2. RecordInv /\ TypeOK' /\ [Next]_vars => RecordClosed' /\ TestsStillHold'
  <2> SUFFICES ASSUME RecordInv, TypeOK', [Next]_vars
               PROVE  RecordClosed' /\ TestsStillHold'
    OBVIOUS
  <2> USE DEF RecordInv
  <2>1. ASSUME UNCHANGED installed,
               pc' \in InstallSteps => pc \in InstallSteps /\ pkg' = pkg,
               pc' \in UninstallSteps \cup {"succeeded"} =>
                  pc \in UninstallSteps /\ pkg' = pkg
        PROVE  RecordClosed' /\ TestsStillHold'
    BY <2>1 DEF RecordClosed, TestsStillHold, check_package_dependency,
                check_dependent_package
  <2> USE DEF Goto, InstallSteps, UninstallSteps
  <2>2. ASSUME NEW s \in SUBSET Packages, NEW u \in SUBSET Packages,
               install_uninstall_packages(s, u)
        PROVE  RecordClosed' /\ TestsStillHold'
    BY <2>1, <2>2 DEF install_uninstall_packages
  <2>3. ASSUME NEW p \in Packages, package_uninstall(p)
        PROVE  RecordClosed' /\ TestsStillHold'
    BY <2>3 DEF package_uninstall, RecordClosed, TestsStillHold,
                check_dependent_package
  <2>4. ASSUME NEW p \in Packages, package_install(p)
        PROVE  RecordClosed' /\ TestsStillHold'
    BY <2>4 DEF package_install, RecordClosed, TestsStillHold,
                check_package_dependency
  <2>5. ASSUME NEW done \in SUBSET Nodes, uninstall_clients(done)
        PROVE  RecordClosed' /\ TestsStillHold'
    BY <2>1, <2>5 DEF uninstall_clients
  <2>6. CASE uninstall_image
    BY <2>1, <2>6 DEF uninstall_image
  <2>7. CASE run_uninstall_client
    BY <2>1, <2>7 DEF run_uninstall_client
  <2>8. CASE run_uninstall_server
    BY <2>1, <2>8 DEF run_uninstall_server
  <2>9. CASE run_uninstall_image
    BY <2>1, <2>9 DEF run_uninstall_image
  <2>10. CASE uninstall_done
    BY <2>10 DEF uninstall_done, set_uninstalled, delete_group_packages,
                 RecordClosed, TestsStillHold, check_dependent_package
  <2>11. ASSUME NEW done \in SUBSET Nodes, run_install_client(done)
         PROVE  RecordClosed' /\ TestsStillHold'
    BY <2>1, <2>11 DEF run_install_client
  <2>12. CASE run_client_scripts
    BY <2>1, <2>12 DEF run_client_scripts
  <2>13. CASE run_install_server
    BY <2>1, <2>13 DEF run_install_server
  <2>14. CASE run_install_image
    BY <2>1, <2>14 DEF run_install_image
  <2>15. CASE install_done
    <3>1. pkg \in Packages /\ pkg \notin installed
      BY <2>15 DEF install_done, TestsStillHold, TypeOK, Busy
    <3>2. \A r \in Packages : <<pkg, r>> \in Requires => r \in installed
      BY <2>15 DEF install_done, TestsStillHold, check_package_dependency
    <3>3. \A q \in installed : <<q, pkg>> \notin Requires
      BY <3>1 DEF RecordClosed
    <3>4. <<pkg, pkg>> \notin Requires
      BY <3>1, <3>2
    <3>5. installed' = installed \cup {pkg} /\ pc' = "succeeded" /\ pkg' = pkg
      BY <2>15 DEF install_done, set_installed
    <3> QED
      BY <3>2, <3>3, <3>4, <3>5
         DEF RecordClosed, TestsStillHold, check_dependent_package
  <2>16. CASE EndIteration
    <3>1. pc' = "loop" /\ installed' \in {installed, installed \ {pkg}}
      BY <2>16 DEF EndIteration, delete_group_packages
    <3>2. installed' # installed => \A q \in installed : <<q, pkg>> \notin Requires
      BY <2>16 DEF EndIteration, TestsStillHold, check_dependent_package
    <3> QED
      BY <3>1, <3>2 DEF RecordClosed, TestsStillHold
  <2>17. CASE EndSession
    BY <2>1, <2>17 DEF EndSession
  <2>18. CASE Die
    BY <2>1, <2>18 DEF Die
  <2>19. ASSUME NEW n \in Nodes, Reimage(n)
         PROVE  RecordClosed' /\ TestsStillHold'
    BY <2>1, <2>19 DEF Reimage
  <2>20. CASE UNCHANGED vars
    BY <2>20 DEF vars, RecordClosed, TestsStillHold, check_package_dependency,
                 check_dependent_package
  <2> QED
    BY <2>2, <2>3, <2>4, <2>5, <2>6, <2>7, <2>8, <2>9, <2>10, <2>11, <2>12,
       <2>13, <2>14, <2>15, <2>16, <2>17, <2>18, <2>19, <2>20 DEF Next
<1> QED
  BY <1>1, <1>2, TypeCorrect, PTL DEF Spec, RecordInv

-----------------------------------------------------------------------------
(* A search for rpms that should be there and did not end in an error has  *)
(* found them.                                                             *)
LEMMA RpmListFound ==
    ASSUME NEW p \in Packages, NEW group \in Groups,
           HasRpms(p, group), get_rpm_list(p, group).retval # 2
    PROVE  p \in get_rpm_list(p, group).list
  BY DEF HasRpms, get_rpm_list

(* No command of a removal touches the rpms of the clients or the image:   *)
(* the group they are looked up under does not exist.                      *)
LEMMA NothingToRemove ==
    ASSUME NEW p \in Packages PROVE pkgs_of_opkg(p, "oscar_client") = {}
  BY RpmsAssumption DEF pkgs_of_opkg, Groups

(* How far the rpms of the current package have got, by the next command.  *)
OnTheWay ==
    /\ pc \in {"i_script", "i_server", "i_image"} =>
         /\ get_rpm_list(pkg, "oscar_clients").retval # 2
         /\ \A n \in Nodes :
              check_rpm_list(pkg, "oscar_clients", image) \subseteq clients[n]
    /\ pc \in {"i_image", "i_done"} =>
         /\ get_rpm_list(pkg, "oscar_server").retval # 2
         /\ get_rpm_list(pkg, "oscar_server").list \subseteq server
    /\ pc = "i_done" =>
         /\ get_rpm_list(pkg, "oscar_clients").retval # 2
         /\ get_rpm_list(pkg, "oscar_clients").list \subseteq image

DeliveryInv == TypeOK /\ ImageOnClients /\ OnTheWay

LEMMA DeliveryStep ==
    DeliveryInv /\ TypeOK' /\ [Next]_vars => ImageOnClients' /\ OnTheWay'
<1> SUFFICES ASSUME DeliveryInv, TypeOK', [Next]_vars
             PROVE  ImageOnClients' /\ OnTheWay'
  OBVIOUS
<1> USE DEF DeliveryInv
<1>1. ASSUME UNCHANGED <<clients, image, server>>,
             pc' \notin {"i_script", "i_server", "i_image", "i_done"}
      PROVE  ImageOnClients' /\ OnTheWay'
  BY <1>1 DEF ImageOnClients, OnTheWay
<1> USE DEF Goto
<1>2. ASSUME NEW s \in SUBSET Packages, NEW u \in SUBSET Packages,
             install_uninstall_packages(s, u)
      PROVE  ImageOnClients' /\ OnTheWay'
  BY <1>1, <1>2 DEF install_uninstall_packages
<1>3. ASSUME NEW p \in Packages, package_uninstall(p)
      PROVE  ImageOnClients' /\ OnTheWay'
  BY <1>1, <1>3 DEF package_uninstall
<1>4. ASSUME NEW p \in Packages, package_install(p)
      PROVE  ImageOnClients' /\ OnTheWay'
  BY <1>1, <1>4 DEF package_install
<1>5. ASSUME NEW done \in SUBSET Nodes, uninstall_clients(done)
      PROVE  ImageOnClients' /\ OnTheWay'
  <2>1. pkg \in Packages
    BY <1>5 DEF uninstall_clients, TypeOK
  <2>2. clients' = clients
    BY <2>1, <1>5, NothingToRemove DEF uninstall_clients, TypeOK
  <2> QED
    BY <1>1, <1>5, <2>2 DEF uninstall_clients
<1>6. CASE uninstall_image
  <2>1. pkg \in Packages
    BY <1>6 DEF uninstall_image, TypeOK
  <2>2. image' = image
    BY <2>1, <1>6, NothingToRemove DEF uninstall_image
  <2> QED
    BY <1>1, <1>6, <2>2 DEF uninstall_image
<1>7. CASE run_uninstall_client
  BY <1>1, <1>7 DEF run_uninstall_client
<1>8. CASE run_uninstall_server
  BY <1>8 DEF run_uninstall_server, ImageOnClients, OnTheWay
<1>9. CASE run_uninstall_image
  BY <1>1, <1>9 DEF run_uninstall_image
<1>10. CASE uninstall_done
  BY <1>1, <1>10 DEF uninstall_done
<1>11. ASSUME NEW done \in SUBSET Nodes, run_install_client(done)
       PROVE  ImageOnClients' /\ OnTheWay'
  <2>1. \A n \in Nodes : clients[n] \subseteq clients'[n]
    BY <1>11 DEF run_install_client
  <2>2. pc' = "i_script" =>
          /\ get_rpm_list(pkg, "oscar_clients").retval # 2
          /\ \A n \in Nodes :
               check_rpm_list(pkg, "oscar_clients", image) \subseteq clients'[n]
    BY <1>11 DEF run_install_client
  <2>3. pc' \in {"i_script", "failed"} /\ image' = image /\ pkg' = pkg
    BY <1>11 DEF run_install_client
  <2> QED
    BY <2>1, <2>2, <2>3 DEF ImageOnClients, OnTheWay, check_rpm_list
<1>12. CASE run_client_scripts
  BY <1>12 DEF run_client_scripts, ImageOnClients, OnTheWay
<1>13. CASE run_install_server
  BY <1>13 DEF run_install_server, ImageOnClients, OnTheWay, check_rpm_list
<1>14. CASE run_install_image
  <2>1. image' \subseteq image \cup check_rpm_list(pkg, "oscar_clients", image)
    BY <1>14 DEF run_install_image
  <2>2. ImageOnClients'
    BY <1>14, <2>1 DEF run_install_image, ImageOnClients, OnTheWay
  <2> QED
    BY <1>14, <2>2 DEF run_install_image, OnTheWay, check_rpm_list
<1>15. CASE install_done
  BY <1>1, <1>15 DEF install_done
<1>16. CASE EndIteration
  BY <1>1, <1>16 DEF EndIteration
<1>17. CASE EndSession
  BY <1>1, <1>17 DEF EndSession
<1>18. CASE Die
  BY <1>1, <1>18 DEF Die
<1>19. ASSUME NEW n \in Nodes, Reimage(n)
       PROVE  ImageOnClients' /\ OnTheWay'
  BY <1>19 DEF Reimage, ImageOnClients, OnTheWay, TypeOK
<1>20. CASE UNCHANGED vars
  BY <1>20 DEF vars, ImageOnClients, OnTheWay
<1> QED
  BY <1>2, <1>3, <1>4, <1>5, <1>6, <1>7, <1>8, <1>9, <1>10, <1>11, <1>12,
     <1>13, <1>14, <1>15, <1>16, <1>17, <1>18, <1>19, <1>20 DEF Next

(* The image holds no rpms that a client lacks, for any number of clients  *)
(* and whichever commands fail.                                            *)
THEOREM ImageStaysBehindClients == Spec => []ImageOnClients
<1>1. Init => ImageOnClients /\ OnTheWay
  BY DEF Init, ImageOnClients, OnTheWay
<1> QED
  BY <1>1, DeliveryStep, TypeCorrect, PTL DEF Spec, DeliveryInv

(* A package is recorded as installed only when its rpms are everywhere.   *)
THEOREM RecordedAreDelivered == Spec => RecordedOnlyDelivered
<1>1. Init => ImageOnClients /\ OnTheWay
  BY DEF Init, ImageOnClients, OnTheWay
<1>2. DeliveryInv /\ [Next]_vars
        => [\A p \in installed' \ installed : Delivered(p)]_vars
  <2> SUFFICES ASSUME DeliveryInv, Next, NEW p \in installed' \ installed
               PROVE  Delivered(p)
    OBVIOUS
  <2>1. install_done
    BY DEF Next, install_uninstall_packages, package_uninstall,
           package_install, uninstall_clients, uninstall_image,
           run_uninstall_client, run_uninstall_server, run_uninstall_image,
           uninstall_done, set_uninstalled, delete_group_packages,
           run_install_client, run_client_scripts, run_install_server,
           run_install_image, EndIteration, EndSession, Die, Reimage
  <2>2. p = pkg /\ pc = "i_done"
    BY <2>1 DEF install_done, set_installed
  <2>3. p \in Packages
    BY <2>2 DEF DeliveryInv, TypeOK
  <2>4. HasRpms(p, "oscar_clients") => p \in image
    BY <2>2, <2>3, RpmListFound DEF DeliveryInv, OnTheWay, Groups
  <2>5. HasRpms(p, "oscar_server") => p \in server
    BY <2>2, <2>3, RpmListFound DEF DeliveryInv, OnTheWay, Groups
  <2> QED
    BY <2>4, <2>5 DEF Delivered, DeliveryInv, ImageOnClients
<1> QED
  BY <1>1, <1>2, DeliveryStep, TypeCorrect, PTL
     DEF Spec, DeliveryInv, RecordedOnlyDelivered
-----------------------------------------------------------------------------
(* What a package without rpms in the image is listed for is missing there *)
(* when its turn comes, or its files are not found.                        *)
LEMMA MissingFromImage ==
    ASSUME NEW p \in Packages, p \notin image, HasRpms(p, "oscar_clients")
    PROVE  \/ get_rpm_list(p, "oscar_clients").retval = 2
           \/ p \in check_rpm_list(p, "oscar_clients", image)
<1>1. "oscar_clients" \in Groups
  BY DEF Groups
<1> QED BY <1>1, RpmListFound DEF check_rpm_list

(* rpms move for the current package only.                                 *)
LEMMA OnlyItsOwnRpms ==
    ASSUME NEW p, NEW group
    PROVE  get_rpm_list(p, group).list \subseteq {p}
  BY DEF get_rpm_list

(* A package that stopped between the clients and the image stays there,   *)
(* whichever sessions follow, until a client is installed again: rpm       *)
(* refuses the clients that have it, and its removal is refused as well.   *)
THEOREM WedgedForGood == Spec => WedgedUntilReimaged
<1>1. ASSUME TypeOK, Next, NEW p \in Packages, Wedged(p), \A n \in Nodes : ~Reimage(n)
      PROVE  Wedged(p)'
  <2>1. PICK n \in Nodes : p \in clients[n]
    BY <1>1 DEF Wedged
  <2>2. ASSUME clients'[n] = clients[n], image' = image, installed' \subseteq installed,
               p = pkg' => pc' \notin {"i_script", "i_server", "i_image", "i_done"}
        PROVE  Wedged(p)'
    BY <1>1, <2>1, <2>2 DEF Wedged, HasRpms
  <2>3. p = pkg => pc \notin {"i_script", "i_server", "i_image", "i_done"}
    BY <1>1 DEF Wedged
  <2> USE DEF Goto
  <2>4. ASSUME NEW s \in SUBSET Packages, NEW u \in SUBSET Packages,
               install_uninstall_packages(s, u)
        PROVE  Wedged(p)'
    BY <2>2, <2>4 DEF install_uninstall_packages
  <2>5. ASSUME NEW q \in Packages, package_uninstall(q) \/ package_install(q)
        PROVE  Wedged(p)'
    BY <2>2, <2>5 DEF package_uninstall, package_install
  <2>6. ASSUME NEW done \in SUBSET Nodes, uninstall_clients(done)
        PROVE  Wedged(p)'
    <3>1. pkg \in Packages
      BY <1>1, <2>6 DEF uninstall_clients, TypeOK
    <3>2. clients'[n] = clients[n]
      BY <2>6, <3>1, NothingToRemove DEF uninstall_clients
    <3> QED BY <2>2, <2>6, <3>2 DEF uninstall_clients
  <2>7. CASE uninstall_image
    <3>1. pkg \in Packages
      BY <1>1, <2>7 DEF uninstall_image, TypeOK
    <3>2. image' = image
      BY <2>7, <3>1, NothingToRemove DEF uninstall_image
    <3> QED BY <2>2, <2>7, <3>2 DEF uninstall_image
  <2>8. CASE run_uninstall_client \/ run_uninstall_server \/ run_uninstall_image
    BY <2>2, <2>8 DEF run_uninstall_client, run_uninstall_server, run_uninstall_image
  <2>9. CASE uninstall_done
    BY <2>2, <2>9 DEF uninstall_done, set_uninstalled, delete_group_packages
  <2>10. ASSUME NEW done \in SUBSET Nodes, run_install_client(done)
         PROVE  Wedged(p)'
    <3>1. p \in clients'[n]
      BY <2>1, <2>10 DEF run_install_client
    <3>2. p = pkg => pc' = "failed"
      <4> SUFFICES ASSUME p = pkg PROVE pc' = "failed"
        OBVIOUS
      <4>1. \/ get_rpm_list(pkg, "oscar_clients").retval = 2
            \/ pkg \in clients[n] \cap check_rpm_list(pkg, "oscar_clients", image)
        BY <1>1, <2>1, MissingFromImage DEF Wedged
      <4> QED BY <2>10, <4>1 DEF run_install_client
    <3>3. UNCHANGED <<image, installed, pkg>>
      BY <2>10 DEF run_install_client
    <3> QED BY <1>1, <3>1, <3>2, <3>3 DEF Wedged, HasRpms
  <2>11. CASE run_client_scripts \/ run_install_server
    BY <2>2, <2>3, <2>11 DEF run_client_scripts, run_install_server
  <2>12. CASE run_install_image
    <3>1. p # pkg
      BY <2>3, <2>12 DEF run_install_image
    <3>2. image' \subseteq image \cup {pkg}
      BY <2>12, OnlyItsOwnRpms DEF run_install_image, check_rpm_list
    <3>3. UNCHANGED <<clients, installed, pkg>>
      BY <2>12 DEF run_install_image
    <3> QED BY <1>1, <2>1, <3>1, <3>2, <3>3 DEF Wedged, HasRpms
  <2>13. CASE install_done
    <3>1. p # pkg
      BY <2>3, <2>13 DEF install_done
    <3>2. installed' = installed \cup {pkg} /\ UNCHANGED <<clients, image, pkg>>
      BY <2>13 DEF install_done, set_installed
    <3> QED BY <1>1, <2>1, <3>1, <3>2 DEF Wedged, HasRpms
  <2>14. CASE EndIteration
    BY <2>2, <2>14 DEF EndIteration, delete_group_packages
  <2>15. CASE EndSession
    BY <2>2, <2>15 DEF EndSession
  <2>16. CASE Die
    BY <2>2, <2>16 DEF Die
  <2> QED
    BY <1>1, <2>4, <2>5, <2>6, <2>7, <2>8, <2>9, <2>10, <2>11, <2>12, <2>13, <2>14, <2>15,
       <2>16 DEF Next
<1>2. TypeOK /\ [Next]_vars =>
        [\A p \in Packages :
           Wedged(p) /\ (\A n \in Nodes : ~Reimage(n)) => Wedged(p)']_vars
  BY <1>1
<1> QED
  BY <1>2, TypeCorrect, PTL DEF Spec, WedgedUntilReimaged
-----------------------------------------------------------------------------
(***************************************************************************)
(* Opder.  The type invariant with what it needs: a form that is shown has *)
(* not yet used the timer it will start when it hides, a process that runs *)
(* or was killed has not yet used the one it will start when it ends, and  *)
(* something is read only while the form is shown and opd is there.        *)
(***************************************************************************)
MainTyped ==
    /\ app \in {"open", "closed"}
    /\ {opdcmd, minimized, shot, refreshButton, downloadButton, addRepositoryForm,
        useRepositoriesExclusively} \subseteq BOOLEAN
    /\ urlText \subseteq Urls
    /\ shows \in 0..MaxShows /\ edits \in 0..MaxEdits

ReadTyped ==
    /\ readPhase \in 0..2 /\ readProc \in Proc
    /\ DOMAIN repositories \subseteq Urls
    /\ \A url \in DOMAIN repositories : repositories[url] \in {url, UserSpecified}
    /\ currRepositoryURL \in Urls \cup {UserSpecified}
    /\ currRepositoryName \in RepositoryNames
    /\ readPackages \subseteq TableRows
    /\ asked \subseteq Urls /\ missed \subseteq Urls
    /\ readProc = "running" => readPhase # 0
    /\ readPhase = 2 => currRepositoryURL \in Urls

InfoTyped ==
    /\ {downloadInfoForm, readHasty} \subseteq BOOLEAN
    /\ leftover \subseteq Urls
    /\ readKills \in 0..shows /\ readHides \in 0..MaxShows
    /\ downloadInfoForm => readKills < shows
    /\ readPhase # 0 => opdcmd /\ downloadInfoForm
    /\ readHides > 0 => ~opdcmd

RowsTyped ==
    /\ successfullyReadPackages \subseteq TableRows
    /\ checked \subseteq successfullyReadPackages

DownloadTyped ==
    /\ {downloadPackageForm, dlFailed, away} \subseteq BOOLEAN
    /\ dlKills \in 0..shows /\ dlHides \in 0..shows
    /\ downloadPackageForm => dlKills < shows
    /\ dlPackages \in Seq(TableRows)
    /\ dlPhase \in 0..(Len(dlPackages) + 2) /\ dlProc \in Proc
    /\ dlProc # "idle" => dlHides < shows /\ dlPhase <= Len(dlPackages) + 1
    /\ dlProc = "running" => dlPhase \in 1..Len(dlPackages)

HistoryTyped ==
    /\ staleHides \in 0..shows /\ staleKills \in 0..shows
    /\ silences \in 0..2

OpderTyped ==
    /\ MainTyped /\ ReadTyped /\ InfoTyped
    /\ RowsTyped /\ DownloadTyped /\ HistoryTyped

LEMMA TypedIsOK == OpderTyped => OpderTypeOK
  BY BoundsAssumption DEF OpderTyped, MainTyped, ReadTyped, InfoTyped, RowsTyped,
     DownloadTyped, HistoryTyped, OpderTypeOK

LEMMA InitTyped == OpderInit => OpderTyped
<1> SUFFICES ASSUME OpderInit PROVE OpderTyped
  OBVIOUS
<1>1. <<>> \in Seq(TableRows) /\ Len(<<>>) = 0
  OBVIOUS
<1>2. MainTyped
  <2>1. 0 \in 0..MaxShows /\ 0 \in 0..MaxEdits
    BY BoundsAssumption
  <2>2. {opdcmd, minimized, shot, refreshButton, downloadButton, addRepositoryForm,
        useRepositoriesExclusively} \subseteq BOOLEAN
    BY DEF OpderInit
  <2> QED BY <2>1, <2>2 DEF OpderInit, MainTyped
<1>3. ReadTyped
  <2>1. DOMAIN repositories = {}
    BY DEF OpderInit, None
  <2>2. missed \subseteq Urls /\ readPhase = 0 /\ readProc \in Proc /\ readProc = "idle"
    BY DEF OpderInit, Proc
  <2>3. /\ currRepositoryURL = UserSpecified /\ currRepositoryName \in RepositoryNames
        /\ readPackages \subseteq TableRows /\ asked \subseteq Urls
    BY DEF OpderInit, RepositoryNames
  <2> QED BY <2>1, <2>2, <2>3 DEF ReadTyped
<1>4. InfoTyped /\ RowsTyped
  <2>1. {downloadInfoForm, readHasty} \subseteq BOOLEAN /\ leftover \subseteq Urls
    BY DEF OpderInit
  <2> QED BY <2>1, BoundsAssumption DEF OpderInit, InfoTyped, RowsTyped
<1>5. DownloadTyped
  <2>1. {downloadPackageForm, dlFailed, away} \subseteq BOOLEAN
    BY DEF OpderInit
  <2> QED BY <1>1, <2>1, BoundsAssumption DEF OpderInit, DownloadTyped, Proc
<1>6. HistoryTyped
  BY BoundsAssumption DEF OpderInit, HistoryTyped
<1> QED BY <1>2, <1>3, <1>4, <1>5, <1>6 DEF OpderTyped

(* What can be left to be read.                                            *)
Hash(left) ==
    /\ DOMAIN left \subseteq Urls
    /\ \A url \in DOMAIN left : left[url] \in {url, UserSpecified}

LEMMA NextIsTyped ==
    ASSUME NEW left, Hash(left), readNext(left),
           readPackages' \subseteq TableRows, asked' \subseteq Urls, missed' \subseteq Urls
    PROVE  ReadTyped' /\ readPhase' = 2
<1>1. PICK url \in DOMAIN left :
         /\ currRepositoryURL' = url /\ currRepositoryName' = left[url]
         /\ repositories' = [u \in DOMAIN left \ {url} |-> left[u]]
  BY DEF readNext
<1>2. readPhase' = 2 /\ readProc' \in {"running", "idle"}
  BY DEF readNext, startRead
<1> QED BY <1>1, <1>2 DEF ReadTyped, Hash, RepositoryNames, Proc

LEMMA RefreshIsTyped ==
    ASSUME ReadTyped, NEW text \in SUBSET Urls, NEW exclusive \in BOOLEAN,
           refreshReadPackages(text, exclusive)
    PROVE  ReadTyped'
<1> DEFINE all == [u \in text \cup DOMAIN repositories |->
                     IF u \in text THEN UserSpecified ELSE repositories[u]]
<1>1. Hash(all)
  BY DEF Hash, ReadTyped
<1>2. CASE readPhase # 0 \/ (exclusive /\ text = {})
  BY <1>2 DEF refreshReadPackages, ReadTyped, phase1and2
<1>3. CASE readPhase = 0 /\ exclusive /\ text # {}
  <2>1. readNext(all) /\ readPackages' = {} /\ asked' = text /\ missed' = {}
    BY <1>3 DEF refreshReadPackages
  <2> QED BY <1>1, <2>1, NextIsTyped
<1>4. CASE readPhase = 0 /\ ~exclusive
  <2>1. /\ repositories' = all /\ readPhase' = 1 /\ readPackages' = {} /\ startRead
        /\ asked' = text \cup Listed /\ missed' = {}
        /\ UNCHANGED <<currRepositoryURL, currRepositoryName>>
    BY <1>4 DEF refreshReadPackages
  <2>2. readProc' \in {"running", "idle"}
    BY <2>1 DEF startRead
  <2> HIDE DEF all
  <2>3. /\ DOMAIN repositories' \subseteq Urls /\ asked' \subseteq Urls
        /\ \A url \in DOMAIN repositories' : repositories'[url] \in {url, UserSpecified}
    BY <1>1, <2>1, UrlsAssumption DEF Hash
  <2>4. missed' \subseteq Urls
    BY <2>1
  <2> QED BY <2>1, <2>2, <2>3, <2>4 DEF ReadTyped, Proc
<1> QED BY <1>2, <1>3, <1>4

LEMMA ReadingStaysTyped ==
    ASSUME OpderTyped, UNCHANGED <<opdcmd, reading>>, shows' \in {shows, shows + 1}
    PROVE  ReadTyped' /\ InfoTyped'
<1>1. ReadTyped'
  BY DEF OpderTyped, ReadTyped, reading, phase1and2
<1>2. shows \in Nat /\ shows' \in Nat /\ shows' >= shows
  BY BoundsAssumption DEF OpderTyped, MainTyped
<1>3. InfoTyped'
  BY <1>2 DEF OpderTyped, InfoTyped, reading, phase1and2
<1> QED BY <1>1, <1>3

LEMMA DownloadingStaysTyped ==
    ASSUME OpderTyped, UNCHANGED downloading, shows' \in {shows, shows + 1}
    PROVE  DownloadTyped'
<1>1. shows \in Nat /\ shows' \in Nat /\ shows' >= shows
  BY BoundsAssumption DEF OpderTyped, MainTyped
<1>2. dlKills' \in 0..shows' /\ dlHides' \in 0..shows' /\ (downloadPackageForm' => dlKills' < shows')
  BY <1>1 DEF OpderTyped, DownloadTyped, downloading
<1>3. dlProc' # "idle" => dlHides' < shows' /\ dlPhase' <= Len(dlPackages') + 1
  BY <1>1 DEF OpderTyped, DownloadTyped, downloading
<1>4. {downloadPackageForm', dlFailed', away'} \subseteq BOOLEAN
  BY DEF OpderTyped, DownloadTyped, downloading, dlHistory
<1>5. /\ dlPackages' \in Seq(TableRows)
      /\ dlPhase' \in 0..(Len(dlPackages') + 2) /\ dlProc' \in Proc
      /\ dlProc' = "running" => dlPhase' \in 1..Len(dlPackages')
  BY DEF OpderTyped, DownloadTyped, downloading
<1> QED BY <1>2, <1>3, <1>4, <1>5 DEF DownloadTyped

LEMMA ShowEventIsTyped ==
    ASSUME OpderTyped, NEW text \in SUBSET Urls, NEW exclusive \in BOOLEAN,
           infoShowEvent(text, exclusive)
    PROVE  /\ ReadTyped' /\ downloadButton' \in BOOLEAN
           /\ readPhase' # 0 => opdcmd
           /\ readHides' \in 0..MaxShows /\ (readHides' > 0 => ~opdcmd)
<1>1. CASE opdcmd
  <2>1. downloadButton' = FALSE /\ refreshReadPackages(text, exclusive) /\ readHides' = readHides
    BY <1>1 DEF infoShowEvent
  <2> QED BY <1>1, <2>1, RefreshIsTyped DEF OpderTyped, InfoTyped
<1>2. CASE ~opdcmd
  <2>1. /\ readHides' = readHides + 1 /\ readHides < MaxShows
        /\ downloadButton' = downloadButton /\ UNCHANGED phase1and2
    BY <1>2 DEF infoShowEvent
  <2>2. ReadTyped'
    BY <2>1 DEF OpderTyped, ReadTyped, phase1and2
  <2>3. downloadButton' \in BOOLEAN
    BY <2>1 DEF OpderTyped, MainTyped
  <2>4. readPhase' = 0
    BY <1>2, <2>1 DEF OpderTyped, InfoTyped, phase1and2
  <2> QED BY <1>2, <2>1, <2>2, <2>3, <2>4, BoundsAssumption DEF OpderTyped, InfoTyped
<1> QED BY <1>1, <1>2

LEMMA ShowIsTyped ==
    ASSUME OpderTyped, NEW text \in SUBSET Urls, NEW exclusive \in BOOLEAN,
           showInfo(text, exclusive), opdcmd' = opdcmd
    PROVE  /\ ReadTyped' /\ InfoTyped' /\ downloadButton' \in BOOLEAN
           /\ shows' \in {shows, shows + 1} /\ shows' \in 0..MaxShows
<1>1. CASE downloadInfoForm
  <2>1. UNCHANGED <<shows, downloadButton, reading>>
    BY <1>1 DEF showInfo
  <2>2. ReadTyped' /\ InfoTyped'
    BY <2>1, ReadingStaysTyped
  <2> QED BY <2>1, <2>2 DEF OpderTyped, MainTyped
<1>2. CASE ~downloadInfoForm
  <2>1. /\ shows < MaxShows /\ shows' = shows + 1 /\ downloadInfoForm' = TRUE
        /\ infoShowEvent(text, exclusive)
        /\ readHasty' = (readKills + readHides > 0)
        /\ UNCHANGED <<readKills, leftover>>
    BY <1>2 DEF showInfo
  <2>2. shows \in Nat /\ shows' \in 0..MaxShows
    BY <2>1, BoundsAssumption DEF OpderTyped, MainTyped
  <2>3. /\ ReadTyped' /\ downloadButton' \in BOOLEAN
        /\ readPhase' # 0 => opdcmd
        /\ readHides' \in 0..MaxShows /\ (readHides' > 0 => ~opdcmd)
    BY <2>1, ShowEventIsTyped
  <2>4. {downloadInfoForm', readHasty'} \subseteq BOOLEAN /\ leftover' \subseteq Urls
    BY <2>1 DEF OpderTyped, InfoTyped
  <2>5. InfoTyped'
    BY <2>1, <2>2, <2>3, <2>4 DEF OpderTyped, InfoTyped
  <2> QED BY <2>1, <2>2, <2>3, <2>5
<1> QED BY <1>1, <1>2

LEMMA HideIsTyped ==
    ASSUME OpderTyped, infoHideEvent, downloadInfoForm, minimized => ~opdcmd,
           UNCHANGED <<shows, opdcmd, repositories, missed>>, readHides' \in 0..readHides
    PROVE  ReadTyped' /\ InfoTyped' /\ downloadButton' \in BOOLEAN
<1>1. readHides' \in 0..MaxShows /\ (readHides' > 0 => readHides > 0)
  BY BoundsAssumption DEF OpderTyped, InfoTyped
<1>2. downloadInfoForm' = FALSE /\ downloadButton' \in BOOLEAN
  BY DEF infoHideEvent
<1>3. shows \in Nat
  BY BoundsAssumption DEF OpderTyped, MainTyped
<1>4. CASE minimized
  <2>1. UNCHANGED <<readPhase, readProc, readKills, leftover, readKept>>
    BY <1>4 DEF infoHideEvent
  <2>2. readPhase = 0
    BY <1>4 DEF OpderTyped, InfoTyped
  <2>3. ReadTyped'
    BY <2>1 DEF OpderTyped, ReadTyped, readKept
  <2>4. {downloadInfoForm', readHasty'} \subseteq BOOLEAN /\ leftover' \subseteq Urls
    BY <1>2, <2>1 DEF OpderTyped, InfoTyped, readKept
  <2>5. InfoTyped'
    BY <1>1, <1>2, <1>3, <2>1, <2>2, <2>4 DEF OpderTyped, InfoTyped
  <2> QED BY <1>2, <2>3, <2>5
<1>5. CASE ~minimized
  <2>1. /\ readPhase' = 0 /\ readProc' = Killed(readProc) /\ readKills' = readKills + 1
        /\ leftover' = DOMAIN repositories /\ forgetRead
    BY <1>5 DEF infoHideEvent
  <2>2. ReadTyped'
    BY <2>1 DEF OpderTyped, ReadTyped, forgetRead, Killed, Proc, RepositoryNames
  <2>3. {downloadInfoForm', readHasty'} \subseteq BOOLEAN /\ leftover' \subseteq Urls
    BY <1>2, <2>1 DEF OpderTyped, ReadTyped, forgetRead
  <2>4. InfoTyped'
    BY <1>1, <1>2, <1>3, <2>1, <2>3 DEF OpderTyped, InfoTyped
  <2> QED BY <1>2, <2>2, <2>4
<1> QED BY <1>4, <1>5

(* What opd has printed, and what is left to be read after it.             *)
LEMMA AnswerIsTyped ==
    ASSUME ReadTyped, readPhase # 0, NEW error \in BOOLEAN, NEW lines \in Printed(error)
    PROVE  /\ lines \subseteq IF readPhase = 1 THEN Listed ELSE Offers[currRepositoryURL]
           /\ Hash(FoundRepositories(lines, error))
           /\ FoundPackages(lines) \subseteq TableRows
           /\ Lost(error, lines) \subseteq Urls
<1>1. lines \subseteq IF readPhase = 1 THEN Listed ELSE Offers[currRepositoryURL]
  BY DEF Printed, Lines
<1>2. Hash(FoundRepositories(lines, error))
  <2>1. CASE error
    BY <2>1 DEF FoundRepositories, Hash, None
  <2>2. CASE ~error /\ readPhase = 1
    <3>1. FoundRepositories(lines, error) =
            [u \in lines \cup DOMAIN repositories |-> IF u \in lines THEN u ELSE repositories[u]]
      BY <2>2 DEF FoundRepositories
    <3> QED BY <1>1, <2>2, <3>1, UrlsAssumption DEF ReadTyped, Hash
  <2>3. CASE ~error /\ readPhase # 1
    BY <2>3 DEF FoundRepositories, ReadTyped, Hash
  <2> QED BY <2>1, <2>2, <2>3
<1>3. FoundPackages(lines) \subseteq TableRows
  <2>1. CASE readPhase = 1
    BY <2>1 DEF FoundPackages, ReadTyped
  <2>2. CASE readPhase # 1
    <3>1. currRepositoryURL \in Urls /\ currRepositoryName \in RepositoryNames
      BY <2>2 DEF ReadTyped
    <3>2. lines \subseteq Names
      BY <1>1, <2>2, <3>1 DEF Names
    <3> QED BY <2>2, <3>1, <3>2 DEF FoundPackages, ReadTyped, TableRows
  <2> QED BY <2>1, <2>2
<1>4. Lost(error, lines) \subseteq Urls
  BY UrlsAssumption DEF Lost, ReadTyped
<1> QED BY <1>1, <1>2, <1>3, <1>4

(* The end of a process that is waited for: readNext or populateTable.     *)
Answer(error, lines) ==
    LET left == FoundRepositories(lines, error)
        packages == FoundPackages(lines)
    IN  /\ missed' = IF readProc = "killed" /\ ~readHasty THEN missed
                     ELSE missed \cup Lost(error, lines)
        /\ IF DOMAIN left # {}
             THEN /\ readNext(left)
                  /\ readPackages' = packages
                  /\ UNCHANGED <<table, downloadButton, downloadInfoForm, readKills,
                                 leftover, asked, readHasty>>
             ELSE populateTable(packages) /\ repositories' = left

LEMMA DoneIsAnswer ==
    readDone =>
      /\ app = "open" /\ readProc # "idle" /\ readPhase # 0
      /\ \E error \in BOOLEAN : \E lines \in Printed(error) : Answer(error, lines)
      /\ UNCHANGED <<main, budget, refreshButton, adding, readHides, downloading>>
  BY DEF readDone, Answer

LEMMA DoneIsTyped ==
    ASSUME OpderTyped, readDone
    PROVE  ReadTyped' /\ InfoTyped' /\ RowsTyped' /\ downloadButton' \in BOOLEAN
<1>1. PICK error \in BOOLEAN : \E lines \in Printed(error) : Answer(error, lines)
  BY DoneIsAnswer
<1>2. PICK lines \in Printed(error) : Answer(error, lines)
  BY <1>1
<1> DEFINE left == FoundRepositories(lines, error)
           packages == FoundPackages(lines)
<1>3. readPhase # 0 /\ downloadInfoForm /\ opdcmd /\ ReadTyped
  BY DoneIsAnswer DEF OpderTyped, InfoTyped
<1>4. Hash(left) /\ packages \subseteq TableRows /\ Lost(error, lines) \subseteq Urls
  BY <1>3, AnswerIsTyped
<1>5. UNCHANGED <<opdcmd, shows, readHides>>
  BY DoneIsAnswer DEF main, budget
<1>6. shows \in Nat
  BY BoundsAssumption DEF OpderTyped, MainTyped
<1>7. missed' \subseteq Urls
  BY <1>2, <1>3, <1>4 DEF Answer, ReadTyped
<1>8. CASE DOMAIN left # {}
  <2>1. /\ readNext(left) /\ readPackages' = packages
        /\ UNCHANGED <<table, downloadButton, downloadInfoForm, readKills, leftover, asked,
                       readHasty>>
    BY <1>2, <1>8 DEF Answer
  <2>2. ReadTyped' /\ readPhase' = 2
    BY <1>3, <1>4, <1>7, <2>1, NextIsTyped DEF ReadTyped
  <2>3. InfoTyped'
    BY <1>3, <1>5, <2>1, <2>2 DEF OpderTyped, InfoTyped
  <2>4. RowsTyped' /\ downloadButton' \in BOOLEAN
    BY <2>1 DEF OpderTyped, RowsTyped, MainTyped, table
  <2> QED BY <2>2, <2>3, <2>4
<1>9. CASE DOMAIN left = {}
  <2>1. populateTable(packages) /\ repositories' = left
    BY <1>2, <1>9 DEF Answer
  <2>2. ReadTyped'
    BY <1>7, <1>9, <2>1 DEF populateTable, forgetRead, ReadTyped, Proc, RepositoryNames
  <2>3. {downloadInfoForm', readHasty'} \subseteq BOOLEAN /\ leftover' \subseteq Urls
    BY <1>5, <2>1 DEF populateTable, forgetRead, OpderTyped, InfoTyped
  <2>4. InfoTyped'
    BY <1>3, <1>5, <1>6, <2>1, <2>3 DEF populateTable, OpderTyped, InfoTyped
  <2>5. RowsTyped' /\ downloadButton' \in BOOLEAN
    BY <1>4, <2>1 DEF populateTable, RowsTyped
  <2> QED BY <2>2, <2>4, <2>5
<1> QED BY <1>8, <1>9

(* The package with a number is downloaded, or the form is told to hide.   *)
LEMMA DownloadNextIsTyped ==
    ASSUME shows' \in Nat, dlHides \in Nat, dlHides < shows', NEW list \in Seq(TableRows),
           dlPackages' = list, NEW number \in 1..(Len(list) + 2), NEW proc \in {"idle", "killed"},
           proc = "killed" => number <= Len(list) + 1 /\ dlHides + 1 < shows',
           downloadNext(number, list, proc),
           {downloadPackageForm', dlFailed, away'} \subseteq BOOLEAN,
           dlKills' \in 0..shows', downloadPackageForm' => dlKills' < shows',
           downloadButton \in BOOLEAN
    PROVE  DownloadTyped' /\ downloadButton' \in BOOLEAN
<1>1. Len(list) \in Nat
  OBVIOUS
<1>2. dlPhase' = number
  BY DEF downloadNext
<1>3. CASE number <= Len(list)
  <2>1. /\ dlProc' \in {"running", "idle"} /\ UNCHANGED <<downloadButton, dlHides>>
        /\ dlFailed' \in BOOLEAN
    BY <1>3 DEF downloadNext
  <2> QED BY <1>1, <1>2, <1>3, <2>1 DEF DownloadTyped, Proc
<1>4. CASE ~(number <= Len(list))
  <2>1. /\ dlProc' = proc /\ dlHides' = dlHides + 1 /\ dlFailed' = dlFailed
        /\ downloadButton' \in BOOLEAN
    BY <1>4 DEF downloadNext
  <2>2. dlFailed' \in BOOLEAN
    BY <2>1
  <2> QED BY <1>1, <1>2, <1>4, <2>1, <2>2 DEF DownloadTyped, Proc
<1> QED BY <1>3, <1>4

LEMMA ListIsTyped ==
    ASSUME RowsTyped, NEW list \in SetToSeqs(checked)
    PROVE  list \in Seq(TableRows)
<1>1. IsFiniteSet(checked) /\ checked \subseteq TableRows
  BY RowsAssumption, FS_Subset DEF RowsTyped
<1>2. Cardinality(checked) \in Nat
  BY <1>1, FS_CardinalityType
<1>3. list \in [1..Cardinality(checked) -> checked]
  BY DEF SetToSeqs
<1> QED BY <1>1, <1>2, <1>3

LEMMA ClickIsTyped ==
    ASSUME OpderTyped, downloadButton_clicked
    PROVE  /\ DownloadTyped' /\ downloadButton' \in BOOLEAN /\ RowsTyped'
           /\ shows' = shows + 1 /\ shows' \in 0..MaxShows
<1>1. /\ shows < MaxShows /\ shows' = shows + 1 /\ checked' = checked
      /\ downloadPackageForm' = TRUE /\ downloadPackageForm = FALSE
      /\ UNCHANGED <<successfullyReadPackages, dlKills, away>>
  BY DEF downloadButton_clicked, OpderTyped, DownloadTyped
<1>2. shows \in Nat /\ shows' \in 0..MaxShows /\ shows' \in Nat
  BY <1>1, BoundsAssumption DEF OpderTyped, MainTyped
<1>3. RowsTyped /\ RowsTyped' /\ downloadButton \in BOOLEAN
  BY <1>1 DEF OpderTyped, RowsTyped, MainTyped
<1>4. {downloadPackageForm', dlFailed, away'} \subseteq BOOLEAN
  BY <1>1 DEF OpderTyped, DownloadTyped
<1>5. /\ dlKills' \in 0..shows' /\ (downloadPackageForm' => dlKills' < shows')
      /\ dlHides \in 0..shows /\ dlHides \in Nat /\ dlHides < shows'
  BY <1>1, <1>2 DEF OpderTyped, DownloadTyped
<1>6. CASE dlPhase # 0
  <2>1. UNCHANGED <<downloadButton, dlPhase, dlPackages, dlProc, dlHides, dlFailed>>
    BY <1>6 DEF downloadButton_clicked
  <2>2. DownloadTyped'
    BY <1>1, <1>2, <1>4, <1>5, <2>1 DEF OpderTyped, DownloadTyped
  <2> QED BY <1>1, <1>2, <1>3, <2>1, <2>2
<1>7. CASE dlPhase = 0
  <2>1. PICK list \in SetToSeqs(checked) : dlPackages' = list /\ downloadNext(1, list, dlProc)
    BY <1>7 DEF downloadButton_clicked
  <2>2. list \in Seq(TableRows) /\ 1 \in 1..(Len(list) + 2) /\ 1 <= Len(list) + 1
    BY <1>3, ListIsTyped
  <2>3. dlProc \in {"idle", "killed"} /\ (dlProc = "killed" => dlHides + 1 < shows')
    BY <1>1, <1>2, <1>7 DEF OpderTyped, DownloadTyped, Proc
  <2>4. DownloadTyped' /\ downloadButton' \in BOOLEAN
    BY <1>2, <1>3, <1>4, <1>5, <2>1, <2>2, <2>3, DownloadNextIsTyped
  <2> QED BY <1>1, <1>2, <1>3, <2>4
<1> QED BY <1>6, <1>7 DEF OpderTyped, DownloadTyped

LEMMA PackageHideIsTyped ==
    ASSUME OpderTyped, packageHideEvent, downloadPackageForm, shows' = shows,
           dlHides' \in 0..dlHides
    PROVE  DownloadTyped' /\ refreshButton' \in BOOLEAN
<1>1. downloadPackageForm' = FALSE /\ refreshButton' = TRUE
  BY DEF packageHideEvent
<1>2. shows \in Nat
  BY BoundsAssumption DEF OpderTyped, MainTyped
<1>3. CASE minimized
  <2>1. UNCHANGED <<dlPhase, dlPackages, dlProc, dlKills, dlFailed, away>>
    BY <1>3 DEF packageHideEvent
  <2>2. {downloadPackageForm', dlFailed', away'} \subseteq BOOLEAN
    BY <1>1, <2>1 DEF OpderTyped, DownloadTyped
  <2> QED BY <1>1, <1>2, <2>1, <2>2 DEF OpderTyped, DownloadTyped
<1>4. CASE ~minimized
  <2>1. /\ dlPhase' = 0 /\ dlPackages' = <<>> /\ dlProc' = Killed(dlProc)
        /\ dlKills' = dlKills + 1
        /\ dlFailed' = FALSE /\ away' = FALSE
    BY <1>4 DEF packageHideEvent
  <2>2. {downloadPackageForm', dlFailed', away'} \subseteq BOOLEAN
    BY <1>1, <2>1
  <2>3. dlPackages' \in Seq(TableRows) /\ Len(dlPackages') = 0
    BY <2>1
  <2>4. dlProc' \in {"idle", "killed"} /\ (dlProc' # "idle" => dlProc # "idle")
    BY <2>1 DEF Killed, OpderTyped, DownloadTyped, Proc
  <2> QED BY <1>1, <1>2, <2>1, <2>2, <2>3, <2>4 DEF OpderTyped, DownloadTyped, Proc
<1> QED BY <1>1, <1>3, <1>4

LEMMA DownloadDoneIsTyped ==
    ASSUME OpderTyped, NEW line, downloadDone(line)
    PROVE  DownloadTyped' /\ RowsTyped' /\ downloadButton' \in BOOLEAN
<1>1. /\ dlProc # "idle" /\ dlPhase # 0
      /\ downloadNext(PhaseAfter(line), dlPackages, "idle")
      /\ UNCHANGED <<main, budget, refreshButton, adding, reading, successfullyReadPackages,
                     downloadPackageForm, dlPackages, dlKills, away>>
  BY DEF downloadDone
<1>2. checked' \subseteq checked
  BY DEF downloadDone, Uncheck
<1>3. /\ shows' = shows /\ shows \in Nat /\ dlHides \in Nat /\ dlHides < shows'
      /\ dlPackages \in Seq(TableRows) /\ downloadButton \in BOOLEAN
  BY <1>1, BoundsAssumption DEF OpderTyped, MainTyped, DownloadTyped, budget
<1>4. {downloadPackageForm', dlFailed, away'} \subseteq BOOLEAN
  BY <1>1 DEF OpderTyped, DownloadTyped
<1>5. dlKills' \in 0..shows' /\ (downloadPackageForm' => dlKills' < shows')
  BY <1>1, <1>3 DEF OpderTyped, DownloadTyped
<1>6. PhaseAfter(line) \in 1..(Len(dlPackages) + 2)
  <2>1. /\ Len(dlPackages) \in Nat /\ dlPhase \in Nat /\ dlPhase # 0
        /\ dlPhase <= Len(dlPackages) + 1
    BY <1>1 DEF OpderTyped, DownloadTyped
  <2>2. PhaseAfter(line) \in {dlPhase, dlPhase + 1}
    BY DEF PhaseAfter
  <2> QED BY <2>1, <2>2
<1>7. DownloadTyped' /\ downloadButton' \in BOOLEAN
  <2>1. shows' \in Nat /\ "idle" \in {"idle", "killed"} /\ dlPackages' = dlPackages
    BY <1>1, <1>3
  <2> QED BY ONLY <1>1, <1>3, <1>4, <1>5, <1>6, <2>1, DownloadNextIsTyped
<1>8. RowsTyped'
  BY <1>1, <1>2 DEF OpderTyped, RowsTyped
<1> QED BY <1>7, <1>8

LEMMA HistoryStaysTyped ==
    ASSUME OpderTyped, [OpderNext]_opderVars, shows' \in {shows, shows + 1}
    PROVE  HistoryTyped'
<1>1. /\ shows \in Nat /\ shows' \in Nat /\ shows' >= shows
      /\ staleHides \in 0..shows /\ staleKills \in 0..shows /\ silences \in 0..2
      /\ dlHides \in 0..shows /\ dlKills \in 0..shows
  BY BoundsAssumption DEF OpderTyped, MainTyped, DownloadTyped, HistoryTyped
<1>0. staleHides \in Nat /\ staleKills \in Nat
  BY <1>1
<1>2. SUFFICES /\ staleHides' \in {staleHides, staleHides - 1, dlHides, 0}
               /\ staleHides' = staleHides - 1 => staleHides # 0
               /\ staleKills' \in {staleKills, staleKills - 1, dlKills, 0}
               /\ staleKills' = staleKills - 1 => staleKills # 0
               /\ silences' \in {silences, 0, 1, 2}
  BY <1>1 DEF HistoryTyped
<1>3. CASE UNCHANGED dlHistory
  BY <1>1, <1>3 DEF dlHistory
<1>4. CASE downloadButton_clicked
  <2>1. /\ silences' = silences
        /\ \/ staleHides' = staleHides /\ staleKills' = staleKills
           \/ staleHides' = dlHides /\ staleKills' = dlKills
    BY <1>4 DEF downloadButton_clicked
  <2>2. /\ staleHides' = staleHides - 1 => staleHides # 0
        /\ staleKills' = staleKills - 1 => staleKills # 0
    BY <1>1, <2>1
  <2> QED BY <2>1, <2>2
<1>5. CASE packageCancel \/ packageHideTimer
  <2>1. /\ staleHides' = 0 \/ (staleHides # 0 /\ staleHides' = staleHides - 1)
        /\ staleKills' \in {staleKills, 0} /\ silences' \in {silences, 0}
    BY <1>0, <1>5 DEF packageCancel, packageHideTimer, packageHideEvent
  <2> QED BY <1>1, <2>1
<1>6. CASE dlKill
  <2>1. /\ staleKills' = 0 \/ (staleKills # 0 /\ staleKills' = staleKills - 1)
        /\ staleHides' = staleHides /\ silences' = silences
    BY <1>0, <1>6 DEF dlKill
  <2> QED BY <1>1, <2>1
<1>7. ASSUME NEW line, downloadDone(line)
      PROVE  /\ staleHides' = staleHides /\ staleKills' = staleKills
             /\ silences' \in {0, 1, 2}
  BY <1>7 DEF downloadDone
<1>8. CASE Minimize \/ Close
  <2>1. /\ staleHides' \in {staleHides, 0} /\ staleKills' \in {staleKills, 0}
        /\ silences' \in {silences, 0}
    BY <1>8 DEF Minimize, Close
  <2> QED BY <1>1, <2>1
<1>9. CASE \/ refreshButton_clicked \/ infoCancel \/ addRepositoryMenuItem_activated
           \/ \E text \in Texts, exclusive \in BOOLEAN : addRepositoryDone(text, exclusive)
           \/ \E row \in successfullyReadPackages : cellValueChanged(row)
           \/ Restore
  BY <1>3, <1>9 DEF refreshButton_clicked, infoCancel, addRepositoryMenuItem_activated,
     addRepositoryDone, cellValueChanged, Restore, downloading
<1>10. CASE \/ readDone \/ readDropped \/ firstRefresh \/ infoHideTimer \/ readKill
            \/ dlDropped \/ UNCHANGED opderVars
  <2>1. CASE dlDropped
    BY <1>3, <2>1 DEF dlDropped
  <2>2. CASE \/ readDone \/ readDropped \/ firstRefresh \/ infoHideTimer \/ readKill
             \/ UNCHANGED opderVars
    <3>1. UNCHANGED downloading
      BY <2>2 DEF readDone, readDropped, firstRefresh, infoHideTimer, readKill, opderVars
    <3> QED BY <1>3, <3>1 DEF downloading
  <2> QED BY <1>10, <2>1, <2>2
<1>11. CASE \E line \in {"downloaded", "failed", ""} : downloadDone(line)
  <2>1. /\ staleHides' = staleHides /\ staleKills' = staleKills
        /\ silences' \in {0, 1, 2}
    BY <1>7, <1>11
  <2> QED BY <1>1, <2>1
<1> QED
  BY <1>4, <1>5, <1>6, <1>8, <1>9, <1>10, <1>11
     DEF OpderNext, User, Reading, Timers, Downloading

LEMMA StepKeepsTypes ==
    ASSUME OpderTyped, [OpderNext]_opderVars
    PROVE  /\ MainTyped' /\ ReadTyped' /\ InfoTyped' /\ RowsTyped' /\ DownloadTyped'
           /\ shows' \in {shows, shows + 1}
<1> DEFINE Kept == /\ MainTyped' /\ ReadTyped' /\ InfoTyped' /\ RowsTyped' /\ DownloadTyped'
                   /\ shows' \in {shows, shows + 1}
<1> SUFFICES Kept
  OBVIOUS
<1> USE DEF main, budget, buttons, adding
<1>1. ASSUME UNCHANGED <<opdcmd, reading>>, shows' = shows PROVE ReadTyped' /\ InfoTyped'
  BY <1>1, ReadingStaysTyped
<1>2. ASSUME UNCHANGED downloading, shows' \in {shows, shows + 1} PROVE DownloadTyped'
  BY <1>2, DownloadingStaysTyped
<1>3. ASSUME UNCHANGED table PROVE RowsTyped'
  BY <1>3 DEF OpderTyped, RowsTyped, table
<1>4. CASE refreshButton_clicked
  <2>1. /\ showInfo(urlText, useRepositoriesExclusively)
        /\ UNCHANGED <<main, edits, refreshButton, adding, table, downloading>>
    BY <1>4 DEF refreshButton_clicked
  <2>2. /\ ReadTyped' /\ InfoTyped' /\ downloadButton' \in BOOLEAN
        /\ shows' \in {shows, shows + 1} /\ shows' \in 0..MaxShows
    BY <2>1, ShowIsTyped DEF OpderTyped, MainTyped
  <2>3. MainTyped'
    BY <2>1, <2>2 DEF OpderTyped, MainTyped
  <2> QED BY <1>2, <1>3, <2>1, <2>2, <2>3 DEF OpderTyped
<1>5. CASE firstRefresh
  <2>1. /\ shot' = FALSE /\ showInfo(urlText, useRepositoriesExclusively)
        /\ UNCHANGED <<app, opdcmd, minimized, edits, refreshButton, adding, table, downloading>>
    BY <1>5 DEF firstRefresh
  <2>2. /\ ReadTyped' /\ InfoTyped' /\ downloadButton' \in BOOLEAN
        /\ shows' \in {shows, shows + 1} /\ shows' \in 0..MaxShows
    BY <2>1, ShowIsTyped DEF OpderTyped, MainTyped
  <2>3. MainTyped'
    BY <2>1, <2>2 DEF OpderTyped, MainTyped
  <2> QED BY <1>2, <1>3, <2>1, <2>2, <2>3 DEF OpderTyped
<1>6. ASSUME NEW text \in Texts, NEW exclusive \in BOOLEAN, addRepositoryDone(text, exclusive)
      PROVE  Kept
  <2>1. /\ addRepositoryForm' = FALSE /\ urlText' = text /\ useRepositoriesExclusively' = exclusive
        /\ UNCHANGED <<main, edits, refreshButton, table, downloading>>
    BY <1>6 DEF addRepositoryDone
  <2>2. text \in SUBSET Urls
    BY UrlsAssumption
  <2>3. /\ ReadTyped' /\ InfoTyped' /\ downloadButton' \in BOOLEAN
        /\ shows' \in {shows, shows + 1} /\ shows' \in 0..MaxShows
    <3>1. CASE showInfo(text, exclusive)
      BY <2>1, <2>2, <3>1, ShowIsTyped
    <3>2. CASE UNCHANGED <<shows, downloadButton, reading>>
      BY <1>1, <2>1, <3>2 DEF OpderTyped, MainTyped
    <3> QED BY <1>6, <3>1, <3>2 DEF addRepositoryDone
  <2>4. {opdcmd', minimized', shot', refreshButton', downloadButton', addRepositoryForm',
         useRepositoriesExclusively'} \subseteq BOOLEAN
    BY <2>1, <2>3 DEF OpderTyped, MainTyped
  <2>5. MainTyped'
    BY <2>1, <2>2, <2>3, <2>4 DEF OpderTyped, MainTyped
  <2> QED BY <1>2, <1>3, <2>1, <2>3, <2>5 DEF OpderTyped
<1>7. CASE infoCancel
  <2>1. /\ ~minimized /\ downloadInfoForm /\ infoHideEvent
        /\ UNCHANGED <<main, budget, refreshButton, adding, table, downloading, readHides,
                       repositories, missed>>
    BY <1>7 DEF infoCancel, InFront
  <2>2. readHides' \in 0..readHides
    BY <2>1, BoundsAssumption DEF OpderTyped, InfoTyped
  <2>3. ReadTyped' /\ InfoTyped' /\ downloadButton' \in BOOLEAN
    BY <2>1, <2>2, HideIsTyped
  <2>4. MainTyped'
    BY <2>1, <2>3 DEF OpderTyped, MainTyped
  <2> QED BY <1>2, <1>3, <2>1, <2>3, <2>4 DEF OpderTyped
<1>8. CASE infoHideTimer
  <2>1. /\ readHides > 0 /\ readHides' = readHides - 1
        /\ UNCHANGED <<main, budget, refreshButton, adding, table, downloading, repositories, missed>>
    BY <1>8 DEF infoHideTimer
  <2>2. readHides' \in 0..readHides /\ readHides' \in 0..MaxShows /\ ~opdcmd
    BY <2>1, BoundsAssumption DEF OpderTyped, InfoTyped
  <2>3. ReadTyped' /\ InfoTyped' /\ downloadButton' \in BOOLEAN
    <3>1. CASE downloadInfoForm
      BY <1>8, <2>1, <2>2, <3>1, HideIsTyped DEF infoHideTimer
    <3>2. CASE ~downloadInfoForm
      <4>1. UNCHANGED <<downloadInfoForm, downloadButton, readPhase, readProc, readKills,
                        leftover, readKept>>
        BY <1>8, <3>2 DEF infoHideTimer
      <4>2. ReadTyped'
        BY <2>1, <4>1 DEF OpderTyped, ReadTyped, readKept
      <4>3. InfoTyped'
        BY <2>1, <2>2, <4>1 DEF OpderTyped, InfoTyped, readKept
      <4> QED BY <4>1, <4>2, <4>3 DEF OpderTyped, MainTyped
    <3> QED BY <3>1, <3>2
  <2>4. MainTyped'
    BY <2>1, <2>3 DEF OpderTyped, MainTyped
  <2> QED BY <1>2, <1>3, <2>1, <2>3, <2>4 DEF OpderTyped
<1>9. CASE readKill \/ readDropped
  <2>1. /\ UNCHANGED <<main, budget, buttons, adding, downloadInfoForm, readPhase, repositories, missed,
                       readKept, readHides, leftover, table, downloading>>
        /\ readProc' \in {Killed(readProc), "idle"} /\ readKills' \in {readKills, readKills - 1}
        /\ readKills' # readKills => readKills > 0
    BY <1>9 DEF readKill, readDropped
  <2>2. ReadTyped'
    BY <2>1 DEF OpderTyped, ReadTyped, readKept, Killed, Proc
  <2>3. readKills' \in 0..shows /\ readKills' <= readKills /\ readKills \in Nat
    BY <2>1, BoundsAssumption DEF OpderTyped, MainTyped, InfoTyped
  <2>4. {downloadInfoForm', readHasty'} \subseteq BOOLEAN /\ leftover' \subseteq Urls
    BY <2>1 DEF OpderTyped, InfoTyped, readKept
  <2>5. shows \in Nat
    BY BoundsAssumption DEF OpderTyped, MainTyped
  <2>6. InfoTyped'
    BY <2>1, <2>3, <2>4, <2>5 DEF OpderTyped, InfoTyped
  <2>7. MainTyped'
    BY <2>1 DEF OpderTyped, MainTyped
  <2> QED BY <1>2, <1>3, <2>1, <2>2, <2>6, <2>7 DEF OpderTyped
<1>10. CASE readDone
  <2>1. UNCHANGED <<main, budget, refreshButton, adding, downloading>>
    BY <1>10 DEF readDone
  <2>2. ReadTyped' /\ InfoTyped' /\ RowsTyped' /\ downloadButton' \in BOOLEAN
    BY <1>10, DoneIsTyped
  <2>3. MainTyped'
    BY <2>1, <2>2 DEF OpderTyped, MainTyped
  <2> QED BY <1>2, <2>1, <2>2, <2>3 DEF OpderTyped
<1>11. CASE addRepositoryMenuItem_activated
  <2>1. /\ edits < MaxEdits /\ edits' = edits + 1 /\ addRepositoryForm' = TRUE
        /\ UNCHANGED <<main, shows, buttons, urlText, useRepositoriesExclusively, reading,
                       table, downloading>>
    BY <1>11 DEF addRepositoryMenuItem_activated
  <2>2. edits' \in 0..MaxEdits
    BY <2>1, BoundsAssumption DEF OpderTyped, MainTyped
  <2>3. {opdcmd', minimized', shot', refreshButton', downloadButton', addRepositoryForm',
         useRepositoriesExclusively'} \subseteq BOOLEAN
    BY <2>1 DEF OpderTyped, MainTyped
  <2>4. MainTyped'
    BY <2>1, <2>2, <2>3 DEF OpderTyped, MainTyped
  <2> QED BY <1>1, <1>2, <1>3, <2>1, <2>4 DEF OpderTyped
<1>12. ASSUME NEW row \in successfullyReadPackages, cellValueChanged(row) PROVE Kept
  <2>1. /\ checked' \subseteq checked \cup {row} /\ downloadButton' = (checked' # {})
        /\ UNCHANGED <<main, budget, refreshButton, adding, reading, successfullyReadPackages,
                       downloading>>
    BY <1>12 DEF cellValueChanged
  <2>2. RowsTyped'
    BY <2>1 DEF OpderTyped, RowsTyped
  <2>3. downloadButton' \in BOOLEAN
    BY <2>1
  <2>4. MainTyped'
    BY <2>1, <2>3 DEF OpderTyped, MainTyped
  <2> QED BY <1>1, <1>2, <2>1, <2>2, <2>4 DEF OpderTyped
<1>13. CASE downloadButton_clicked
  <2>1. refreshButton' = FALSE /\ UNCHANGED <<main, edits, adding, reading>>
    BY <1>13 DEF downloadButton_clicked
  <2>2. /\ DownloadTyped' /\ downloadButton' \in BOOLEAN /\ RowsTyped'
        /\ shows' = shows + 1 /\ shows' \in 0..MaxShows
    BY <1>13, ClickIsTyped
  <2>3. {opdcmd', minimized', shot', refreshButton', downloadButton', addRepositoryForm',
         useRepositoriesExclusively'} \subseteq BOOLEAN
    BY <2>1, <2>2 DEF OpderTyped, MainTyped
  <2>4. MainTyped'
    BY <2>1, <2>2, <2>3 DEF OpderTyped, MainTyped
  <2>5. ReadTyped' /\ InfoTyped'
    BY <2>1, <2>2, ReadingStaysTyped
  <2> QED BY <2>2, <2>4, <2>5 DEF OpderTyped
<1>14. CASE packageCancel \/ packageHideTimer
  <2>1. UNCHANGED <<main, budget, downloadButton, adding, reading, table>>
    BY <1>14 DEF packageCancel, packageHideTimer
  <2>2. dlHides' \in 0..dlHides /\ dlHides' \in Nat
    BY <1>14, BoundsAssumption DEF packageCancel, packageHideTimer, OpderTyped,
       MainTyped, DownloadTyped
  <2>3. DownloadTyped' /\ refreshButton' \in BOOLEAN
    <3>1. CASE downloadPackageForm
      BY <1>14, <2>1, <2>2, <3>1, PackageHideIsTyped DEF packageCancel, packageHideTimer
    <3>2. CASE ~downloadPackageForm
      <4>1. UNCHANGED <<downloadPackageForm, refreshButton, dlPhase, dlPackages, dlProc,
                        dlKills, dlFailed, away>>
        BY <1>14, <3>2 DEF packageCancel, packageHideTimer
      <4>2. {downloadPackageForm', dlFailed', away'} \subseteq BOOLEAN
        BY <4>1 DEF OpderTyped, DownloadTyped
      <4>3. shows \in Nat
        BY BoundsAssumption DEF OpderTyped, MainTyped
      <4> QED BY <2>1, <2>2, <3>2, <4>1, <4>2, <4>3 DEF OpderTyped, MainTyped, DownloadTyped
    <3> QED BY <3>1, <3>2
  <2>4. MainTyped'
    BY <2>1, <2>3 DEF OpderTyped, MainTyped
  <2> QED BY <1>1, <1>3, <2>1, <2>3, <2>4 DEF OpderTyped
<1>15. CASE dlKill \/ dlDropped
  <2>1. /\ UNCHANGED <<main, budget, buttons, adding, reading, table, downloadPackageForm, dlPhase,
                       dlPackages, dlHides, dlFailed, away>>
        /\ dlProc' \in {Killed(dlProc), "idle"} /\ dlKills' \in {dlKills, dlKills - 1}
        /\ dlKills' # dlKills => dlKills > 0
    BY <1>15 DEF dlKill, dlDropped, dlHistory
  <2>2. shows \in Nat /\ dlKills' \in 0..shows /\ dlKills' <= dlKills /\ dlKills \in Nat
    BY <2>1, BoundsAssumption DEF OpderTyped, MainTyped, DownloadTyped
  <2>3. dlProc' \in {"idle", "killed"} /\ (dlProc' # "idle" => dlProc # "idle")
    BY <2>1 DEF OpderTyped, DownloadTyped, Killed, Proc
  <2>4. {downloadPackageForm', dlFailed', away'} \subseteq BOOLEAN
    BY <2>1 DEF OpderTyped, DownloadTyped
  <2>5. DownloadTyped'
    BY <2>1, <2>2, <2>3, <2>4 DEF OpderTyped, DownloadTyped, Proc
  <2>6. MainTyped'
    BY <2>1 DEF OpderTyped, MainTyped
  <2> QED BY <1>1, <1>3, <2>1, <2>5, <2>6 DEF OpderTyped
<1>16. ASSUME NEW line, downloadDone(line) PROVE Kept
  <2>1. UNCHANGED <<main, budget, refreshButton, adding, reading>>
    BY <1>16 DEF downloadDone
  <2>2. DownloadTyped' /\ RowsTyped' /\ downloadButton' \in BOOLEAN
    BY <1>16, DownloadDoneIsTyped
  <2>3. MainTyped'
    BY <2>1, <2>2 DEF OpderTyped, MainTyped
  <2> QED BY <1>1, <2>1, <2>2, <2>3 DEF OpderTyped
<1>17. CASE Minimize
  <2>1. /\ minimized' = TRUE /\ refreshButton' = (refreshButton \/ downloadPackageForm)
        /\ downloadButton' = IF downloadInfoForm THEN checked # {} ELSE downloadButton
        /\ away' = (away \/ dlPhase # 0)
        /\ UNCHANGED <<app, opdcmd, shot, budget, adding, reading, table, downloadPackageForm, dlPhase,
                       dlPackages, dlProc, dlKills, dlHides, dlFailed>>
    BY <1>17 DEF Minimize
  <2>2. downloadButton' \in BOOLEAN /\ refreshButton' \in BOOLEAN /\ minimized' \in BOOLEAN
    BY <2>1 DEF OpderTyped, MainTyped
  <2>3. MainTyped'
    BY <2>1, <2>2 DEF OpderTyped, MainTyped
  <2>4. {downloadPackageForm', dlFailed', away'} \subseteq BOOLEAN
    BY <2>1 DEF OpderTyped, DownloadTyped
  <2>5. DownloadTyped'
    BY <2>1, <2>4 DEF OpderTyped, DownloadTyped
  <2> QED BY <1>1, <1>3, <2>1, <2>3, <2>5 DEF OpderTyped
<1>18. CASE Restore
  <2>1. /\ minimized' = FALSE /\ refreshButton' = (refreshButton /\ ~downloadPackageForm)
        /\ UNCHANGED <<app, opdcmd, shot, budget, adding, downloadInfoForm, readKills, leftover,
                       readHasty, table, downloading>>
    BY <1>18 DEF Restore
  <2>2. ReadTyped' /\ InfoTyped' /\ downloadButton' \in BOOLEAN
    <3>1. CASE downloadInfoForm
      <4>1. /\ ReadTyped' /\ downloadButton' \in BOOLEAN
            /\ readPhase' # 0 => opdcmd
            /\ readHides' \in 0..MaxShows /\ (readHides' > 0 => ~opdcmd)
        BY <1>18, <3>1, ShowEventIsTyped DEF Restore, OpderTyped, MainTyped
      <4>2. InfoTyped'
        BY <2>1, <3>1, <4>1 DEF OpderTyped, InfoTyped
      <4> QED BY <4>1, <4>2
    <3>2. CASE ~downloadInfoForm
      <4>1. UNCHANGED <<downloadButton, phase1and2, readHides>>
        BY <1>18, <3>2 DEF Restore
      <4>2. UNCHANGED reading
        BY <2>1, <4>1 DEF reading
      <4> QED BY <1>1, <2>1, <4>1, <4>2 DEF OpderTyped, MainTyped
    <3> QED BY <3>1, <3>2
  <2>3. minimized' \in BOOLEAN /\ refreshButton' \in BOOLEAN
    BY <2>1 DEF OpderTyped, MainTyped
  <2>4. MainTyped'
    BY <2>1, <2>2, <2>3 DEF OpderTyped, MainTyped
  <2> QED BY <1>2, <1>3, <2>1, <2>2, <2>4 DEF OpderTyped
<1>19. CASE Close
  <2>1. /\ app' = "closed" /\ shot' = FALSE /\ refreshButton' = FALSE /\ downloadButton' = FALSE
        /\ addRepositoryForm' = FALSE /\ urlText' = {} /\ useRepositoriesExclusively' = FALSE
        /\ UNCHANGED <<opdcmd, minimized, budget>>
    BY <1>19 DEF Close
  <2>2. {opdcmd', minimized', shot', refreshButton', downloadButton', addRepositoryForm',
         useRepositoriesExclusively'} \subseteq BOOLEAN
    BY <2>1 DEF OpderTyped, MainTyped
  <2>3. MainTyped'
    BY <2>1, <2>2 DEF OpderTyped, MainTyped
  <2>4. shows' = shows /\ shows \in Nat
    BY <2>1, BoundsAssumption DEF OpderTyped, MainTyped
  <2>5. ReadTyped'
    <3>1. /\ readPhase' = 0 /\ readProc' = "idle" /\ forgetRead /\ missed' = {}
          /\ DOMAIN repositories' = {}
      BY <1>19 DEF Close, None
    <3> QED BY <3>1 DEF forgetRead, ReadTyped, Proc, RepositoryNames
  <2>6. InfoTyped'
    <3>1. /\ downloadInfoForm' = FALSE /\ readHasty' = FALSE /\ leftover' = {}
          /\ readKills' = 0 /\ readHides' = 0 /\ readPhase' = 0
      BY <1>19 DEF Close, forgetRead
    <3>2. {downloadInfoForm', readHasty'} \subseteq BOOLEAN
      BY <3>1
    <3> QED BY <2>4, <3>1, <3>2, BoundsAssumption DEF InfoTyped
  <2>7. RowsTyped'
    BY <1>19 DEF Close, RowsTyped
  <2>8. DownloadTyped'
    <3>1. <<>> \in Seq(TableRows) /\ Len(<<>>) = 0
      OBVIOUS
    <3>2. /\ downloadPackageForm' = FALSE /\ dlPhase' = 0 /\ dlPackages' = <<>>
          /\ dlProc' = "idle" /\ dlKills' = 0 /\ dlHides' = 0
          /\ dlFailed' = FALSE /\ away' = FALSE
      BY <1>19 DEF Close
    <3>3. {downloadPackageForm', dlFailed', away'} \subseteq BOOLEAN
      BY <3>2
    <3> QED BY <2>4, <3>1, <3>2, <3>3 DEF DownloadTyped, Proc
  <2> QED BY <2>3, <2>4, <2>5, <2>6, <2>7, <2>8
<1>20. CASE UNCHANGED opderVars
  <2>1. /\ UNCHANGED <<opdcmd, reading, table, downloading, shows>>
        /\ UNCHANGED <<main, budget, buttons, adding>>
    BY <1>20 DEF opderVars
  <2>2. MainTyped'
    BY <2>1 DEF OpderTyped, MainTyped
  <2> QED BY <1>1, <1>2, <1>3, <2>1, <2>2
<1> QED
  BY <1>4, <1>5, <1>6, <1>7, <1>8, <1>9, <1>10, <1>11, <1>12, <1>13, <1>14, <1>15, <1>16,
     <1>17,
     <1>18, <1>19, <1>20 DEF OpderNext, User, Reading, Timers, Downloading

LEMMA StepIsTyped == OpderTyped /\ [OpderNext]_opderVars => OpderTyped'
  BY StepKeepsTypes, HistoryStaysTyped DEF OpderTyped

LEMMA AlwaysTyped == OpderSpec => []OpderTyped
  BY InitTyped, StepIsTyped, PTL DEF OpderSpec

(* The state of the forms, their processes and their timers has its types, *)
(* in whatever order they are shown, hidden, killed and answered.          *)
THEOREM OpderTypeCorrect == OpderSpec => []OpderTypeOK
  BY AlwaysTyped, TypedIsOK, PTL

-----------------------------------------------------------------------------
(***************************************************************************)
(* Downloads.  A download that goes on has its form in front, or the       *)
(* window was minimized; if no process runs for it, the timer that hides   *)
(* the form is pending.  One that began with no such timer pending has     *)
(* none before its last package.                                           *)
(***************************************************************************)
HasForm == dlPhase # 0 /\ ~away => downloadPackageForm /\ ~minimized
WillHide == dlPhase # 0 /\ dlProc = "idle" => dlHides > 0 \/ dlFailed \/ away
NoTimer ==
    dlPhase \in 1..Len(dlPackages) => dlHides = staleHides /\ dlKills = staleKills
WaitInv == HasForm /\ WillHide /\ NoTimer

LEMMA InitWaits == OpderInit => WaitInv
  BY DEF OpderInit, WaitInv, HasForm, WillHide, NoTimer

(* The next package is begun, or the timer is set.                         *)
LEMMA NextWaits ==
    ASSUME NEW number, NEW list, NEW proc, downloadNext(number, list, proc), dlHides \in Nat
    PROVE  /\ dlPhase' = number
           /\ dlProc' = "idle" => dlHides' > 0 \/ dlFailed'
           /\ number <= Len(list) => dlHides' = dlHides
           /\ dlFailed => dlFailed'
<1>1. CASE number <= Len(list)
  BY <1>1 DEF downloadNext
<1>2. CASE ~(number <= Len(list))
  BY <1>2 DEF downloadNext
<1> QED BY <1>1, <1>2

LEMMA StepWaits ==
    ASSUME OpderTyped, WaitInv, [OpderNext]_opderVars
    PROVE  WaitInv'
<1> USE DEF WaitInv, HasForm, WillHide, NoTimer
<1>1. ASSUME UNCHANGED downloading, (minimized' => minimized) PROVE WaitInv'
  <2>1. UNCHANGED <<downloadPackageForm, dlPhase, dlPackages, dlProc, dlKills, dlHides,
                    staleHides, staleKills, dlFailed, away>>
    BY <1>1 DEF downloading, dlHistory
  <2> QED BY <1>1, <2>1
<1>2. CASE \/ refreshButton_clicked \/ infoCancel \/ addRepositoryMenuItem_activated
           \/ \E text \in Texts, exclusive \in BOOLEAN : addRepositoryDone(text, exclusive)
           \/ \E row \in successfullyReadPackages : cellValueChanged(row)
           \/ Restore
  <2>1. UNCHANGED downloading /\ (minimized' => minimized)
    BY <1>2 DEF refreshButton_clicked, infoCancel, addRepositoryMenuItem_activated,
                addRepositoryDone, cellValueChanged, Restore, main
  <2> QED BY <1>1, <2>1
<1>3. CASE readDone \/ readDropped \/ firstRefresh \/ infoHideTimer \/ readKill \/ UNCHANGED opderVars
  <2>1. UNCHANGED downloading /\ minimized' = minimized
    BY <1>3 DEF readDone, readDropped, firstRefresh, infoHideTimer, readKill, opderVars,
       main
  <2> QED BY <1>1, <2>1
<1>4. CASE downloadButton_clicked
  <2>1. /\ ~minimized /\ downloadPackageForm' = TRUE /\ ~downloadPackageForm
        /\ away' = away /\ minimized' = minimized /\ dlKills' = dlKills
    BY <1>4 DEF downloadButton_clicked, InFront, main
  <2>2. dlHides \in Nat
    BY BoundsAssumption DEF OpderTyped, MainTyped, DownloadTyped
  <2>4. CASE dlPhase # 0
    <3>1. UNCHANGED <<dlPhase, dlPackages, dlProc, dlHides, dlFailed, staleHides, staleKills>>
      BY <1>4, <2>4 DEF downloadButton_clicked
    <3> QED BY <2>1, <3>1
  <2>5. CASE dlPhase = 0
    <3>1. PICK list \in SetToSeqs(checked) : dlPackages' = list /\ downloadNext(1, list, dlProc)
      BY <1>4, <2>5 DEF downloadButton_clicked
    <3>2. /\ dlPhase' = 1 /\ (dlProc' = "idle" => dlHides' > 0 \/ dlFailed')
          /\ 1 <= Len(dlPackages') => dlHides' = dlHides
      BY <2>2, <3>1, NextWaits
    <3>3. staleHides' = dlHides /\ staleKills' = dlKills
      BY <1>4, <2>5 DEF downloadButton_clicked
    <3>4. NoTimer'
      BY <2>1, <3>2, <3>3
    <3> QED BY <2>1, <3>2, <3>4
  <2> QED BY <2>4, <2>5
<1>5. CASE packageCancel \/ packageHideTimer
  <2>1. /\ minimized' = minimized /\ dlHides' \in 0..dlHides /\ dlHides \in Nat
        /\ dlHides' # dlHides => dlHides > 0
        /\ dlHides' # dlHides => dlHides' = dlHides - 1
    BY <1>5, BoundsAssumption DEF packageCancel, packageHideTimer, OpderTyped, MainTyped,
       DownloadTyped, main
  <2>2. CASE downloadPackageForm /\ ~minimized
    <3>1. dlPhase' = 0
      BY <1>5, <2>2 DEF packageCancel, packageHideTimer, packageHideEvent
    <3> QED BY <3>1
  <2>3. CASE ~(downloadPackageForm /\ ~minimized)
    <3>1. UNCHANGED <<dlPhase, dlPackages, dlProc, dlKills, staleKills, dlFailed, away>>
      BY <1>5, <2>3 DEF packageCancel, packageHideTimer, packageHideEvent
    <3>2. dlPhase # 0 => away
      BY <2>3
    <3>3. /\ dlHides > 0 /\ dlHides' = dlHides - 1
          /\ staleHides' = IF staleHides = 0 THEN 0 ELSE staleHides - 1
      BY <1>5, <2>3 DEF packageCancel, packageHideTimer, InFront
    <3>4. NoTimer'
      BY <2>1, <3>1, <3>3
    <3> QED BY <3>1, <3>2, <3>4
  <2> QED BY <2>2, <2>3
<1>6. CASE dlKill \/ dlDropped
  <2>1. dlKills \in Nat /\ staleKills \in Nat /\ Len(dlPackages) \in Nat
    BY BoundsAssumption DEF OpderTyped, MainTyped, DownloadTyped, HistoryTyped
  <2>2. /\ UNCHANGED <<downloadPackageForm, dlPhase, dlPackages, dlHides, staleHides,
                       dlFailed, away>>
        /\ minimized' = minimized
        /\ dlPhase # 0 => (dlProc' = "idle" => dlProc = "idle")
        /\ dlPhase # 0 => /\ dlKills > 0 /\ dlKills' = dlKills - 1
                          /\ staleKills' = IF staleKills = 0 THEN 0 ELSE staleKills - 1
    BY <1>6, <2>1 DEF dlKill, dlDropped, dlHistory, Killed, main
  <2>3. NoTimer'
    BY <2>2, <2>1
  <2> QED BY <2>2, <2>3
<1>7. ASSUME NEW line, downloadDone(line) PROVE WaitInv'
  <2>1. /\ dlProc # "idle" /\ dlPhase # 0 /\ downloadNext(PhaseAfter(line), dlPackages, "idle")
        /\ UNCHANGED <<downloadPackageForm, dlPackages, dlKills, staleHides, staleKills, away>>
        /\ minimized' = minimized
    BY <1>7 DEF downloadDone, main
  <2>2. dlHides \in Nat /\ dlPhase \in Nat /\ Len(dlPackages) \in Nat
    BY BoundsAssumption DEF OpderTyped, MainTyped, DownloadTyped
  <2>3. PhaseAfter(line) \in {dlPhase, dlPhase + 1}
    BY DEF PhaseAfter
  <2>4. /\ dlPhase' \in {dlPhase, dlPhase + 1} /\ (dlProc' = "idle" => dlHides' > 0 \/ dlFailed')
        /\ dlPhase' <= Len(dlPackages) => dlHides' = dlHides
    BY <2>1, <2>2, <2>3, NextWaits
  <2>5. NoTimer'
    BY <2>1, <2>2, <2>4
  <2> QED BY <2>1, <2>4, <2>5
<1>8. CASE Minimize
  BY <1>8 DEF Minimize
<1>9. CASE Close
  <2>1. dlPhase' = 0
    BY <1>9 DEF Close
  <2> QED BY <2>1
<1> QED
  BY <1>2, <1>3, <1>4, <1>5, <1>6, <1>7, <1>8, <1>9 DEF OpderNext, User, Reading,
     Timers, Downloading

LEMMA AlwaysWaits == OpderSpec => []WaitInv
<1>1. OpderTyped /\ WaitInv /\ [OpderNext]_opderVars => WaitInv'
  BY StepWaits
<1> QED
  BY <1>1, InitWaits, AlwaysTyped, PTL DEF OpderSpec

(* A download that waits for nothing is one that opd could not be started  *)
(* for, or during which the window was minimized.                          *)
THEOREM NoOtherDownloadStalls == OpderSpec => []StalledOnlyIfAway
<1>1. OpderTyped /\ WaitInv => StalledOnlyIfAway
  BY BoundsAssumption DEF OpderTyped, MainTyped, DownloadTyped, WaitInv, WillHide,
     StalledOnlyIfAway, Stalled
<1> QED
  BY <1>1, AlwaysTyped, AlwaysWaits, PTL

(* Only a timer of an earlier download ends one that goes on, be it the    *)
(* timer that hides the form or the one that kills the process, and only   *)
(* one that was pending already when this download began.                  *)
THEOREM TimersEndTheirOwn == OpderSpec => TimersSpareDownloads
<1>1. ASSUME OpderTyped, WaitInv, [OpderNext]_opderVars, EndsDownload
      PROVE  /\ dlHides' < dlHides => staleHides > 0
             /\ dlKills' < dlKills => staleKills > 0
  <2>1. /\ dlHides \in Nat /\ dlKills \in Nat /\ shows \in Nat
        /\ dlPhase \in 1..Len(dlPackages)
    BY <1>1, BoundsAssumption DEF OpderTyped, MainTyped, DownloadTyped, EndsDownload
  <2>2. OpderTyped'
    BY <1>1, StepIsTyped
  <2>3. dlHides' \in Nat /\ dlKills' \in Nat
    BY <2>2, BoundsAssumption DEF OpderTyped, MainTyped, DownloadTyped
  <2>4. dlHides = staleHides /\ dlKills = staleKills
    BY <1>1, <2>1 DEF WaitInv, NoTimer
  <2> QED BY <2>1, <2>3, <2>4
<1>2. OpderTyped /\ WaitInv /\ [OpderNext]_opderVars =>
        [EndsDownload => /\ dlHides' < dlHides => staleHides > 0
                         /\ dlKills' < dlKills => staleKills > 0]_opderVars
  BY <1>1
<1> QED
  BY <1>2, AlwaysTyped, AlwaysWaits, PTL DEF OpderSpec, TimersSpareDownloads

-----------------------------------------------------------------------------
(***************************************************************************)
(* Refreshes.  Each repository that was asked for and not lost is due or   *)
(* its packages have been read; a process that is waited for is killed     *)
(* only in a refresh that began with timers of another pending; and        *)
(* nothing is due or has been read that was not asked for or left in the   *)
(* hash by a refresh the user cancelled.                                   *)
(***************************************************************************)
Due(url) == \/ url \in DOMAIN repositories
            \/ readPhase = 1 /\ url \in Listed
            \/ readPhase = 2 /\ url = currRepositoryURL
Covered(url, packages) ==
    \A n \in Offers[url] : \E p \in packages : p.package = n /\ p.repositoryURL = url

Unhurried ==
    /\ downloadInfoForm /\ ~readHasty => readKills = 0
    /\ readPhase # 0 /\ readProc = "killed" => readHasty
NothingMissed ==
    readPhase # 0 => \A url \in asked \ missed : Due(url) \/ Covered(url, readPackages)
NothingElse ==
    /\ readPhase = 0 => DOMAIN repositories \subseteq leftover
    /\ readPhase # 0 => /\ \A url : Due(url) => url \in asked \cup leftover
                        /\ Sound(readPackages, asked \cup leftover)
AnswerInv == Unhurried /\ NothingMissed /\ NothingElse

LEMMA InitAnswers == OpderInit => AnswerInv
  BY DEF OpderInit, AnswerInv, Unhurried, NothingMissed, NothingElse, None

LEMMA NextIsDue ==
    ASSUME NEW left, readNext(left)
    PROVE  /\ readPhase' = 2 /\ readProc' # "killed"
           /\ \A url : Due(url)' <=> url \in DOMAIN left
<1>1. PICK url \in DOMAIN left :
         currRepositoryURL' = url /\ repositories' = [u \in DOMAIN left \ {url} |-> left[u]]
  BY DEF readNext
<1>2. readPhase' = 2 /\ readProc' \in {"running", "idle"}
  BY DEF readNext, startRead
<1>3. DOMAIN repositories' = DOMAIN left \ {url}
  BY <1>1
<1>4. \A u : Due(u)' <=> u \in DOMAIN left
  BY <1>1, <1>2, <1>3 DEF Due
<1> QED BY <1>2, <1>4

(* A refresh that is begun asks for what it will read.                     *)
LEMMA RefreshAsks ==
    ASSUME NEW text \in SUBSET Urls, NEW exclusive \in BOOLEAN, readPhase = 0,
           refreshReadPackages(text, exclusive)
    PROVE  \/ UNCHANGED phase1and2
           \/ /\ readPhase' \in {1, 2} /\ readProc' # "killed" /\ readPackages' = {}
              /\ \A url \in asked' : Due(url)'
              /\ \A url : Due(url)' => url \in asked' \cup DOMAIN repositories
<1> DEFINE all == [u \in text \cup DOMAIN repositories |->
                     IF u \in text THEN UserSpecified ELSE repositories[u]]
<1>1. DOMAIN all = text \cup DOMAIN repositories
  OBVIOUS
<1>2. CASE exclusive /\ text = {}
  BY <1>2 DEF refreshReadPackages
<1>3. CASE exclusive /\ text # {}
  <2>1. readNext(all) /\ readPackages' = {} /\ asked' = text
    BY <1>3 DEF refreshReadPackages
  <2> HIDE DEF all
  <2> QED BY <1>1, <2>1, NextIsDue
<1>4. CASE ~exclusive
  <2>1. /\ repositories' = all /\ readPhase' = 1 /\ readPackages' = {} /\ startRead
        /\ asked' = text \cup Listed
    BY <1>4 DEF refreshReadPackages
  <2>2. readProc' # "killed"
    BY <2>1 DEF startRead
  <2> HIDE DEF all
  <2>3. \A url : Due(url)' <=> url \in DOMAIN all \/ url \in Listed
    BY <2>1 DEF Due
  <2> QED BY <1>1, <2>1, <2>2, <2>3
<1> QED BY <1>2, <1>3, <1>4

(* The form is shown, by itself or with the window.                        *)
LEMMA ShowEventAnswers ==
    ASSUME OpderTyped, AnswerInv, NEW text \in SUBSET Urls, NEW exclusive \in BOOLEAN,
           infoShowEvent(text, exclusive),
           UNCHANGED <<readKills, leftover>>, ~readHasty' => readKills = 0,
           readPhase = 0 \/ readHasty' = readHasty
    PROVE  AnswerInv'
<1>1. ASSUME UNCHANGED phase1and2 PROVE AnswerInv'
  <2>1. UNCHANGED <<readPhase, readProc, repositories, currRepositoryURL, readPackages, asked, missed>>
    BY <1>1 DEF phase1and2
  <2>2. \A url : Due(url)' <=> Due(url)
    BY <2>1 DEF Due
  <2>3. Unhurried'
    BY <2>1 DEF AnswerInv, Unhurried
  <2>4. NothingMissed'
    BY <2>1, <2>2 DEF AnswerInv, NothingMissed, Covered
  <2>5. NothingElse'
    BY <2>1, <2>2 DEF AnswerInv, NothingElse, Sound
  <2> QED BY <2>3, <2>4, <2>5 DEF AnswerInv
<1>2. CASE refreshReadPackages(text, exclusive) /\ readPhase = 0
  <2>1. ASSUME /\ readPhase' \in {1, 2} /\ readProc' # "killed" /\ readPackages' = {}
               /\ \A url \in asked' : Due(url)'
               /\ \A url : Due(url)' => url \in asked' \cup DOMAIN repositories
        PROVE  AnswerInv'
    <3>1. Unhurried'
      BY <2>1 DEF Unhurried
    <3>2. NothingMissed'
      BY <2>1 DEF NothingMissed
    <3>3. DOMAIN repositories \subseteq leftover
      BY <1>2 DEF AnswerInv, NothingElse
    <3>4. NothingElse'
      BY <2>1, <3>3 DEF NothingElse, Sound
    <3> QED BY <3>1, <3>2, <3>4 DEF AnswerInv
  <2> QED BY <1>1, <1>2, <2>1, RefreshAsks
<1>3. CASE refreshReadPackages(text, exclusive) /\ readPhase # 0
  BY <1>1, <1>3 DEF refreshReadPackages
<1>4. CASE ~opdcmd
  BY <1>1, <1>4 DEF infoShowEvent
<1> QED BY <1>2, <1>3, <1>4 DEF infoShowEvent

LEMMA ShowAnswers ==
    ASSUME OpderTyped, AnswerInv, NEW text \in SUBSET Urls, NEW exclusive \in BOOLEAN,
           showInfo(text, exclusive)
    PROVE  AnswerInv' \/ UNCHANGED reading
<1>1. CASE downloadInfoForm
  BY <1>1 DEF showInfo
<1>2. CASE ~downloadInfoForm
  <2>1. /\ infoShowEvent(text, exclusive) /\ readHasty' = (readKills + readHides > 0)
        /\ UNCHANGED <<readKills, leftover>>
    BY <1>2 DEF showInfo
  <2>2. readKills \in Nat /\ readHides \in Nat /\ (~(readKills + readHides > 0) => readKills = 0)
    BY BoundsAssumption DEF OpderTyped, MainTyped, InfoTyped
  <2>3. readPhase = 0
    BY <1>2 DEF OpderTyped, InfoTyped
  <2> QED BY <2>1, <2>2, <2>3, ShowEventAnswers
<1> QED BY <1>1, <1>2

LEMMA HideAnswers ==
    ASSUME OpderTyped, AnswerInv, infoHideEvent, minimized => ~opdcmd, repositories' = repositories
    PROVE  AnswerInv'
<1>1. downloadInfoForm' = FALSE /\ readPhase' = 0
  BY DEF infoHideEvent, OpderTyped, InfoTyped
<1>2. DOMAIN repositories \subseteq leftover'
  BY DEF infoHideEvent, OpderTyped, InfoTyped, AnswerInv, NothingElse
<1> QED BY <1>1, <1>2 DEF AnswerInv, Unhurried, NothingMissed, NothingElse

(* What opd has printed covers what was asked of it and is not lost.       *)
LEMMA AnswerCovers ==
    ASSUME OpderTyped, AnswerInv, readProc # "idle", readPhase # 0,
           NEW error \in BOOLEAN, NEW lines \in Printed(error)
    PROVE  /\ \A url \in asked \ (missed \cup Lost(error, lines)) :
                \/ url \in DOMAIN FoundRepositories(lines, error)
                \/ Covered(url, FoundPackages(lines))
           /\ DOMAIN FoundRepositories(lines, error) \subseteq asked \cup leftover
           /\ Sound(FoundPackages(lines), asked \cup leftover)
<1> DEFINE left == FoundRepositories(lines, error)
           packages == FoundPackages(lines)
<1>1. /\ lines \subseteq IF readPhase = 1 THEN Listed ELSE Offers[currRepositoryURL]
      /\ readPhase \in {1, 2}
  BY AnswerIsTyped DEF OpderTyped, ReadTyped
<1>2. ASSUME NEW url, Due(url), url \notin Lost(error, lines)
      PROVE  url \in DOMAIN left \/ (~error /\ lines = Lines)
  <2>1. url \in DOMAIN repositories \cup
          IF readPhase = 1 THEN Listed ELSE {currRepositoryURL}
    BY <1>2 DEF Due
  <2>2. ~(~error /\ lines = Lines) => url \in DOMAIN FoundRepositories(lines, error)
    BY <1>2, <2>1 DEF Lost
  <2> QED BY <2>2
<1>3. /\ error => DOMAIN left = {}
      /\ ~error /\ readPhase = 1 => DOMAIN left = lines \cup DOMAIN repositories
      /\ ~error /\ readPhase = 2 => left = repositories
  BY DEF FoundRepositories, None
<1>4. /\ readPhase = 1 => packages = readPackages
      /\ readPhase = 2 => packages = readPackages \cup
           {[package |-> n, repositoryURL |-> currRepositoryURL,
             repositoryName |-> currRepositoryName] : n \in lines}
  BY DEF FoundPackages
<1> HIDE DEF left, packages
<1>5. ASSUME NEW url \in asked, url \notin missed, url \notin Lost(error, lines)
      PROVE  url \in DOMAIN left \/ Covered(url, packages)
  <2>1. CASE Covered(url, readPackages)
    BY <1>1, <1>4, <2>1 DEF Covered
  <2>2. CASE Due(url) /\ ~error /\ lines = Lines
    <3>1. CASE readPhase = 2 /\ url = currRepositoryURL
      <4>1. lines = Offers[url]
        BY <2>2, <3>1 DEF Lines
      <4>2. ASSUME NEW n \in Offers[url]
            PROVE  \E p \in packages : p.package = n /\ p.repositoryURL = url
        <5>1. [package |-> n, repositoryURL |-> url, repositoryName |-> currRepositoryName]
                \in packages
          BY <1>4, <3>1, <4>1
        <5> QED BY <5>1
      <4> QED BY <4>2 DEF Covered
    <3>2. CASE ~(readPhase = 2 /\ url = currRepositoryURL)
      BY <1>1, <1>3, <2>2, <3>2 DEF Due, Lines
    <3> QED BY <3>1, <3>2
  <2> QED BY <1>2, <1>5, <2>1, <2>2 DEF AnswerInv, NothingMissed
<1>6. DOMAIN left \subseteq asked \cup leftover /\ Sound(packages, asked \cup leftover)
  <2>1. /\ \A url : Due(url) => url \in asked \cup leftover
        /\ Sound(readPackages, asked \cup leftover)
    BY DEF AnswerInv, NothingElse
  <2>2. DOMAIN left \subseteq asked \cup leftover
    BY <1>1, <1>3, <2>1 DEF Due
  <2>3. Sound(packages, asked \cup leftover)
    <3>1. CASE readPhase = 1
      BY <1>4, <2>1, <3>1
    <3>2. CASE readPhase = 2
      <4>1. currRepositoryURL \in asked \cup leftover
        BY <2>1, <3>2 DEF Due
      <4> QED BY <1>4, <2>1, <3>2, <4>1 DEF Sound
    <3> QED BY <1>1, <3>1, <3>2
  <2> QED BY <2>2, <2>3
<1> QED BY <1>5, <1>6 DEF left, packages

LEMMA DoneAnswers ==
    ASSUME OpderTyped, AnswerInv, readDone
    PROVE  /\ AnswerInv'
           /\ readPhase' = 0 =>
                /\ Complete(successfullyReadPackages', asked \ missed')
                /\ Sound(successfullyReadPackages', asked \cup leftover)
<1>1. PICK error \in BOOLEAN : \E lines \in Printed(error) : Answer(error, lines)
  BY DoneIsAnswer
<1>2. PICK lines \in Printed(error) : Answer(error, lines)
  BY <1>1
<1> DEFINE left == FoundRepositories(lines, error)
           packages == FoundPackages(lines)
<1>3. /\ readProc # "idle" /\ readPhase # 0
      /\ missed' = missed \cup Lost(error, lines)
  BY <1>2, DoneIsAnswer DEF Answer, AnswerInv, Unhurried
<1>4. /\ \A url \in asked \ missed' : url \in DOMAIN left \/ Covered(url, packages)
      /\ DOMAIN left \subseteq asked \cup leftover
      /\ Sound(packages, asked \cup leftover)
  BY <1>3, AnswerCovers
<1>5. CASE DOMAIN left # {}
  <2>1. /\ readNext(left) /\ readPackages' = packages
        /\ UNCHANGED <<downloadInfoForm, readKills, leftover, asked, readHasty>>
    BY <1>2, <1>5 DEF Answer
  <2> HIDE DEF left, packages
  <2>2. /\ readPhase' = 2 /\ readProc' # "killed"
        /\ \A url : Due(url)' <=> url \in DOMAIN left
    BY <2>1, NextIsDue
  <2>3. Unhurried'
    BY <2>1, <2>2 DEF AnswerInv, Unhurried
  <2>4. NothingMissed'
    BY <1>4, <2>1, <2>2 DEF NothingMissed, Covered
  <2>5. NothingElse'
    BY <1>3, <1>4, <2>1, <2>2 DEF NothingElse, Sound
  <2> QED BY <2>2, <2>3, <2>4, <2>5 DEF AnswerInv
<1>6. CASE DOMAIN left = {}
  <2>1. populateTable(packages) /\ repositories' = left
    BY <1>2, <1>6 DEF Answer
  <2>2. successfullyReadPackages' = packages /\ readPhase' = 0 /\ downloadInfoForm' = FALSE
    BY <2>1 DEF populateTable
  <2>3. AnswerInv'
    BY <1>6, <2>1, <2>2 DEF AnswerInv, Unhurried, NothingMissed, NothingElse
  <2> HIDE DEF left, packages
  <2>4. Complete(packages, asked \ missed')
    BY <1>4, <1>6 DEF Complete, Covered
  <2> QED BY <1>4, <2>2, <2>3, <2>4
<1> QED BY <1>5, <1>6

LEMMA StepAnswers ==
    ASSUME OpderTyped, AnswerInv, [OpderNext]_opderVars
    PROVE  AnswerInv'
<1>1. ASSUME UNCHANGED reading PROVE AnswerInv'
  <2>1. /\ UNCHANGED <<readPhase, readProc, repositories, currRepositoryURL, readPackages, asked, missed>>
        /\ UNCHANGED <<downloadInfoForm, readKills, leftover, readHasty>>
    BY <1>1 DEF reading, phase1and2
  <2>2. \A url : Due(url)' <=> Due(url)
    BY <2>1 DEF Due
  <2>3. Unhurried'
    BY <2>1 DEF AnswerInv, Unhurried
  <2>4. NothingMissed'
    BY <2>1, <2>2 DEF AnswerInv, NothingMissed, Covered
  <2>5. NothingElse'
    BY <2>1, <2>2 DEF AnswerInv, NothingElse, Sound
  <2> QED BY <2>3, <2>4, <2>5 DEF AnswerInv
<1>2. CASE refreshButton_clicked \/ firstRefresh
  <2>1. showInfo(urlText, useRepositoriesExclusively)
    BY <1>2 DEF refreshButton_clicked, firstRefresh
  <2> QED BY <1>1, <2>1, ShowAnswers DEF OpderTyped, MainTyped
<1>3. ASSUME NEW text \in Texts, NEW exclusive \in BOOLEAN, addRepositoryDone(text, exclusive)
      PROVE  AnswerInv'
  <2>1. text \in SUBSET Urls
    BY UrlsAssumption
  <2>2. showInfo(text, exclusive) \/ UNCHANGED reading
    BY <1>3 DEF addRepositoryDone
  <2> QED BY <1>1, <2>1, <2>2, ShowAnswers
<1>4. CASE Restore
  <2>1. CASE downloadInfoForm
    <3>1. /\ infoShowEvent(urlText, useRepositoriesExclusively)
          /\ UNCHANGED <<readKills, leftover, readHasty>>
      BY <1>4, <2>1 DEF Restore
    <3>2. ~readHasty => readKills = 0
      BY <2>1 DEF AnswerInv, Unhurried
    <3> QED BY <3>1, <3>2, ShowEventAnswers DEF OpderTyped, MainTyped
  <2>2. CASE ~downloadInfoForm
    BY <1>1, <1>4, <2>2 DEF Restore, reading
  <2> QED BY <2>1, <2>2
<1>5. CASE infoCancel
  BY <1>5, HideAnswers DEF infoCancel, InFront
<1>6. CASE infoHideTimer
  <2>1. readHides > 0 /\ UNCHANGED <<repositories, missed>>
    BY <1>6 DEF infoHideTimer
  <2>2. ~opdcmd /\ readPhase = 0
    BY <2>1 DEF OpderTyped, InfoTyped
  <2>3. CASE downloadInfoForm
    BY <1>6, <2>1, <2>2, <2>3, HideAnswers DEF infoHideTimer
  <2>4. CASE ~downloadInfoForm
    <3>1. UNCHANGED <<downloadInfoForm, readPhase, readKills, leftover, readKept>>
      BY <1>6, <2>4 DEF infoHideTimer
    <3> QED BY <2>1, <2>2, <3>1 DEF AnswerInv, Unhurried, NothingMissed, NothingElse, readKept
  <2> QED BY <2>3, <2>4
<1>7. CASE readKill
  <2>1. /\ readKills > 0 /\ readProc' = Killed(readProc)
        /\ UNCHANGED <<downloadInfoForm, readPhase, repositories, missed, readKept, leftover>>
    BY <1>7 DEF readKill
  <2>2. readKills \in Nat
    BY BoundsAssumption DEF OpderTyped, MainTyped, InfoTyped
  <2>3. downloadInfoForm => readHasty
    BY <2>1, <2>2 DEF AnswerInv, Unhurried
  <2>4. \A url : Due(url)' <=> Due(url)
    BY <2>1 DEF Due, readKept
  <2>5. Unhurried'
    BY <2>1, <2>3 DEF OpderTyped, InfoTyped, Unhurried, readKept
  <2>6. NothingMissed'
    BY <2>1, <2>4 DEF AnswerInv, NothingMissed, Covered, readKept
  <2>7. NothingElse'
    BY <2>1, <2>4 DEF AnswerInv, NothingElse, Sound, readKept
  <2> QED BY <2>5, <2>7, <2>6 DEF AnswerInv
<1>8. CASE readDropped
  BY <1>8 DEF readDropped, AnswerInv, Unhurried, NothingMissed, NothingElse, readKept
<1>9. CASE readDone
  BY <1>9, DoneAnswers
<1>10. CASE addRepositoryMenuItem_activated \/ downloadButton_clicked \/ packageCancel \/ Minimize
  BY <1>1, <1>10 DEF addRepositoryMenuItem_activated, downloadButton_clicked,
     packageCancel, Minimize
<1>11. CASE packageHideTimer \/ dlKill \/ dlDropped \/ UNCHANGED opderVars
  BY <1>1, <1>11 DEF packageHideTimer, dlKill, dlDropped, opderVars
<1>12. ASSUME NEW line, downloadDone(line) PROVE AnswerInv'
  BY <1>1, <1>12 DEF downloadDone
<1>13. ASSUME NEW row \in successfullyReadPackages, cellValueChanged(row) PROVE AnswerInv'
  BY <1>1, <1>13 DEF cellValueChanged
<1>14. CASE Close
  BY <1>14 DEF Close, None, AnswerInv, Unhurried, NothingMissed, NothingElse
<1> QED
  BY <1>2, <1>3, <1>4, <1>5, <1>6, <1>7, <1>8, <1>9, <1>10, <1>11, <1>12, <1>13, <1>14
     DEF OpderNext, User, Reading, Timers, Downloading

LEMMA AlwaysAnswers == OpderSpec => []AnswerInv
<1>1. OpderTyped /\ AnswerInv /\ [OpderNext]_opderVars => AnswerInv'
  BY StepAnswers
<1> QED
  BY <1>1, InitAnswers, AlwaysTyped, PTL DEF OpderSpec

(* Only the end of a process that is waited for fills the table.           *)
LEMMA OnlyDoneShows ==
    ASSUME OpderTyped, [OpderNext]_opderVars, Shows
    PROVE  readDone
<1>1. /\ readPhase # 0 /\ readPhase' = 0 /\ readProc # "idle" /\ readProc' = "idle"
      /\ app' = "open"
  BY DEF Shows
<1>2. ~UNCHANGED reading /\ ~UNCHANGED readPhase
  BY <1>1 DEF reading, phase1and2
<1>3. downloadInfoForm /\ opdcmd
  BY <1>1 DEF OpderTyped, InfoTyped
<1>4. ~infoHideEvent
  BY <1>1 DEF infoHideEvent, Killed
<1>5. ~(infoCancel \/ infoHideTimer)
  BY <1>3, <1>4 DEF infoCancel, infoHideTimer
<1>6. ~(refreshButton_clicked \/ firstRefresh)
  BY <1>2, <1>3 DEF refreshButton_clicked, firstRefresh, showInfo
<1>7. \A text \in Texts, exclusive \in BOOLEAN : ~addRepositoryDone(text, exclusive)
  BY <1>2, <1>3 DEF addRepositoryDone, showInfo
<1>8. ~Restore
  <2>1. SUFFICES ASSUME Restore PROVE FALSE
    OBVIOUS
  <2>2. infoShowEvent(urlText, useRepositoriesExclusively)
    BY <1>3, <2>1 DEF Restore
  <2>3. refreshReadPackages(urlText, useRepositoriesExclusively)
    BY <1>3, <2>2 DEF infoShowEvent
  <2>4. UNCHANGED phase1and2
    BY <1>1, <2>3 DEF refreshReadPackages
  <2> QED BY <1>2, <2>4 DEF phase1and2
<1>9. ~(addRepositoryMenuItem_activated \/ downloadButton_clicked \/ packageCancel \/ Minimize)
  BY <1>2 DEF addRepositoryMenuItem_activated, downloadButton_clicked, packageCancel,
     Minimize
<1>10. ~(packageHideTimer \/ dlKill \/ dlDropped \/ UNCHANGED opderVars)
  BY <1>2 DEF packageHideTimer, dlKill, dlDropped, opderVars
<1>11. ~(readKill \/ readDropped)
  BY <1>1, <1>2 DEF readKill, readDropped
<1>12. \A line : ~downloadDone(line)
  BY <1>2 DEF downloadDone
<1>13. \A row \in successfullyReadPackages : ~cellValueChanged(row)
  BY <1>2 DEF cellValueChanged
<1>14. ~Close
  BY <1>1 DEF Close
<1> QED
  BY <1>5, <1>6, <1>7, <1>8, <1>9, <1>10, <1>11, <1>12, <1>13, <1>14
     DEF OpderNext, User, Reading, Timers, Downloading

(* The table a refresh ends with has every package of every repository it  *)
(* was to read but those about which opd did not print all, and no package *)
(* but of these and of the repositories a cancelled refresh left over,     *)
(* whatever was cancelled, minimized, killed and answered late before.     *)
THEOREM TableAnswersRefresh == OpderSpec => TableIsTheAnswer
<1>1. ASSUME OpderTyped, AnswerInv, [OpderNext]_opderVars, Shows
      PROVE  /\ Complete(successfullyReadPackages', asked \ missed')
             /\ Sound(successfullyReadPackages', asked \cup leftover)
  <2>1. readDone /\ readPhase' = 0
    BY <1>1, OnlyDoneShows DEF Shows
  <2> QED BY <1>1, <2>1, DoneAnswers
<1>2. OpderTyped /\ AnswerInv /\ [OpderNext]_opderVars =>
        [Shows => /\ Complete(successfullyReadPackages', asked \ missed')
                  /\ Sound(successfullyReadPackages', asked \cup leftover)]_opderVars
  BY <1>1
<1> QED
  BY <1>2, AlwaysTyped, AlwaysAnswers, PTL DEF OpderSpec, TableIsTheAnswer
=============================================================================
