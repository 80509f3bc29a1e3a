-------------------------- MODULE ImageStoreProofs --------------------------
(* Proofs about ImageStore, for any set of images.                         *)
EXTENDS ImageStore, TLAPS

LEMMA BuilderHasImage ==
    ASSUME TypeOK
    PROVE  pc # "idle" => img \in Images /\ pc \in Steps
  BY DEF TypeOK, BuilderOK

LEMMA ExitIsOK == Exit => BuilderOK'
  BY DEF Exit, BuilderOK, Steps

LEMMA OneImageLosesPlaces ==
    ASSUME TypeOK, NEW i \in Images, NEW ps, Remove(i, ps)
    PROVE  /\ at' \in [Images -> SUBSET Places]
           /\ at'[i] = at[i] \ ps
           /\ \A j \in Images \ {i} : at'[j] = at[j]
  BY DEF TypeOK, Remove

LEMMA PictureTypes ==
    ASSUME NEW p
    PROVE  p \in Pictures <=> /\ DOMAIN p \subseteq Images
                              /\ p \in [DOMAIN p -> SUBSET Places]
  BY DEF Pictures

LEMMA NothingToDo ==
    [i \in {} |-> {}] \in Pictures /\ DOMAIN [i \in {} |-> {}] = {}
<1>1. [i \in {} |-> {}] \in [{} -> SUBSET Places]
  OBVIOUS
<1> QED
  BY <1>1 DEF Pictures

(* What delete_image changes: one image, and only by taking it away.       *)
LEMMA DeleteRemoves ==
    ASSUME TypeOK, NEW i \in Images, NEW mounted \in SUBSET Images,
           \E ok \in BOOLEAN : delete_image(i, mounted, ok)
    PROVE  /\ at' \in [Images -> SUBSET Places]
           /\ at'[i] \subseteq at[i]
           /\ \A j \in Images \ {i} : at'[j] = at[j]
           /\ wiped' \subseteq wiped \cup ({i} \cap mounted)
  BY OneImageLosesPlaces
  DEF delete_image, delete_image_from_oda, Files, Wipe

LEMMA RmimageRemoves ==
    ASSUME TypeOK, NEW i \in Images, NEW ok \in BOOLEAN, si_rmimage(i, ok)
    PROVE  /\ at' \in [Images -> SUBSET Places]
           /\ at'[i] \subseteq at[i]
           /\ \A j \in Images \ {i} : at'[j] = at[j]
           /\ wiped' \subseteq wiped \cup ({i} \cap bound)
<1>1. wiped' \subseteq wiped \cup ({i} \cap bound)
  BY DEF si_rmimage, Wipe
<1>2. CASE ok /\ Remove(i, {"sis"} \cup Files(i, bound))
  BY <1>1, <1>2, OneImageLosesPlaces
<1>3. CASE ~ok /\ Remove(i, Files(i, bound))
  BY <1>1, <1>3, OneImageLosesPlaces
<1>4. CASE ~ok /\ UNCHANGED at
  BY <1>1, <1>4 DEF TypeOK
<1> QED
  BY <1>2, <1>3, <1>4 DEF si_rmimage

(* Cleaning an image up takes it off the list, or changes what the list    *)
(* says of it, and takes it away from no other place than its own.         *)
LEMMA CleaningRemoves ==
    ASSUME TypeOK, NEW i \in Images, CleanImage(i)
    PROVE  /\ at' \in [Images -> SUBSET Places]
           /\ at'[i] \subseteq at[i]
           /\ \A j \in Images \ {i} : at'[j] = at[j]
           /\ wiped' \subseteq wiped \cup ({i} \cap bound)
           /\ i \in DOMAIN todo
           /\ DOMAIN todo' \subseteq DOMAIN todo
           /\ todo' \in Pictures
<1>1. i \in DOMAIN todo /\ todo \in Pictures /\ bound \in SUBSET Images
  BY DEF CleanImage, TypeOK
<1>2. PICK ok \in BOOLEAN :
        \/ CleanUnknown(i, ok) \/ CleanRecord(i, ok) \/ CleanDirectory(i, ok)
        \/ CleanODA(i, ok) \/ CleanUnlisted(i, ok) \/ Skip(i, ok)
  BY DEF CleanImage
<1>3. Done(i) => DOMAIN todo' = DOMAIN todo \ {i} /\ todo' \in Pictures
  BY <1>1, PictureTypes DEF Done
<1>4. CASE CleanUnknown(i, ok)
  <2>1. DOMAIN todo' = DOMAIN todo /\ todo' \in Pictures
    BY <1>1, <1>4, PictureTypes DEF CleanUnknown, Places
  <2>2. /\ at' \in [Images -> SUBSET Places] /\ at'[i] \subseteq at[i]
        /\ \A j \in Images \ {i} : at'[j] = at[j]
        /\ wiped' \subseteq wiped \cup ({i} \cap bound)
    <3>1. \E o \in BOOLEAN : delete_image(i, bound, o)
      BY <1>4 DEF CleanUnknown
    <3> QED
      BY <1>1, <3>1, DeleteRemoves
  <2> QED
    BY <1>1, <1>4, <2>1, <2>2 DEF CleanUnknown
<1>5. CASE CleanRecord(i, ok)
  BY <1>1, <1>3, <1>5, RmimageRemoves DEF CleanRecord
<1>6. CASE CleanDirectory(i, ok)
  BY <1>1, <1>3, <1>6, OneImageLosesPlaces DEF CleanDirectory, Wipe
<1>7. CASE CleanODA(i, ok)
  <2>1. PICK ps \in SUBSET Places : Remove(i, ps) /\ UNCHANGED wiped
    BY <1>7 DEF CleanODA, delete_image_from_oda, Places
  <2> QED
    BY <1>1, <1>3, <1>7, <2>1, OneImageLosesPlaces DEF CleanODA
<1>8. CASE CleanUnlisted(i, ok)
  BY <1>1, <1>3, <1>8, RmimageRemoves, NothingToDo DEF CleanUnlisted
<1>9. CASE Skip(i, ok)
  BY <1>1, <1>3, <1>9 DEF Skip, store, TypeOK
<1> QED
  BY <1>2, <1>4, <1>5, <1>6, <1>7, <1>8, <1>9

-----------------------------------------------------------------------------
LEMMA BuildKeepsTypes ==
    ASSUME TypeOK, Build
    PROVE  TypeOK'
<1>0. todo' \in Pictures /\ force' \in BOOLEAN /\ settled' \in BOOLEAN
  BY DEF Build, cleanup, TypeOK
<1>1. \/ \E i \in Images : add_image(i)
      \/ mksiimage \/ set_images \/ mksidisk \/ do_setimage \/ ssh_install
      \/ BindSpecialFS \/ run_pkg_scripts \/ do_oda_post_install
      \/ mkautoinstallscript \/ DeleteFailed \/ UmountSigHandler \/ Killed
  BY DEF Build
<1>2. ASSUME NEW i \in Images, add_image(i) PROVE TypeOK'
  <2>1. at' \in [Images -> SUBSET Places] /\ wiped' \in SUBSET Images
    <3>1. \/ UNCHANGED store
          \/ \E ok \in BOOLEAN : delete_image(i, bound, ok)
      BY <1>2 DEF add_image
    <3> QED
      BY <3>1, DeleteRemoves DEF store, TypeOK
  <2>2. Begin(i) \/ UNCHANGED builder
    BY <1>2 DEF add_image
  <2>3. BuilderOK'
    BY <2>2, <1>2, NoImageAssumption DEF Begin, builder, TypeOK, BuilderOK, Steps
  <2> QED
    BY <1>0, <1>2, <2>1, <2>3 DEF add_image, mounts, TypeOK
<1>3. ASSUME NEW p \in Steps \ {"failed"}, pc \in Steps \ {"failed"},
             Goto(p) \/ Failed(1) \/ Failed(2) \/ Failed(3) \/ Exit
      PROVE  BuilderOK'
  BY <1>3 DEF Goto, Failed, Exit, TypeOK, BuilderOK, Steps
<1> DEFINE RestOK == /\ bound' \in SUBSET Images /\ leftbound' \in SUBSET bound'
                     /\ built' \in SUBSET Images
                     /\ raced' \in SUBSET Images /\ wiped' \in SUBSET Images
<1>4. CASE mksiimage
  <2>1. img \in Images /\ pc \in Steps \ {"failed"}
    BY <1>4, BuilderHasImage DEF mksiimage, Steps
  <2>2. at' \in [Images -> SUBSET Places]
    BY <1>4, <2>1 DEF mksiimage, TypeOK, Places
  <2>3. Goto("record") \/ Goto("oda") \/ Failed(1)
    BY <1>4 DEF mksiimage
  <2>4. RestOK
    BY <1>4 DEF mksiimage, mounts, TypeOK
  <2> QED
    BY <1>0, <1>3, <2>1, <2>2, <2>3, <2>4 DEF TypeOK, Steps
<1>5. CASE set_images
  <2>1. img \in Images /\ pc \in Steps \ {"failed"}
    BY <1>5, BuilderHasImage DEF set_images, Steps
  <2>2. at' \in [Images -> SUBSET Places]
    BY <1>5, <2>1 DEF set_images, TypeOK, Places
  <2>3. Goto("disk") \/ Failed(1)
    BY <1>5 DEF set_images
  <2>4. RestOK
    BY <1>5 DEF set_images, mounts, TypeOK
  <2> QED
    BY <1>0, <1>3, <2>1, <2>2, <2>3, <2>4 DEF TypeOK, Steps
<1>6. CASE mksidisk \/ do_setimage \/ ssh_install \/ do_oda_post_install
  <2>1. img \in Images /\ pc \in Steps \ {"failed"}
    BY <1>6, BuilderHasImage
    DEF mksidisk, do_setimage, ssh_install, do_oda_post_install, Steps
  <2>2. /\ \/ Goto("setimage") \/ Goto("ssh") \/ Goto("bind") \/ Goto("odapost")
           \/ Goto("mkautoinstall") \/ Failed(1) \/ Failed(2) \/ Failed(3)
        /\ UNCHANGED <<store, mounts, built, raced>>
    BY <1>6 DEF mksidisk, do_setimage, ssh_install, do_oda_post_install
  <2>3. at' \in [Images -> SUBSET Places] /\ RestOK
    BY <2>2 DEF store, mounts, TypeOK
  <2> QED
    BY <1>0, <1>3, <2>1, <2>2, <2>3 DEF TypeOK, Steps
<1>7. CASE BindSpecialFS
  <2>1. img \in Images /\ pc \in Steps \ {"failed"}
    BY <1>7, BuilderHasImage DEF BindSpecialFS, Steps
  <2>2. Goto("scripts") /\ at' \in [Images -> SUBSET Places] /\ RestOK
    BY <1>7, <2>1 DEF BindSpecialFS, store, TypeOK
  <2> QED
    BY <1>0, <1>3, <2>1, <2>2 DEF TypeOK, Steps
<1>8. ASSUME UmountSpecialFS, img \in Images
      PROVE  bound' \in SUBSET Images /\ leftbound' \in SUBSET bound'
  BY <1>8 DEF UmountSpecialFS, TypeOK
<1>9. CASE run_pkg_scripts
  <2>1. img \in Images /\ pc \in Steps \ {"failed"}
    BY <1>9, BuilderHasImage DEF run_pkg_scripts, Steps
  <2>2. Goto("odapost") \/ Failed(3)
    BY <1>9 DEF run_pkg_scripts
  <2>3. at' \in [Images -> SUBSET Places] /\ RestOK
    BY <1>9, <1>8, <2>1 DEF run_pkg_scripts, store, TypeOK
  <2> QED
    BY <1>0, <1>3, <2>1, <2>2, <2>3 DEF TypeOK, Steps
<1>10. CASE mkautoinstallscript
  <2>1. img \in Images /\ pc \in Steps \ {"failed"}
    BY <1>10, BuilderHasImage DEF mkautoinstallscript, Steps
  <2>2. Exit \/ Failed(1)
    BY <1>10 DEF mkautoinstallscript
  <2>3. at' \in [Images -> SUBSET Places] /\ RestOK
    BY <1>10, <2>1 DEF mkautoinstallscript, store, mounts, TypeOK
  <2> QED
    BY <1>0, <1>3, <2>1, <2>2, <2>3 DEF TypeOK, Steps
<1>11. CASE DeleteFailed
  <2>1. img \in Images /\ pc = "failed"
    BY <1>11, BuilderHasImage DEF DeleteFailed
  <2>2. at' \in [Images -> SUBSET Places] /\ wiped' \in SUBSET Images
    BY <1>11, <2>1, DeleteRemoves DEF DeleteFailed, TypeOK
  <2>3. BuilderOK'
    <3>0. deletes \in 1..3 /\ img \in Images
      BY <2>1 DEF TypeOK, BuilderOK
    <3>1. Exit \/ (Failed(deletes - 1) /\ deletes # 1)
      BY <1>11 DEF DeleteFailed
    <3>2. CASE Exit
      BY <3>2, ExitIsOK
    <3>3. CASE Failed(deletes - 1) /\ deletes # 1
      BY <3>0, <3>3, NoImageAssumption DEF Failed, BuilderOK, Steps
    <3> QED
      BY <3>1, <3>2, <3>3
  <2> QED
    BY <1>0, <1>11, <2>2, <2>3 DEF DeleteFailed, mounts, TypeOK
<1>12. CASE UmountSigHandler
  <2>1. img \in Images
    BY <1>12, BuilderHasImage DEF UmountSigHandler
  <2>2. bound' \in SUBSET Images /\ leftbound' \in SUBSET bound'
    BY <1>12, <1>8, <2>1 DEF UmountSigHandler
  <2>3. at' \in [Images -> SUBSET Places] /\ wiped' \in SUBSET Images
    BY <1>12, <2>1, <2>2, DeleteRemoves DEF UmountSigHandler, TypeOK
  <2> QED
    BY <1>0, <1>12, <2>2, <2>3, ExitIsOK DEF UmountSigHandler, TypeOK
<1>13. CASE Killed
  BY <1>0, <1>13, ExitIsOK DEF Killed, store, TypeOK
<1> QED
  BY <1>1, <1>2, <1>4, <1>5, <1>6, <1>7, <1>9, <1>10, <1>11, <1>12, <1>13

LEMMA CleanupKeepsTypes ==
    ASSUME TypeOK, Cleanup
    PROVE  TypeOK'
<1>1. ASSUME NEW f \in BOOLEAN, get_list_corrupted_images(f) PROVE TypeOK'
  <2>1. PICK seen \in {Places, Places \ {"sis"}} :
            Looking(f, seen, (SUBSET Places) \ {{}, Places})
    BY <1>1 DEF get_list_corrupted_images
  <2>2. todo' \in Pictures /\ raced' \in SUBSET Images
    BY <2>1, PictureTypes DEF Looking, TypeOK
  <2>3. UNCHANGED <<at, wiped, bound, leftbound, built, pc, img, deletes>>
    BY <2>1 DEF Looking, store, mounts, builder
  <2>4. force' \in BOOLEAN /\ settled' \in BOOLEAN
    BY <2>1 DEF Looking
  <2> QED
    BY <2>2, <2>3, <2>4 DEF TypeOK, BuilderOK
<1>2. ASSUME NEW i \in Images, CleanImage(i) PROVE TypeOK'
  <2>1. /\ UNCHANGED <<bound, leftbound, pc, img, deletes, built, force,
                     raced>>
        /\ settled' \in BOOLEAN
    BY <1>2 DEF CleanImage, mounts, builder, TypeOK, BuilderOK
  <2>2. wiped' \in SUBSET Images
    BY <1>2, CleaningRemoves DEF TypeOK
  <2> QED
    BY <1>2, <2>1, <2>2, CleaningRemoves DEF TypeOK, BuilderOK
<1>3. CASE CleanupKilled
  BY <1>3, NothingToDo DEF CleanupKilled, store, mounts, builder, TypeOK, BuilderOK
<1> QED
  BY <1>1, <1>2, <1>3 DEF Cleanup

LEMMA StepKeepsTypes == TypeOK /\ [Next]_vars => TypeOK'
<1> SUFFICES ASSUME TypeOK, [Next]_vars PROVE TypeOK'
  OBVIOUS
<1>1. CASE Build
  BY <1>1, BuildKeepsTypes
<1>2. CASE Cleanup
  BY <1>2, CleanupKeepsTypes
<1>3. CASE Reboot
  <2>1. todo' \in Pictures
    BY <1>3, NothingToDo DEF Reboot
  <2> QED
    BY <1>3, <2>1, ExitIsOK DEF Reboot, TypeOK
<1>4. CASE UNCHANGED vars
  BY <1>4 DEF vars, TypeOK, BuilderOK
<1> QED
  BY <1>1, <1>2, <1>3, <1>4 DEF Next

(* The types hold, an image is being built exactly while the builder is    *)
(* not idle, and deletions are counted exactly after a failure.            *)
THEOREM TypeCorrect == Spec => []TypeOK
<1>1. Init => TypeOK
  <2> SUFFICES ASSUME Init PROVE TypeOK
    OBVIOUS
  <2>1. todo \in Pictures
    BY NothingToDo DEF Init
  <2>2. BuilderOK
    BY DEF Init, BuilderOK, Steps
  <2>3. /\ at \in [Images -> SUBSET Places]
        /\ bound = {} /\ leftbound = {} /\ built = {}
        /\ raced = {} /\ wiped = {} /\ force = FALSE /\ settled = FALSE
    BY DEF Init
  <2> QED
    BY <2>1, <2>2, <2>3 DEF TypeOK
<1> QED
  BY <1>1, StepKeepsTypes, PTL DEF Spec

-----------------------------------------------------------------------------
(* The head node's files.  A file system that someone will still unmount   *)
(* is mounted in the image the scripts run in and in no other; and the     *)
(* cleanup has a wrong picture of an image that is being built.            *)
Mounted ==
    /\ TypeOK
    /\ \A i \in bound \ leftbound : pc = "scripts" /\ i = img
    /\ img \in DOMAIN todo => img \in raced

LEMMA IdleMountsNothing ==
    ASSUME Mounted, NEW i \in bound, pc # "scripts"
    PROVE  i \in leftbound
  BY DEF Mounted

LEMMA BuildKeepsMounted ==
    ASSUME Mounted, Build, TypeOK'
    PROVE  /\ Mounted'
           /\ wiped' \subseteq wiped \cup leftbound' \cup raced'
<1>0. TypeOK /\ UNCHANGED todo
  BY DEF Mounted, Build, cleanup
<1>1. ASSUME NEW i \in Images, add_image(i)
      PROVE  Mounted' /\ wiped' \subseteq wiped \cup leftbound' \cup raced'
  <2>1. pc = "idle" /\ UNCHANGED <<bound, leftbound>>
    BY <1>1 DEF add_image, mounts
  <2>2. bound \subseteq leftbound
    BY <2>1 DEF Mounted
  <2>3. wiped' \subseteq wiped \cup bound
    <3>1. \/ UNCHANGED store
          \/ \E ok \in BOOLEAN : delete_image(i, bound, ok)
      BY <1>1 DEF add_image
    <3> QED
      BY <1>0, <3>1, DeleteRemoves DEF store, TypeOK
  <2>4. img' \in {i, img} /\ (img' = img => img' = i \/ img = NoImage)
    BY <1>0, <1>1, <2>1 DEF add_image, Begin, builder, TypeOK, BuilderOK
  <2>5. img' \in DOMAIN todo' => img' \in raced'
    BY <1>0, <1>1, <2>4, NoImageAssumption, PictureTypes DEF add_image, TypeOK
  <2> QED
    BY <1>0, <2>1, <2>2, <2>3, <2>5 DEF Mounted
<1>2. ASSUME mksiimage \/ set_images \/ mksidisk \/ do_setimage \/ ssh_install
             \/ do_oda_post_install \/ mkautoinstallscript
      PROVE  Mounted' /\ wiped' \subseteq wiped \cup leftbound' \cup raced'
  <2>1. /\ pc \notin {"idle", "scripts"}
        /\ UNCHANGED <<bound, leftbound, raced, wiped>>
        /\ img' \in {img, NoImage}
    BY <1>2
    DEF mksiimage, set_images, mksidisk, do_setimage, ssh_install, store,
        do_oda_post_install, mkautoinstallscript, mounts, Goto, Failed, Exit
  <2>2. img' \in DOMAIN todo' => img' \in raced'
    BY <1>0, <2>1, NoImageAssumption, PictureTypes DEF Mounted, TypeOK
  <2> QED
    BY <1>0, <2>1, <2>2, IdleMountsNothing DEF Mounted
<1>3. CASE BindSpecialFS
  <2>1. /\ pc = "bind" /\ pc' = "scripts"
        /\ UNCHANGED <<img, leftbound, raced, wiped>>
        /\ bound' \subseteq bound \cup {img}
    BY <1>3 DEF BindSpecialFS, Goto, store
  <2> QED
    BY <1>0, <2>1 DEF Mounted
<1>4. ASSUME UmountSpecialFS, pc = "scripts"
      PROVE  bound' \subseteq leftbound'
  BY <1>4 DEF UmountSpecialFS, Mounted
<1>5. CASE run_pkg_scripts
  <2>1. bound' \subseteq leftbound' /\ UNCHANGED <<img, wiped, raced>>
    BY <1>4, <1>5 DEF run_pkg_scripts, Goto, Failed, store
  <2> QED
    BY <1>0, <2>1 DEF Mounted
<1>6. CASE DeleteFailed
  <2>1. pc = "failed" /\ UNCHANGED <<bound, leftbound, raced>>
    BY <1>6 DEF DeleteFailed, mounts
  <2>2. bound \subseteq leftbound
    BY <2>1 DEF Mounted
  <2>3. img \in Images /\ bound \in SUBSET Images
    BY <1>0, <2>1, BuilderHasImage DEF TypeOK
  <2>4. \E ok \in BOOLEAN : delete_image(img, bound, ok)
    BY <1>6 DEF DeleteFailed
  <2>5. wiped' \subseteq wiped \cup bound
    BY <1>0, <2>3, <2>4, DeleteRemoves
  <2>6. img' \in {img, NoImage}
    BY <1>6 DEF DeleteFailed, Exit, Failed
  <2>7. img' \in DOMAIN todo' => img' \in raced'
    BY <1>0, <2>1, <2>6, NoImageAssumption, PictureTypes DEF Mounted, TypeOK
  <2> QED
    BY <1>0, <2>1, <2>2, <2>5, <2>7 DEF Mounted
<1>7. CASE UmountSigHandler
  <2>1. bound' \subseteq leftbound' /\ UNCHANGED raced /\ img' = NoImage
    BY <1>4, <1>7 DEF UmountSigHandler, Exit
  <2>2. img \in Images
    BY <1>0, <1>7, BuilderHasImage DEF UmountSigHandler
  <2>3. bound' \in SUBSET Images
    BY DEF TypeOK
  <2>4. \E ok \in BOOLEAN : delete_image(img, bound', ok)
    BY <1>7 DEF UmountSigHandler
  <2>5. wiped' \subseteq wiped \cup bound'
    BY <1>0, <2>2, <2>3, <2>4, DeleteRemoves
  <2> QED
    BY <1>0, <2>1, <2>5, NoImageAssumption, PictureTypes DEF Mounted, TypeOK
<1>8. CASE Killed
  <2>1. /\ bound' \subseteq leftbound'
        /\ UNCHANGED <<raced, wiped>> /\ img' = NoImage
    BY <1>8 DEF Killed, Exit, store, Mounted
  <2> QED
    BY <1>0, <2>1, NoImageAssumption, PictureTypes DEF Mounted, TypeOK
<1> QED
  BY <1>1, <1>2, <1>3, <1>5, <1>6, <1>7, <1>8 DEF Build

LEMMA CleanupKeepsMounted ==
    ASSUME Mounted, Cleanup, TypeOK'
    PROVE  /\ Mounted'
           /\ wiped' \subseteq wiped \cup leftbound' \cup raced'
<1>0. TypeOK
  BY DEF Mounted
<1>1. ASSUME NEW f \in BOOLEAN, get_list_corrupted_images(f)
      PROVE  Mounted' /\ wiped' \subseteq wiped \cup leftbound' \cup raced'
  <2>1. PICK seen \in {Places, Places \ {"sis"}} :
            Looking(f, seen, (SUBSET Places) \ {{}, Places})
    BY <1>1 DEF get_list_corrupted_images
  <2>2. /\ UNCHANGED <<wiped, bound, leftbound, pc, img>>
        /\ img \in DOMAIN todo' => img \in raced'
    BY <2>1 DEF Looking, store, mounts, builder
  <2> QED
    BY <2>2 DEF Mounted
<1>2. ASSUME NEW i \in Images, CleanImage(i)
      PROVE  Mounted' /\ wiped' \subseteq wiped \cup leftbound' \cup raced'
  <2>1. /\ UNCHANGED <<bound, leftbound, pc, img, raced>>
        /\ i \in DOMAIN todo /\ DOMAIN todo' \subseteq DOMAIN todo
        /\ wiped' \subseteq wiped \cup ({i} \cap bound)
    BY <1>0, <1>2, CleaningRemoves DEF CleanImage, mounts, builder
  <2>2. i \in bound \ leftbound => i \in raced
    BY <2>1 DEF Mounted
  <2> QED
    BY <2>1, <2>2 DEF Mounted
<1>3. CASE CleanupKilled
  <2>1. /\ UNCHANGED <<wiped, bound, leftbound, pc, img>>
        /\ DOMAIN todo' = {}
    BY <1>3, NothingToDo DEF CleanupKilled, store, mounts, builder
  <2> QED
    BY <2>1 DEF Mounted
<1> QED
  BY <1>1, <1>2, <1>3 DEF Cleanup

LEMMA StepKeepsMounted ==
    ASSUME Mounted, [Next]_vars
    PROVE  /\ Mounted'
           /\ wiped' \subseteq wiped \cup leftbound' \cup raced'
<1>0. TypeOK'
  BY StepKeepsTypes DEF Mounted
<1>1. CASE Build
  BY <1>0, <1>1, BuildKeepsMounted
<1>2. CASE Cleanup
  BY <1>0, <1>2, CleanupKeepsMounted
<1>3. CASE Reboot
  <2>1. bound' = {} /\ wiped' = {} /\ DOMAIN todo' = {}
    BY <1>3, NothingToDo DEF Reboot
  <2> QED
    BY <1>0, <2>1 DEF Mounted
<1>4. CASE UNCHANGED vars
  BY <1>0, <1>4 DEF vars, Mounted
<1> QED
  BY <1>1, <1>2, <1>3, <1>4 DEF Next

LEMMA MountedAlways == Spec => []Mounted
<1>1. Init /\ TypeOK => Mounted
  BY NothingToDo DEF Init, Mounted
<1>2. Mounted /\ [Next]_vars => Mounted'
  BY StepKeepsMounted
<1> QED
  BY <1>1, <1>2, TypeCorrect, PTL DEF Spec

(* No operation deletes an image the head node's file systems are mounted  *)
(* in (delete_image, si_rmimage, rm -rf), except after a failed umount or  *)
(* a kill, or on a wrong picture.                                          *)
THEOREM HostFilesAreSafe == Spec => HostFilesSafe
<1>1. Mounted /\ [Next]_vars =>
        [wiped' \subseteq wiped \cup leftbound' \cup raced']_vars
  BY StepKeepsMounted
<1> QED
  BY <1>1, MountedAlways, PTL DEF Spec, HostFilesSafe

-----------------------------------------------------------------------------
(* What a built image has.  The builder adds one place after the other to  *)
(* the image it works on, which is not yet built; and the cleanup's list   *)
(* has no built image, unless its picture of it is wrong.                  *)
AfterMksiimage == {"disk", "setimage", "ssh", "bind", "scripts", "odapost",
                   "mkautoinstall"}

Placed == CASE pc = "record" -> {"fs"}
            [] pc = "oda" -> {"fs", "sis"}
            [] pc \in AfterMksiimage -> Places
            [] OTHER -> {}

Kept ==
    /\ Mounted
    /\ BuiltStaysGood
    /\ img \notin built
    /\ built \cap DOMAIN todo \subseteq raced
    /\ img \in Images \ raced => Placed \subseteq at[img]

LEMMA PlacedInImage ==
    ASSUME Kept, pc # "idle", img \notin raced
    PROVE  /\ pc = "record" => "fs" \in at[img]
           /\ pc = "oda" => {"fs", "sis"} \subseteq at[img]
           /\ pc \in AfterMksiimage => Places \subseteq at[img]
<1>1. img \in Images
  BY BuilderHasImage DEF Kept, Mounted
<1> QED
  BY <1>1 DEF Kept, Placed, AfterMksiimage

LEMMA BuildKeepsBuilt ==
    ASSUME Kept, Build, TypeOK', Mounted'
    PROVE  Kept'
<1>0. TypeOK /\ UNCHANGED todo
  BY DEF Kept, Mounted, Build, cleanup
<1> USE DEF BuiltStaysGood, Good
<1>1. ASSUME NEW i \in Images, add_image(i) PROVE Kept'
  <2>1. /\ built' = built \ {i} /\ pc = "idle" /\ img = NoImage
        /\ raced' \cup {i} = raced \cup {i}
    BY <1>0, <1>1 DEF add_image, TypeOK, BuilderOK
  <2>2. \A j \in Images \ {i} : at'[j] = at[j]
    <3>1. UNCHANGED store \/ \E ok \in BOOLEAN : delete_image(i, bound, ok)
      BY <1>1 DEF add_image
    <3>2. bound \in SUBSET Images
      BY <1>0 DEF TypeOK
    <3> QED
      BY <1>0, <3>1, <3>2, DeleteRemoves DEF store
  <2>3. \/ pc' = "mksiimage" /\ img' = i
        \/ pc' = "idle" /\ img' = NoImage
    BY <1>1, <2>1 DEF add_image, Begin, builder
  <2>4. Placed' = {}
    BY <2>3 DEF Placed, AfterMksiimage
  <2>5. NoImage \notin built'
    BY NoImageAssumption DEF TypeOK
  <2> QED
    BY <1>0, <2>1, <2>2, <2>3, <2>4, <2>5 DEF Kept, TypeOK
(* Steps that add a place to the image or none, and leave the rest alone.  *)
<1>2. ASSUME NEW ps \in SUBSET Places, img \in Images, pc' # "idle",
             at' = [at EXCEPT ![img] = @ \cup ps],
             UNCHANGED <<img, built, raced>>,
             img \notin raced => Placed' \subseteq at[img] \cup ps
      PROVE  Kept'
  BY <1>0, <1>2 DEF Kept, TypeOK
<1>3. ASSUME img \in Images, UNCHANGED <<img, built, raced, at>>,
             img \notin raced => Placed' \subseteq at[img]
      PROVE  Kept'
  BY <1>0, <1>3 DEF Kept
<1>4. ASSUME NEW n, Failed(n) PROVE Placed' = {} /\ pc' # "idle"
  BY <1>4 DEF Failed, Placed, AfterMksiimage
<1>5. pc # "idle" => img \in Images
  BY <1>0, BuilderHasImage
<1>6. CASE mksiimage
  <2>1. img \in Images /\ UNCHANGED <<img, built, raced>>
    BY <1>5, <1>6 DEF mksiimage, Goto, Failed
  <2>2. CASE UNCHANGED at /\ Failed(1)
    BY <1>3, <1>4, <2>1, <2>2
  <2>3. CASE at' = [at EXCEPT ![img] = @ \cup {"fs"}] /\ Goto("record")
    BY <1>2, <2>1, <2>3 DEF Goto, Placed, Places, AfterMksiimage
  <2>4. CASE /\ pc = "record"
             /\ at' = [at EXCEPT ![img] = @ \cup {"sis"}] /\ Goto("oda")
    <3>1. img \notin raced => Placed' \subseteq at[img] \cup {"sis"}
      BY <2>4, PlacedInImage DEF Goto, Placed, AfterMksiimage
    <3> QED
      BY <1>2, <2>1, <2>4, <3>1 DEF Goto, Places
  <2> QED
    BY <1>6, <2>2, <2>3, <2>4 DEF mksiimage
<1>7. CASE set_images
  <2>1. img \in Images /\ UNCHANGED <<img, built, raced>>
    BY <1>5, <1>7 DEF set_images, Goto, Failed
  <2>2. CASE UNCHANGED at /\ Failed(1)
    BY <1>3, <1>4, <2>1, <2>2
  <2>3. CASE at' = [at EXCEPT ![img] = @ \cup {"oda"}] /\ Goto("disk")
    <3>1. img \notin raced => Placed' \subseteq at[img] \cup {"oda"}
      BY <1>7, <2>3, PlacedInImage
      DEF set_images, Goto, Placed, AfterMksiimage, Places
    <3> QED
      BY <1>2, <2>1, <2>3, <3>1 DEF Goto, Places
  <2> QED
    BY <1>7, <2>2, <2>3 DEF set_images
<1>8. ASSUME pc \in AfterMksiimage, UNCHANGED <<built, raced, at>>,
             \/ \E p \in AfterMksiimage : Goto(p)
             \/ \E n \in 1..3 : Failed(n)
      PROVE  Kept'
  <2>1. img \in Images /\ UNCHANGED img
    BY <1>5, <1>8 DEF AfterMksiimage, Goto, Failed
  <2>2. CASE \E p \in AfterMksiimage : Goto(p)
    <3>1. img \notin raced => Places \subseteq at[img]
      BY <1>8, PlacedInImage DEF AfterMksiimage
    <3>2. Placed' \subseteq Places
      BY <2>2 DEF Goto, Placed, AfterMksiimage
    <3> QED
      BY <1>3, <1>8, <2>1, <3>1, <3>2
  <2>3. CASE \E n \in 1..3 : Failed(n)
    BY <1>3, <1>4, <1>8, <2>1, <2>3
  <2> QED
    BY <1>8, <2>2, <2>3
<1>9. CASE mksidisk \/ do_setimage \/ ssh_install \/ BindSpecialFS
           \/ run_pkg_scripts \/ do_oda_post_install
  <2>1. pc \in AfterMksiimage /\ UNCHANGED <<built, raced, at>>
    BY <1>9 DEF mksidisk, do_setimage, ssh_install, BindSpecialFS,
                run_pkg_scripts, do_oda_post_install, store, AfterMksiimage
  <2>2. \/ \E p \in AfterMksiimage : Goto(p)
        \/ \E n \in 1..3 : Failed(n)
    BY <1>9 DEF mksidisk, do_setimage, ssh_install, BindSpecialFS,
                run_pkg_scripts, do_oda_post_install, AfterMksiimage
  <2> QED
    BY <1>8, <2>1, <2>2
<1>10. CASE mkautoinstallscript
  <2>1. pc \in AfterMksiimage /\ UNCHANGED <<at, raced>>
    BY <1>10 DEF mkautoinstallscript, AfterMksiimage, store
  <2>2. CASE UNCHANGED built /\ Failed(1)
    BY <1>8, <2>1, <2>2
  <2>3. CASE built' = built \cup {img} /\ Exit
    <3>1. img \in Images /\ at \in [Images -> SUBSET Places]
      BY <1>0, <1>5, <2>1 DEF AfterMksiimage, TypeOK
    <3>2. img \notin raced => at[img] = Places
      BY <2>1, <3>1, PlacedInImage DEF AfterMksiimage
    <3>3. img \in DOMAIN todo => img \in raced
      BY DEF Kept, Mounted
    <3>4. img' \notin built' /\ img' \notin Images
      BY <2>3, NoImageAssumption DEF Exit, TypeOK
    <3> QED
      BY <1>0, <2>1, <2>3, <3>1, <3>2, <3>3, <3>4 DEF Kept
  <2> QED
    BY <1>10, <2>2, <2>3 DEF mkautoinstallscript
(* Steps that may take places away from the image they are about.          *)
<1>11. ASSUME img \in Images, UNCHANGED <<built, raced>>, img' \in {img, NoImage},
              \A j \in Images \ {img} : at'[j] = at[j], Placed' = {}
       PROVE  Kept'
  <2>1. img' \notin built'
    BY <1>11, NoImageAssumption DEF Kept, TypeOK
  <2>2. \A i \in built : i # img /\ i \in Images
    BY <1>0 DEF Kept, TypeOK
  <2> QED
    BY <1>0, <1>11, <2>1, <2>2 DEF Kept
<1>12. CASE DeleteFailed
  <2>1. img \in Images /\ bound \in SUBSET Images
    BY <1>0, <1>5, <1>12 DEF DeleteFailed, TypeOK
  <2>2. \E ok \in BOOLEAN : delete_image(img, bound, ok)
    BY <1>12 DEF DeleteFailed
  <2>3. /\ UNCHANGED <<built, raced>> /\ img' \in {img, NoImage}
        /\ pc' \in {"idle", "failed"}
    BY <1>12 DEF DeleteFailed, Exit, Failed
  <2>4. Placed' = {}
    BY <2>3 DEF Placed, AfterMksiimage
  <2>5. \A j \in Images \ {img} : at'[j] = at[j]
    BY <1>0, <2>1, <2>2, DeleteRemoves
  <2> QED
    BY <1>11, <2>1, <2>3, <2>4, <2>5
<1>13. CASE UmountSigHandler
  <2>1. img \in Images /\ bound' \in SUBSET Images
    BY <1>5, <1>13 DEF UmountSigHandler, TypeOK
  <2>2. \E ok \in BOOLEAN : delete_image(img, bound', ok)
    BY <1>13 DEF UmountSigHandler
  <2>3. /\ UNCHANGED <<built, raced>> /\ img' = NoImage
        /\ pc' = "idle"
    BY <1>13 DEF UmountSigHandler, Exit
  <2>4. Placed' = {}
    BY <2>3 DEF Placed, AfterMksiimage
  <2>5. \A j \in Images \ {img} : at'[j] = at[j]
    BY <1>0, <2>1, <2>2, DeleteRemoves
  <2> QED
    BY <1>11, <2>1, <2>3, <2>4, <2>5
<1>14. CASE Killed
  <2>1. /\ img \in Images /\ UNCHANGED <<at, built, raced>>
        /\ img' = NoImage /\ pc' = "idle"
    BY <1>5, <1>14 DEF Killed, Exit, store
  <2>2. Placed' = {}
    BY <2>1 DEF Placed, AfterMksiimage
  <2> QED
    BY <1>11, <2>1, <2>2
<1> QED
  BY <1>1, <1>6, <1>7, <1>9, <1>10, <1>12, <1>13, <1>14 DEF Build

LEMMA CleanupKeepsBuilt ==
    ASSUME Kept, Cleanup, TypeOK', Mounted'
    PROVE  Kept'
<1>0. TypeOK
  BY DEF Kept, Mounted
<1> USE DEF BuiltStaysGood, Good
<1>1. ASSUME NEW f \in BOOLEAN, get_list_corrupted_images(f) PROVE Kept'
  <2>1. PICK seen \in {Places, Places \ {"sis"}} :
            Looking(f, seen, (SUBSET Places) \ {{}, Places})
    BY <1>1 DEF get_list_corrupted_images
  <2>2. /\ UNCHANGED <<at, built, pc, img>> /\ raced \subseteq raced'
        /\ \A i \in DOMAIN todo' :
              /\ i \in Images /\ todo'[i] # Places
              /\ todo'[i] = at[i] \/ i \in raced'
    BY <2>1 DEF Looking, store, builder
  <2>3. built' \cap DOMAIN todo' \subseteq raced'
    BY <2>2 DEF Kept
  <2>4. Placed' = Placed
    BY <2>2 DEF Placed
  <2> QED
    BY <2>2, <2>3, <2>4 DEF Kept
<1>2. ASSUME NEW i \in Images, CleanImage(i) PROVE Kept'
  <2>1. /\ UNCHANGED <<built, pc, img, raced>>
        /\ i \in DOMAIN todo /\ DOMAIN todo' \subseteq DOMAIN todo
        /\ \A j \in Images \ {i} : at'[j] = at[j]
    BY <1>0, <1>2, CleaningRemoves DEF CleanImage, builder
  <2>2. i \in built \/ i = img => i \in raced
    BY <2>1 DEF Kept, Mounted
  <2>3. Placed' = Placed /\ built \in SUBSET Images
    BY <1>0, <2>1 DEF Placed, TypeOK
  <2>4. \A j \in built \ raced : at'[j] = at[j]
    BY <2>1, <2>2, <2>3
  <2>5. img \in Images \ raced => at'[img] = at[img]
    BY <2>1, <2>2
  <2> QED
    BY <2>1, <2>3, <2>4, <2>5 DEF Kept
<1>3. CASE CleanupKilled
  <2>1. UNCHANGED <<at, built, pc, img, raced>> /\ DOMAIN todo' = {}
    BY <1>3, NothingToDo DEF CleanupKilled, store, builder
  <2>2. Placed' = Placed
    BY <2>1 DEF Placed
  <2> QED
    BY <2>1, <2>2 DEF Kept
<1> QED
  BY <1>1, <1>2, <1>3 DEF Cleanup

(* An image reported as built stays in ODA, in SystemImager and on disk    *)
(* until it is to be replaced (build_oscar_image_cli, oscar_image_cleanup),*)
(* unless the cleanup has a wrong picture of it.                           *)
THEOREM BuiltImagesStay == Spec => []BuiltStaysGood
<1>1. Init /\ Mounted => Kept
  <2> SUFFICES ASSUME Init, Mounted PROVE Kept
    OBVIOUS
  <2>1. img \notin Images /\ built = {}
    BY NoImageAssumption DEF Init
  <2> QED
    BY <2>1 DEF Kept, BuiltStaysGood
<1>2. Kept /\ [Next]_vars => Kept'
  <2> SUFFICES ASSUME Kept, [Next]_vars PROVE Kept'
    OBVIOUS
  <2>1. TypeOK' /\ Mounted'
    BY StepKeepsTypes, StepKeepsMounted DEF Kept, Mounted
  <2>2. CASE Build
    BY <2>1, <2>2, BuildKeepsBuilt
  <2>3. CASE Cleanup
    BY <2>1, <2>3, CleanupKeepsBuilt
  <2>4. CASE Reboot
    <3>1. /\ UNCHANGED <<at, built, raced>> /\ img' = NoImage
          /\ DOMAIN todo' = {}
      BY <2>4, NothingToDo DEF Reboot, Exit
    <3>2. img' \notin built' /\ img' \notin Images
      BY <2>1, <3>1, NoImageAssumption DEF TypeOK
    <3> QED
      BY <2>1, <3>1, <3>2 DEF Kept, BuiltStaysGood, Good
  <2>5. CASE UNCHANGED vars
    <3>1. Placed' = Placed
      BY <2>5 DEF vars, Placed
    <3> QED
      BY <2>1, <2>5, <3>1 DEF vars, Kept, BuiltStaysGood, Good
  <2> QED
    BY <2>2, <2>3, <2>4, <2>5 DEF Next
<1>3. Kept => BuiltStaysGood
  BY DEF Kept
<1> QED
  BY <1>1, <1>2, <1>3, MountedAlways, PTL DEF Spec

-----------------------------------------------------------------------------
(* A cleanup nobody disturbs.  Its picture of every image it has still to  *)
(* deal with is right, but for the image of which only the record in       *)
(* SystemImager is left to be dealt with after delete_image.               *)
Resolved == {{}, Places, {"oda"}, {"oda", "sis"}}

PictureIsRight(i) ==
    \/ todo[i] = at[i]
    \/ todo[i] = {"sis"} /\ at[i] \subseteq {"sis", "fs"}

Undisturbed ==
    settled => /\ force
               /\ \A i \in Images \ bound :
                     IF i \in DOMAIN todo THEN PictureIsRight(i)
                                         ELSE at[i] \in Resolved

LEMMA CleaningResolves ==
    ASSUME TypeOK, Undisturbed, NEW i \in Images, CleanImage(i), settled',
           i \notin bound
    PROVE  IF i \in DOMAIN todo' THEN PictureIsRight(i)' ELSE at'[i] \in Resolved
<1>1. PICK ok \in BOOLEAN :
        /\ \/ CleanUnknown(i, ok) \/ CleanRecord(i, ok) \/ CleanDirectory(i, ok)
           \/ CleanODA(i, ok) \/ CleanUnlisted(i, ok) \/ Skip(i, ok)
        /\ settled' = (settled /\ (ok \/ todo[i] = {"sis", "fs"}))
  BY DEF CleanImage
<1>2. /\ settled /\ force /\ i \in DOMAIN todo /\ PictureIsRight(i)
      /\ ok \/ todo[i] = {"sis", "fs"}
      /\ at[i] \in SUBSET Places /\ bound \in SUBSET Images
      /\ Files(i, bound) = {"fs"}
  BY <1>1 DEF Undisturbed, CleanImage, TypeOK, Files
<1>3. ASSUME NEW ps, Remove(i, ps) PROVE at'[i] = at[i] \ ps
  BY <1>3, OneImageLosesPlaces
<1>4. Done(i) => i \notin DOMAIN todo'
  BY DEF Done
<1>5. CASE CleanUnknown(i, ok)
  <2>1. todo'[i] = {"sis"} /\ i \in DOMAIN todo' /\ todo[i] = {"sis", "fs"}
    BY <1>2, <1>5, PictureTypes DEF CleanUnknown, TypeOK
  <2>2. \E o \in BOOLEAN : delete_image(i, bound, o)
    BY <1>5 DEF CleanUnknown
  <2>3. at'[i] \subseteq at[i]
    BY <1>2, <2>2, DeleteRemoves
  <2>4. at[i] \subseteq {"sis", "fs"}
    BY <1>2, <2>1 DEF PictureIsRight
  <2> QED
    BY <2>1, <2>3, <2>4 DEF PictureIsRight
<1>6. CASE CleanRecord(i, ok)
  <2>1. ok /\ todo[i] = {"sis"} /\ Done(i)
    BY <1>2, <1>6 DEF CleanRecord
  <2>2. at'[i] = at[i] \ {"sis", "fs"}
    <3>1. Remove(i, {"sis"} \cup Files(i, bound))
      BY <1>6, <2>1 DEF CleanRecord, si_rmimage
    <3> QED
      BY <1>2, <1>3, <3>1
  <2> QED
    BY <1>2, <1>4, <2>1, <2>2 DEF PictureIsRight, Resolved
<1>7. CASE CleanDirectory(i, ok)
  <2>1. ok /\ todo[i] = {"fs"} /\ Done(i) /\ Remove(i, {"fs"})
    BY <1>2, <1>7 DEF CleanDirectory
  <2> QED
    BY <1>2, <1>3, <1>4, <2>1 DEF PictureIsRight, Resolved
<1>8. CASE CleanODA(i, ok)
  <2>1. ok /\ todo[i] = {"oda"} /\ Done(i) /\ Remove(i, {"oda"})
    BY <1>2, <1>8 DEF CleanODA, delete_image_from_oda
  <2> QED
    BY <1>2, <1>3, <1>4, <2>1 DEF PictureIsRight, Resolved
<1>9. CASE CleanUnlisted(i, ok)
  <2>1. ok /\ todo[i] = {"oda", "fs"} /\ Done(i)
    BY <1>2, <1>9 DEF CleanUnlisted
  <2>2. at'[i] = at[i] \ {"sis", "fs"}
    <3>1. Remove(i, {"sis"} \cup Files(i, bound))
      BY <1>9, <2>1 DEF CleanUnlisted, si_rmimage
    <3> QED
      BY <1>2, <1>3, <3>1
  <2> QED
    BY <1>2, <1>4, <2>1, <2>2 DEF PictureIsRight, Resolved
<1>10. CASE Skip(i, ok)
  <2>1. todo[i] = {"oda", "sis"} /\ Done(i) /\ UNCHANGED at
    BY <1>2, <1>10 DEF Skip, store
  <2> QED
    BY <1>2, <1>4, <2>1 DEF PictureIsRight, Resolved
<1> QED
  BY <1>1, <1>5, <1>6, <1>7, <1>8, <1>9, <1>10

LEMMA CleaningLeavesOthers ==
    ASSUME TypeOK, NEW i \in Images, CleanImage(i), settled',
           NEW j \in Images \ {i}
    PROVE  /\ at'[j] = at[j]
           /\ (j \in DOMAIN todo') <=> (j \in DOMAIN todo)
           /\ j \in DOMAIN todo => todo'[j] = todo[j]
<1>1. at'[j] = at[j]
  BY CleaningRemoves
<1>2. PICK ok \in BOOLEAN :
        /\ \/ CleanUnknown(i, ok) \/ CleanRecord(i, ok) \/ CleanDirectory(i, ok)
           \/ CleanODA(i, ok) \/ CleanUnlisted(i, ok) \/ Skip(i, ok)
        /\ settled' = (settled /\ (ok \/ todo[i] = {"sis", "fs"}))
  BY DEF CleanImage
<1>3. Done(i) \/ todo' = [todo EXCEPT ![i] = {"sis"}]
  <2>1. CASE CleanUnlisted(i, ok)
    <3>1. todo[i] = {"oda", "fs"} /\ {"oda", "fs"} # {"sis", "fs"}
      BY <2>1 DEF CleanUnlisted
    <3> QED
      BY <1>2, <2>1, <3>1 DEF CleanUnlisted
  <2> QED
    BY <1>2, <2>1 DEF CleanUnknown, CleanRecord, CleanDirectory, CleanODA, Skip
<1>4. todo \in [DOMAIN todo -> SUBSET Places]
  BY PictureTypes DEF TypeOK
<1> QED
  BY <1>1, <1>3, <1>4 DEF Done

LEMMA StepKeepsUndisturbed ==
    ASSUME TypeOK, Undisturbed, [Next]_vars
    PROVE  Undisturbed'
<1>1. CASE ~settled'
  BY <1>1 DEF Undisturbed
<1>2. ASSUME NEW f \in BOOLEAN, get_list_corrupted_images(f), settled'
      PROVE  Undisturbed'
  <2>1. PICK seen \in {Places, Places \ {"sis"}} :
            Looking(f, seen, (SUBSET Places) \ {{}, Places})
    BY <1>2 DEF get_list_corrupted_images
  <2>2. /\ force' /\ seen = Places /\ UNCHANGED <<at, bound>>
    BY <1>2, <2>1 DEF Looking, store, mounts
  <2>3. \A i \in Images : at[i] \cap seen = at[i]
    BY <2>2 DEF TypeOK
  <2>4. \A i \in Images : IF i \in DOMAIN todo' THEN todo'[i] = at[i]
                                                ELSE at[i] \in {{}, Places}
    BY <2>1, <2>3 DEF Looking, TypeOK
  <2> QED
    BY <2>2, <2>4 DEF Undisturbed, PictureIsRight, Resolved
<1>3. ASSUME NEW i \in Images, CleanImage(i), settled' PROVE Undisturbed'
  <2>1. settled /\ force /\ force' /\ bound' = bound
    BY <1>3 DEF CleanImage, mounts, Undisturbed
  <2>2. \A j \in Images \ bound :
            IF j \in DOMAIN todo' THEN PictureIsRight(j)' ELSE at'[j] \in Resolved
    <3> TAKE j \in Images \ bound
    <3>1. CASE j = i
      BY <1>3, <3>1, CleaningResolves
    <3>2. CASE j # i
      BY <1>3, <2>1, <3>2, CleaningLeavesOthers DEF Undisturbed, PictureIsRight
    <3> QED
      BY <3>1, <3>2
  <2> QED
    BY <2>1, <2>2 DEF Undisturbed
<1>4. CASE UNCHANGED vars
  BY <1>4 DEF vars, Undisturbed, PictureIsRight
<1> QED
  BY <1>1, <1>2, <1>3, <1>4 DEF Next, Build, Cleanup, CleanupKilled, Reboot

(* An undisturbed cleanup with --force-delete leaves no directory that ODA *)
(* or SystemImager does not know and no record of SystemImager that ODA    *)
(* does not know (get_list_corrupted_images, oscar_image_cleanup).         *)
THEOREM CleanupIsThorough == Spec => []CleanupResolves
<1>1. Init => Undisturbed
  BY DEF Init, Undisturbed
<1>2. TypeOK /\ Undisturbed /\ [Next]_vars => Undisturbed'
  BY StepKeepsUndisturbed
<1>3. Undisturbed => CleanupResolves
  BY DEF Undisturbed, CleanupResolves, Resolved
<1> QED
  BY <1>1, <1>2, <1>3, TypeCorrect, PTL DEF Spec
=============================================================================
