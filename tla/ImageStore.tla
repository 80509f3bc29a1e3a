----------------------------- MODULE ImageStore -----------------------------
(***************************************************************************)
(* The images of the client nodes (lib/OSCAR/ImageMgt.pm).  An image is in *)
(* three places that no transaction covers: a record of ODA, a record of   *)
(* SystemImager and a directory.  scripts/cli/build_oscar_image_cli builds *)
(* one; while the packages' scripts run in it the head node's /dev, /proc, *)
(* /sys, /run and /tmp are mounted in its directory.                       *)
(* bin/oscar_image_cleanup removes what it takes for the remains of images.*)
(* Nothing keeps the two from running at the same time.                    *)
(***************************************************************************)
EXTENDS Integers

CONSTANTS
    Images,     \* names of images
    NoImage     \* the builder works on none

ASSUME NoImageAssumption == NoImage \notin Images

Places == {"oda", "sis", "fs"}

VARIABLES
    at,         \* the places each image is in
    bound,      \* images the head node's file systems are mounted in
    pc,         \* build_oscar_image_cli: its next step,
    img,        \* its image, or NoImage, and
    deletes,    \* how often it is still to call delete_image
    todo,       \* oscar_image_cleanup: the places it has seen each of the
                \* images in that it has still to deal with
    force,      \* oscar_image_cleanup: --force-delete
    (* History variables                                                   *)
    built,      \* images built successfully, until they are to be replaced
    leftbound,  \* images whose file systems no one will unmount any more
    raced,      \* images the cleanup has a wrong picture of
    settled,    \* TRUE iff since the cleanup looked no one has interfered
                \* and no command has failed
    wiped       \* images removed with the head node's files mounted in them

store == <<at, wiped>>
mounts == <<bound, leftbound>>
builder == <<pc, img, deletes>>
cleanup == <<todo, force>>
vars == <<at, bound, pc, img, deletes, todo, force, built, leftbound,
          raced, settled, wiped>>

Good == {i \in Images : at[i] = Places}

Init == /\ at = [i \in Images |-> {}]
        /\ bound = {}
        /\ pc = "idle" /\ img = NoImage /\ deletes = 0
        /\ todo = [i \in {} |-> {}]
        /\ force = FALSE
        /\ built = {}
        /\ leftbound = {} /\ raced = {}
        /\ settled = FALSE
        /\ wiped = {}

-----------------------------------------------------------------------------
(* delete_image.  A directory with something mounted in it loses the files *)
(* and stays.  si_lsimage, and every command, may fail; when si_lsimage    *)
(* does, no image is known to SystemImager and only ODA's record goes.     *)
Files(i, mounted) == IF i \in mounted THEN {} ELSE {"fs"}
Remove(i, ps) == at' = [at EXCEPT ![i] = @ \ ps]
Wipe(i, mounted) == wiped' = wiped \cup ({i} \cap mounted)

delete_image_from_oda(i, ok) ==
    /\ Remove(i, IF ok THEN {"oda"} ELSE {})
    /\ UNCHANGED wiped

delete_image(i, mounted, ok) ==
    \/ delete_image_from_oda(i, ok)
    \/ /\ "sis" \in at[i]
       /\ Wipe(i, mounted)
       /\ \/ ok /\ Remove(i, {"oda", "sis"} \cup Files(i, mounted))
          \/ ~ok /\ Remove(i, {"sis"} \cup Files(i, mounted))
          \/ ~ok /\ Remove(i, Files(i, mounted))

-----------------------------------------------------------------------------
(* build_oscar_image_cli.                                                  *)
Goto(p) == pc' = p /\ UNCHANGED <<img, deletes>>
Begin(i) == pc' = "mksiimage" /\ img' = i /\ deletes' = 0
Failed(n) == pc' = "failed" /\ deletes' = n /\ UNCHANGED img
Exit == pc' = "idle" /\ img' = NoImage /\ deletes' = 0

(* image_exists asks ODA only, and its -1 for a failed query is true, too, *)
(* so that any image may be deleted.                                       *)
image_exists(i) == "oda" \in at[i]

add_image(i) ==
    /\ pc = "idle"
    /\ \/ /\ ~image_exists(i)
          /\ Begin(i)
          /\ UNCHANGED store
       \/ delete_image(i, bound, TRUE) /\ Begin(i)
       \/ delete_image(i, bound, FALSE) /\ UNCHANGED builder
    /\ built' = built \ {i}
    /\ raced' = IF i \in DOMAIN todo THEN raced \cup {i} ELSE raced \ {i}
    /\ UNCHANGED mounts

(* External: mksiimage -A fills the directory, then makes the record.      *)
mksiimage ==
    /\ \/ /\ pc = "mksiimage"
          /\ \/ /\ "sis" \notin at[img]
                /\ at' = [at EXCEPT ![img] = @ \cup {"fs"}]
                /\ Goto("record")
             \/ UNCHANGED at /\ Failed(1)
       \/ /\ pc = "record"
          /\ \/ at' = [at EXCEPT ![img] = @ \cup {"sis"}] /\ Goto("oda")
             \/ UNCHANGED at /\ Failed(1)
    /\ UNCHANGED <<wiped, mounts, built, raced>>

(* Mutant: what set_images returns is ignored.                             *)
set_images_unchecked ==
    /\ pc = "oda"
    /\ \/ at' = [at EXCEPT ![img] = @ \cup {"oda"}]
       \/ UNCHANGED at
    /\ Goto("disk")
    /\ UNCHANGED <<wiped, mounts, built, raced>>

set_images ==
    /\ pc = "oda"
    /\ \/ at' = [at EXCEPT ![img] = @ \cup {"oda"}] /\ Goto("disk")
       \/ UNCHANGED at /\ Failed(1)
    /\ UNCHANGED <<wiped, mounts, built, raced>>

mksidisk ==
    /\ pc = "disk"
    /\ Goto("setimage") \/ Failed(1)
    /\ UNCHANGED <<store, mounts, built, raced>>

do_setimage ==
    /\ pc = "setimage"
    /\ \/ "fs" \in at[img] /\ Goto("ssh")
       \/ Failed(1)
    /\ UNCHANGED <<store, mounts, built, raced>>

(* do_post_image_creation up to the scripts.  It returns 1, as it does in  *)
(* the end, when ssh_install fails.                                        *)
ssh_install ==
    /\ pc = "ssh"
    /\ \/ "fs" \in at[img] /\ (Goto("bind") \/ Goto("odapost") \/ Failed(3))
       \/ "fs" \notin at[img] /\ Failed(2)
    /\ UNCHANGED <<store, mounts, built, raced>>

BindSpecialFS ==
    /\ pc = "bind"
    /\ \/ "fs" \in at[img] /\ bound' = bound \cup {img}
       \/ UNCHANGED bound
    /\ Goto("scripts")
    /\ UNCHANGED <<store, leftbound, built, raced>>

(* umount's result is ignored; a second mount hides an earlier one.        *)
UmountSpecialFS ==
    \/ /\ "fs" \in at[img]
       /\ bound' = bound \ ({img} \ leftbound)
       /\ UNCHANGED leftbound
    \/ /\ leftbound' = leftbound \cup ({img} \cap bound)
       /\ UNCHANGED bound

run_pkg_scripts ==
    /\ pc = "scripts"
    /\ UmountSpecialFS
    /\ Goto("odapost") \/ Failed(3)
    /\ UNCHANGED <<store, built, raced>>

do_oda_post_install ==
    /\ pc = "odapost"
    /\ Goto("mkautoinstall") \/ Failed(2)
    /\ UNCHANGED <<store, mounts, built, raced>>

mkautoinstallscript ==
    /\ pc = "mkautoinstall"
    /\ \/ built' = built \cup {img} /\ Exit
       \/ UNCHANGED built /\ Failed(1)
    /\ UNCHANGED <<store, mounts, raced>>

(* do_post_image_creation, postimagebuild and add_image delete the image   *)
(* one after the other, whatever came of it.                               *)
DeleteFailed ==
    /\ pc = "failed"
    /\ \E ok \in BOOLEAN : delete_image(img, bound, ok)
    /\ IF deletes = 1 THEN Exit ELSE Failed(deletes - 1)
    /\ UNCHANGED <<mounts, built, raced>>

(* Mutant: the image is deleted before its file systems are unmounted.     *)
UmountSigHandler_deletes_first ==
    /\ pc = "scripts"
    /\ \E ok \in BOOLEAN : delete_image(img, bound, ok)
    /\ UmountSpecialFS
    /\ Exit
    /\ UNCHANGED <<built, raced>>

UmountSigHandler ==
    /\ pc = "scripts"
    /\ UmountSpecialFS
    /\ \E ok \in BOOLEAN : delete_image(img, bound', ok)
    /\ Exit
    /\ UNCHANGED <<built, raced>>

(* A signal without handler, or SIGKILL, for which there is none.          *)
Killed ==
    /\ pc # "idle"
    /\ Exit
    /\ leftbound' = leftbound \cup ({img} \cap bound)
    /\ UNCHANGED <<store, bound, built, raced>>

Build ==
    /\ \/ \E i \in Images : add_image(i)
       \/ mksiimage \/ set_images \/ mksidisk \/ do_setimage \/ ssh_install
       \/ BindSpecialFS \/ run_pkg_scripts \/ do_oda_post_install
       \/ mkautoinstallscript \/ DeleteFailed \/ UmountSigHandler \/ Killed
    /\ settled' = FALSE
    /\ UNCHANGED cleanup

-----------------------------------------------------------------------------
(* oscar_image_cleanup.                                                    *)
Looking(f, seen, listed) ==
    /\ DOMAIN todo = {}
    /\ todo' = [i \in {j \in Images : at[j] \cap seen \in listed}
                    |-> at[i] \cap seen]
    /\ force' = f
    /\ raced' = raced \cup {i \in DOMAIN todo' : todo'[i] # at[i] \/ i = img}
    /\ settled' = (f /\ pc = "idle" /\ seen = Places)
    /\ UNCHANGED <<store, mounts, built, builder>>

(* Mutant: the directories are not looked through by themselves.           *)
get_list_without_directories(f) ==
    \E seen \in {Places, Places \ {"sis"}} :
        Looking(f, seen, (SUBSET Places) \ {{}, Places, {"fs"}})

(* An image is corrupted that is in some of the places, not in all.  When  *)
(* si_lsimage fails, none is seen in SystemImager.                         *)
get_list_corrupted_images(f) ==
    \E seen \in {Places, Places \ {"sis"}} :
        Looking(f, seen, (SUBSET Places) \ {{}, Places})

Done(i) == todo' = [j \in DOMAIN todo \ {i} |-> todo[j]]

(* External.                                                               *)
si_rmimage(i, ok) ==
    /\ Wipe(i, bound)
    /\ \/ ok /\ Remove(i, {"sis"} \cup Files(i, bound))
       \/ ~ok /\ Remove(i, Files(i, bound))
       \/ ~ok /\ UNCHANGED at

(* delete_image is followed by si_rmimage, as if there were only a record. *)
CleanUnknown(i, ok) ==
    /\ todo[i] = {"sis", "fs"}
    /\ delete_image(i, bound, ok)
    /\ todo' = [todo EXCEPT ![i] = {"sis"}]

CleanRecord(i, ok) ==
    /\ todo[i] = {"sis"}
    /\ si_rmimage(i, ok)
    /\ Done(i)

CleanDirectory(i, ok) ==
    /\ todo[i] = {"fs"}
    /\ Wipe(i, bound)
    /\ Remove(i, IF ok THEN Files(i, bound) ELSE {})
    /\ Done(i)

CleanODA(i, ok) ==
    /\ force
    /\ todo[i] = {"oda"}
    /\ delete_image_from_oda(i, ok)
    /\ Done(i)

(* The program dies when si_rmimage fails.                                 *)
CleanUnlisted(i, ok) ==
    /\ force
    /\ todo[i] = {"oda", "fs"}
    /\ si_rmimage(i, ok)
    /\ IF ok THEN Done(i) ELSE todo' = [j \in {} |-> {}]

Skip(i, ok) ==
    /\ \/ todo[i] = {"oda", "sis"}
       \/ ~force /\ "oda" \in todo[i]
    /\ ok /\ Done(i)
    /\ UNCHANGED store

CleanImage(i) ==
    /\ i \in DOMAIN todo
    /\ \E ok \in BOOLEAN :
        /\ \/ CleanUnknown(i, ok) \/ CleanRecord(i, ok)
           \/ CleanDirectory(i, ok) \/ CleanODA(i, ok)
           \/ CleanUnlisted(i, ok) \/ Skip(i, ok)
        /\ settled' = (settled /\ (ok \/ todo[i] = {"sis", "fs"}))
    /\ UNCHANGED <<mounts, builder, built, force, raced>>

CleanupKilled ==
    /\ DOMAIN todo # {}
    /\ todo' = [i \in {} |-> {}]
    /\ settled' = FALSE
    /\ UNCHANGED <<store, mounts, builder, built, force, raced>>

Cleanup == \/ \E f \in BOOLEAN : get_list_corrupted_images(f)
           \/ \E i \in Images : CleanImage(i)
           \/ CleanupKilled

-----------------------------------------------------------------------------
Reboot ==
    /\ Exit
    /\ todo' = [i \in {} |-> {}]
    /\ bound' = {} /\ leftbound' = {} /\ wiped' = {}
    /\ settled' = FALSE
    /\ UNCHANGED <<at, built, force, raced>>

Next == Build \/ Cleanup \/ Reboot

Spec == Init /\ [][Next]_vars

-----------------------------------------------------------------------------
Steps == {"mksiimage", "record", "oda", "disk", "setimage", "ssh", "bind",
          "scripts", "odapost", "mkautoinstall", "failed"}

Pictures == UNION {[S -> SUBSET Places] : S \in SUBSET Images}

BuilderOK ==
    /\ pc \in Steps \cup {"idle"}
    /\ img \in Images \cup {NoImage} /\ ((pc = "idle") <=> (img = NoImage))
    /\ deletes \in 0..3 /\ ((pc = "failed") <=> (deletes > 0))

(* The types; the builder has an image exactly while it builds one, and    *)
(* counts deletions exactly after a failure (do_post_image_creation,       *)
(* postimagebuild and add_image).                                          *)
TypeOK ==
    /\ at \in [Images -> SUBSET Places]
    /\ BuilderOK
    /\ todo \in Pictures
    /\ bound \in SUBSET Images /\ leftbound \in SUBSET bound
    /\ built \in SUBSET Images
    /\ raced \in SUBSET Images /\ wiped \in SUBSET Images
    /\ force \in BOOLEAN /\ settled \in BOOLEAN

(* build_oscar_image_cli's success means something and lasts: an image it  *)
(* has reported as built has its record in ODA, its record in SystemImager *)
(* and its directory until it is to be replaced, whatever fails and        *)
(* whatever is cleaned up, with or without --force-delete, unless the      *)
(* cleanup looked at the image while it was being built or could not list  *)
(* SystemImager's images.                                                  *)
BuiltStaysGood == built \ raced \subseteq Good

(* The head node's /dev, /proc, /sys, /run and /tmp survive: no operation  *)
(* deletes an image with them mounted in it (delete_image, si_rmimage and  *)
(* rm -rf), unless umount has failed or the builder was killed while they  *)
(* were, or the cleanup has a wrong picture of that image.                 *)
HostFilesSafe ==
    [][wiped' \subseteq wiped \cup leftbound' \cup raced']_vars

(* A cleanup with --force-delete that nothing disturbs and whose commands  *)
(* work leaves no image with a directory or a record of SystemImager that  *)
(* ODA does not know, and no directory SystemImager does not know          *)
(* (oscar_image_cleanup's cases).  What is left over is listed again.      *)
CleanupResolves ==
    settled /\ DOMAIN todo = {} =>
        \A i \in Images \ bound :
            at[i] \in {{}, Places, {"oda"}, {"oda", "sis"}}
=============================================================================
