----------------------------- MODULE WizardLock -----------------------------
(***************************************************************************)
(* The lock file of the OSCAR wizard (bin/oscar_wizard:148-209 and END):   *)
(* it is tested, read, removed and written in separate steps by every      *)
(* wizard that starts, and unlinked by every wizard that leaves.  "This is *)
(* certainly not foolproof", says the code: the properties say how far it  *)
(* can be trusted.                                                         *)
(*                                                                         *)
(* A wizard is known by its process id, which the kernel gives to another  *)
(* program, or to another wizard, once it is free.                         *)
(***************************************************************************)

CONSTANTS
    Pids,     \* the process ids
    NoFile,   \* no lock file
    Empty     \* a lock file with nothing in it

ASSUME ValuesAssumption == NoFile \notin Pids /\ Empty \notin Pids /\ NoFile # Empty

VARIABLES
    lockfile,  \* NoFile, Empty or the id in the file
    pc,        \* pc[p]: what process p is: "free", "other" for a program that
               \* is no wizard, or where the wizard p is
    read,      \* read[p]: the id that wizard p has read, or NoFile
    handles,   \* wizards with the present lock file open for writing
    raced,     \* history: two wizards were starting at the same time, and
               \* there was always a wizard since
    abandoned, \* history: a wizard ended without END since the last unlink
    died       \* history: the last wizard to come through its start died

lockVars == <<lockfile, pc, read, handles, raced, abandoned, died>>

Starting == {"test", "open", "check", "remove", "create", "write", "dying"}
Working == {"run", "leaving"}

LockTypeOK ==
    /\ lockfile \in Pids \cup {NoFile, Empty}
    /\ pc \in [Pids -> {"free", "other"} \cup Starting \cup Working]
    /\ read \in [Pids -> Pids \cup {NoFile}]
    /\ handles \subseteq {p \in Pids : pc[p] = "write"}
    /\ {raced, abandoned, died} \subseteq BOOLEAN
    /\ lockfile = NoFile => handles = {}
    /\ \A p \in Pids : pc[p] = "check" => read[p] \in Pids

LockInit ==
    /\ lockfile = NoFile
    /\ pc = [p \in Pids |-> "free"]
    /\ read = [p \in Pids |-> NoFile]
    /\ handles = {}
    /\ raced = FALSE /\ abandoned = FALSE /\ died = FALSE

-----------------------------------------------------------------------------
goto(p, label) == pc' = [pc EXCEPT ![p] = label]

(* Process p is a wizard no longer.                                        *)
gone(p) ==
    /\ pc' = [pc EXCEPT ![p] = "free"]
    /\ read' = [read EXCEPT ![p] = NoFile]
    /\ raced' = (raced /\ \E q \in Pids \ {p} : pc[q] \in Starting \cup Working)

(* unlink.  Who has the file open goes on writing to a file nobody sees.   *)
unlink ==
    /\ lockfile' = NoFile
    /\ handles' = {}
    /\ abandoned' = FALSE

Start(p) ==
    /\ pc[p] = "free"
    /\ goto(p, "test")
    /\ raced' = (raced \/ \E q \in Pids : pc[q] \in Starting)
    /\ UNCHANGED <<lockfile, read, handles, abandoned, died>>

(* -f $lockfile                                                            *)
test(p) ==
    /\ pc[p] = "test"
    /\ goto(p, IF lockfile = NoFile THEN "create" ELSE "open")
    /\ UNCHANGED <<lockfile, read, handles, raced, abandoned, died>>

(* Mutant: an id that cannot be read counts as one that can be tested.     *)
open_and_go_on(p) ==
    /\ pc[p] = "open"
    /\ read' = [read EXCEPT ![p] = IF lockfile \in Pids THEN lockfile ELSE NoFile]
    /\ goto(p, "check")
    /\ UNCHANGED <<lockfile, handles, raced, abandoned, died>>

(* open and read.  Nobody looks whether open succeeds; from a file that    *)
(* is gone or empty undef is read, and kill dies of it.                    *)
open(p) ==
    /\ pc[p] = "open"
    /\ IF lockfile \in Pids
       THEN /\ read' = [read EXCEPT ![p] = lockfile]
            /\ goto(p, "check")
            /\ UNCHANGED died
       ELSE /\ goto(p, "dying")
            /\ died' = TRUE
            /\ UNCHANGED read
    /\ UNCHANGED <<lockfile, handles, raced, abandoned>>

(* Mutant: a wizard that refuses to start unlinks the file as it leaves.   *)
check_without_undef(p) ==
    /\ pc[p] = "check"
    /\ goto(p, IF pc[read[p]] # "free" THEN "dying" ELSE "remove")
    /\ UNCHANGED <<lockfile, read, handles, raced, abandoned, died>>

(* kill 0, $pid.  Any process will do: the wizard refuses to start, and    *)
(* forgets the name of the file so that END leaves it alone.               *)
check(p) ==
    /\ pc[p] = "check"
    /\ IF pc[read[p]] # "free"
       THEN gone(p)
       ELSE goto(p, "remove") /\ UNCHANGED <<read, raced>>
    /\ UNCHANGED <<lockfile, handles, abandoned, died>>

remove(p) ==
    /\ pc[p] = "remove"
    /\ unlink
    /\ goto(p, "create")
    /\ UNCHANGED <<read, raced, died>>

(* open(LOCKFILE, ">$lockfile"): a file that is there is truncated.        *)
create(p) ==
    /\ pc[p] = "create"
    /\ lockfile' = Empty
    /\ handles' = handles \cup {p}
    /\ goto(p, "write")
    /\ UNCHANGED <<read, raced, abandoned, died>>

(* The id reaches the file when it is closed.  Over the id of another      *)
(* wizard it leaves the digits it does not cover.                          *)
write(p) ==
    /\ pc[p] = "write"
    /\ IF p \in handles
       THEN lockfile' \in (IF lockfile = Empty THEN {p} ELSE Pids)
       ELSE UNCHANGED lockfile
    /\ handles' = handles \ {p}
    /\ goto(p, "run")
    /\ died' = FALSE
    /\ UNCHANGED <<read, raced, abandoned>>

(* The button, or a check after the lock was taken that fails (lines       *)
(* 220-254).                                                               *)
PressQuit(p) ==
    /\ pc[p] = "run"
    /\ goto(p, "leaving")
    /\ UNCHANGED <<lockfile, read, handles, raced, abandoned, died>>

(* Mutant: the lock is removed by the button Quit and not when the program *)
(* dies.                                                                   *)
END_when_quitting(p) ==
    /\ pc[p] \in {"dying", "leaving"}
    /\ gone(p)
    /\ IF pc[p] = "leaving" THEN unlink ELSE UNCHANGED <<lockfile, handles, abandoned>>
    /\ UNCHANGED died

(* Mutant: END tests whether the id in the file is still its own, as the   *)
(* start does, but finds itself alive.                                     *)
END_if_dead(p) ==
    /\ pc[p] \in {"dying", "leaving"}
    /\ gone(p)
    /\ IF lockfile \in Pids THEN UNCHANGED <<lockfile, handles, abandoned>> ELSE unlink
    /\ UNCHANGED died

(* END unlinks the file, whoever wrote it.                                 *)
END(p) ==
    /\ pc[p] \in {"dying", "leaving"}
    /\ gone(p)
    /\ unlink
    /\ UNCHANGED died

(* A signal ends a wizard without END.                                     *)
Kill(p) ==
    /\ pc[p] \in Starting \cup Working
    /\ gone(p)
    /\ handles' = handles \ {p}
    /\ abandoned' = TRUE
    /\ died' = FALSE
    /\ UNCHANGED lockfile

(* The button "Restart" of the debug mode runs the program once more,      *)
(* without its argument: that one prints its usage and exits before it     *)
(* knows of the file.                                                      *)
Restart(p) ==
    /\ pc[p] = "run"
    /\ pc' = [pc EXCEPT ![p] = "other"]
    /\ read' = [read EXCEPT ![p] = NoFile]
    /\ raced' = (raced /\ \E q \in Pids \ {p} : pc[q] \in Starting \cup Working)
    /\ abandoned' = TRUE
    /\ UNCHANGED <<lockfile, handles, died>>

-----------------------------------------------------------------------------
(* Other programs come and go.  The user removes a lock file that names    *)
(* one of them, as the message of check asks.                              *)
Other(p) ==
    /\ \/ pc[p] = "free" /\ goto(p, "other")
       \/ pc[p] = "other" /\ goto(p, "free")
    /\ UNCHANGED <<lockfile, read, handles, raced, abandoned, died>>

RemoveByHand ==
    /\ lockfile \in Pids
    /\ pc[lockfile] = "other"
    /\ unlink
    /\ UNCHANGED <<pc, read, raced, died>>

LockNext ==
    \/ \E p \in Pids :
         \/ Start(p) \/ test(p) \/ open(p) \/ check(p) \/ remove(p)
         \/ create(p) \/ write(p) \/ PressQuit(p) \/ END(p)
         \/ Kill(p) \/ Restart(p) \/ Other(p)
    \/ RemoveByHand

LockSpec == LockInit /\ [][LockNext]_lockVars

-----------------------------------------------------------------------------
(* Two wizards work at the same time only if two of them were starting at  *)
(* the same time: kills, reused ids, a lock that names another program and *)
(* wizards that die of an unreadable lock are not enough (oscar_wizard:    *)
(* 180-181, "good enough").                                                *)
AloneUnlessRaced ==
    \A p, q \in Pids : p # q /\ pc[p] \in Working /\ pc[q] \in Working => raced

(* However wizards race, the last one to leave takes the lock with it,     *)
(* unless one was ended without END since the file was made                *)
(* (oscar_wizard:171-174).                                                 *)
LeftoversAreAbandoned ==
    lockfile # NoFile /\ (\A p \in Pids : pc[p] \notin Starting \cup Working)
        => abandoned

(* A lock that nothing can be read from stops one wizard, which removes it *)
(* by dying, and not the next (oscar_wizard:183-191).                      *)
DiesOnce ==
    [][\A p \in Pids : pc'[p] = "dying" /\ pc[p] = "open" /\ died => raced]_lockVars
=============================================================================
