---------------------------- MODULE InstallMode ----------------------------
(***************************************************************************)
(* "Enable Install Mode" (__enable_install_mode in lib/OSCAR/MAC.pm and    *)
(* its callers in GUI_MAC.pm and CLI_MAC.pm): over which daemon of         *)
(* SystemImager the client nodes are installed.  The head node's daemons   *)
(* are stopped, disabled, restarted and enabled one after the other        *)
(* (SystemServices.pm), every command may fail and nothing is undone; the  *)
(* mode is recorded in ODA at the end.                                     *)
(***************************************************************************)

Rsync == "systemimager-rsync"
Multicast == "systemimager-multicast"
BitTorrent == "systemimager-bt"
install_mode_options == {Rsync, Multicast, BitTorrent}

Daemons == {"flamethrower", "bittorrent"}      \* and "rsync", always there
Carrier(m) == IF m = Multicast THEN {"flamethrower"}
              ELSE IF m = BitTorrent THEN {"bittorrent"} ELSE {}
Others(m) == Daemons \ Carrier(m)

VARIABLES
    installed,      \* the Daemons whose packages the head node has
    running,        \* the daemons that run
    enabled,        \* the daemons that start with the head node
    recorded,       \* the mode in ODA
    install_mode,   \* the mode that is selected in the session
    ui,             \* "none", "gui", "busy" (the window takes no input), "cli"
    phase,          \* the next command of __enable_install_mode, or "idle"
    dhcpbtn,        \* TRUE iff the session offers to configure dhcpd
    settled         \* history: the last attempt of all enabled its mode

services == <<running, enabled>>
session == <<install_mode, ui, dhcpbtn>>
vars == <<installed, services, recorded, session, phase, settled>>

Phases == {"stop", "disable", "rsync", "start", "enable", "record"}

(* server-post-install records the default; it dies before it starts and   *)
(* enables rsyncd, which the packages may do.                              *)
Init == /\ installed \in SUBSET Daemons
        /\ running \in SUBSET {"rsync"} /\ enabled \in SUBSET {"rsync"}
        /\ recorded = Rsync
        /\ install_mode = Rsync
        /\ ui = "none"
        /\ phase = "idle"
        /\ dhcpbtn = FALSE
        /\ settled = FALSE

-----------------------------------------------------------------------------
Open ==
    /\ ui = "none"
    /\ ui' \in {"gui", "cli"}
    /\ install_mode' = recorded
    /\ dhcpbtn' = FALSE
    /\ UNCHANGED <<installed, services, recorded, phase, settled>>

Select(m) ==
    /\ ui \in {"gui", "cli"}
    /\ phase = "idle"
    /\ install_mode' = m
    /\ UNCHANGED <<installed, services, recorded, ui, dhcpbtn, phase, settled>>

Close ==
    /\ ui # "none"
    /\ phase = "idle"
    /\ ui' = "none"
    /\ UNCHANGED <<installed, services, recorded, install_mode, dhcpbtn,
                   phase, settled>>

(* Mutant: the mode is recorded before it is enabled.                      *)
Enable_recording_first ==
    /\ ui \in {"gui", "cli"}
    /\ phase = "idle"
    /\ phase' = "stop"
    /\ settled' = FALSE
    /\ recorded' = install_mode
    /\ UNCHANGED <<installed, services, session>>

Enable ==
    /\ ui \in {"gui", "cli"}
    /\ phase = "idle"
    /\ phase' = "stop"
    /\ settled' = FALSE
    /\ UNCHANGED <<installed, services, recorded, session>>

-----------------------------------------------------------------------------
(* An attempt ends.  The graphical window stays busy when it has failed;   *)
(* the command-line menu takes 1, success, for an error and leaves, and 0  *)
(* for success.                                                            *)
Succeed == /\ phase' = "idle"
           /\ IF ui = "gui" THEN dhcpbtn' = TRUE /\ ui' = ui
                            ELSE dhcpbtn' = dhcpbtn /\ ui' = "none"
           /\ UNCHANGED install_mode

Fail == /\ phase' = "idle"
        /\ IF ui = "gui" THEN dhcpbtn' = dhcpbtn /\ ui' = "busy"
                         ELSE dhcpbtn' = TRUE /\ ui' = ui
        /\ UNCHANGED install_mode

Continue(next) == phase' = next /\ UNCHANGED session

Stop ==
    LET others == Others(install_mode)
    IN  /\ phase = "stop"
        /\ \/ /\ others \subseteq installed
              /\ running' = running \ others
              /\ Continue("disable")
           \/ \E stopped \in SUBSET (others \cap installed) :
                 /\ "bittorrent" \in stopped
                      => "flamethrower" \notin others \ stopped
                 /\ running' = running \ stopped
                 /\ Fail
        /\ UNCHANGED <<installed, enabled, recorded, settled>>

(* Mutant: daemons are stopped but stay enabled.                           *)
Disable_nothing ==
    /\ phase = "disable"
    /\ \/ Continue("rsync")
       \/ Fail
    /\ UNCHANGED <<installed, services, recorded, settled>>

(* All of them are tried; one that stays enabled fails the attempt.        *)
Disable ==
    LET others == Others(install_mode)
    IN  /\ phase = "disable"
        /\ \E left \in SUBSET others :
              /\ enabled' = enabled \ (others \ left)
              /\ IF left = {} THEN Continue("rsync") ELSE Fail
        /\ UNCHANGED <<installed, running, recorded, settled>>

(* A daemon that does not restart may be stopped.                          *)
Restart(d, next) ==
    \/ running' = running \cup {d} /\ Continue(next)
    \/ running' \in {running, running \ {d}} /\ Fail

RestartRsync ==
    /\ phase = "rsync"
    /\ Restart("rsync",
               IF install_mode = Rsync THEN "enable"
               ELSE IF Carrier(install_mode) \subseteq installed THEN "start"
               ELSE "record")       \* no configuration file: nothing to do
    /\ UNCHANGED <<installed, enabled, recorded, settled>>

(* After the daemon's configuration file, which is backed up and edited.   *)
Start ==
    /\ phase = "start"
    /\ \/ \E d \in Carrier(install_mode) : Restart(d, "enable")
       \/ running' = running /\ Fail
    /\ UNCHANGED <<installed, enabled, recorded, settled>>

(* Mutant: the daemon is not enabled.                                      *)
EnableAtBoot_forgotten ==
    /\ phase = "enable"
    /\ Continue("record")
    /\ UNCHANGED <<installed, services, recorded, settled>>

EnableAtBoot ==
    /\ phase = "enable"
    /\ \/ /\ enabled' = enabled \cup (IF install_mode = Rsync THEN {"rsync"}
                                      ELSE Carrier(install_mode))
          /\ Continue("record")
       \/ enabled' = enabled /\ Fail
    /\ UNCHANGED <<installed, running, recorded, settled>>

(* What set_install_mode returns is not looked at.                         *)
Record ==
    /\ phase = "record"
    /\ \/ recorded' = install_mode /\ settled' = TRUE
       \/ UNCHANGED <<recorded, settled>>
    /\ Succeed
    /\ UNCHANGED <<installed, services>>

-----------------------------------------------------------------------------
(* The wizard is killed, between any two commands.                         *)
Kill ==
    /\ ui # "none"
    /\ ui' = "none"
    /\ phase' = "idle"
    /\ UNCHANGED <<installed, services, recorded, install_mode, dhcpbtn,
                   settled>>

Reboot ==
    /\ running' = enabled
    /\ ui' = "none"
    /\ phase' = "idle"
    /\ UNCHANGED <<installed, enabled, recorded, install_mode, dhcpbtn,
                   settled>>

Next == \/ Open \/ Close \/ Enable
        \/ \E m \in install_mode_options : Select(m)
        \/ Stop \/ Disable \/ RestartRsync \/ Start \/ EnableAtBoot \/ Record
        \/ Kill \/ Reboot

Spec == Init /\ [][Next]_vars

-----------------------------------------------------------------------------
(* Types, and that commands run only in a session that can run them.       *)
TypeOK == /\ installed \subseteq Daemons
          /\ running \subseteq Daemons \cup {"rsync"}
          /\ enabled \subseteq Daemons \cup {"rsync"}
          /\ recorded \in install_mode_options
          /\ install_mode \in install_mode_options
          /\ ui \in {"none", "gui", "busy", "cli"}
          /\ phase \in Phases \cup {"idle"}
          /\ phase # "idle" => ui \in {"gui", "cli"}
          /\ dhcpbtn \in BOOLEAN
          /\ settled \in BOOLEAN

(* The two daemons never run together and never would after a reboot,      *)
(* however many attempts were broken off at whatever command.              *)
OneTransport ==
    \A s, t \in (running \cup enabled) \cap Daemons : s = t

(* While the last attempt is one that recorded its mode, the head node     *)
(* serves that mode, as far as it is installed, whatever was selected,     *)
(* closed, killed or rebooted since; a broken attempt may leave it with    *)
(* none, but not with another one than it says.                            *)
RecordedIsServed ==
    settled => /\ running \cap Daemons = Carrier(recorded) \cap installed
               /\ recorded = Rsync => "rsync" \in running

(* The installation modes as their user sees them.                         *)
Switch == INSTANCE TransportSwitch WITH
            Modes <- install_mode_options,
            Transports <- Daemons,
            available <- installed,
            mode <- recorded,
            delivering <- running \cap Daemons,
            atBoot <- enabled \cap Daemons,
            untouched <- settled

(* Every step of the code is one that the user's view allows.              *)
ImplementsSwitch == Switch!Spec
=============================================================================
