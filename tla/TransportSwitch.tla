-------------------------- MODULE TransportSwitch --------------------------
(***************************************************************************)
(* What the installation mode of a cluster promises: client nodes are      *)
(* installed over at most one transport at any time, and over the          *)
(* one of the recorded mode for as long as nobody touches the mode, the    *)
(* head node's reboots included.  InstallMode is shown to implement it.    *)
(***************************************************************************)

CONSTANTS
    Modes,        \* the installation modes
    Transports,   \* the daemons that deliver images beside rsync
    Carrier(_)    \* the transports a mode needs: one of them, or none

VARIABLES
    available,    \* the transports that are installed
    mode,         \* the recorded mode
    delivering,   \* the transports that run
    atBoot,       \* the transports that start with the head node
    untouched     \* TRUE from the adoption of a mode to the next change

vars == <<available, mode, delivering, atBoot, untouched>>

Init == /\ available \subseteq Transports
        /\ mode \in Modes
        /\ delivering = {} /\ atBoot = {}
        /\ untouched = FALSE

(* Somebody starts to change the mode.                                     *)
Touch == /\ untouched' = FALSE
         /\ UNCHANGED <<available, mode, delivering, atBoot>>

Withdraw == /\ ~untouched
            /\ delivering' \subseteq delivering
            /\ atBoot' \subseteq atBoot
            /\ UNCHANGED <<available, mode, untouched>>

(* Only once no other transport runs or would run after a reboot.          *)
Deliver(t) == /\ ~untouched
              /\ delivering \cup atBoot \subseteq {t}
              /\ delivering' = {t}
              /\ atBoot' \in {atBoot, {t}}
              /\ UNCHANGED <<available, mode, untouched>>

Adopt(m) == /\ ~untouched
            /\ delivering = Carrier(m) \cap available
            /\ atBoot = Carrier(m) \cap available
            /\ mode' = m
            /\ untouched' = TRUE
            /\ UNCHANGED <<available, delivering, atBoot>>

Reboot == /\ delivering' = atBoot
          /\ UNCHANGED <<available, mode, atBoot, untouched>>

Next == \/ Touch \/ Withdraw \/ Reboot
        \/ \E t \in Transports : Deliver(t)
        \/ \E m \in Modes : Adopt(m)

Spec == Init /\ [][Next]_vars

-----------------------------------------------------------------------------
(* At most one transport runs or would run after a reboot.                 *)
OneTransport == \A s, t \in delivering \cup atBoot : s = t

(* The recorded mode is the one that is served, and stays it.              *)
ModeIsServed == untouched => /\ delivering = Carrier(mode) \cap available
                             /\ atBoot = delivering
=============================================================================
