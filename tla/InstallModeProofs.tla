------------------------- MODULE InstallModeProofs -------------------------
(* Proofs about the installation mode: it is a TransportSwitch.            *)
EXTENDS InstallMode, TLAPS

LEMMA InitType == Init => TypeOK
  BY DEF Init, TypeOK, install_mode_options

LEMMA NextType == TypeOK /\ [Next]_vars => TypeOK'
<1> SUFFICES ASSUME TypeOK, [Next]_vars PROVE TypeOK'
  OBVIOUS
<1> USE DEF TypeOK, Phases
<1>1. CASE Open \/ Close \/ Enable
  BY <1>1 DEF Open, Close, Enable, services, session
<1>2. CASE \E m \in install_mode_options : Select(m)
  BY <1>2 DEF Select, services
<1>3. CASE Stop
  BY <1>3 DEF Stop, Continue, Fail, session
<1>4. CASE Disable
  BY <1>4 DEF Disable, Continue, Fail, session
<1>5. CASE RestartRsync
  BY <1>5 DEF RestartRsync, Restart, Continue, Fail, session
<1>6. CASE Start
  BY <1>6 DEF Start, Restart, Carrier, Daemons, Continue, Fail, session
<1>7. CASE EnableAtBoot
  BY <1>7 DEF EnableAtBoot, Carrier, Daemons, Continue, Fail, session
<1>8. CASE Record
  BY <1>8 DEF Record, Succeed, services
<1>9. CASE Kill \/ Reboot
  BY <1>9 DEF Kill, Reboot, services
<1>10. CASE UNCHANGED vars
  BY <1>10 DEF vars, services, session
<1> QED
  BY <1>1, <1>2, <1>3, <1>4, <1>5, <1>6, <1>7, <1>8, <1>9, <1>10 DEF Next

(* The types of the state; only a session that can run commands runs them. *)
THEOREM TypeCorrect == Spec => []TypeOK
  BY InitType, NextType, PTL DEF Spec

-----------------------------------------------------------------------------
(* The head node serves m, and nothing else, now and after a reboot.       *)
Serves(m) == /\ running \cap Daemons = Carrier(m) \cap installed
             /\ enabled \cap Daemons = Carrier(m) \cap installed
             /\ m = Rsync => "rsync" \in running /\ "rsync" \in enabled

(* What the commands already run have established, at each next command.   *)
Progress ==
    /\ phase # "idle" => ~settled
    /\ phase \in Phases \ {"stop"} => running \cap Others(install_mode) = {}
    /\ phase \in Phases \ {"stop", "disable"}
         => enabled \cap Others(install_mode) = {}
    /\ phase \in {"start", "enable"} =>
         /\ install_mode = Rsync => phase = "enable" /\ "rsync" \in running
         /\ Carrier(install_mode) \subseteq installed
    /\ phase = "enable" => Carrier(install_mode) \subseteq running
    /\ phase = "record" => Serves(install_mode)

ModeInv == /\ (running \cup enabled) \cap Daemons \subseteq installed
           /\ OneTransport
           /\ settled => Serves(recorded)
           /\ Progress

LEMMA CarrierIsOne ==
    ASSUME NEW m \in install_mode_options
    PROVE  /\ Carrier(m) \subseteq Daemons
           /\ \A s, t \in Carrier(m) : s = t
           /\ m = Rsync <=> Carrier(m) = {}
           /\ "rsync" \notin Daemons
  BY DEF Carrier, Daemons, install_mode_options, Rsync, Multicast, BitTorrent

LEMMA InitMode == Init => ModeInv
  BY DEF Init, ModeInv, Progress, OneTransport, Phases, Daemons

LEMMA NextMode == TypeOK /\ ModeInv /\ [Next]_vars => ModeInv'
<1> SUFFICES ASSUME TypeOK, ModeInv, [Next]_vars PROVE ModeInv'
  OBVIOUS
<1>0. /\ install_mode \in install_mode_options
      /\ recorded \in install_mode_options
      /\ phase # "idle" => phase \in Phases
  BY DEF TypeOK
<1> USE DEF ModeInv, OneTransport, Progress, Serves, Phases
<1>1. CASE Open \/ Close \/ Enable
  <2>1. phase = "idle"
    BY <1>1 DEF Open, Close, Enable, TypeOK
  <2> QED
    BY <1>1, <2>1 DEF Open, Close, Enable, services, session
<1>2. CASE \E m \in install_mode_options : Select(m)
  BY <1>2 DEF Select, services
<1>3. CASE Stop
  <2>1. /\ running' \subseteq running /\ enabled' = enabled
        /\ installed' = installed /\ ~settled' /\ install_mode' = install_mode
    BY <1>3 DEF Stop, Continue, Fail, session
  <2>2. \/ phase' = "idle"
        \/ phase' = "disable" /\ running' \cap Others(install_mode) = {}
    BY <1>3 DEF Stop, Continue, Fail
  <2> QED
    BY <2>1, <2>2
<1>4. CASE Disable
  <2>1. /\ enabled' \subseteq enabled /\ running' = running
        /\ installed' = installed /\ ~settled' /\ install_mode' = install_mode
        /\ running \cap Others(install_mode) = {}
    BY <1>4 DEF Disable, Continue, Fail, session
  <2>2. \/ phase' = "idle"
        \/ phase' = "rsync" /\ enabled' \cap Others(install_mode) = {}
    BY <1>4 DEF Disable, Continue, Fail
  <2> QED
    BY <2>1, <2>2
<1>5. CASE RestartRsync
  <2>1. /\ running' \cap Daemons = running \cap Daemons /\ enabled' = enabled
        /\ installed' = installed /\ ~settled' /\ install_mode' = install_mode
        /\ running \cap Others(install_mode) = {}
        /\ enabled \cap Others(install_mode) = {}
    BY <1>5 DEF RestartRsync, Restart, Continue, Fail, session, Daemons
  <2>2. running' \cap Others(install_mode) = {}
    BY <2>1 DEF Others
  <2>3. \/ phase' = "idle"
        \/ /\ phase' = "enable" /\ install_mode = Rsync
           /\ "rsync" \in running'
        \/ /\ phase' = "start" /\ install_mode # Rsync
           /\ Carrier(install_mode) \subseteq installed
        \/ /\ phase' = "record" /\ install_mode # Rsync
           /\ ~(Carrier(install_mode) \subseteq installed)
    BY <1>5 DEF RestartRsync, Restart, Continue, Fail
  <2>4. ASSUME ~(Carrier(install_mode) \subseteq installed)
        PROVE  /\ running' \cap Daemons = Carrier(install_mode) \cap installed
               /\ enabled \cap Daemons = Carrier(install_mode) \cap installed
    BY <1>0, <2>1, <2>2, <2>4, CarrierIsOne DEF Others
  <2> QED
    BY <1>0, <2>1, <2>2, <2>3, <2>4, CarrierIsOne
<1>6. CASE Start
  <2>1. /\ running \cap Others(install_mode) = {}
        /\ enabled \cap Others(install_mode) = {}
        /\ Carrier(install_mode) \subseteq installed
        /\ install_mode # Rsync
        /\ enabled' = enabled /\ installed' = installed
        /\ ~settled' /\ install_mode' = install_mode
    BY <1>6 DEF Start, Restart, Continue, Fail, session
  <2>2. CASE phase' = "idle" /\ running' \subseteq running
    BY <2>1, <2>2
  <2>3. CASE /\ phase' = "enable"
             /\ \E d \in Carrier(install_mode) : running' = running \cup {d}
    BY <1>0, <2>1, <2>3, CarrierIsOne DEF Others
  <2> QED
    BY <1>6, <2>2, <2>3 DEF Start, Restart, Continue, Fail
<1>7. CASE EnableAtBoot
  <2>1. /\ running \cap Others(install_mode) = {}
        /\ enabled \cap Others(install_mode) = {}
        /\ Carrier(install_mode) \subseteq installed
        /\ Carrier(install_mode) \subseteq running
        /\ install_mode = Rsync => "rsync" \in running
        /\ running' = running /\ installed' = installed
        /\ ~settled' /\ install_mode' = install_mode
    BY <1>7 DEF EnableAtBoot, Continue, Fail, session
  <2>2. CASE phase' = "idle" /\ enabled' = enabled
    BY <2>1, <2>2
  <2>3. CASE /\ phase' = "record"
             /\ enabled' = enabled \cup (IF install_mode = Rsync THEN {"rsync"}
                                         ELSE Carrier(install_mode))
    <3>1. /\ running \cap Daemons = Carrier(install_mode) \cap installed
          /\ enabled' \cap Daemons = Carrier(install_mode) \cap installed
      BY <1>0, <2>1, <2>3, CarrierIsOne DEF Others
    <3>2. install_mode = Rsync => "rsync" \in running /\ "rsync" \in enabled'
      BY <2>1, <2>3
    <3>3. enabled' \cap Others(install_mode) = {}
      BY <1>0, <2>1, <2>3, CarrierIsOne DEF Others
    <3>4. OneTransport'
      BY <1>0, <2>1, <3>1, CarrierIsOne
    <3> QED
      BY <2>1, <2>3, <3>1, <3>2, <3>3, <3>4
  <2> QED
    BY <1>7, <2>2, <2>3 DEF EnableAtBoot, Continue, Fail
<1>8. CASE Record
  BY <1>8 DEF Record, Succeed, services
<1>9. CASE Kill
  BY <1>9 DEF Kill, services
<1>10. CASE Reboot
  BY <1>10 DEF Reboot
<1>11. CASE UNCHANGED vars
  BY <1>11 DEF vars, services, session
<1> QED
  BY <1>1, <1>2, <1>3, <1>4, <1>5, <1>6, <1>7, <1>8, <1>9, <1>10, <1>11
     DEF Next

LEMMA ModeInvariant == Spec => []ModeInv
  BY InitType, NextType, InitMode, NextMode, PTL DEF Spec

(* Flamethrower and BitTorrent never serve side by side.                   *)
THEOREM NeverTwoTransports == Spec => []OneTransport
<1>1. ModeInv => OneTransport
  BY DEF ModeInv
<1> QED
  BY <1>1, ModeInvariant, PTL

(* A mode that was recorded is served until somebody changes it.           *)
THEOREM RecordedStaysServed == Spec => []RecordedIsServed
<1>1. ModeInv => RecordedIsServed
  BY DEF ModeInv, Serves, RecordedIsServed
<1> QED
  BY <1>1, ModeInvariant, PTL

-----------------------------------------------------------------------------
LEMMA InitMaps == Init => Switch!Init
  BY DEF Init, Switch!Init, install_mode_options, Daemons

LEMMA NextMaps ==
    TypeOK /\ ModeInv /\ [Next]_vars => [Switch!Next]_Switch!vars
<1> SUFFICES ASSUME TypeOK, ModeInv, [Next]_vars
             PROVE  [Switch!Next]_Switch!vars
  OBVIOUS
<1>0. install_mode \in install_mode_options
  BY DEF TypeOK
<1>1. CASE \/ Open \/ Close \/ Kill
           \/ \E m \in install_mode_options : Select(m)
  BY <1>1 DEF Open, Close, Kill, Select, services, Switch!vars
<1>2. CASE Enable
  <2>1. Switch!Touch
    BY <1>2 DEF Enable, services, Switch!Touch
  <2> QED
    BY <2>1 DEF Switch!Next
<1>3. CASE Stop \/ Disable
  <2>1. Switch!Withdraw
    BY <1>3 DEF Stop, Disable, ModeInv, Progress, Switch!Withdraw
  <2> QED
    BY <2>1 DEF Switch!Next
<1>4. CASE RestartRsync
  <2>1. running' \cap Daemons = running \cap Daemons
    BY <1>4 DEF RestartRsync, Restart, Daemons
  <2> QED
    BY <1>4, <2>1 DEF RestartRsync, Switch!vars
<1>5. CASE Start
  <2>1. CASE running' \subseteq running
    <3>1. Switch!Withdraw
      BY <1>5, <2>1 DEF Start, ModeInv, Progress, Switch!Withdraw
    <3> QED
      BY <3>1 DEF Switch!Next
  <2>2. CASE \E d \in Carrier(install_mode) : running' = running \cup {d}
    <3>1. PICK d \in Carrier(install_mode) : running' = running \cup {d}
      BY <2>2
    <3>2. Carrier(install_mode) = {d} /\ d \in Daemons
      BY <1>0, CarrierIsOne
    <3>3. (running \cup enabled) \cap Daemons \subseteq {d}
      BY <1>5, <3>2 DEF Start, ModeInv, Progress, Phases, Others
    <3>4. Switch!Deliver(d)
      BY <1>5, <3>1, <3>2, <3>3
         DEF Start, ModeInv, Progress, Switch!Deliver
    <3> QED
      BY <3>2, <3>4 DEF Switch!Next
  <2> QED
    BY <1>5, <2>1, <2>2 DEF Start, Restart
<1>6. CASE EnableAtBoot
  <2>1. CASE enabled' \cap Daemons = enabled \cap Daemons
    BY <1>6, <2>1 DEF EnableAtBoot, Switch!vars
  <2>2. CASE enabled' = enabled \cup Carrier(install_mode)
             /\ Carrier(install_mode) # {}
    <3>1. PICK d : d \in Carrier(install_mode)
      BY <2>2
    <3>2. Carrier(install_mode) = {d} /\ d \in Daemons
      BY <1>0, <3>1, CarrierIsOne
    <3>3. /\ running \cap Daemons = {d} /\ enabled \cap Daemons \subseteq {d}
          /\ ~settled
      BY <1>6, <3>2 DEF EnableAtBoot, ModeInv, Progress, Phases, Others
    <3>4. enabled' \cap Daemons = {d}
      BY <2>2, <3>2, <3>3
    <3>5. Switch!Deliver(d)
      BY <1>6, <3>3, <3>4 DEF EnableAtBoot, Switch!Deliver
    <3> QED
      BY <3>2, <3>5 DEF Switch!Next
  <2> QED
    BY <1>0, <1>6, <2>1, <2>2, CarrierIsOne DEF EnableAtBoot
<1>7. CASE Record
  <2>1. CASE recorded' = install_mode /\ settled' = TRUE
    <3>1. Switch!Adopt(install_mode)
      BY <1>7, <2>1 DEF Record, services, ModeInv, Progress, Serves,
                        Switch!Adopt
    <3> QED
      BY <1>0, <3>1 DEF Switch!Next
  <2>2. CASE UNCHANGED <<recorded, settled>>
    BY <1>7, <2>2 DEF Record, services, Switch!vars
  <2> QED
    BY <1>7, <2>1, <2>2 DEF Record
<1>8. CASE Reboot
  <2>1. Switch!Reboot
    BY <1>8 DEF Reboot, Switch!Reboot
  <2> QED
    BY <2>1 DEF Switch!Next
<1>9. CASE UNCHANGED vars
  BY <1>9 DEF vars, services, Switch!vars
<1> QED
  BY <1>1, <1>2, <1>3, <1>4, <1>5, <1>6, <1>7, <1>8, <1>9 DEF Next

(* Every behaviour of the code is one of the abstract switch.              *)
THEOREM InstallModeIsASwitch == Spec => ImplementsSwitch
<1>1. Spec => [](TypeOK /\ ModeInv)
  BY TypeCorrect, ModeInvariant, PTL
<1> QED
  BY <1>1, InitMaps, NextMaps, PTL DEF Spec, ImplementsSwitch, Switch!Spec

(* What the abstract switch promises, it keeps: one transport, and the     *)
(* recorded mode served from the start of the head node on.                *)
THEOREM SwitchKeepsItsPromise ==
    Switch!Spec => [](Switch!OneTransport /\ Switch!ModeIsServed)
<1> DEFINE Promise == Switch!OneTransport /\ Switch!ModeIsServed
<1>1. Switch!Init => Promise
  BY DEF Switch!Init, Switch!OneTransport, Switch!ModeIsServed
<1>2. Promise /\ [Switch!Next]_Switch!vars => Promise'
  <2> USE DEF Switch!OneTransport, Switch!ModeIsServed
  <2> SUFFICES ASSUME Promise, [Switch!Next]_Switch!vars PROVE Promise'
    OBVIOUS
  <2>1. CASE Switch!Touch \/ Switch!Withdraw \/ Switch!Reboot
    BY <2>1 DEF Switch!Touch, Switch!Withdraw, Switch!Reboot
  <2>2. CASE \E t \in Daemons : Switch!Deliver(t)
    BY <2>2 DEF Switch!Deliver
  <2>3. CASE \E m \in install_mode_options : Switch!Adopt(m)
    BY <2>3 DEF Switch!Adopt
  <2>4. CASE UNCHANGED Switch!vars
    BY <2>4 DEF Switch!vars
  <2> QED
    BY <2>1, <2>2, <2>3, <2>4 DEF Switch!Next
<1> QED
  BY <1>1, <1>2, PTL DEF Switch!Spec
=============================================================================
