------------------------------ MODULE NodeMgmt ------------------------------
(***************************************************************************)
(* The node management window (src/NodeMgmt): addresses that are heard by  *)
(* mac_collector, read from a file or typed go to the list of unassigned   *)
(* ones, and from there to the strays or to the nodes the window defines.  *)
(* ODA is told of every node.  The settings of the next node are in a      *)
(* dialog that blocks nothing.  ODA, Qt and mac_collector are external.    *)
(*                                                                         *)
(* A node is named by its number: the prefix and the padding stay as they  *)
(* are.  The window is opened once, on an ODA without nodes.               *)
(***************************************************************************)
EXTENDS Naturals, Sequences, FiniteSets, SequencesExt

CONSTANTS
    Macs,       \* the addresses
    One,        \* the text "1", which importmanualmac_clicked makes of one
    Blank,      \* the empty text
    SampleMacs, \* those the window starts with, in the two lists
    SampleStray,
    MaxNodes,   \* bound: the nodes that are defined
    MaxNumber,  \* bound: the numbers that are typed
    MaxEdits,   \* bound: how often
    MaxHeard,   \* bound: lines of mac_collector not yet looked at
    MaxOnes     \* bound: items that come from a typed address

ASSUME EntriesAssumption == One \notin Macs /\ Blank \notin Macs \cup {One}
ASSUME SamplesAssumption ==
    /\ SampleMacs \in Seq(Macs) /\ SampleStray \in Seq(Macs)
    /\ IsInjective(SampleMacs) /\ IsInjective(SampleStray)
    /\ ToSet(SampleMacs) \cap ToSet(SampleStray) = {}
ASSUME BoundsAssumption == {MaxNodes, MaxNumber, MaxEdits, MaxHeard, MaxOnes} \subseteq Nat

Entries == Macs \cup {One}
Settings == [num : Nat, ip : Nat]  \* startingnum, the last byte of startingip

VARIABLES
    othermacs, straymacs, \* the two lists
    nodeTable, \* the rows; $nodes is their number
    usedmacs,
    oda,       \* external: the address of each node in ODA
    macs,      \* @macs: lines of mac_collector not yet looked at
    collecting, \* TRUE iff macprocessTimer runs, and "Stop" is enabled
    mac_collectorProcess,
    settingsDialog, \* TRUE iff it is shown
    texts, undo, \* what it says, and what it goes back to
    edits,     \* the counter of MaxEdits
    open,
    cleared,   \* history: the user has cleared the unassigned addresses
    renumbered \* history: a number or IP that was typed has been accepted

lists == <<othermacs, straymacs>>
nodes == <<nodeTable, oda>>
collector == <<macs, collecting, mac_collectorProcess>>
settings == <<settingsDialog, texts, undo, edits, renumbered>>
mgmtVars == <<lists, nodes, usedmacs, collector, settings, open, cleared>>

(* How often an entry is in the lists and the table.                       *)
Places(mac) ==
      Cardinality({i \in DOMAIN othermacs : othermacs[i] = mac})
    + Cardinality({i \in DOMAIN straymacs : straymacs[i] = mac})
    + Cardinality({i \in DOMAIN nodeTable : nodeTable[i].mac = mac})

MgmtTypeOK ==
    /\ othermacs \in Seq(Entries) /\ straymacs \in Seq(Entries)
    /\ nodeTable \in Seq([num : Nat, ip : Nat, mac : Entries \cup {Blank}])
    /\ usedmacs \subseteq Entries
    /\ \A name \in DOMAIN oda : name \in Nat /\ oda[name] \in Entries \cup {Blank}
    /\ macs \in Seq(Macs)
    /\ {collecting, settingsDialog, open, cleared, renumbered} \subseteq BOOLEAN
    /\ mac_collectorProcess \in {"idle", "running", "killed"}
    /\ texts \in Settings /\ undo \in Settings /\ edits \in 0..MaxEdits
    /\ collecting => mac_collectorProcess # "idle"
    /\ mac_collectorProcess = "running" /\ open => collecting

MgmtInit ==
    /\ othermacs = SampleMacs /\ straymacs = SampleStray
    /\ nodeTable = <<>> /\ oda = [name \in {} |-> Blank]
    /\ usedmacs = ToSet(SampleMacs) \cup ToSet(SampleStray)
    /\ macs = <<>> /\ collecting = FALSE /\ mac_collectorProcess = "idle"
    /\ settingsDialog = FALSE
    /\ texts = [num |-> 1, ip |-> 1] /\ undo = [num |-> 1, ip |-> 1]
    /\ edits = 0 /\ open = TRUE
    /\ cleared = FALSE /\ renumbered = FALSE

-----------------------------------------------------------------------------
(* The members of a set of positions, in their order.                     *)
inOrder(S) ==
    {at \in [1..Cardinality(S) -> S] : \A i, j \in DOMAIN at : i < j => at[i] < at[j]}

(* The lines that are not used yet, each once, at the end of the list.     *)
insertUnused(lines) ==
    LET first == {k \in DOMAIN lines : /\ lines[k] \notin usedmacs
                                      /\ \A j \in 1..(k - 1) : lines[j] # lines[k]}
    IN /\ \E at \in inOrder(first) :
             othermacs' = othermacs \o [i \in DOMAIN at |-> lines[at[i]]]
       /\ usedmacs' = usedmacs \cup ToSet(lines)

(* Mutant: the lines of a collection that was stopped are thrown away.     *)
startnetcollection_afresh ==
    /\ open /\ ~collecting
    /\ collecting' = TRUE
    /\ mac_collectorProcess' = "running"
    /\ macs' = <<>>
    /\ UNCHANGED <<lists, nodes, usedmacs, settings, open, cleared>>

(* A process that still ends is forgotten.  When start() fails nothing     *)
(* happens.                                                                *)
startnetcollection ==
    /\ open /\ ~collecting
    /\ collecting' = TRUE
    /\ mac_collectorProcess' = "running"
    /\ UNCHANGED <<lists, nodes, usedmacs, macs, settings, open, cleared>>

stopnetcollection ==
    /\ collecting' = FALSE
    /\ mac_collectorProcess' =
         IF mac_collectorProcess = "running" THEN "killed" ELSE mac_collectorProcess

stopcollect_clicked ==
    /\ open /\ collecting
    /\ stopnetcollection
    /\ UNCHANGED <<lists, nodes, usedmacs, macs, settings, open, cleared>>

(* It prints until it has ended, after the button "Stop" too.              *)
getcollectedmacs(mac) ==
    /\ open /\ mac_collectorProcess # "idle"
    /\ Len(macs) < MaxHeard
    /\ macs' = Append(macs, mac)
    /\ UNCHANGED <<lists, nodes, usedmacs, collecting, mac_collectorProcess, settings,
                   open, cleared>>

(* Mutant: the end of the process is not connected to stopnetcollection.   *)
processExited_unnoticed ==
    /\ open /\ mac_collectorProcess # "idle"
    /\ mac_collectorProcess' = "idle"
    /\ UNCHANGED <<collecting, lists, nodes, usedmacs, macs, settings, open, cleared>>

processExited ==
    /\ open /\ mac_collectorProcess # "idle"
    /\ mac_collectorProcess' = "idle"
    /\ collecting' = FALSE
    /\ UNCHANGED <<lists, nodes, usedmacs, macs, settings, open, cleared>>

processnetmacs ==
    /\ open /\ collecting /\ macs # <<>>
    /\ insertUnused(macs)
    /\ macs' = <<>>
    /\ UNCHANGED <<straymacs, nodes, collecting, mac_collectorProcess, settings,
                   open, cleared>>

-----------------------------------------------------------------------------
(* The file is read from its end.                                          *)
importmacs_clicked(newmacs) ==
    /\ open
    /\ insertUnused(Reverse(newmacs))
    /\ UNCHANGED <<straymacs, nodes, collector, settings, open, cleared>>

(* $mac becomes the value of "verify_mac($mac) && $usedmacs{$mac} != 1",   *)
(* that is 1.                                                              *)
importmanualmac_clicked(mac) ==
    /\ open
    /\ Places(One) < MaxOnes
    /\ mac \notin usedmacs
    /\ othermacs' = Append(othermacs, One)
    /\ usedmacs' = usedmacs \cup {One}
    /\ UNCHANGED <<straymacs, nodes, collector, settings, open, cleared>>

straytounass_clicked(i) ==
    /\ open /\ i \in DOMAIN straymacs
    /\ othermacs' = Append(othermacs, straymacs[i])
    /\ straymacs' = RemoveAt(straymacs, i)
    /\ UNCHANGED <<nodes, usedmacs, collector, settings, open, cleared>>

allstraytounass_clicked ==
    /\ open /\ straymacs # <<>>
    /\ othermacs' = othermacs \o straymacs
    /\ straymacs' = <<>>
    /\ UNCHANGED <<nodes, usedmacs, collector, settings, open, cleared>>

unasstostray_clicked(i) ==
    /\ open /\ i \in DOMAIN othermacs
    /\ straymacs' = Append(straymacs, othermacs[i])
    /\ othermacs' = RemoveAt(othermacs, i)
    /\ UNCHANGED <<nodes, usedmacs, collector, settings, open, cleared>>

allunasstostray_clicked ==
    /\ open /\ othermacs # <<>>
    /\ straymacs' = straymacs \o othermacs
    /\ othermacs' = <<>>
    /\ UNCHANGED <<nodes, usedmacs, collector, settings, open, cleared>>

(* "$mac = othermacs->text(0) && othermacs->removeItem(0)": removeItem     *)
(* returns nothing, so the loop ends with the first item, and that one     *)
(* stays in %usedmacs.                                                     *)
clearmacs_clicked ==
    /\ open /\ othermacs # <<>>
    /\ othermacs' = Tail(othermacs)
    /\ cleared' = TRUE
    /\ UNCHANGED <<straymacs, nodes, usedmacs, collector, settings, open>>

-----------------------------------------------------------------------------
(* Mutant: the dialog can still go back to the number before.              *)
definenodes_without_undo_point(list) ==
    LET row(k) == [num |-> texts.num + k - 1, ip |-> texts.ip + k - 1, mac |-> list[k]]
        names == {row(k).num : k \in DOMAIN list}
    IN /\ Len(nodeTable) + Len(list) <= MaxNodes
       /\ nodeTable' = nodeTable \o [k \in DOMAIN list |-> row(k)]
       /\ oda' = [name \in names \cup DOMAIN oda |->
                    IF name \in DOMAIN oda THEN oda[name]
                    ELSE list[name - texts.num + 1]]
       /\ texts' = [num |-> texts.num + Len(list), ip |-> texts.ip + Len(list)]
       /\ undo' = undo
       /\ renumbered' = renumbered
       /\ UNCHANGED <<settingsDialog, edits>>

(* definenode for each address of a list.  The dialog's texts are used as  *)
(* they are, accepted or not, and become what it goes back to.  A node     *)
(* that ODA has stays as it is.                                            *)
definenodes(list) ==
    LET row(k) == [num |-> texts.num + k - 1, ip |-> texts.ip + k - 1, mac |-> list[k]]
        names == {row(k).num : k \in DOMAIN list}
    IN /\ Len(nodeTable) + Len(list) <= MaxNodes
       /\ nodeTable' = nodeTable \o [k \in DOMAIN list |-> row(k)]
       /\ oda' = [name \in names \cup DOMAIN oda |->
                    IF name \in DOMAIN oda THEN oda[name]
                    ELSE list[name - texts.num + 1]]
       /\ texts' = [num |-> texts.num + Len(list), ip |-> texts.ip + Len(list)]
       /\ undo' = texts'
       /\ renumbered' = (renumbered \/ texts # undo)
       /\ UNCHANGED <<settingsDialog, edits>>

defineNnodes(numnodes) ==
    /\ open
    /\ definenodes([k \in 1..numnodes |-> Blank])
    /\ UNCHANGED <<lists, usedmacs, collector, open, cleared>>

(* modify_records: the address of the nodes of that name.                  *)
modify_records(name, mac) == oda' = [oda EXCEPT ![name] = mac]

(* An address and no node is selected: only "Auto-define" does something.  *)
assignmac_defining(i) ==
    /\ open /\ i \in DOMAIN othermacs
    /\ definenodes(<<othermacs[i]>>)
    /\ othermacs' = RemoveAt(othermacs, i)
    /\ UNCHANGED <<straymacs, usedmacs, collector, open, cleared>>

(* Mutant: the address the node had is dropped.                            *)
assignmac_clicked_dropping(i, row) ==
    /\ open /\ i \in DOMAIN othermacs /\ row \in DOMAIN nodeTable
    /\ othermacs' = RemoveAt(othermacs, i)
    /\ nodeTable' = [nodeTable EXCEPT ![row].mac = othermacs[i]]
    /\ modify_records(nodeTable[row].num, othermacs[i])
    /\ UNCHANGED <<straymacs, usedmacs, collector, settings, open, cleared>>

(* An address and a node are selected: the address the node had goes back  *)
(* to the list.                                                            *)
assignmac_clicked(i, row) ==
    /\ open /\ i \in DOMAIN othermacs /\ row \in DOMAIN nodeTable
    /\ LET oldmac == nodeTable[row].mac IN
       othermacs' = IF oldmac = Blank THEN RemoveAt(othermacs, i)
                    ELSE Append(RemoveAt(othermacs, i), oldmac)
    /\ nodeTable' = [nodeTable EXCEPT ![row].mac = othermacs[i]]
    /\ modify_records(nodeTable[row].num, othermacs[i])
    /\ UNCHANGED <<straymacs, usedmacs, collector, settings, open, cleared>>

(* All of them, to new nodes ...                                           *)
assignallmacs_defining ==
    /\ open /\ othermacs # <<>>
    /\ definenodes(othermacs)
    /\ othermacs' = <<>>
    /\ UNCHANGED <<straymacs, usedmacs, collector, open, cleared>>

(* ... or, without "Auto-define", to the nodes that have none, in the      *)
(* order of the table.                                                     *)
assignallmacs_clicked ==
    /\ open /\ othermacs # <<>>
    /\ \E row \in inOrder({k \in DOMAIN nodeTable : nodeTable[k].mac = Blank}) :
       LET n == IF Len(row) < Len(othermacs) THEN Len(row) ELSE Len(othermacs)
           to(k) == {j \in 1..n : row[j] = k}
           last(name) == {j \in 1..n : /\ nodeTable[row[j]].num = name
                                       /\ \A i \in (j + 1)..n : nodeTable[row[i]].num # name}
           mac(js) == othermacs[CHOOSE j \in js : TRUE]
       IN /\ nodeTable' = [k \in DOMAIN nodeTable |->
                IF to(k) = {} THEN nodeTable[k]
                ELSE [nodeTable[k] EXCEPT !.mac = mac(to(k))]]
          /\ oda' = [name \in DOMAIN oda |->
                IF last(name) = {} THEN oda[name] ELSE mac(last(name))]
          /\ othermacs' = SubSeq(othermacs, n + 1, Len(othermacs))
    /\ UNCHANGED <<straymacs, usedmacs, collector, settings, open, cleared>>

unassignmac_clicked(row) ==
    /\ open /\ row \in DOMAIN nodeTable /\ nodeTable[row].mac # Blank
    /\ othermacs' = Append(othermacs, nodeTable[row].mac)
    /\ nodeTable' = [nodeTable EXCEPT ![row].mac = Blank]
    /\ modify_records(nodeTable[row].num, Blank)
    /\ UNCHANGED <<straymacs, usedmacs, collector, settings, open, cleared>>

-----------------------------------------------------------------------------
nodesettingschange_clicked ==
    /\ open /\ ~settingsDialog
    /\ settingsDialog' = TRUE
    /\ UNCHANGED <<lists, nodes, usedmacs, collector, texts, undo, edits, renumbered, open,
                   cleared>>

(* The user types a number and an IP.                                      *)
edit(num, ip) ==
    /\ open /\ settingsDialog
    /\ edits < MaxEdits
    /\ edits' = edits + 1
    /\ texts' = [num |-> num, ip |-> ip]
    /\ UNCHANGED <<lists, nodes, usedmacs, collector, settingsDialog, undo, renumbered,
                   open, cleared>>

(* OK: hide and setundopoint.                                              *)
setundopoint ==
    /\ open /\ settingsDialog
    /\ settingsDialog' = FALSE
    /\ undo' = texts
    /\ renumbered' = (renumbered \/ texts # undo)
    /\ UNCHANGED <<lists, nodes, usedmacs, collector, texts, edits, open, cleared>>

(* Cancel: hide and restoreundo.                                           *)
restoreundo ==
    /\ open /\ settingsDialog
    /\ settingsDialog' = FALSE
    /\ texts' = undo
    /\ UNCHANGED <<lists, nodes, usedmacs, collector, undo, edits, renumbered, open, cleared>>

(* Escape hides the dialog and no more.                                    *)
reject ==
    /\ open /\ settingsDialog
    /\ settingsDialog' = FALSE
    /\ UNCHANGED <<lists, nodes, usedmacs, collector, texts, undo, edits, renumbered, open,
                   cleared>>

closeDialog_clicked ==
    /\ open
    /\ open' = FALSE
    /\ stopnetcollection
    /\ UNCHANGED <<lists, nodes, usedmacs, macs, settings, cleared>>

-----------------------------------------------------------------------------
Files == {<<m>> : m \in Macs} \cup {<<m, n>> : m, n \in Macs}

Collect ==
    \/ startnetcollection \/ stopcollect_clicked
    \/ \E mac \in Macs : getcollectedmacs(mac)
    \/ processExited \/ processnetmacs
Import ==
    \/ \E newmacs \in Files : importmacs_clicked(newmacs)
    \/ \E mac \in Macs : importmanualmac_clicked(mac)
Move ==
    \/ \E i \in DOMAIN straymacs : straytounass_clicked(i)
    \/ \E i \in DOMAIN othermacs : unasstostray_clicked(i)
    \/ allstraytounass_clicked \/ allunasstostray_clicked \/ clearmacs_clicked
Assign ==
    \/ \E numnodes \in 1..MaxNodes : defineNnodes(numnodes)
    \/ \E i \in DOMAIN othermacs : assignmac_defining(i)
    \/ \E i \in DOMAIN othermacs, row \in DOMAIN nodeTable : assignmac_clicked(i, row)
    \/ assignallmacs_defining \/ assignallmacs_clicked
    \/ \E row \in DOMAIN nodeTable : unassignmac_clicked(row)
Set ==
    \/ nodesettingschange_clicked
    \/ \E num, ip \in 1..MaxNumber : edit(num, ip)
    \/ setundopoint \/ restoreundo \/ reject

MgmtNext == Collect \/ Import \/ Move \/ Assign \/ Set \/ closeDialog_clicked

MgmtSpec == MgmtInit /\ [][MgmtNext]_mgmtVars

-----------------------------------------------------------------------------
(* An address is in one place at most: once in one of the two lists or in  *)
(* one row of the table, whatever was imported, heard and moved.  One of   *)
(* %usedmacs, which no import takes a second time, is in such a place,     *)
(* unless the user has cleared the list: none gets lost on its way         *)
(* (NodeMgmtDialog.ui.h:175-186, 209-218, 246-288, 373-469).               *)
AddressesHaveAPlace ==
    \A mac \in Macs :
        /\ Places(mac) <= 1
        /\ mac \in usedmacs /\ ~cleared => Places(mac) = 1

(* No two nodes have a name or an IP in common, and ODA has for each node  *)
(* the address the table shows, unless a number or IP that the user typed  *)
(* was accepted: by OK, or by a node defined meanwhile.  To cancel the     *)
(* dialog never brings back one that is taken                              *)
(* (NodeMgmtDialog.ui.h:306-351, 373-469, NodeSettingsDialog.ui.h:46-76).  *)
TableIsOda ==
    renumbered \/ \A k \in DOMAIN nodeTable :
        /\ \A j \in DOMAIN nodeTable \ {k} :
              nodeTable[j].num # nodeTable[k].num /\ nodeTable[j].ip # nodeTable[k].ip
        /\ nodeTable[k].num \in DOMAIN oda
        /\ oda[nodeTable[k].num] = nodeTable[k].mac

(* An address that mac_collector has printed is not forgotten: it is taken *)
(* in or still waits, also when it came after "Stop" or with the end of    *)
(* the process (NodeMgmtDialog.ui.h:155-196).                              *)
HeardIsKept == [][ToSet(macs) \subseteq usedmacs' \cup ToSet(macs')]_mgmtVars
=============================================================================
