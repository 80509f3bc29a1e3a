------------------------------ MODULE MacTable ------------------------------
(***************************************************************************)
(* The "Setup Networking" window (lib/OSCAR/GUI_MAC.pm, lib/OSCAR/MAC.pm)  *)
(* and scripts/update_live_macs: which network card belongs to which       *)
(* client.  The SIS database has one address per client.  The window works *)
(* on %MAC, a table filled from SIS when it opens and then from the        *)
(* network, a file or the keyboard, and on the list of the addresses that  *)
(* %MAC gives to nobody.  The window's keys are in upper case;             *)
(* update_live_macs, run from a shell, writes addresses in lower case.     *)
(*                                                                         *)
(* The handlers of the window are not atomic: regenerate_listbox, Unbusy   *)
(* and the loop over the packets update the window, and with that run any  *)
(* other callback of it, to its end, in the middle of a handler.  suspended*)
(* is the stack of the handlers that wait for such an update to return.    *)
(***************************************************************************)

EXTENDS Naturals, Sequences, FiniteSets

CONSTANTS
    Clients,    \* the clients SIS has
    Cards,      \* network cards, neither null nor the server's
    NoMac,      \* the address of a client that has none
    Nestings,   \* a bound: the stacks of labels of suspended handlers
    MaxDoubtful \* a bound: of how many cards the history tells

Addresses == [card : Cards, case : {"uc", "lc"}]

ASSUME NoMacAssumption == NoMac \notin Addresses
ASSUME MaxDoubtfulAssumption == MaxDoubtful \in Nat

uc(a) == [card |-> a.card, case |-> "uc"]
lc(k) == [card |-> k, case |-> "lc"]

VARIABLES
    mac,        \* SIS: the address of each client's eth0, or NoMac
    MAC,        \* %MAC: "none" (no such key), "free" or "taken"
    order,      \* the keys of %MAC that have an order
    listbox,    \* the addresses the window offers
    window,     \* "closed", "open", "busy" (takes no input) or "dead"
    COLLECT,    \* $COLLECT
    ping,       \* TRUE iff the background ping runs
    dyndhcp,    \* the check button "Dynamic DHCP update"
    moved,      \* TRUE iff clear_mac or assign2machine has changed an address
                \* under dyndhcp since dhcpd was last configured
    suspended,  \* the suspended handlers, the innermost first
    doubtful    \* history: cards about which SIS and %MAC may have come apart

table == <<MAC, order, listbox>>
collection == <<COLLECT, ping>>
vars == <<mac, table, window, collection, dyndhcp, moved, suspended, doubtful>>

(* In the loop over the packets; before dhcpd is set up at the end of a    *)
(* handler; in assign2machine, before dhcpd is set up for the address that *)
(* was cleared, and after.                                                 *)
Collecting == [at |-> "collect"]
BeforeDhcp == [at |-> "dhcp"]
Giving(label, m, c) == [at |-> label, mac |-> m, client |-> c]
Handlers == {Collecting, BeforeDhcp}
              \cup {Giving(label, m, c) : label \in {"cleared", "assign"},
                                         m \in Addresses, c \in Clients}

Waiting(s) == {s[i] : i \in DOMAIN s}
Givers(s) == {h \in Waiting(s) : h.at \in {"cleared", "assign"}}
Promised(s) == {h.mac.card : h \in Givers(s)}

(* Steps that would make more cards doubtful are cut off at the bound.     *)
DoubtOnly(K) == doubtful' = K /\ Cardinality(K) <= MaxDoubtful
Doubt(K) == DoubtOnly(doubtful \cup K)

(* Every path that suspends a handler is cut off at the bound.             *)
Push(h, s) == /\ suspended' = <<h>> \o s
              /\ [i \in DOMAIN suspended' |-> suspended'[i].at] \in Nestings

Top(label) == suspended # <<>> /\ Head(suspended).at = label
Below == Tail(suspended)
Exists == window \in {"open", "busy"}

Free(M) == {a \in Addresses : M[a] = "free"}
Assigned == {c \in Clients : mac[c] # NoMac}
Holders(f, k) == {c \in Clients : f[c] # NoMac /\ f[c].card = k}
Shared(f) == {k \in Cards : \E c, d \in Holders(f, k) : c # d}

Init == /\ mac = [c \in Clients |-> NoMac]
        /\ MAC = [a \in Addresses |-> "none"]
        /\ order = {} /\ listbox = {}
        /\ window = "closed"
        /\ COLLECT = FALSE /\ ping = FALSE
        /\ dyndhcp = TRUE
        /\ moved = FALSE
        /\ suspended = <<>>
        /\ doubtful = {}

-----------------------------------------------------------------------------
(* Mutant: the addresses of SIS are taken as they are.                     *)
populate_MACS_as_written ==
    /\ order' = {mac[c] : c \in Assigned}
    /\ MAC' = [a \in Addresses |-> IF a \in order' THEN "taken" ELSE "none"]

populate_MACS ==
    /\ order' = {uc(mac[c]) : c \in Assigned}
    /\ MAC' = [a \in Addresses |-> IF a \in order' THEN "taken" ELSE "none"]

(* The list is not filled, but no address is free at this point.  Handlers *)
(* of an earlier window may still be suspended; they go on in this one.    *)
mac_window ==
    /\ window = "closed"
    /\ populate_MACS
    /\ listbox' = {}
    /\ window' = "open"
    /\ dyndhcp' = TRUE
    /\ moved' = FALSE
    /\ DoubtOnly(Shared(mac) \cup Promised(suspended))
    /\ UNCHANGED <<mac, collection, suspended>>

(* Mutant: the window goes, the ping stays.                                *)
Close_without_end_ping ==
    /\ window' = "closed"
    /\ UNCHANGED <<mac, table, collection, dyndhcp, moved, suspended,
                   doubtful>>

Close ==
    /\ window' = "closed"
    /\ ping' = FALSE
    /\ UNCHANGED <<mac, table, COLLECT, dyndhcp, moved, suspended, doubtful>>

CloseButton == window = "open" /\ ~COLLECT /\ Close

(* The window manager closes the window; it invokes the Close button,      *)
(* which is disabled while addresses are collected.  The main window then  *)
(* stays busy and nothing can be done in this wizard any more.             *)
Destroy ==
    /\ Exists
    /\ \/ ~COLLECT /\ Close
       \/ /\ COLLECT
          /\ window' = "dead"
          /\ UNCHANGED <<mac, table, collection, dyndhcp, moved, suspended,
                         doubtful>>

(* A handler dies at the next widget it touches.                           *)
HandlerDies ==
    /\ ~Exists
    /\ Top("collect") \/ Top("dhcp") \/ Top("cleared")
    /\ suspended' = Below
    /\ UNCHANGED <<mac, table, window, collection, dyndhcp, moved, doubtful>>

-----------------------------------------------------------------------------
(* External: mkdhcpconf and dhcpd, which take the database as it is.       *)
Configured == moved' = FALSE
NotConfigured == UNCHANGED moved

(* The window is left busy after a failure.                                *)
setup_dhcpd == \/ Configured /\ window' = "open"
               \/ NotConfigured /\ window' = "busy"

ConfigureDhcp ==
    /\ window = "open"
    /\ setup_dhcpd
    /\ UNCHANGED <<mac, table, collection, dyndhcp, suspended, doubtful>>

(* The last lines of clear_mac and assign2machine.                         *)
DynamicUpdate ==
    /\ Top("dhcp")
    /\ Exists
    /\ suspended' = Below
    /\ IF dyndhcp THEN setup_dhcpd ELSE UNCHANGED <<moved, window>>
    /\ UNCHANGED <<mac, table, collection, dyndhcp, doubtful>>

Toggle ==
    /\ window = "open"
    /\ dyndhcp' = ~dyndhcp
    /\ moved' = FALSE
    /\ UNCHANGED <<mac, table, window, collection, suspended, doubtful>>

-----------------------------------------------------------------------------
(* Of a card that is neither null nor one of the server's.                 *)
add_mac_to_hash(k) ==
    LET a == uc(lc(k))
    IN  /\ MAC' = IF a \in order THEN MAC ELSE [MAC EXCEPT ![a] = "free"]
        /\ order' = order \cup {a}
        /\ listbox' = Free(MAC')

begin_collect_mac ==
    /\ window = "open"
    /\ ~COLLECT
    /\ COLLECT' = TRUE
    /\ ping' \in BOOLEAN                        \* the fork may fail
    /\ Push(Collecting, suspended) \/ UNCHANGED suspended  \* no tcpdump
    /\ UNCHANGED <<mac, table, window, dyndhcp, moved, doubtful>>

(* A packet of card k.                                                     *)
Receive(k) ==
    /\ Top("collect")
    /\ COLLECT /\ Exists
    /\ add_mac_to_hash(k)
    /\ UNCHANGED <<mac, window, collection, dyndhcp, moved, suspended,
                   doubtful>>

(* The loop ends, by itself when tcpdump exits: close and end_ping.  (When *)
(* two loops are inside one another they share the handle TCPDUMP; the one *)
(* that goes on last may find it closed, or still read a packet.)          *)
CollectionEnds ==
    /\ Top("collect")
    /\ ping' = FALSE
    /\ suspended' = Below
    /\ UNCHANGED <<mac, table, window, COLLECT, dyndhcp, moved, doubtful>>

(* It only asks the loop to end.                                           *)
end_collect_mac ==
    /\ window = "open"
    /\ COLLECT
    /\ COLLECT' = FALSE
    /\ UNCHANGED <<mac, table, window, ping, dyndhcp, moved, suspended,
                   doubtful>>

(* From a file or the keyboard.                                            *)
load_macs(k) ==
    /\ window = "open"
    /\ ~COLLECT
    /\ add_mac_to_hash(k)
    /\ UNCHANGED <<mac, window, collection, dyndhcp, moved, suspended,
                   doubtful>>

CardsOf(A) == {a.card : a \in A}

(* clearmacaddy takes one address off the list, clearallmacs all of them.  *)
clearmacs(gone) ==
    /\ window = "open"
    /\ gone \subseteq listbox
    /\ MAC' = [a \in Addresses |-> IF a \in gone THEN "none" ELSE MAC[a]]
    /\ order' = order \ gone
    /\ listbox' = listbox \ gone
    /\ Doubt(CardsOf(gone) \cap Promised(suspended))
    /\ UNCHANGED <<mac, window, collection, dyndhcp, moved, suspended>>

-----------------------------------------------------------------------------
(* set_adapter for a client; dhcpd is to follow.                           *)
set_adapter(c, a) ==
    /\ mac' = [mac EXCEPT ![c] = a]
    /\ moved' = (moved \/ dyndhcp)

(* The key is freed before the database is written; it is created, without *)
(* an order, if %MAC does not have it.                                     *)
Freed(c) == IF c \in Assigned THEN [MAC EXCEPT ![mac[c]] = "free"] ELSE MAC

(* What clear_mac does before it updates the window, to go on as next.     *)
Clear(c, next) ==
    /\ c \in Assigned
    /\ set_adapter(c, NoMac)
    /\ MAC' = Freed(c)
    /\ listbox' = Free(MAC')
    /\ Push(next, suspended)
    /\ UNCHANGED <<order, doubtful>>

(* Mutant: "Delete MAC from Node" leaves dhcpd alone.                      *)
clear_mac_without_dhcp(c) ==
    /\ window = "open"
    /\ c \in Assigned
    /\ MAC' = [MAC EXCEPT ![mac[c]] = "free"]
    /\ set_adapter(c, NoMac)
    /\ listbox' = Free(MAC')
    /\ UNCHANGED <<order, window, collection, dyndhcp, suspended, doubtful>>

clear_mac(c) ==
    /\ window = "open"
    /\ \/ Clear(c, BeforeDhcp)
       \/ /\ c \in Assigned                           \* set_adapter fails
          /\ MAC' = Freed(c)
          /\ listbox' = listbox \cup {mac[c]}
          /\ Doubt({mac[c].card})
          /\ UNCHANGED <<mac, order, moved, suspended>>
    /\ UNCHANGED <<window, collection, dyndhcp>>

(* The second half of assign2machine: m is given to c, from a table M and  *)
(* a list L, whoever has got m since it was chosen.                        *)
Give(m, c, M, L, below) ==
    /\ MAC' = [M EXCEPT ![m] = "taken"]
    /\ \/ /\ set_adapter(c, m)
          /\ IF Exists THEN listbox' = Free(MAC') /\ Push(BeforeDhcp, below)
                       ELSE listbox' = L /\ suspended' = below
       \/ /\ listbox' = L                             \* set_adapter fails
          /\ suspended' = below
          /\ UNCHANGED <<mac, moved>>

(* The address c has is cleared first.  When it has none, or cannot be     *)
(* cleared, which is not looked at, nothing comes between the two halves.  *)
assign2machine(m, c) ==
    /\ window = "open"
    /\ m \in listbox
    /\ \/ Clear(c, Giving("cleared", m, c))
       \/ /\ Give(m, c, Freed(c), listbox \cup ({mac[c]} \ {NoMac}), suspended)
          /\ Doubt(CardsOf({mac[c]} \ {NoMac})
                     \cup ({m.card} \cap Promised(suspended)))
          /\ UNCHANGED order
    /\ UNCHANGED <<window, collection, dyndhcp>>

(* The clear_mac of assign2machine sets up dhcpd.                          *)
ClearedUpdate ==
    /\ Top("cleared")
    /\ Exists
    /\ dyndhcp
    /\ setup_dhcpd
    /\ suspended' = <<[Head(suspended) EXCEPT !.at = "assign"]>> \o Below
    /\ UNCHANGED <<mac, table, collection, dyndhcp, doubtful>>

GoOnAssigning ==
    LET h == Head(suspended)
    IN  /\ Top("assign") \/ (Top("cleared") /\ Exists /\ ~dyndhcp)
        /\ Give(h.mac, h.client, MAC, listbox, Below)
        /\ Doubt({h.mac.card} \cap Promised(Below))
        /\ UNCHANGED <<order, window, collection, dyndhcp>>

(* The listed addresses go to the clients without one, until either runs   *)
(* out; a failed set_adapter costs an address and the client has another   *)
(* try.  The window is busy meanwhile, and does not stay so, whatever      *)
(* setup_dhcpd returned.                                                   *)
assignallmacs(given, failed) ==
    LET to == DOMAIN given
        used == failed \cup {given[c] : c \in to}
    IN  /\ window = "open"
        /\ to \subseteq Clients \ Assigned
        /\ \A c \in to : given[c] \in listbox \ failed
        /\ \A c, d \in to : given[c] = given[d] => c = d
        /\ failed \subseteq listbox
        /\ failed = {} => to = Clients \ Assigned \/ listbox \subseteq used
        /\ mac' = [c \in Clients |-> IF c \in to THEN given[c] ELSE mac[c]]
        /\ MAC' = [a \in Addresses |-> IF a \in used THEN "taken" ELSE MAC[a]]
        /\ listbox' = Free(MAC')
        /\ IF dyndhcp THEN Configured \/ NotConfigured ELSE UNCHANGED moved
        /\ Doubt(CardsOf(used) \cap Promised(suspended))
        /\ UNCHANGED <<order, window, collection, dyndhcp, suspended>>

-----------------------------------------------------------------------------
(* update_live_macs, from a shell: the clients that answer cexec get the   *)
(* address of the card they now have, in lower case.  Under a window, %MAC *)
(* does not know of a card that turns up at another client.  Then dhcpd,   *)
(* if the program gets as far.                                             *)
update_live_macs(live) ==
    LET Found == {live[c] : c \in {c \in DOMAIN live :
                                     mac[c] = NoMac \/ mac[c].card # live[c]}}
        Unseen == window = "closed" /\ suspended = <<>>
    IN  /\ \A c, d \in DOMAIN live : live[c] = live[d] => c = d
        /\ mac' = [c \in Clients |-> IF c \in DOMAIN live THEN lc(live[c])
                                                          ELSE mac[c]]
        /\ mac' # mac
        /\ Configured \/ NotConfigured
        /\ Doubt(Shared(mac') \cup (IF Unseen THEN {} ELSE Found))
        /\ UNCHANGED <<table, window, collection, dyndhcp, suspended>>

-----------------------------------------------------------------------------
PartialFunctions(S, T) == UNION {[D -> T] : D \in SUBSET S}

Next == \/ mac_window \/ CloseButton \/ Destroy \/ HandlerDies
        \/ ConfigureDhcp \/ DynamicUpdate \/ Toggle
        \/ begin_collect_mac \/ end_collect_mac \/ CollectionEnds
        \/ \E k \in Cards : Receive(k) \/ load_macs(k)
        \/ \E gone \in {listbox} \cup {{m} : m \in listbox} : clearmacs(gone)
        \/ \E c \in Clients : clear_mac(c)
        \/ \E m \in Addresses, c \in Clients : assign2machine(m, c)
        \/ ClearedUpdate \/ GoOnAssigning
        \/ \E given \in PartialFunctions(Clients, listbox),
              failed \in SUBSET listbox : assignallmacs(given, failed)
        \/ \E live \in PartialFunctions(Clients, Cards) :
              update_live_macs(live)

Spec == Init /\ [][Next]_vars

-----------------------------------------------------------------------------
(* The type invariant; the list only offers keys of %MAC.                  *)
TypeOK == /\ mac \in [Clients -> Addresses \cup {NoMac}]
          /\ MAC \in [Addresses -> {"none", "free", "taken"}]
          /\ order \subseteq Addresses
          /\ listbox \subseteq {a \in Addresses : MAC[a] # "none"}
          /\ window \in {"closed", "open", "busy", "dead"}
          /\ COLLECT \in BOOLEAN /\ ping \in BOOLEAN
          /\ dyndhcp \in BOOLEAN
          /\ moved \in BOOLEAN
          /\ suspended \in Seq(Handlers)
          /\ doubtful \subseteq Cards

(* A card is only ever given to two clients when one of three things has   *)
(* happened to this card since the window opened: the database refused to  *)
(* take it from its client; update_live_macs found it at another client;   *)
(* it was given away or removed while another assignment, suspended, was   *)
(* about to give it.  In whatever case its address is written and however  *)
(* often it is cleared, removed, received again or assigned, by handlers   *)
(* inside one another, nothing else makes it shared.                       *)
NoSharedCard == Shared(mac) \subseteq doubtful

(* Of the windows that are gone only one destroyed by the window manager   *)
(* during a collection leaves the background ping running (until the loop  *)
(* happens to end); no closed window does, although three places end the   *)
(* ping, each can be missed, and the loop may still be suspended.          *)
PingEnds == ping => Exists \/ (window = "dead" /\ COLLECT)

(* When clear_mac or assign2machine has changed an address under "Dynamic  *)
(* DHCP update" and dhcpd has not been configured since, the window is not *)
(* usable, or a handler is suspended that is going to configure dhcpd: no  *)
(* nesting of handlers forgets it, as long as the window stays.            *)
MovedIsServed ==
    window = "open" /\ moved =>
        \E h \in Waiting(suspended) : h.at \in {"cleared", "dhcp"}
=============================================================================
