--------------------------- MODULE MacTableProofs ---------------------------
(* Proofs about the table of addresses, for any clients and cards, and     *)
(* about the node management window, for any addresses and numbers of      *)
(* nodes.  The two windows have no state in common.                        *)
EXTENDS MacTable, NodeMgmt, SequenceTheorems, FiniteSetTheorems, WellFoundedInduction, TLAPS

LEMMA TwoCases ==
    ASSUME NEW a \in Addresses
    PROVE  /\ a.card \in Cards
           /\ a = uc(lc(a.card)) \/ a = lc(a.card)
           /\ uc(a) = uc(lc(a.card))
           /\ a # NoMac
  BY NoMacAssumption DEF Addresses, uc, lc

LEMMA CardKeys ==
    ASSUME NEW k \in Cards
    PROVE  /\ lc(k) \in Addresses /\ uc(lc(k)) \in Addresses
           /\ lc(k) # uc(lc(k))
           /\ lc(k).card = k /\ uc(lc(k)).card = k
           /\ lc(k) # NoMac /\ uc(lc(k)) # NoMac
  BY NoMacAssumption DEF Addresses, uc, lc

-----------------------------------------------------------------------------
(* The stack of the suspended handlers.                                    *)

LEMMA GivingIsAHandler ==
    ASSUME NEW label \in {"cleared", "assign"}, NEW m \in Addresses,
           NEW c \in Clients
    PROVE  /\ Giving(label, m, c) \in Handlers
           /\ Giving(label, m, c).at = label
           /\ Giving(label, m, c).mac = m
           /\ Giving(label, m, c).client = c
  BY DEF Giving, Handlers

LEMMA OtherHandlers ==
    /\ Collecting \in Handlers /\ Collecting.at = "collect"
    /\ BeforeDhcp \in Handlers /\ BeforeDhcp.at = "dhcp"
  BY DEF Collecting, BeforeDhcp, Handlers

LEMMA HandlerFields ==
    ASSUME NEW h \in Handlers, h.at \in {"cleared", "assign"}
    PROVE  /\ h.mac \in Addresses /\ h.client \in Clients
           /\ h = Giving(h.at, h.mac, h.client)
           /\ [h EXCEPT !.at = "assign"] = Giving("assign", h.mac, h.client)
<1>1. h \notin {Collecting, BeforeDhcp}
  BY OtherHandlers
<1>2. PICK label \in {"cleared", "assign"}, m \in Addresses, c \in Clients :
        h = Giving(label, m, c)
  BY <1>1 DEF Handlers
<1> QED
  BY <1>2 DEF Giving

LEMMA Pushed ==
    ASSUME NEW s \in Seq(Handlers), NEW h \in Handlers
    PROVE  /\ <<h>> \o s \in Seq(Handlers)
           /\ Waiting(<<h>> \o s) = Waiting(s) \cup {h}
<1> DEFINE t == <<h>> \o s
<1>1. /\ t \in Seq(Handlers) /\ Len(t) = Len(s) + 1 /\ Len(s) \in Nat
      /\ \A i \in 1..(Len(s) + 1) : t[i] = IF i = 1 THEN h ELSE s[i - 1]
  OBVIOUS
<1>2. DOMAIN t = 1..(Len(s) + 1) /\ DOMAIN s = 1..Len(s)
  BY <1>1
<1> HIDE DEF t
<1>3. Waiting(t) \subseteq Waiting(s) \cup {h}
  <2> SUFFICES ASSUME NEW i \in 1..(Len(s) + 1), i # 1 PROVE t[i] \in Waiting(s)
    BY <1>1, <1>2 DEF Waiting
  <2>1. i - 1 \in 1..Len(s) /\ t[i] = s[i - 1]
    BY <1>1
  <2> QED
    BY <2>1, <1>2 DEF Waiting
<1>4. h \in Waiting(t)
  BY <1>1, <1>2 DEF Waiting
<1>5. Waiting(s) \subseteq Waiting(t)
  <2> SUFFICES ASSUME NEW i \in 1..Len(s) PROVE s[i] \in Waiting(t)
    BY <1>2 DEF Waiting
  <2>1. i + 1 \in 1..(Len(s) + 1) /\ t[i + 1] = s[i]
    BY <1>1
  <2> QED
    BY <2>1, <1>2 DEF Waiting
<1> QED
  BY <1>1, <1>3, <1>4, <1>5 DEF t

LEMMA Popped ==
    ASSUME NEW s \in Seq(Handlers), s # <<>>
    PROVE  /\ Head(s) \in Handlers
           /\ Tail(s) \in Seq(Handlers)
           /\ Waiting(s) = Waiting(Tail(s)) \cup {Head(s)}
<1>1. Head(s) \in Handlers /\ Tail(s) \in Seq(Handlers) /\ s = <<Head(s)>> \o Tail(s)
  OBVIOUS
<1> QED
  BY <1>1, Pushed

LEMMA WaitingHandlers ==
    ASSUME NEW s \in Seq(Handlers)
    PROVE  /\ Waiting(s) \subseteq Handlers
           /\ \A h \in Givers(s) : h.mac \in Addresses /\ h.mac.card \in Cards
<1>1. Waiting(s) \subseteq Handlers
  BY ElementOfSeq DEF Waiting
<1> QED
  BY <1>1, HandlerFields, TwoCases DEF Givers

(* A handler that gives no address changes nothing about those that do.    *)
LEMMA SamePromises ==
    ASSUME NEW s \in Seq(Handlers), NEW t \in Seq(Handlers),
           NEW h \in Handlers, h.at \notin {"cleared", "assign"},
           Waiting(t) = Waiting(s) \cup {h}
    PROVE  Givers(t) = Givers(s)
  BY DEF Givers
-----------------------------------------------------------------------------
LEMMA InitType == Init => TypeOK
<1>1. <<>> \in Seq(Handlers)
  OBVIOUS
<1>2. [a \in Addresses |-> "none"] \in [Addresses -> {"none", "free", "taken"}]
  OBVIOUS
<1>3. [c \in Clients |-> NoMac] \in [Clients -> Addresses \cup {NoMac}]
  OBVIOUS
<1> QED
  BY <1>1, <1>2, <1>3, Zenon DEF Init, TypeOK

LEMMA GiveType ==
    ASSUME TypeOK, NEW m \in Addresses, NEW c \in Clients,
           NEW M \in [Addresses -> {"none", "free", "taken"}],
           NEW A \in SUBSET {a \in Addresses : M[a] # "none"},
           NEW below \in Seq(Handlers), Give(m, c, M, A, below)
    PROVE  /\ mac' \in [Clients -> Addresses \cup {NoMac}]
           /\ MAC' \in [Addresses -> {"none", "free", "taken"}]
           /\ listbox' \subseteq {a \in Addresses : MAC'[a] # "none"}
           /\ moved' \in BOOLEAN
           /\ suspended' \in Seq(Handlers)
<1> USE DEF TypeOK
<1>1. MAC' \in [Addresses -> {"none", "free", "taken"}]
  BY DEF Give
<1>2. mac' \in [Clients -> Addresses \cup {NoMac}] /\ moved' \in BOOLEAN
  BY DEF Give, set_adapter
<1>3. A \subseteq {a \in Addresses : MAC'[a] # "none"}
  BY DEF Give
<1>4. Free(MAC') \subseteq {a \in Addresses : MAC'[a] # "none"}
  BY DEF Free
<1>5. suspended' = below \/ suspended' = <<BeforeDhcp>> \o below
  BY DEF Give, Push
<1>6. suspended' \in Seq(Handlers)
  BY <1>5, OtherHandlers, Pushed
<1> QED
  BY <1>1, <1>2, <1>3, <1>4, <1>6 DEF Give

LEMMA ClearType ==
    ASSUME TypeOK, NEW c \in Clients, NEW next \in Handlers, Clear(c, next)
    PROVE  /\ mac' \in [Clients -> Addresses \cup {NoMac}]
           /\ MAC' \in [Addresses -> {"none", "free", "taken"}]
           /\ listbox' \subseteq {a \in Addresses : MAC'[a] # "none"}
           /\ moved' \in BOOLEAN
           /\ suspended' \in Seq(Handlers)
<1> USE DEF TypeOK
<1>1. mac[c] \in Addresses
  BY DEF Clear, Assigned
<1>2. MAC' \in [Addresses -> {"none", "free", "taken"}]
  BY <1>1 DEF Clear, Freed
<1>3. suspended' \in Seq(Handlers)
  BY Pushed DEF Clear, Push
<1> QED
  BY <1>2, <1>3 DEF Clear, set_adapter, Free

LEMMA DoubtType ==
    ASSUME NEW K, doubtful \subseteq Cards, K \subseteq Cards
    PROVE  /\ Doubt(K) => doubtful' \subseteq Cards
           /\ DoubtOnly(K) => doubtful' \subseteq Cards
  BY DEF Doubt, DoubtOnly

LEMMA PromisedType ==
    ASSUME NEW s \in Seq(Handlers) PROVE Promised(s) \subseteq Cards
  BY WaitingHandlers DEF Promised

LEMMA NextType == TypeOK /\ [Next]_vars => TypeOK'
<1> SUFFICES ASSUME TypeOK, [Next]_vars PROVE TypeOK'
  OBVIOUS
<1> USE DEF TypeOK
<1>0. Promised(suspended) \subseteq Cards
  BY PromisedType
<1>1. CASE mac_window
  <2>1. \A c \in Assigned : uc(mac[c]) \in Addresses
    BY TwoCases, CardKeys DEF Assigned
  <2>2. Shared(mac) \cup Promised(suspended) \subseteq Cards
    BY <1>0 DEF Shared
  <2>3. doubtful' \subseteq Cards
    BY <1>1, <2>2, DoubtType DEF mac_window
  <2> QED
    BY <1>1, <2>1, <2>3 DEF mac_window, populate_MACS, collection
<1>2. CASE CloseButton \/ Destroy
  BY <1>2 DEF CloseButton, Destroy, Close, table, collection
<1>3. CASE HandlerDies \/ DynamicUpdate \/ CollectionEnds
  <2>1. suspended' \in Seq(Handlers)
    BY <1>3, Popped DEF HandlerDies, DynamicUpdate, CollectionEnds, Top, Below
  <2> QED
    BY <1>3, <2>1 DEF HandlerDies, DynamicUpdate, CollectionEnds, setup_dhcpd,
                      Configured, NotConfigured, table, collection
<1>4. CASE ConfigureDhcp \/ Toggle \/ end_collect_mac
  BY <1>4 DEF ConfigureDhcp, Toggle, end_collect_mac, setup_dhcpd, Configured,
              NotConfigured, table, collection
<1>5. CASE begin_collect_mac
  <2>1. suspended' \in Seq(Handlers)
    BY <1>5, OtherHandlers, Pushed DEF begin_collect_mac, Push
  <2> QED
    BY <1>5, <2>1 DEF begin_collect_mac, table
<1>6. CASE \E k \in Cards : Receive(k) \/ load_macs(k)
  <2>1. PICK k \in Cards : Receive(k) \/ load_macs(k)
    BY <1>6
  <2>2. uc(lc(k)) \in Addresses
    BY CardKeys
  <2>3. UNCHANGED <<mac, window, COLLECT, ping, dyndhcp, moved, suspended, doubtful>>
    BY <2>1 DEF Receive, load_macs, collection
  <2> QED
    BY <2>1, <2>2, <2>3 DEF Receive, load_macs, add_mac_to_hash, Free
<1>7. CASE \E gone \in {listbox} \cup {{m} : m \in listbox} : clearmacs(gone)
  <2>1. PICK gone : clearmacs(gone)
    BY <1>7
  <2>2. doubtful' \subseteq Cards
    BY <2>1, <1>0, DoubtType DEF clearmacs
  <2> QED
    BY <2>1, <2>2 DEF clearmacs, collection
<1>8. CASE \E c \in Clients : clear_mac(c)
  <2>1. PICK c \in Clients : clear_mac(c)
    BY <1>8
  <2>2. CASE Clear(c, BeforeDhcp)
    BY <2>1, <2>2, ClearType, OtherHandlers DEF clear_mac, Clear, collection
  <2>3. CASE ~Clear(c, BeforeDhcp)
    <3>1. mac[c] \in Addresses /\ mac[c].card \in Cards
      BY <2>1, <2>3, TwoCases DEF clear_mac, Assigned
    <3>2. doubtful' \subseteq Cards
      BY <2>1, <2>3, <3>1, DoubtType DEF clear_mac
    <3> QED
      BY <2>1, <2>3, <3>1, <3>2 DEF clear_mac, Freed, collection
  <2> QED
    BY <2>2, <2>3
<1>9. CASE \E m \in Addresses, c \in Clients : assign2machine(m, c)
  <2>1. PICK m \in Addresses, c \in Clients : assign2machine(m, c)
    BY <1>9
  <2>2. CASE Clear(c, Giving("cleared", m, c))
    BY <2>1, <2>2, ClearType, GivingIsAHandler DEF assign2machine, Clear, collection
  <2>3. CASE ~Clear(c, Giving("cleared", m, c))
    <3> DEFINE A == listbox \cup ({mac[c]} \ {NoMac})
               K == CardsOf({mac[c]} \ {NoMac}) \cup ({m.card} \cap Promised(suspended))
    <3>1. mac[c] \in Addresses \cup {NoMac}
      OBVIOUS
    <3>2. /\ Freed(c) \in [Addresses -> {"none", "free", "taken"}]
          /\ A \subseteq {a \in Addresses : Freed(c)[a] # "none"}
      BY <3>1 DEF Freed, Assigned
    <3>3. K \subseteq Cards
      BY <3>1, <1>0, TwoCases DEF CardsOf
    <3>4. Give(m, c, Freed(c), A, suspended) /\ Doubt(K)
      BY <2>1, <2>3 DEF assign2machine
    <3>5. doubtful' \subseteq Cards
      BY <3>3, <3>4, DoubtType
    <3> HIDE DEF A, K
    <3>6. /\ mac' \in [Clients -> Addresses \cup {NoMac}]
          /\ MAC' \in [Addresses -> {"none", "free", "taken"}]
          /\ listbox' \subseteq {a \in Addresses : MAC'[a] # "none"}
          /\ moved' \in BOOLEAN
          /\ suspended' \in Seq(Handlers)
      BY <3>2, <3>4, GiveType
    <3> QED
      BY <2>1, <2>3, <3>5, <3>6 DEF assign2machine, collection
  <2> QED
    BY <2>2, <2>3
<1>10. CASE ClearedUpdate
  <2>1. Head(suspended) \in Handlers /\ Below \in Seq(Handlers)
    BY <1>10, Popped DEF ClearedUpdate, Top, Below
  <2>2. Head(suspended).at = "cleared"
    BY <1>10 DEF ClearedUpdate, Top
  <2>3. [Head(suspended) EXCEPT !.at = "assign"] \in Handlers
    BY <2>1, <2>2, HandlerFields, GivingIsAHandler
  <2>4. suspended' \in Seq(Handlers)
    BY <1>10, <2>1, <2>3, Pushed DEF ClearedUpdate
  <2> QED
    BY <1>10, <2>4 DEF ClearedUpdate, setup_dhcpd, Configured, NotConfigured,
                       table, collection
<1>11. CASE GoOnAssigning
  <2> DEFINE h == Head(suspended)
  <2>1. h \in Handlers /\ Below \in Seq(Handlers) /\ h.at \in {"cleared", "assign"}
    BY <1>11, Popped DEF GoOnAssigning, Top, Below
  <2>2. h.mac \in Addresses /\ h.client \in Clients /\ h.mac.card \in Cards
    BY <2>1, HandlerFields, TwoCases
  <2>3. Give(h.mac, h.client, MAC, listbox, Below) /\ Doubt({h.mac.card} \cap Promised(Below))
    BY <1>11 DEF GoOnAssigning
  <2>4. doubtful' \subseteq Cards
    BY <2>2, <2>3, DoubtType
  <2> HIDE DEF h
  <2>5. /\ mac' \in [Clients -> Addresses \cup {NoMac}]
        /\ MAC' \in [Addresses -> {"none", "free", "taken"}]
        /\ listbox' \subseteq {a \in Addresses : MAC'[a] # "none"}
        /\ moved' \in BOOLEAN
        /\ suspended' \in Seq(Handlers)
    BY <2>1, <2>2, <2>3, GiveType
  <2> QED
    BY <1>11, <2>4, <2>5 DEF GoOnAssigning, collection
<1>12. CASE \E given \in PartialFunctions(Clients, listbox),
               failed \in SUBSET listbox : assignallmacs(given, failed)
  <2>1. PICK given \in PartialFunctions(Clients, listbox), failed \in SUBSET listbox :
          assignallmacs(given, failed)
    BY <1>12
  <2>2. doubtful' \subseteq Cards
    BY <2>1, <1>0, DoubtType DEF assignallmacs
  <2> QED
    BY <2>1, <2>2 DEF assignallmacs, Free, Configured, NotConfigured, collection
<1>13. CASE \E live \in PartialFunctions(Clients, Cards) : update_live_macs(live)
  <2>1. PICK live \in PartialFunctions(Clients, Cards) : update_live_macs(live)
    BY <1>13
  <2>2. \A c \in DOMAIN live : lc(live[c]) \in Addresses /\ live[c] \in Cards
    BY CardKeys DEF PartialFunctions
  <2>3. Shared(mac') \subseteq Cards
    BY DEF Shared
  <2>4. doubtful' \subseteq Cards
    BY <2>1, <2>2, <2>3, DoubtType DEF update_live_macs
  <2> QED
    BY <2>1, <2>2, <2>4 DEF update_live_macs, Configured, NotConfigured, table,
                            collection
<1>14. CASE UNCHANGED vars
  BY <1>14 DEF vars, table, collection
<1> QED
  BY <1>1, <1>2, <1>3, <1>4, <1>5, <1>6, <1>7, <1>8, <1>9, <1>10, <1>11,
     <1>12, <1>13, <1>14 DEF Next

(* The types of the window's variables and of its suspended handlers; its  *)
(* list only offers keys of %MAC.                                          *)
THEOREM TypeCorrect == Spec => []TypeOK
  BY InitType, NextType, PTL DEF Spec

-----------------------------------------------------------------------------
(* What holds of a card k about which SIS (f) and the table of a window    *)
(* (M and its orders o) have not come apart.  It has one client, whose     *)
(* address is not free, and whose upper-case key is taken and has an       *)
(* order, so that the card is not added again; the lower-case key only     *)
(* exists when the upper-case one is taken, and never beside a client with *)
(* the upper-case address.                                                 *)
Sole(f, k) == \A c, d \in Holders(f, k) : c = d

Tidy(f, M, o, k) ==
    /\ Sole(f, k)
    /\ \A c \in Holders(f, k) : /\ M[f[c]] # "free"
                                /\ uc(lc(k)) \in o
                                /\ M[uc(lc(k))] = "taken"
    /\ M[lc(k)] # "none" => /\ M[uc(lc(k))] = "taken"
                            /\ uc(lc(k)) \in o
                            /\ \A c \in Holders(f, k) : f[c] # uc(lc(k))
    /\ M[uc(lc(k))] # "none" => uc(lc(k)) \in o

(* An address the window offers, or a handler is about to give: no client  *)
(* has the card, and the card is not offered under both its addresses.     *)
Spare(f, M, a) == /\ M[a] # "none"
                  /\ Holders(f, a.card) = {}
                  /\ a = uc(lc(a.card)) => M[lc(a.card)] = "none"

Adapters == [Clients -> Addresses \cup {NoMac}]
Tables == [Addresses -> {"none", "free", "taken"}]

(* Free addresses are spare.                                               *)
LEMMA FreeIsSpare ==
    ASSUME NEW f \in Adapters, NEW M \in Tables, NEW o,
           NEW a \in Addresses, M[a] = "free", Tidy(f, M, o, a.card)
    PROVE  Spare(f, M, a)
<1> DEFINE k == a.card
<1>1. k \in Cards /\ (a = uc(lc(k)) \/ a = lc(k))
  BY TwoCases
<1>2. ASSUME NEW c \in Holders(f, k) PROVE FALSE
  <2>1. f[c] \in Addresses /\ f[c].card = k
    BY DEF Holders, Adapters
  <2>2. f[c] = uc(lc(k)) \/ f[c] = lc(k)
    BY <2>1, TwoCases
  <2>3. M[f[c]] # "free" /\ M[uc(lc(k))] = "taken"
    BY <1>2 DEF Tidy
  <2>4. M[lc(k)] # "none" => f[c] # uc(lc(k))
    BY <1>2 DEF Tidy
  <2> QED
    BY <1>1, <2>2, <2>3, <2>4
<1>3. a = uc(lc(k)) => M[lc(k)] = "none"
  BY <1>1 DEF Tidy
<1> QED
  BY <1>2, <1>3 DEF Spare

(* A card whose two keys do not change and that no client gets.            *)
LEMMA FrameTidy ==
    ASSUME NEW f, NEW g, NEW M, NEW N, NEW o, NEW q, NEW k \in Cards,
           \A c \in Holders(g, k) : c \in Holders(f, k) /\ g[c] = f[c],
           N[lc(k)] = M[lc(k)], N[uc(lc(k))] = M[uc(lc(k))],
           uc(lc(k)) \in o => uc(lc(k)) \in q
    PROVE  /\ Sole(f, k) => Sole(g, k)
           /\ f \in Adapters /\ Tidy(f, M, o, k) => Tidy(g, N, q, k)
           /\ \A a \in Addresses : a.card = k /\ Spare(f, M, a) => Spare(g, N, a)
<1>1. Sole(f, k) => Sole(g, k)
  BY DEF Sole
<1>2. ASSUME f \in Adapters, Tidy(f, M, o, k) PROVE Tidy(g, N, q, k)
  <2>1. ASSUME NEW c \in Holders(g, k) PROVE N[g[c]] = M[f[c]]
    <3>1. c \in Holders(f, k) /\ g[c] = f[c] /\ f[c] \in Addresses /\ f[c].card = k
      BY <1>2 DEF Holders, Adapters
    <3>2. f[c] = uc(lc(k)) \/ f[c] = lc(k)
      BY <3>1, TwoCases
    <3> QED
      BY <3>1, <3>2
  <2> QED
    BY <1>1, <1>2, <2>1 DEF Tidy
<1>3. ASSUME NEW a \in Addresses, a.card = k, Spare(f, M, a) PROVE Spare(g, N, a)
  <2>1. a = uc(lc(k)) \/ a = lc(k)
    BY <1>3, TwoCases
  <2> QED
    BY <1>3, <2>1 DEF Spare
<1> QED
  BY <1>1, <1>2, <1>3

(* A spare address is taken, and given to one client or to none.           *)
LEMMA TakeTidy ==
    ASSUME NEW f \in Adapters, NEW g, NEW M \in Tables, NEW N \in Tables, NEW o,
           NEW a \in Addresses, Tidy(f, M, o, a.card), Spare(f, M, a),
           N[a] = "taken",
           \A b \in Addresses : b.card = a.card /\ b # a => N[b] = M[b],
           \A c \in Holders(g, a.card) : g[c] = a,
           Sole(g, a.card)
    PROVE  /\ Tidy(g, N, o, a.card)
           /\ Holders(g, a.card) = {} =>
                \A b \in Addresses : b.card = a.card /\ Spare(f, M, b) => Spare(g, N, b)
<1> DEFINE k == a.card
<1>1. /\ k \in Cards /\ lc(k) \in Addresses /\ uc(lc(k)) \in Addresses
      /\ lc(k) # uc(lc(k)) /\ lc(k).card = k /\ uc(lc(k)).card = k
      /\ a = uc(lc(k)) \/ a = lc(k)
  BY TwoCases, CardKeys
<1>2. M[a] # "none" /\ (a = uc(lc(k)) => M[lc(k)] = "none")
  BY DEF Spare
<1>3. CASE a = uc(lc(k))
  <2>1. N[lc(k)] = "none" /\ uc(lc(k)) \in o
    BY <1>1, <1>2, <1>3 DEF Tidy
  <2>2. Tidy(g, N, o, k)
    BY <1>3, <2>1 DEF Tidy
  <2>3. ASSUME NEW b \in Addresses, b.card = k, Spare(f, M, b) PROVE b = a
    BY <1>2, <1>3, <2>3, TwoCases DEF Spare
  <2> QED
    BY <2>1, <2>2, <2>3, <1>3 DEF Spare
<1>4. CASE a = lc(k)
  <2>1. M[uc(lc(k))] = "taken" /\ uc(lc(k)) \in o /\ N[uc(lc(k))] = "taken"
    BY <1>1, <1>2, <1>4 DEF Tidy
  <2>2. Tidy(g, N, o, k)
    BY <1>1, <1>4, <2>1 DEF Tidy
  <2>3. ASSUME NEW b \in Addresses, b.card = k, Spare(f, M, b) PROVE b = a
    BY <1>2, <1>4, <2>3, TwoCases DEF Spare
  <2> QED
    BY <1>1, <2>1, <2>2, <2>3, <1>4 DEF Spare
<1> QED
  BY <1>1, <1>3, <1>4

(* The address of a client that then has none is freed.                    *)
LEMMA ClearTidy ==
    ASSUME NEW f \in Adapters, NEW M \in Tables, NEW o, NEW k \in Cards,
           NEW c \in Holders(f, k), Tidy(f, M, o, k)
    PROVE  Tidy([f EXCEPT ![c] = NoMac], [M EXCEPT ![f[c]] = "free"], o, k)
<1> DEFINE g == [f EXCEPT ![c] = NoMac]
           N == [M EXCEPT ![f[c]] = "free"]
<1>1. c \in Clients /\ f[c] \in Addresses /\ f[c].card = k
  BY DEF Adapters, Holders
<1>2. Holders(g, k) = {}
  BY <1>1 DEF Holders, Adapters, Tidy, Sole
<1>3. \A a \in Addresses : N[a] = IF a = f[c] THEN "free" ELSE M[a]
  BY <1>1 DEF Tables
<1> HIDE DEF g, N
<1>4. /\ lc(k) \in Addresses /\ uc(lc(k)) \in Addresses /\ lc(k) # uc(lc(k))
      /\ f[c] = uc(lc(k)) \/ f[c] = lc(k)
  BY <1>1, TwoCases, CardKeys
<1>5. M[uc(lc(k))] = "taken" /\ uc(lc(k)) \in o
  BY DEF Tidy
<1>6. f[c] = uc(lc(k)) => M[lc(k)] = "none"
  BY DEF Tidy
<1> QED
  BY <1>2, <1>3, <1>4, <1>5, <1>6 DEF Tidy, Sole, g, N

(* A card is received or loaded.                                           *)
LEMMA AddTidy ==
    ASSUME NEW f \in Adapters, NEW M \in Tables, NEW o, NEW k \in Cards,
           Tidy(f, M, o, k), uc(lc(k)) \notin o
    PROVE  /\ Tidy(f, [M EXCEPT ![uc(lc(k))] = "free"], o \cup {uc(lc(k))}, k)
           /\ \A a \in Addresses : a.card = k => ~Spare(f, M, a)
<1>1. /\ lc(k) \in Addresses /\ uc(lc(k)) \in Addresses /\ lc(k) # uc(lc(k))
  BY CardKeys
<1>2. M[lc(k)] = "none" /\ M[uc(lc(k))] = "none" /\ Holders(f, k) = {}
  BY DEF Tidy
<1>3. \A a \in Addresses : a.card = k => a = uc(lc(k)) \/ a = lc(k)
  BY TwoCases
<1> QED
  BY <1>1, <1>2, <1>3 DEF Tidy, Sole, Spare, Tables

(* A spare address is removed; no other one of its card is spare.          *)
LEMMA RemoveTidy ==
    ASSUME NEW f, NEW M \in Tables, NEW N \in Tables, NEW o, NEW q,
           NEW a \in Addresses, Tidy(f, M, o, a.card), Spare(f, M, a),
           N[a] = "none",
           \A b \in Addresses : b.card = a.card /\ b # a =>
                                  N[b] = M[b] /\ (b \in o => b \in q)
    PROVE  /\ Tidy(f, N, q, a.card)
           /\ \A b \in Addresses : b.card = a.card /\ Spare(f, M, b) => b = a
<1> DEFINE k == a.card
<1>1. /\ k \in Cards /\ lc(k) \in Addresses /\ uc(lc(k)) \in Addresses
      /\ lc(k) # uc(lc(k)) /\ lc(k).card = k /\ uc(lc(k)).card = k
      /\ \A b \in Addresses : b.card = k => b = uc(lc(k)) \/ b = lc(k)
  BY TwoCases, CardKeys
<1>2. Holders(f, k) = {} /\ M[a] # "none" /\ (a = uc(lc(k)) => M[lc(k)] = "none")
  BY DEF Spare
<1>3. Tidy(f, N, q, k)
  BY <1>1, <1>2 DEF Tidy, Sole
<1>4. ASSUME NEW b \in Addresses, b.card = k, Spare(f, M, b) PROVE b = a
  BY <1>1, <1>2, <1>4 DEF Spare
<1> QED
  BY <1>3, <1>4

(* The table of a window that has just been opened.                        *)
LEMMA PopulateTidy ==
    ASSUME TypeOK, populate_MACS, NEW k \in Cards, Sole(mac, k)
    PROVE  Tidy(mac, MAC', order', k)
<1>1. /\ lc(k) \in Addresses /\ uc(lc(k)) \in Addresses /\ lc(k) # uc(lc(k))
      /\ \A a \in Addresses : uc(a) # lc(k)
  BY CardKeys DEF uc, lc
<1>2. \A c \in Assigned : mac[c] \in Addresses /\ uc(mac[c]) = uc(lc(mac[c].card))
  BY TwoCases DEF TypeOK, Assigned
<1>3. \A a \in Addresses : MAC'[a] = IF a \in order' THEN "taken" ELSE "none"
  BY DEF populate_MACS
<1>4. lc(k) \notin order' /\ MAC'[lc(k)] = "none"
  BY <1>1, <1>2, <1>3 DEF populate_MACS
<1>5. ASSUME NEW c \in Holders(mac, k)
      PROVE  MAC'[mac[c]] # "free" /\ uc(lc(k)) \in order' /\ MAC'[uc(lc(k))] = "taken"
  <2>1. c \in Assigned /\ mac[c].card = k
    BY DEF Holders, Assigned
  <2> QED
    BY <2>1, <1>1, <1>2, <1>3 DEF populate_MACS
<1> QED
  BY <1>1, <1>3, <1>4, <1>5 DEF Tidy

(* update_live_macs writes the addresses of the clients that still have    *)
(* their card in lower case.                                               *)
LEMMA LiveTidy ==
    ASSUME NEW f \in Adapters, NEW g, NEW M, NEW o, NEW k \in Cards,
           Tidy(f, M, o, k),
           \A c \in Holders(g, k) : /\ c \in Holders(f, k)
                                    /\ g[c] = f[c] \/ g[c] = lc(k)
    PROVE  Tidy(g, M, o, k)
<1>1. lc(k) # uc(lc(k))
  BY CardKeys
<1>2. Sole(g, k)
  BY DEF Tidy, Sole
<1>3. ASSUME NEW c \in Holders(g, k) PROVE M[g[c]] # "free"
  <2>1. c \in Holders(f, k) /\ f[c] \in Addresses /\ f[c].card = k
    BY <1>3 DEF Holders, Adapters
  <2>2. f[c] = uc(lc(k)) \/ f[c] = lc(k)
    BY <2>1, TwoCases
  <2>3. M[f[c]] # "free" /\ (M[lc(k)] # "none" => f[c] # uc(lc(k)))
    BY <2>1 DEF Tidy
  <2> QED
    BY <2>2, <2>3
<1> QED
  BY <1>1, <1>2, <1>3 DEF Tidy

LEMMA OneSpare ==
    ASSUME NEW f, NEW M, NEW a \in Addresses, NEW b \in Addresses,
           a.card = b.card, Spare(f, M, a), Spare(f, M, b)
    PROVE  a = b
  BY TwoCases DEF Spare

-----------------------------------------------------------------------------
(* The addresses that suspended handlers are about to give.                *)
Promises(s) == {h.mac : h \in Givers(s)}

(* The invariant of a card that is not doubtful.                           *)
CardInv(k) ==
    /\ Sole(mac, k)
    /\ \A a \in Promises(suspended) : a.card = k => Holders(mac, k) = {}
    /\ Exists => /\ Tidy(mac, MAC, order, k)
                 /\ \A a \in listbox \cup Promises(suspended) :
                       a.card = k => Spare(mac, MAC, a)

CardsInv == TypeOK /\ \A k \in Cards \ doubtful : CardInv(k)

LEMMA PromiseTypes ==
    ASSUME NEW s \in Seq(Handlers)
    PROVE  /\ Promises(s) \subseteq Addresses
           /\ Promised(s) = {a.card : a \in Promises(s)}
  BY WaitingHandlers DEF Promises, Promised

LEMMA PushedPromises ==
    ASSUME NEW s \in Seq(Handlers), NEW h \in Handlers
    PROVE  /\ h.at \notin {"cleared", "assign"} => Promises(<<h>> \o s) = Promises(s)
           /\ h.at \in {"cleared", "assign"} =>
                Promises(<<h>> \o s) = Promises(s) \cup {h.mac}
<1> DEFINE t == <<h>> \o s
<1>1. Waiting(t) = Waiting(s) \cup {h}
  BY Pushed
<1> HIDE DEF t
<1>2. h.at \notin {"cleared", "assign"} => Givers(t) = Givers(s)
  BY <1>1 DEF Givers
<1>3. h.at \in {"cleared", "assign"} => Givers(t) = Givers(s) \cup {h}
  BY <1>1 DEF Givers
<1>4. h.at \notin {"cleared", "assign"} => Promises(t) = Promises(s)
  BY <1>2 DEF Promises
<1>5. h.at \in {"cleared", "assign"} => Promises(t) = Promises(s) \cup {h.mac}
  BY <1>3 DEF Promises
<1> QED
  BY <1>4, <1>5 DEF t

LEMMA PoppedPromises ==
    ASSUME NEW s \in Seq(Handlers), s # <<>>
    PROVE  /\ Promises(Tail(s)) \subseteq Promises(s)
           /\ Head(s).at \in {"cleared", "assign"} => Head(s).mac \in Promises(s)
  BY Popped DEF Promises, Givers

(* A step that does not touch card k.                                      *)
LEMMA CardFrame ==
    ASSUME TypeOK, TypeOK', NEW k \in Cards, CardInv(k),
           Exists' => Exists,
           \A c \in Holders(mac', k) : c \in Holders(mac, k) /\ mac'[c] = mac[c],
           MAC'[lc(k)] = MAC[lc(k)], MAC'[uc(lc(k))] = MAC[uc(lc(k))],
           uc(lc(k)) \in order => uc(lc(k)) \in order',
           \A a \in Promises(suspended') :
              a.card = k => a \in Promises(suspended) \/ (Exists /\ a \in listbox),
           Exists => \A a \in listbox' :
                        a.card = k => a \in listbox \/ MAC'[a] = "free"
    PROVE  CardInv(k)'
<1>1. mac \in Adapters /\ mac' \in Adapters /\ MAC' \in Tables
  BY DEF TypeOK, Adapters, Tables
<1>2. Promises(suspended') \subseteq Addresses /\ listbox' \subseteq Addresses
  BY PromiseTypes DEF TypeOK
<1>3. /\ Sole(mac', k)
      /\ Exists => Tidy(mac', MAC', order', k)
      /\ \A a \in Addresses : a.card = k /\ Spare(mac, MAC, a) => Spare(mac', MAC', a)
  <2>1. /\ Sole(mac, k) => Sole(mac', k)
        /\ Tidy(mac, MAC, order, k) => Tidy(mac', MAC', order', k)
        /\ \A a \in Addresses : a.card = k /\ Spare(mac, MAC, a) => Spare(mac', MAC', a)
    BY <1>1, FrameTidy
  <2> QED
    BY <2>1 DEF CardInv
<1>4. ASSUME NEW a \in Promises(suspended'), a.card = k PROVE Holders(mac', k) = {}
  <2>1. Holders(mac, k) = {}
    BY <1>4 DEF CardInv, Spare
  <2> QED
    BY <2>1
<1>5. ASSUME Exists', NEW a \in listbox' \cup Promises(suspended'), a.card = k
      PROVE  Spare(mac', MAC', a)
  <2>1. CASE a \in listbox \/ a \in Promises(suspended)
    BY <1>2, <1>3, <1>5, <2>1 DEF CardInv
  <2>2. CASE MAC'[a] = "free"
    BY <1>1, <1>2, <1>3, <1>5, <2>2, FreeIsSpare
  <2> QED
    BY <1>5, <2>1, <2>2
<1> QED
  BY <1>3, <1>4, <1>5 DEF CardInv

LEMMA OtherKeys ==
    ASSUME NEW k \in Cards, NEW a \in Addresses, a.card # k
    PROVE  a # lc(k) /\ a # uc(lc(k))
  BY CardKeys

LEMMA FreeList ==
    ASSUME TypeOK, TypeOK', NEW k \in Cards, Tidy(mac', MAC', order', k),
           \A a \in listbox' : a.card = k => MAC'[a] = "free",
           \A a \in Promises(suspended') : a.card # k
    PROVE  CardInv(k)'
<1>1. mac' \in Adapters /\ MAC' \in Tables /\ listbox' \subseteq Addresses
  BY DEF TypeOK, Adapters, Tables
<1>2. \A a \in listbox' : a.card = k => Spare(mac', MAC', a)
  BY <1>1, FreeIsSpare
<1> QED
  BY <1>2 DEF CardInv, Tidy

-----------------------------------------------------------------------------
LEMMA AddInv ==
    ASSUME TypeOK, TypeOK', NEW k \in Cards, CardInv(k), NEW r \in Cards,
           Exists, add_mac_to_hash(r), UNCHANGED <<mac, window, suspended>>
    PROVE  CardInv(k)'
<1>0. Exists'
  BY DEF Exists
<1>1. \A a \in listbox' : MAC'[a] = "free"
  BY DEF add_mac_to_hash, Free
<1>2. uc(lc(r)) \in Addresses /\ uc(lc(r)).card = r
  BY CardKeys
<1>3. CASE r = k /\ uc(lc(r)) \notin order
  <2>1. mac \in Adapters /\ MAC \in Tables
    BY DEF TypeOK, Adapters, Tables
  <2>2. Tidy(mac, MAC, order, k)
    BY DEF CardInv
  <2>3. MAC' = [MAC EXCEPT ![uc(lc(k))] = "free"] /\ order' = order \cup {uc(lc(k))}
    BY <1>3 DEF add_mac_to_hash
  <2>4. /\ Tidy(mac', MAC', order', k)
        /\ \A a \in Addresses : a.card = k => ~Spare(mac, MAC, a)
    BY <2>1, <2>2, <2>3, <1>3, AddTidy
  <2>5. Promises(suspended) \subseteq Addresses
    BY PromiseTypes DEF TypeOK
  <2>6. \A a \in Promises(suspended') : a.card # k
    BY <2>4, <2>5 DEF CardInv
  <2> QED
    BY <1>1, <2>4, <2>6, FreeList
<1>4. CASE ~(r = k /\ uc(lc(r)) \notin order)
  <2>1. MAC'[lc(k)] = MAC[lc(k)] /\ MAC'[uc(lc(k))] = MAC[uc(lc(k))]
    BY <1>4, <1>2, OtherKeys, CardKeys DEF add_mac_to_hash, TypeOK
  <2>2. order \subseteq order'
    BY DEF add_mac_to_hash
  <2> QED
    BY <1>0, <1>1, <2>1, <2>2, CardFrame
<1> QED
  BY <1>3, <1>4

LEMMA RemoveInv ==
    ASSUME TypeOK, TypeOK', NEW k \in Cards, CardInv(k), NEW gone,
           clearmacs(gone), k \notin doubtful'
    PROVE  CardInv(k)'
<1>1. /\ Exists /\ Exists' /\ gone \subseteq listbox
      /\ \A a \in Addresses : MAC'[a] = IF a \in gone THEN "none" ELSE MAC[a]
      /\ order' = order \ gone /\ listbox' = listbox \ gone
      /\ mac' = mac /\ suspended' = suspended
      /\ k \notin CardsOf(gone) \/ k \notin Promised(suspended)
  BY DEF clearmacs, Exists, Doubt, DoubtOnly
<1>2. listbox \subseteq Addresses /\ Promises(suspended) \subseteq Addresses
  BY PromiseTypes DEF TypeOK
<1>3. CASE k \in CardsOf(gone)
  <2>1. PICK a \in gone : a.card = k
    BY <1>3 DEF CardsOf
  <2>2. a \in Addresses /\ Spare(mac, MAC, a) /\ Tidy(mac, MAC, order, k)
    BY <1>1, <1>2, <2>1 DEF CardInv
  <2>3. \A b \in listbox : b.card = k => b = a
    BY <1>1, <1>2, <2>1, <2>2, OneSpare DEF CardInv
  <2>4. \A a2 \in Promises(suspended') : a2.card # k
    BY <1>1, <1>3, PromiseTypes DEF TypeOK
  <2>5. MAC \in Tables /\ MAC' \in Tables
    BY DEF TypeOK, Tables
  <2>6. Tidy(mac, MAC', order', k)
    <3>1. \A b \in Addresses : b.card = a.card /\ b # a =>
             MAC'[b] = MAC[b] /\ (b \in order => b \in order')
      BY <1>1, <2>1, <2>3
    <3>2. MAC'[a] = "none"
      BY <1>1, <2>1, <2>2
    <3> QED
      BY <2>1, <2>2, <2>5, <3>1, <3>2, RemoveTidy
  <2> QED
    BY <1>1, <2>1, <2>3, <2>4, <2>6, FreeList
<1>4. CASE k \notin CardsOf(gone)
  <2>1. lc(k) \notin gone /\ uc(lc(k)) \notin gone
    BY <1>4, CardKeys DEF CardsOf
  <2>2. MAC'[lc(k)] = MAC[lc(k)] /\ MAC'[uc(lc(k))] = MAC[uc(lc(k))]
    BY <1>1, <2>1, CardKeys
  <2> QED
    BY <1>1, <2>1, <2>2, CardFrame
<1> QED
  BY <1>3, <1>4

LEMMA ClearInv ==
    ASSUME TypeOK, TypeOK', NEW k \in Cards, CardInv(k), NEW c \in Clients,
           NEW h \in Handlers, Clear(c, h), Exists, UNCHANGED window,
           h.at \in {"cleared", "assign"} => h.mac \in listbox
    PROVE  CardInv(k)'
<1> DEFINE b == mac[c]
<1>1. /\ b \in Addresses /\ b # NoMac /\ b.card \in Cards
      /\ mac' = [mac EXCEPT ![c] = NoMac]
      /\ MAC' = [MAC EXCEPT ![b] = "free"]
      /\ listbox' = Free(MAC') /\ order' = order
      /\ suspended' = <<h>> \o suspended
  BY TwoCases DEF Clear, Assigned, set_adapter, Freed, Push, TypeOK
<1>2. \A a \in Promises(suspended') : a \in Promises(suspended) \/ a \in listbox
  BY <1>1, PushedPromises DEF TypeOK
<1>3. \A a \in listbox' : MAC'[a] = "free"
  BY <1>1 DEF Free
<1>4. mac \in Adapters /\ MAC \in Tables /\ Exists'
  BY DEF TypeOK, Adapters, Tables, Exists
<1>5. CASE b.card = k
  <2>1. c \in Holders(mac, k)
    BY <1>1, <1>5 DEF Holders
  <2>2. Tidy(mac', MAC', order', k)
    BY <1>1, <1>4, <2>1, ClearTidy DEF CardInv
  <2>3. \A a \in Promises(suspended') : a.card # k
    BY <1>2, <2>1 DEF CardInv, Spare
  <2> QED
    BY <1>3, <2>2, <2>3, FreeList
<1>6. CASE b.card # k
  <2>1. MAC'[lc(k)] = MAC[lc(k)] /\ MAC'[uc(lc(k))] = MAC[uc(lc(k))]
    BY <1>1, <1>4, <1>6, OtherKeys DEF Tables
  <2>2. \A d \in Holders(mac', k) : d \in Holders(mac, k) /\ mac'[d] = mac[d]
    BY <1>1, <1>4 DEF Holders, Adapters
  <2> QED
    BY <1>1, <1>2, <1>3, <1>4, <2>1, <2>2, CardFrame
<1> QED
  BY <1>5, <1>6

(* m has been offered or promised; the handlers that stay suspended do not *)
(* promise it unless its card becomes doubtful.                            *)
LEMMA GiveInv ==
    ASSUME TypeOK, TypeOK', NEW k \in Cards, CardInv(k),
           NEW m \in Addresses, NEW c \in Clients, NEW M \in Tables, NEW L,
           NEW below \in Seq(Handlers), Give(m, c, M, L, below),
           UNCHANGED <<order, window>>,
           M[lc(k)] = MAC[lc(k)], M[uc(lc(k))] = MAC[uc(lc(k))],
           \A a \in L : a.card = k => a \in listbox,
           m \in Promises(suspended) \/ (Exists /\ m \in listbox),
           Promises(below) \subseteq Promises(suspended),
           m.card = k => \A a \in Promises(below) : a.card # k
    PROVE  CardInv(k)'
<1>1. /\ MAC' = [M EXCEPT ![m] = "taken"]
      /\ mac' = mac \/ mac' = [mac EXCEPT ![c] = m]
      /\ listbox' = L \/ (listbox' = Free(MAC') /\ Exists)
      /\ mac' # mac /\ Exists => listbox' = Free(MAC')
      /\ suspended' = below \/ suspended' = <<BeforeDhcp>> \o below
  BY DEF Give, set_adapter, Push
<1>2. Promises(suspended') = Promises(below)
  BY <1>1, OtherHandlers, PushedPromises
<1>3. \A a \in listbox' : a.card = k => a \in listbox \/ MAC'[a] = "free"
  BY <1>1 DEF Free
<1>4. /\ mac \in Adapters /\ mac' \in Adapters /\ MAC \in Tables /\ MAC' \in Tables
      /\ listbox' \subseteq Addresses
      /\ (Exists' <=> Exists)
  BY DEF TypeOK, Adapters, Tables, Exists
<1>5. CASE m.card # k
  <2>1. MAC'[lc(k)] = MAC[lc(k)] /\ MAC'[uc(lc(k))] = MAC[uc(lc(k))]
    BY <1>1, <1>5, OtherKeys DEF Tables
  <2>2. \A d \in Holders(mac', k) : d \in Holders(mac, k) /\ mac'[d] = mac[d]
    BY <1>1, <1>4, <1>5 DEF Holders, Adapters
  <2> QED
    BY <1>2, <1>3, <1>4, <2>1, <2>2, CardFrame
<1>6. CASE m.card = k
  <2>1. Holders(mac, k) = {}
    BY <1>6 DEF CardInv, Spare
  <2>2. /\ \A d \in Holders(mac', k) : d = c /\ mac'[d] = m
        /\ Sole(mac', k)
    BY <1>1, <1>4, <2>1 DEF Holders, Adapters, Sole
  <2>3. \A a \in Promises(suspended') : a.card # k
    BY <1>2, <1>6
  <2>4. CASE Exists
    <3>1. Tidy(mac, MAC, order, k) /\ Spare(mac, MAC, m)
      BY <1>6, <2>4 DEF CardInv
    <3>2. /\ MAC'[m] = "taken"
          /\ \A b \in Addresses : b.card = k /\ b # m => MAC'[b] = MAC[b]
      BY <1>1, <1>6, TwoCases DEF Tables
    <3>3. /\ Tidy(mac', MAC', order', k)
          /\ Holders(mac', k) = {} =>
               \A b \in Addresses : b.card = k /\ Spare(mac, MAC, b) => Spare(mac', MAC', b)
      BY <1>4, <1>6, <2>2, <3>1, <3>2, TakeTidy
    <3>4. CASE listbox' = Free(MAC')
      BY <2>3, <3>3, <3>4, FreeList DEF Free
    <3>5. CASE mac' = mac
      <4>1. \A a \in listbox' : a.card = k => Spare(mac', MAC', a)
        <5> SUFFICES ASSUME NEW a \in listbox', a.card = k PROVE Spare(mac', MAC', a)
          OBVIOUS
        <5>1. CASE a \in listbox
          BY <1>4, <2>1, <2>4, <3>3, <3>5, <5>1 DEF CardInv
        <5>2. CASE MAC'[a] = "free"
          BY <1>4, <3>3, <5>2, FreeIsSpare
        <5> QED
          BY <1>3, <5>1, <5>2
      <4> QED
        BY <2>2, <2>3, <3>3, <4>1 DEF CardInv
    <3> QED
      BY <1>1, <2>4, <3>4, <3>5
  <2>5. CASE ~Exists
    BY <1>4, <2>2, <2>3, <2>5 DEF CardInv
  <2> QED
    BY <2>4, <2>5
<1> QED
  BY <1>5, <1>6

LEMMA AssignAllInv ==
    ASSUME TypeOK, TypeOK', NEW k \in Cards, CardInv(k),
           NEW given \in PartialFunctions(Clients, listbox),
           NEW failed \in SUBSET listbox,
           assignallmacs(given, failed), k \notin doubtful'
    PROVE  CardInv(k)'
<1> DEFINE used == failed \cup {given[c] : c \in DOMAIN given}
<1>1. /\ Exists /\ Exists'
      /\ \A c, d \in DOMAIN given : given[c] = given[d] => c = d
      /\ \A c \in Clients : mac'[c] = IF c \in DOMAIN given THEN given[c] ELSE mac[c]
      /\ \A a \in Addresses : MAC'[a] = IF a \in used THEN "taken" ELSE MAC[a]
      /\ \A a \in listbox' : MAC'[a] = "free"
      /\ order' = order /\ suspended' = suspended
      /\ k \notin CardsOf(used) \/ k \notin Promised(suspended)
  BY DEF assignallmacs, Exists, Doubt, DoubtOnly, Free
<1>2. used \subseteq listbox /\ listbox \subseteq Addresses
  BY DEF PartialFunctions, TypeOK
<1>3. mac \in Adapters /\ mac' \in Adapters /\ MAC \in Tables /\ MAC' \in Tables
  BY DEF TypeOK, Adapters, Tables
<1>4. \A c \in DOMAIN given : given[c] \in used
  OBVIOUS
<1> HIDE DEF used
<1>5. CASE k \in CardsOf(used)
  <2>1. PICK a \in used : a.card = k
    BY <1>5 DEF CardsOf
  <2>2. a \in Addresses /\ Spare(mac, MAC, a) /\ Tidy(mac, MAC, order, k)
    BY <1>1, <1>2, <2>1 DEF CardInv
  <2>3. \A b \in used : b.card = k => b = a
    BY <1>1, <1>2, <2>1, <2>2, OneSpare DEF CardInv
  <2>4. Holders(mac, k) = {}
    BY <2>1, <2>2 DEF Spare
  <2>5. \A c \in Holders(mac', k) : c \in DOMAIN given /\ given[c] = a /\ mac'[c] = a
    BY <1>1, <1>4, <2>3, <2>4 DEF Holders
  <2>6. Sole(mac', k)
    BY <1>1, <2>5 DEF Sole
  <2>7. \A b \in Addresses : b.card = a.card /\ b # a => MAC'[b] = MAC[b]
    BY <1>1, <2>1, <2>3
  <2>8. MAC'[a] = "taken"
    BY <1>1, <2>1, <2>2
  <2>9. Tidy(mac', MAC', order', k)
    BY <1>1, <1>3, <2>1, <2>2, <2>5, <2>6, <2>7, <2>8, TakeTidy
  <2>10. \A b \in Promises(suspended') : b.card # k
    BY <1>1, <1>5, PromiseTypes DEF TypeOK
  <2> QED
    BY <1>1, <2>9, <2>10, FreeList
<1>6. CASE k \notin CardsOf(used)
  <2>1. \A c \in Holders(mac', k) : c \in Holders(mac, k) /\ mac'[c] = mac[c]
    BY <1>1, <1>4, <1>6 DEF Holders, CardsOf
  <2>2. MAC'[lc(k)] = MAC[lc(k)] /\ MAC'[uc(lc(k))] = MAC[uc(lc(k))]
    BY <1>1, <1>6, CardKeys DEF CardsOf
  <2> QED
    BY <1>1, <2>1, <2>2, CardFrame
<1> QED
  BY <1>5, <1>6

LEMMA LiveInv ==
    ASSUME TypeOK, TypeOK', NEW k \in Cards, CardInv(k),
           NEW live \in PartialFunctions(Clients, Cards),
           update_live_macs(live), k \notin doubtful'
    PROVE  CardInv(k)'
<1> DEFINE Found == {live[c] : c \in {c \in DOMAIN live :
                                     mac[c] = NoMac \/ mac[c].card # live[c]}}
<1>1. /\ \A c \in Clients : mac'[c] = IF c \in DOMAIN live THEN lc(live[c]) ELSE mac[c]
      /\ MAC' = MAC /\ order' = order /\ listbox' = listbox
      /\ window' = window /\ suspended' = suspended
      /\ k \notin Shared(mac')
      /\ (window = "closed" /\ suspended = <<>>) \/ k \notin Found
  BY DEF update_live_macs, table, Doubt, DoubtOnly
<1>2. DOMAIN live \subseteq Clients /\ \A c \in DOMAIN live : live[c] \in Cards
  BY DEF PartialFunctions
<1>3. Sole(mac', k)
  BY <1>1 DEF Shared, Sole
<1>4. CASE window = "closed" /\ suspended = <<>>
  <2>1. ~Exists'
    BY <1>1, <1>4 DEF Exists
  <2>2. Promises(suspended') = {}
    BY <1>1, <1>4 DEF Promises, Givers, Waiting
  <2> QED
    BY <1>3, <2>1, <2>2 DEF CardInv
<1>5. CASE k \notin Found
  <2>1. ASSUME NEW c \in Holders(mac', k)
        PROVE  c \in Holders(mac, k) /\ (mac'[c] = mac[c] \/ mac'[c] = lc(k))
    <3>1. CASE c \in DOMAIN live
      <4>1. mac'[c] = lc(live[c]) /\ live[c] = k
        BY <1>1, <1>2, <2>1, <3>1, CardKeys DEF Holders
      <4>2. mac[c] # NoMac /\ mac[c].card = k
        BY <1>5, <3>1, <4>1
      <4> QED
        BY <4>1, <4>2, <2>1 DEF Holders
    <3>2. CASE c \notin DOMAIN live
      BY <1>1, <2>1, <3>2 DEF Holders
    <3> QED
      BY <3>1, <3>2
  <2>2. mac \in Adapters
    BY DEF TypeOK, Adapters
  <2>3. Tidy(mac, MAC, order, k) => Tidy(mac', MAC', order', k)
    BY <1>1, <2>1, <2>2, LiveTidy
  <2>4. \A a : a.card = k /\ Spare(mac, MAC, a) => Spare(mac', MAC', a)
    BY <1>1, <2>1 DEF Spare
  <2>5. Holders(mac, k) = {} => Holders(mac', k) = {}
    BY <2>1
  <2>6. Exists' <=> Exists
    BY <1>1 DEF Exists
  <2> QED
    BY <1>1, <1>3, <2>3, <2>4, <2>5, <2>6 DEF CardInv
<1> QED
  BY <1>1, <1>4, <1>5

-----------------------------------------------------------------------------
LEMMA NextInv == CardsInv /\ [Next]_vars => CardsInv'
<1> SUFFICES ASSUME CardsInv, [Next]_vars, NEW k \in Cards, k \notin doubtful'
             PROVE  CardInv(k)'
  BY NextType DEF CardsInv
<1>0. TypeOK /\ TypeOK' /\ suspended \in Seq(Handlers)
  BY NextType DEF CardsInv, TypeOK
<1>1. CASE mac_window
  <2>1. /\ populate_MACS /\ listbox' = {} /\ mac' = mac /\ suspended' = suspended
        /\ k \notin Shared(mac) /\ k \notin Promised(suspended)
    BY <1>1 DEF mac_window, DoubtOnly
  <2>2. Sole(mac, k)
    BY <2>1 DEF Shared, Sole
  <2>3. Tidy(mac', MAC', order', k)
    BY <1>0, <2>1, <2>2, PopulateTidy
  <2>4. \A a \in Promises(suspended') : a.card # k
    BY <1>0, <2>1, PromiseTypes
  <2> QED
    BY <1>0, <2>1, <2>3, <2>4, FreeList
<1>2. CASE ~mac_window
  <2> DEFINE Still == UNCHANGED <<mac, MAC, order, listbox, doubtful>>
  <2>1. ASSUME doubtful \subseteq doubtful' PROVE CardInv(k)
    BY <2>1 DEF CardsInv
  <2>2. ASSUME Still, Exists' => Exists, Promises(suspended') \subseteq Promises(suspended)
        PROVE  CardInv(k)'
    BY <1>0, <2>1, <2>2, CardFrame
  <2>3. ASSUME suspended # <<>>
        PROVE  /\ Promises(Below) \subseteq Promises(suspended)
               /\ Head(suspended).at \in {"cleared", "assign"} =>
                    Head(suspended).mac \in Promises(suspended)
    BY <1>0, <2>3, PoppedPromises DEF Below
  <2>4. CASE CloseButton \/ Destroy \/ ConfigureDhcp \/ Toggle \/ end_collect_mac
    <3>1. Still /\ (Exists' => Exists) /\ suspended' = suspended
      BY <2>4 DEF CloseButton, Destroy, Close, ConfigureDhcp, Toggle, end_collect_mac,
                  setup_dhcpd, table, Exists
    <3> QED
      BY <2>2, <3>1
  <2>5. CASE HandlerDies \/ DynamicUpdate \/ CollectionEnds
    <3>1. Still /\ (Exists' => Exists) /\ suspended' = Below /\ suspended # <<>>
      BY <2>5 DEF HandlerDies, DynamicUpdate, CollectionEnds, setup_dhcpd, table,
                  Exists, Top
    <3> QED
      BY <2>2, <2>3, <3>1
  <2>6. CASE begin_collect_mac
    <3>1. Still /\ (Exists' => Exists)
      BY <2>6 DEF begin_collect_mac, table, Exists
    <3>2. suspended' = suspended \/ suspended' = <<Collecting>> \o suspended
      BY <2>6 DEF begin_collect_mac, Push
    <3>3. Promises(suspended') = Promises(suspended)
      BY <1>0, <3>2, OtherHandlers, PushedPromises
    <3> QED
      BY <2>2, <3>1, <3>3
  <2>7. CASE \E r \in Cards : Receive(r) \/ load_macs(r)
    <3>1. PICK r \in Cards : Receive(r) \/ load_macs(r)
      BY <2>7
    <3>2. /\ Exists /\ add_mac_to_hash(r) /\ UNCHANGED <<mac, window, suspended>>
          /\ doubtful' = doubtful
      BY <3>1 DEF Receive, load_macs, Exists
    <3> QED
      BY <1>0, <2>1, <3>2, AddInv
  <2>8. CASE \E gone \in {listbox} \cup {{m} : m \in listbox} : clearmacs(gone)
    <3>1. PICK gone : clearmacs(gone)
      BY <2>8
    <3>2. doubtful \subseteq doubtful'
      BY <3>1 DEF clearmacs, Doubt, DoubtOnly
    <3> QED
      BY <1>0, <2>1, <3>1, <3>2, RemoveInv
  <2>9. CASE \E c \in Clients : clear_mac(c)
    <3>1. PICK c \in Clients : clear_mac(c)
      BY <2>9
    <3>2. Exists /\ window' = window
      BY <3>1 DEF clear_mac, Exists
    <3>3. CASE Clear(c, BeforeDhcp)
      BY <1>0, <2>1, <3>2, <3>3, ClearInv, OtherHandlers DEF Clear
    <3>4. CASE ~Clear(c, BeforeDhcp)
      <4>1. /\ mac[c] \in Addresses
            /\ MAC' = [MAC EXCEPT ![mac[c]] = "free"]
            /\ listbox' = listbox \cup {mac[c]}
            /\ UNCHANGED <<mac, order, suspended>>
            /\ doubtful \subseteq doubtful' /\ mac[c].card # k
        BY <1>0, <3>1, <3>4 DEF clear_mac, Assigned, Freed, TypeOK, Doubt, DoubtOnly
      <4>2. MAC'[lc(k)] = MAC[lc(k)] /\ MAC'[uc(lc(k))] = MAC[uc(lc(k))]
        BY <1>0, <4>1, OtherKeys DEF TypeOK
      <4> QED
        BY <1>0, <2>1, <3>2, <4>1, <4>2, CardFrame DEF Exists
    <3> QED
      BY <3>3, <3>4
  <2>10. CASE \E m \in Addresses, c \in Clients : assign2machine(m, c)
    <3>1. PICK m \in Addresses, c \in Clients : assign2machine(m, c)
      BY <2>10
    <3>2. Exists /\ window' = window /\ m \in listbox
      BY <3>1 DEF assign2machine, Exists
    <3>3. CASE Clear(c, Giving("cleared", m, c))
      BY <1>0, <2>1, <3>2, <3>3, ClearInv, GivingIsAHandler DEF Clear
    <3>4. CASE ~Clear(c, Giving("cleared", m, c))
      <4> DEFINE L == listbox \cup ({mac[c]} \ {NoMac})
                 K == CardsOf({mac[c]} \ {NoMac}) \cup ({m.card} \cap Promised(suspended))
      <4>1. Give(m, c, Freed(c), L, suspended) /\ Doubt(K) /\ order' = order
        BY <3>1, <3>4 DEF assign2machine
      <4>2. doubtful \subseteq doubtful' /\ k \notin K
        BY <4>1 DEF Doubt, DoubtOnly
      <4>3. mac[c] = NoMac \/ (mac[c] \in Addresses /\ mac[c].card # k)
        BY <1>0, <4>2 DEF CardsOf, TypeOK
      <4>4. m.card = k => \A a \in Promises(suspended) : a.card # k
        BY <1>0, <4>2, PromiseTypes
      <4> HIDE DEF K
      <4>5. /\ Freed(c) \in Tables
            /\ Freed(c)[lc(k)] = MAC[lc(k)] /\ Freed(c)[uc(lc(k))] = MAC[uc(lc(k))]
        BY <1>0, <4>3, OtherKeys DEF Freed, Assigned, Tables, TypeOK
      <4>6. \A a \in L : a.card = k => a \in listbox
        BY <4>3
      <4> HIDE DEF L
      <4> QED
        BY <1>0, <2>1, <3>2, <4>1, <4>2, <4>4, <4>5, <4>6, GiveInv
    <3> QED
      BY <3>3, <3>4
  <2>11. CASE ClearedUpdate
    <3> DEFINE h == Head(suspended)
    <3>1. /\ Still /\ (Exists' => Exists) /\ suspended # <<>> /\ h.at = "cleared"
          /\ suspended' = <<[h EXCEPT !.at = "assign"]>> \o Below
      BY <2>11 DEF ClearedUpdate, Top, table, Exists
    <3>2. h \in Handlers /\ Below \in Seq(Handlers)
      BY <1>0, <3>1, Popped DEF Below
    <3>3. /\ [h EXCEPT !.at = "assign"] \in Handlers
          /\ [h EXCEPT !.at = "assign"].at = "assign"
          /\ [h EXCEPT !.at = "assign"].mac = h.mac
      <4> HIDE DEF h
      <4> QED
        BY <3>1, <3>2, HandlerFields, GivingIsAHandler
    <3>4. Promises(suspended') = Promises(Below) \cup {h.mac}
      BY <3>1, <3>2, <3>3, PushedPromises
    <3> QED
      BY <2>2, <2>3, <3>1, <3>4
  <2>12. CASE GoOnAssigning
    <3> DEFINE h == Head(suspended)
    <3>1. /\ suspended # <<>> /\ h.at \in {"cleared", "assign"}
          /\ Give(h.mac, h.client, MAC, listbox, Below)
          /\ Doubt({h.mac.card} \cap Promised(Below))
          /\ UNCHANGED <<order, window>>
      BY <2>12 DEF GoOnAssigning, Top
    <3>2. h \in Handlers /\ Below \in Seq(Handlers)
      BY <1>0, <3>1, Popped DEF Below
    <3>3. h.mac \in Addresses /\ h.client \in Clients
      BY <3>1, <3>2, HandlerFields
    <3>4. /\ doubtful \subseteq doubtful'
          /\ h.mac.card = k => \A a \in Promises(Below) : a.card # k
      BY <3>1, <3>2, PromiseTypes DEF Doubt, DoubtOnly
    <3>5. MAC \in Tables
      BY <1>0 DEF TypeOK, Tables
    <3> HIDE DEF h
    <3> QED
      BY <1>0, <2>1, <2>3, <3>1, <3>2, <3>3, <3>4, <3>5, GiveInv DEF h
  <2>13. CASE \E given \in PartialFunctions(Clients, listbox),
                 failed \in SUBSET listbox : assignallmacs(given, failed)
    <3>1. PICK given \in PartialFunctions(Clients, listbox), failed \in SUBSET listbox :
            assignallmacs(given, failed)
      BY <2>13
    <3>2. doubtful \subseteq doubtful'
      BY <3>1 DEF assignallmacs, Doubt, DoubtOnly
    <3> QED
      BY <1>0, <2>1, <3>1, <3>2, AssignAllInv
  <2>14. CASE \E live \in PartialFunctions(Clients, Cards) : update_live_macs(live)
    <3>1. PICK live \in PartialFunctions(Clients, Cards) : update_live_macs(live)
      BY <2>14
    <3>2. doubtful \subseteq doubtful'
      BY <3>1 DEF update_live_macs, Doubt, DoubtOnly
    <3> QED
      BY <1>0, <2>1, <3>1, <3>2, LiveInv
  <2>15. CASE UNCHANGED vars
    <3>1. Still /\ (Exists' => Exists) /\ suspended' = suspended
      BY <2>15 DEF vars, table, Exists
    <3> QED
      BY <2>2, <3>1
  <2> QED
    BY <1>2, <2>4, <2>5, <2>6, <2>7, <2>8, <2>9, <2>10, <2>11, <2>12, <2>13,
       <2>14, <2>15 DEF Next
<1> QED
  BY <1>1, <1>2

LEMMA InitInv == Init => CardsInv
<1> SUFFICES ASSUME Init, NEW k \in Cards PROVE CardInv(k)
  BY InitType DEF CardsInv
<1>1. Promises(suspended) = {} /\ ~Exists /\ Holders(mac, k) = {}
  BY DEF Init, Promises, Givers, Waiting, Exists, Holders
<1> QED
  BY <1>1 DEF CardInv, Sole

(* No two clients have the same card, unless one of the three things that  *)
(* make it doubtful has happened to it since the window opened.            *)
THEOREM CardsAreNotShared == Spec => []NoSharedCard
<1>1. CardsInv => NoSharedCard
  BY DEF CardsInv, CardInv, Sole, NoSharedCard, Shared
<1> QED
  BY InitInv, NextInv, <1>1, PTL DEF Spec

-----------------------------------------------------------------------------
(* A destroyed window keeps COLLECT, since its handlers are gone.          *)
PingInv == /\ PingEnds
           /\ COLLECT \in BOOLEAN
           /\ window = "dead" => COLLECT

LEMMA NextPing == TypeOK /\ PingInv /\ [Next]_vars => PingInv'
<1> SUFFICES ASSUME TypeOK, PingInv, [Next]_vars PROVE PingInv'
  OBVIOUS
<1> USE DEF PingInv, PingEnds, Exists
<1>1. CASE mac_window \/ CloseButton \/ Destroy \/ HandlerDies
  BY <1>1 DEF mac_window, CloseButton, Destroy, Close, HandlerDies, collection
<1>2. CASE ConfigureDhcp \/ DynamicUpdate \/ Toggle
  BY <1>2 DEF ConfigureDhcp, DynamicUpdate, Toggle, setup_dhcpd, collection
<1>3. CASE begin_collect_mac \/ end_collect_mac \/ CollectionEnds
  BY <1>3 DEF begin_collect_mac, end_collect_mac, CollectionEnds
<1>4. CASE \E k \in Cards : Receive(k) \/ load_macs(k)
  BY <1>4 DEF Receive, load_macs, collection
<1>5. CASE \E gone \in {listbox} \cup {{m} : m \in listbox} : clearmacs(gone)
  BY <1>5 DEF clearmacs, collection
<1>6. CASE \E c \in Clients : clear_mac(c)
  BY <1>6 DEF clear_mac, collection
<1>7. CASE \E m \in Addresses, c \in Clients : assign2machine(m, c)
  BY <1>7 DEF assign2machine, collection
<1>8. CASE ClearedUpdate \/ GoOnAssigning
  BY <1>8 DEF ClearedUpdate, GoOnAssigning, setup_dhcpd, collection
<1>9. CASE \E given \in PartialFunctions(Clients, listbox),
              failed \in SUBSET listbox : assignallmacs(given, failed)
  BY <1>9 DEF assignallmacs, collection
<1>10. CASE \E live \in PartialFunctions(Clients, Cards) : update_live_macs(live)
  BY <1>10 DEF update_live_macs, collection
<1>11. CASE UNCHANGED vars
  BY <1>11 DEF vars, collection
<1> QED
  BY <1>1, <1>2, <1>3, <1>4, <1>5, <1>6, <1>7, <1>8, <1>9, <1>10, <1>11
     DEF Next

(* The background ping only outlives a window that the window manager      *)
(* destroyed during a collection.                                          *)
THEOREM PingIsEnded == Spec => []PingEnds
<1>1. Init => PingInv
  BY DEF Init, PingInv, PingEnds
<1>2. PingInv => PingEnds
  BY DEF PingInv
<1> QED
  BY InitType, NextType, <1>1, <1>2, NextPing, PTL DEF Spec

-----------------------------------------------------------------------------
(* The handlers that are going to configure dhcpd.                         *)
Configures(s) == \E h \in Waiting(s) : h.at \in {"cleared", "dhcp"}

(* Without "Dynamic DHCP update" dhcpd owes nothing.                       *)
MovedInv == /\ MovedIsServed
            /\ ~dyndhcp => ~moved

LEMMA PushedConfigures ==
    ASSUME NEW s \in Seq(Handlers), NEW h \in Handlers
    PROVE  Configures(<<h>> \o s) <=> Configures(s) \/ h.at \in {"cleared", "dhcp"}
<1> DEFINE t == <<h>> \o s
<1>1. Waiting(t) = Waiting(s) \cup {h}
  BY Pushed
<1> HIDE DEF t
<1>2. Configures(t) <=> Configures(s) \/ h.at \in {"cleared", "dhcp"}
  BY <1>1 DEF Configures
<1> QED
  BY <1>2 DEF t

LEMMA PoppedConfigures ==
    ASSUME NEW s \in Seq(Handlers), s # <<>>
    PROVE  Configures(s) <=> Configures(Tail(s)) \/ Head(s).at \in {"cleared", "dhcp"}
  BY Popped DEF Configures

(* What the second half of assign2machine leaves.                          *)
LEMMA GiveMoved ==
    ASSUME TypeOK, NEW m, NEW c, NEW M, NEW L, NEW below \in Seq(Handlers),
           Give(m, c, M, L, below), Exists
    PROVE  \/ Configures(suspended') /\ moved' = (moved \/ dyndhcp)
           \/ moved' = moved /\ suspended' = below
<1>1. CASE moved' = moved /\ suspended' = below
  BY <1>1
<1>2. CASE ~(moved' = moved /\ suspended' = below)
  <2>1. moved' = (moved \/ dyndhcp) /\ suspended' = <<BeforeDhcp>> \o below
    BY <1>2 DEF Give, set_adapter, Push
  <2> QED
    BY <2>1, OtherHandlers, PushedConfigures
<1> QED
  BY <1>1, <1>2

LEMMA NextMoved == TypeOK /\ MovedInv /\ [Next]_vars => MovedInv'
<1> SUFFICES ASSUME TypeOK, MovedInv, [Next]_vars PROVE MovedInv'
  OBVIOUS
<1>0. /\ suspended \in Seq(Handlers) /\ moved \in BOOLEAN /\ dyndhcp \in BOOLEAN
      /\ window = "open" /\ moved => Configures(suspended)
      /\ ~dyndhcp => ~moved
  BY DEF TypeOK, MovedInv, MovedIsServed, Configures
<1>s. SUFFICES /\ window' = "open" /\ moved' => Configures(suspended')
               /\ ~dyndhcp' => ~moved'
  BY DEF MovedInv, MovedIsServed, Configures
<1>p. ASSUME suspended # <<>>
      PROVE  /\ Below \in Seq(Handlers) /\ Head(suspended) \in Handlers
             /\ Configures(suspended) <=>
                  Configures(Below) \/ Head(suspended).at \in {"cleared", "dhcp"}
  BY <1>0, <1>p, Popped, PoppedConfigures DEF Below
<1>1. CASE mac_window \/ CloseButton \/ Destroy
  BY <1>0, <1>1 DEF mac_window, CloseButton, Destroy, Close
<1>2. CASE HandlerDies
  BY <1>0, <1>2 DEF HandlerDies, Exists
<1>3. CASE ConfigureDhcp \/ Toggle \/ end_collect_mac
  BY <1>0, <1>3 DEF ConfigureDhcp, Toggle, end_collect_mac, setup_dhcpd, Configured,
                    NotConfigured
<1>4. CASE DynamicUpdate
  <2>1. suspended' = Below /\ suspended # <<>> /\ dyndhcp' = dyndhcp
    BY <1>4 DEF DynamicUpdate, Top
  <2>2. CASE dyndhcp
    BY <1>0, <1>4, <2>1, <2>2 DEF DynamicUpdate, setup_dhcpd, Configured, NotConfigured
  <2>3. CASE ~dyndhcp
    BY <1>0, <1>4, <2>1, <2>3 DEF DynamicUpdate
  <2> QED
    BY <2>2, <2>3
<1>5. CASE CollectionEnds
  <2>1. /\ suspended' = Below /\ suspended # <<>> /\ Head(suspended).at = "collect"
        /\ UNCHANGED <<window, moved, dyndhcp>>
    BY <1>5 DEF CollectionEnds, Top
  <2> QED
    BY <1>0, <1>p, <2>1
<1>6. CASE begin_collect_mac
  <2>1. /\ suspended' = suspended \/ suspended' = <<Collecting>> \o suspended
        /\ UNCHANGED <<window, moved, dyndhcp>>
    BY <1>6 DEF begin_collect_mac, Push
  <2>2. Configures(suspended') <=> Configures(suspended)
    <3>1. Configures(<<Collecting>> \o suspended) <=> Configures(suspended)
      BY <1>0, OtherHandlers, PushedConfigures
    <3> QED
      BY <2>1, <3>1
  <2> QED
    BY <1>0, <2>1, <2>2
<1>7. CASE \E k \in Cards : Receive(k) \/ load_macs(k)
  BY <1>0, <1>7 DEF Receive, load_macs
<1>8. CASE \E gone \in {listbox} \cup {{m} : m \in listbox} : clearmacs(gone)
  BY <1>0, <1>8 DEF clearmacs
<1>9. CASE \E c \in Clients : clear_mac(c)
  <2>1. PICK c \in Clients : clear_mac(c)
    BY <1>9
  <2>2. dyndhcp' = dyndhcp /\ window' = window
    BY <2>1 DEF clear_mac
  <2>3. CASE Clear(c, BeforeDhcp)
    <3>1. suspended' = <<BeforeDhcp>> \o suspended /\ moved' = (moved \/ dyndhcp)
      BY <2>3 DEF Clear, Push, set_adapter
    <3> QED
      BY <1>0, <2>2, <3>1, OtherHandlers, PushedConfigures
  <2>4. CASE ~Clear(c, BeforeDhcp)
    BY <1>0, <2>1, <2>2, <2>4 DEF clear_mac
  <2> QED
    BY <2>3, <2>4
<1>10. CASE \E m \in Addresses, c \in Clients : assign2machine(m, c)
  <2>1. PICK m \in Addresses, c \in Clients : assign2machine(m, c)
    BY <1>10
  <2>2. dyndhcp' = dyndhcp /\ window' = window /\ Exists
    BY <2>1 DEF assign2machine, Exists
  <2>3. CASE Clear(c, Giving("cleared", m, c))
    <3>1. /\ suspended' = <<Giving("cleared", m, c)>> \o suspended
          /\ moved' = (moved \/ dyndhcp)
      BY <2>3 DEF Clear, Push, set_adapter
    <3> QED
      BY <1>0, <2>2, <3>1, GivingIsAHandler, PushedConfigures
  <2>4. CASE ~Clear(c, Giving("cleared", m, c))
    <3> DEFINE L == listbox \cup ({mac[c]} \ {NoMac})
    <3>1. Give(m, c, Freed(c), L, suspended)
      BY <2>1, <2>4 DEF assign2machine
    <3> HIDE DEF L
    <3> QED
      BY <1>0, <2>2, <3>1, GiveMoved
  <2> QED
    BY <2>3, <2>4
<1>11. CASE ClearedUpdate
  <2>1. dyndhcp /\ dyndhcp' = dyndhcp /\ setup_dhcpd
    BY <1>11 DEF ClearedUpdate
  <2> QED
    BY <2>1 DEF setup_dhcpd, Configured, NotConfigured
<1>12. CASE GoOnAssigning
  <2> DEFINE h == Head(suspended)
  <2>1. /\ suspended # <<>> /\ Give(h.mac, h.client, MAC, listbox, Below)
        /\ h.at = "assign" \/ (h.at = "cleared" /\ ~dyndhcp)
        /\ UNCHANGED <<window, dyndhcp>>
    BY <1>12 DEF GoOnAssigning, Top
  <2> HIDE DEF h
  <2>2. CASE window' = "open"
    <3>1. \/ Configures(suspended') /\ moved' = (moved \/ dyndhcp)
          \/ moved' = moved /\ suspended' = Below
      BY <1>p, <2>1, <2>2, GiveMoved DEF Exists
    <3>2. Configures(suspended) <=> Configures(Below) \/ h.at \in {"cleared", "dhcp"}
      BY <1>p, <2>1 DEF h
    <3> QED
      BY <1>0, <2>1, <3>1, <3>2
  <2>3. CASE window' # "open"
    <3>1. moved' = moved \/ moved' = (moved \/ dyndhcp)
      BY <2>1 DEF Give, set_adapter
    <3> QED
      BY <1>0, <2>1, <2>3, <3>1
  <2> QED
    BY <2>2, <2>3
<1>13. CASE \E given \in PartialFunctions(Clients, listbox),
               failed \in SUBSET listbox : assignallmacs(given, failed)
  <2>1. /\ UNCHANGED <<window, dyndhcp, suspended>>
        /\ IF dyndhcp THEN Configured \/ NotConfigured ELSE UNCHANGED moved
    BY <1>13 DEF assignallmacs
  <2> QED
    BY <1>0, <2>1 DEF Configured, NotConfigured
<1>14. CASE \E live \in PartialFunctions(Clients, Cards) : update_live_macs(live)
  <2>1. UNCHANGED <<window, dyndhcp, suspended>> /\ (moved' = FALSE \/ moved' = moved)
    BY <1>14 DEF update_live_macs, Configured, NotConfigured
  <2> QED
    BY <1>0, <2>1
<1>15. CASE UNCHANGED vars
  BY <1>0, <1>15 DEF vars
<1> QED
  BY <1>1, <1>2, <1>3, <1>4, <1>5, <1>6, <1>7, <1>8, <1>9, <1>10, <1>11,
     <1>12, <1>13, <1>14, <1>15 DEF Next

(* However the handlers are nested, a client whose address has been        *)
(* changed is served by dhcpd when the window can be used, or a suspended  *)
(* handler is still going to configure dhcpd.                              *)
THEOREM MovedClientsAreServed == Spec => []MovedIsServed
<1>1. Init => MovedInv
  BY DEF Init, MovedInv, MovedIsServed
<1>2. MovedInv => MovedIsServed
  BY DEF MovedInv
<1> QED
  BY InitType, NextType, <1>1, <1>2, NextMoved, PTL DEF Spec

-----------------------------------------------------------------------------
(* The node management window: its lists as sequences of entries.          *)

LEMMA RemoveAtProperties ==
    ASSUME NEW S, NEW s \in Seq(S), NEW i \in 1..Len(s)
    PROVE  /\ RemoveAt(s, i) \in Seq(S)
           /\ Len(RemoveAt(s, i)) = Len(s) - 1
           /\ \A j \in 1..(Len(s) - 1) :
                 RemoveAt(s, i)[j] = IF j < i THEN s[j] ELSE s[j + 1]
<1> DEFINE a == SubSeq(s, 1, i - 1)
           b == SubSeq(s, i + 1, Len(s))
<1>1. Len(s) \in Nat /\ i \in Nat
  BY LenProperties
<1>2. /\ a \in Seq(S) /\ Len(a) = i - 1
      /\ \A j \in 1..(i - 1) : a[j] = s[j]
  <2>1. \A j \in 1..(i - 1) : s[j] \in S
    BY <1>1, ElementOfSeq
  <2> QED BY <2>1, <1>1, SubSeqProperties
<1>3. /\ b \in Seq(S) /\ Len(b) = Len(s) - i
      /\ \A j \in 1..(Len(s) - i) : b[j] = s[j + i]
  <2>1. \A j \in (i + 1)..Len(s) : s[j] \in S
    BY <1>1, ElementOfSeq
  <2>2. /\ b \in Seq(S)
        /\ Len(b) = IF i + 1 <= Len(s) THEN Len(s) - (i + 1) + 1 ELSE 0
        /\ \A j \in 1..(Len(s) - (i + 1) + 1) : b[j] = s[(i + 1) + j - 1]
    BY <2>1, <1>1, SubSeqProperties
  <2> QED BY <2>2, <1>1
<1> HIDE DEF a, b
<1>4. /\ a \o b \in Seq(S) /\ Len(a \o b) = Len(a) + Len(b)
      /\ \A j \in 1..(Len(a) + Len(b)) :
            (a \o b)[j] = IF j <= Len(a) THEN a[j] ELSE b[j - Len(a)]
  BY <1>2, <1>3, ConcatProperties
<1>5. RemoveAt(s, i) = a \o b
  BY DEF RemoveAt, a, b
<1>6. Len(a) + Len(b) = Len(s) - 1
  BY <1>1, <1>2, <1>3
<1>7. ASSUME NEW j \in 1..(Len(s) - 1)
      PROVE  (a \o b)[j] = IF j < i THEN s[j] ELSE s[j + 1]
  <2>1. CASE j < i
    BY <2>1, <1>1, <1>2, <1>4, <1>6
  <2>2. CASE ~(j < i)
    <3>1. /\ j - (i - 1) \in 1..(Len(s) - i)
          /\ (a \o b)[j] = b[j - (i - 1)]
      BY <2>2, <1>1, <1>2, <1>4, <1>6
    <3>2. b[j - (i - 1)] = s[(j - (i - 1)) + i]
      BY <3>1, <1>3
    <3> QED BY <2>2, <3>1, <3>2, <1>1
  <2> QED BY <2>1, <2>2
<1> QED BY <1>4, <1>5, <1>6, <1>7

(* The lines an import takes: each unused one, once.                       *)
LEMMA InOrderProperties ==
    ASSUME NEW S \in SUBSET Nat, IsFiniteSet(S), NEW at \in inOrder(S)
    PROVE  /\ Cardinality(S) \in Nat
           /\ at \in [1..Cardinality(S) -> S]
           /\ \A i, j \in 1..Cardinality(S) : at[i] = at[j] => i = j
           /\ \A k \in S : \E i \in 1..Cardinality(S) : at[i] = k
           /\ at \in Seq(S) /\ Len(at) = Cardinality(S)
<1>1. Cardinality(S) \in Nat /\ at \in [1..Cardinality(S) -> S]
  BY FS_CardinalityType DEF inOrder
<1>2. \A i, j \in 1..Cardinality(S) : i < j => at[i] < at[j]
  BY <1>1 DEF inOrder
<1>3. \A i \in 1..Cardinality(S) : at[i] \in Nat
  BY <1>1
<1>4. ASSUME NEW i \in 1..Cardinality(S), NEW j \in 1..Cardinality(S), at[i] = at[j]
      PROVE  i = j
  BY <1>1, <1>2, <1>3, <1>4
<1>5. at \in Injection(1..Cardinality(S), S)
  BY <1>1, <1>4 DEF Injection, IsInjective
<1>6. Cardinality(1..Cardinality(S)) = Cardinality(S)
  BY <1>1, FS_Interval
<1>7. at \in Surjection(1..Cardinality(S), S)
  BY <1>5, <1>6, FS_Injection
<1>8. at \in Seq(S) /\ Len(at) = Cardinality(S)
  <2>1. at \in Seq(S)
    BY <1>1, SeqDef
  <2> QED BY <2>1, <1>1, LenProperties
<1> QED BY <1>1, <1>4, <1>7, <1>8 DEF Surjection

LEMMA LeastNumber ==
    ASSUME NEW S \in SUBSET Nat, S # {}
    PROVE  \E m \in S : \A n \in S : m <= n
<1> DEFINE R == OpToRel(<, Nat)
<1>1. ASSUME NEW x \in Nat, NEW y \in Nat, x < y PROVE <<x, y>> \in R
  BY <1>1 DEF OpToRel
<1>2. IsWellFoundedOn(R, Nat)
  BY NatLessThanWellFounded
<1> HIDE DEF R
<1>3. PICK m \in S : \A y \in S : ~ (<<y, m>> \in R)
  BY <1>2, WFMin
<1>4. ASSUME NEW n \in S PROVE ~(n < m)
  BY <1>1, <1>3, <1>4, Zenon
<1>5. \A n \in S : n \in Nat /\ m \in Nat /\ ~(n < m)
  BY <1>4
<1> QED BY <1>5

Row == [num : Nat, ip : Nat, mac : Entries \cup {Blank}]
Has(list, addr) == \E i \in DOMAIN list : list[i] = addr

LEMMA ImportedLines ==
    ASSUME NEW lines \in Seq(Macs), insertUnused(lines)
    PROVE  \E added \in Seq(Macs) :
              /\ othermacs' = othermacs \o added
              /\ usedmacs' = usedmacs \cup ToSet(lines)
              /\ \A i, j \in DOMAIN added : added[i] = added[j] => i = j
              /\ \A addr : Has(added, addr) <=> addr \in ToSet(lines) /\ addr \notin usedmacs
<1> DEFINE first == {k \in DOMAIN lines :
                       /\ lines[k] \notin usedmacs
                       /\ \A j \in 1..(k - 1) : lines[j] # lines[k]}
           n == Cardinality(first)
<1>1. /\ Len(lines) \in Nat /\ DOMAIN lines = 1..Len(lines)
      /\ \A k \in 1..Len(lines) : lines[k] \in Macs
  BY LenProperties, ElementOfSeq
<1>2. PICK at \in inOrder(first) : othermacs' = othermacs \o [i \in DOMAIN at |-> lines[at[i]]]
  BY DEF insertUnused
<1>3. first \in SUBSET Nat /\ IsFiniteSet(first)
  <2>1. IsFiniteSet(1..Len(lines)) /\ first \in SUBSET (1..Len(lines))
    BY <1>1, FS_Interval
  <2> QED BY <2>1, FS_Subset
<1>4. \A k \in first : /\ k \in 1..Len(lines) /\ lines[k] \in Macs /\ lines[k] \notin usedmacs
                       /\ \A j \in 1..(k - 1) : lines[j] # lines[k]
  BY <1>1
<1>5. ASSUME NEW addr \in ToSet(lines), addr \notin usedmacs
      PROVE  \E k \in first : lines[k] = addr
  <2> DEFINE S == {k \in 1..Len(lines) : lines[k] = addr}
  <2>1. S \in SUBSET Nat /\ S # {}
    BY <1>1 DEF ToSet
  <2>2. PICK k \in S : \A l \in S : k <= l
    BY <2>1, LeastNumber
  <2>3. k \in 1..Len(lines) /\ lines[k] = addr
    BY <2>2
  <2>4. ASSUME NEW j \in 1..(k - 1) PROVE lines[j] # lines[k]
    <3>1. j \in 1..Len(lines) /\ ~(k <= j)
      BY <1>1, <2>3
    <3> QED BY <3>1, <2>2, <2>3
  <2> QED BY <1>1, <1>5, <2>3, <2>4
<1> HIDE DEF first
<1>6. /\ n \in Nat /\ at \in [1..n -> first]
      /\ \A i, j \in 1..n : at[i] = at[j] => i = j
      /\ \A k \in first : \E i \in 1..n : at[i] = k
  BY <1>2, <1>3, InOrderProperties
<1> HIDE DEF n
<1> DEFINE added == [i \in 1..n |-> lines[at[i]]]
<1>7. /\ added \in Seq(Macs) /\ DOMAIN added = 1..n
      /\ othermacs' = othermacs \o added
  <2>1. \A i \in 1..n : lines[at[i]] \in Macs
    BY <1>4, <1>6
  <2>2. added \in [1..n -> Macs]
    BY <2>1
  <2>3. [i \in DOMAIN at |-> lines[at[i]]] = added
    BY <1>6
  <2> QED BY <1>2, <1>6, <2>2, <2>3, SeqDef
<1>8. ASSUME NEW i \in 1..n, NEW j \in 1..n, added[i] = added[j] PROVE i = j
  <2>1. lines[at[i]] = lines[at[j]] /\ at[i] \in first /\ at[j] \in first
    BY <1>6, <1>8
  <2>2. at[i] = at[j]
    BY <2>1, <1>4
  <2> QED BY <2>2, <1>6
<1>9. ASSUME NEW addr
      PROVE  Has(added, addr) <=> addr \in ToSet(lines) /\ addr \notin usedmacs
  <2>1. ASSUME NEW i \in 1..n, added[i] = addr
        PROVE  addr \in ToSet(lines) /\ addr \notin usedmacs
    BY <2>1, <1>1, <1>4, <1>6 DEF ToSet
  <2>2. ASSUME NEW k \in first, lines[k] = addr PROVE \E i \in 1..n : added[i] = addr
    BY <2>2, <1>6
  <2> HIDE DEF added
  <2> QED BY <2>1, <2>2, <1>5, <1>7 DEF Has
<1>10. usedmacs' = usedmacs \cup ToSet(lines)
  BY DEF insertUnused
<1> HIDE DEF added
<1>11. \A i, j \in DOMAIN added : added[i] = added[j] => i = j
  BY <1>7, <1>8
<1>12. \A addr : Has(added, addr) <=> addr \in ToSet(lines) /\ addr \notin usedmacs
  BY <1>9
<1> QED BY <1>7, <1>10, <1>11, <1>12

(* The rows a definition of nodes adds.                                    *)
LEMMA DefinedRows ==
    ASSUME NEW list \in Seq(Entries \cup {Blank}), definenodes(list),
           nodeTable \in Seq(Row), texts \in Settings
    PROVE  /\ nodeTable' \in Seq(Row)
           /\ Len(nodeTable') = Len(nodeTable) + Len(list)
           /\ \A k \in 1..Len(nodeTable) : nodeTable'[k] = nodeTable[k]
           /\ \A k \in 1..Len(list) :
                 nodeTable'[Len(nodeTable) + k]
                   = [num |-> texts.num + (k - 1), ip |-> texts.ip + (k - 1), mac |-> list[k]]
           /\ texts' = [num |-> texts.num + Len(list), ip |-> texts.ip + Len(list)]
           /\ texts' \in Settings
<1> DEFINE rows == [k \in DOMAIN list |-> [num |-> texts.num + (k - 1),
                                           ip |-> texts.ip + (k - 1), mac |-> list[k]]]
<1>1. /\ Len(list) \in Nat /\ DOMAIN list = 1..Len(list)
      /\ \A k \in 1..Len(list) : list[k] \in Entries \cup {Blank}
  BY LenProperties, ElementOfSeq
<1>2. Len(nodeTable) \in Nat
  BY LenProperties
<1>3. /\ texts.num \in Nat /\ texts.ip \in Nat
  BY DEF Settings
<1>4. nodeTable' = nodeTable \o rows
  BY DEF definenodes
<1>5. /\ rows \in Seq(Row) /\ Len(rows) = Len(list)
      /\ \A k \in 1..Len(list) : rows[k] = [num |-> texts.num + (k - 1),
                                            ip |-> texts.ip + (k - 1), mac |-> list[k]]
  <2>1. rows \in [1..Len(list) -> Row]
    BY <1>1, <1>3 DEF Row
  <2>2. rows \in Seq(Row)
    BY <2>1, <1>1, SeqDef
  <2> QED BY <2>1, <2>2, <1>1, LenProperties
<1> HIDE DEF rows
<1>6. /\ nodeTable \o rows \in Seq(Row)
      /\ Len(nodeTable \o rows) = Len(nodeTable) + Len(rows)
      /\ \A k \in 1..(Len(nodeTable) + Len(rows)) :
            (nodeTable \o rows)[k] = IF k <= Len(nodeTable) THEN nodeTable[k]
                                     ELSE rows[k - Len(nodeTable)]
  <2>1. rows \in Seq(Row)
    BY <1>5
  <2> QED BY ONLY <2>1, nodeTable \in Seq(Row), ConcatProperties
<1>7. ASSUME NEW k \in 1..Len(nodeTable) PROVE nodeTable'[k] = nodeTable[k]
  BY <1>1, <1>2, <1>4, <1>5, <1>6
<1>8. ASSUME NEW k \in 1..Len(list) PROVE nodeTable'[Len(nodeTable) + k] = rows[k]
  <2>1. /\ Len(nodeTable) + k \in 1..(Len(nodeTable) + Len(rows))
        /\ ~(Len(nodeTable) + k <= Len(nodeTable))
        /\ (Len(nodeTable) + k) - Len(nodeTable) = k
    BY <1>1, <1>2, <1>5
  <2> QED BY <2>1, <1>4, <1>6
<1>9. /\ texts' = [num |-> texts.num + Len(list), ip |-> texts.ip + Len(list)]
      /\ texts' \in Settings
  BY <1>1, <1>3 DEF definenodes, Settings
<1> QED BY <1>4, <1>5, <1>6, <1>7, <1>8, <1>9

LEMMA MgmtInitType == MgmtInit => MgmtTypeOK
<1> SUFFICES ASSUME MgmtInit PROVE MgmtTypeOK
  OBVIOUS
<1>1. ASSUME NEW list \in Seq(Macs) PROVE list \in Seq(Entries) /\ ToSet(list) \subseteq Entries
  BY SeqMonotonic, LenProperties, ElementOfSeq DEF Entries, ToSet
<1>2. othermacs \in Seq(Entries) /\ straymacs \in Seq(Entries) /\ usedmacs \subseteq Entries
  BY <1>1, SamplesAssumption DEF MgmtInit
<1>3. nodeTable \in Seq([num : Nat, ip : Nat, mac : Entries \cup {Blank}]) /\ macs \in Seq(Macs)
  BY EmptySeq DEF MgmtInit
<1>4. MaxEdits \in Nat
  BY BoundsAssumption
<1>5. \A name \in DOMAIN oda : name \in Nat /\ oda[name] \in Entries \cup {Blank}
  BY DEF MgmtInit
<1>6. texts \in Settings /\ undo \in Settings /\ edits \in 0..MaxEdits
  BY <1>4 DEF MgmtInit, Settings
<1>7. /\ {collecting, settingsDialog, open, cleared, renumbered} \subseteq BOOLEAN
      /\ mac_collectorProcess \in {"idle", "running", "killed"}
      /\ collecting => mac_collectorProcess # "idle"
      /\ mac_collectorProcess = "running" /\ open => collecting
  BY DEF MgmtInit
<1> QED BY <1>2, <1>3, <1>5, <1>6, <1>7 DEF MgmtTypeOK

(* What happens to the sequences of entries in a step, as one predicate.   *)
SeqsTyped ==
    /\ othermacs \in Seq(Entries) /\ straymacs \in Seq(Entries)
    /\ nodeTable \in Seq(Row)
    /\ usedmacs \subseteq Entries
    /\ \A name \in DOMAIN oda : name \in Nat /\ oda[name] \in Entries \cup {Blank}
RestTyped ==
    /\ macs \in Seq(Macs)
    /\ {collecting, settingsDialog, open, cleared, renumbered} \subseteq BOOLEAN
    /\ mac_collectorProcess \in {"idle", "running", "killed"}
    /\ texts \in Settings /\ undo \in Settings /\ edits \in 0..MaxEdits
    /\ collecting => mac_collectorProcess # "idle"
    /\ mac_collectorProcess = "running" /\ open => collecting

LEMMA TypeParts == MgmtTypeOK <=> SeqsTyped /\ RestTyped
  BY DEF MgmtTypeOK, SeqsTyped, RestTyped, Row

LEMMA RestStaysTyped ==
    ASSUME SeqsTyped, RestTyped, [MgmtNext]_mgmtVars
    PROVE  RestTyped'
<1> USE BoundsAssumption DEF RestTyped, mgmtVars, lists, nodes, collector, settings
<1>1. CASE UNCHANGED mgmtVars
  BY <1>1
<1>2. CASE Collect
  <2>1. CASE startnetcollection
    BY <2>1 DEF startnetcollection
  <2>2. CASE stopcollect_clicked
    BY <2>2 DEF stopcollect_clicked, stopnetcollection
  <2>3. ASSUME NEW addr \in Macs, getcollectedmacs(addr) PROVE RestTyped'
    <3>1. macs' \in Seq(Macs)
      BY <2>3, AppendProperties DEF getcollectedmacs
    <3> QED BY <2>3, <3>1 DEF getcollectedmacs
  <2>4. CASE processExited
    BY <2>4 DEF processExited
  <2>5. CASE processnetmacs
    <3>1. macs' \in Seq(Macs)
      BY <2>5, EmptySeq DEF processnetmacs
    <3> QED BY <2>5, <3>1 DEF processnetmacs
  <2> QED BY <1>2, <2>1, <2>2, <2>3, <2>4, <2>5 DEF Collect
<1>3. CASE Import
  <2>1. UNCHANGED <<collector, settings, open, cleared>>
    BY <1>3 DEF Import, importmacs_clicked, importmanualmac_clicked
  <2> QED BY <2>1
<1>4. CASE Move
  <2>1. CASE clearmacs_clicked
    BY <2>1 DEF clearmacs_clicked
  <2>2. CASE ~clearmacs_clicked
    <3>1. UNCHANGED <<collector, settings, open, cleared>>
      BY <1>4, <2>2 DEF Move, straytounass_clicked, unasstostray_clicked,
                        allstraytounass_clicked, allunasstostray_clicked
    <3> QED BY <3>1
  <2> QED BY <2>1, <2>2
<1>5. CASE Assign
  <2>1. ASSUME NEW list \in Seq(Entries \cup {Blank}), definenodes(list),
               UNCHANGED <<collector, open, cleared>>
        PROVE  RestTyped'
    <3>1. nodeTable \in Seq(Row)
      BY DEF SeqsTyped
    <3>2. texts' \in Settings
      BY ONLY <2>1, <3>1, RestTyped, DefinedRows DEF RestTyped
    <3>3. undo' = texts' /\ UNCHANGED <<settingsDialog, edits>>
      BY <2>1 DEF definenodes
    <3>4. renumbered' \in BOOLEAN
      BY <2>1 DEF definenodes
    <3> QED BY <2>1, <3>2, <3>3, <3>4
  <2>2. ASSUME NEW numnodes \in 1..MaxNodes, defineNnodes(numnodes) PROVE RestTyped'
    <3>1. numnodes \in Nat
      OBVIOUS
    <3>2. [k \in 1..numnodes |-> Blank] \in Seq(Entries \cup {Blank})
      BY <3>1, SeqDef
    <3> QED BY <2>1, <2>2, <3>2 DEF defineNnodes
  <2>3. ASSUME NEW i \in DOMAIN othermacs, assignmac_defining(i) PROVE RestTyped'
    <3>1. othermacs[i] \in Entries \cup {Blank}
      BY LenProperties, ElementOfSeq DEF SeqsTyped
    <3>2. <<othermacs[i]>> \in Seq(Entries \cup {Blank})
      BY <3>1
    <3> QED BY <2>1, <2>3, <3>2 DEF assignmac_defining
  <2>4. CASE assignallmacs_defining
    <3>1. othermacs \in Seq(Entries \cup {Blank})
      BY SeqMonotonic DEF SeqsTyped
    <3> QED BY <2>1, <2>4, <3>1 DEF assignallmacs_defining
  <2>5. CASE \E i \in DOMAIN othermacs, row \in DOMAIN nodeTable : assignmac_clicked(i, row)
    BY <2>5 DEF assignmac_clicked
  <2>6. CASE assignallmacs_clicked
    BY <2>6 DEF assignallmacs_clicked
  <2>7. CASE \E row \in DOMAIN nodeTable : unassignmac_clicked(row)
    BY <2>7 DEF unassignmac_clicked
  <2> QED BY <1>5, <2>2, <2>3, <2>4, <2>5, <2>6, <2>7 DEF Assign
<1>6. CASE Set
  <2>1. ASSUME NEW num \in 1..MaxNumber, NEW ip \in 1..MaxNumber, edit(num, ip)
        PROVE  RestTyped'
    <3>1. [num |-> num, ip |-> ip] \in Settings
      BY DEF Settings
    <3> QED BY <2>1, <3>1 DEF edit
  <2>2. CASE nodesettingschange_clicked
    BY <2>2 DEF nodesettingschange_clicked
  <2>3. CASE setundopoint
    BY <2>3 DEF setundopoint
  <2>4. CASE restoreundo
    BY <2>4 DEF restoreundo
  <2>5. CASE reject
    BY <2>5 DEF reject
  <2> QED BY <1>6, <2>1, <2>2, <2>3, <2>4, <2>5 DEF Set
<1>7. CASE closeDialog_clicked
  BY <1>7 DEF closeDialog_clicked, stopnetcollection
<1> QED BY <1>1, <1>2, <1>3, <1>4, <1>5, <1>6, <1>7 DEF MgmtNext

-----------------------------------------------------------------------------
(* Each address occurs once in a list; operations on such lists.           *)
Once(list) ==
    \A i, j \in DOMAIN list : list[i] = list[j] /\ list[i] \in Macs => i = j

LEMMA AppendedOnce ==
    ASSUME NEW S, NEW s \in Seq(S), NEW x \in S
    PROVE  /\ Append(s, x) \in Seq(S)
           /\ \A addr : Has(Append(s, x), addr) <=> Has(s, addr) \/ addr = x
           /\ Once(s) /\ (x \in Macs => ~Has(s, x)) => Once(Append(s, x))
<1> DEFINE t == Append(s, x)
<1>1. /\ Len(s) \in Nat /\ DOMAIN s = 1..Len(s)
      /\ t \in Seq(S) /\ DOMAIN t = 1..(Len(s) + 1)
      /\ \A i \in 1..Len(s) : t[i] = s[i]
      /\ t[Len(s) + 1] = x
  BY AppendProperties, LenProperties
<1> HIDE DEF t
<1>2. 1..(Len(s) + 1) = (1..Len(s)) \cup {Len(s) + 1} /\ Len(s) + 1 \notin 1..Len(s)
  BY <1>1
<1>3. ASSUME NEW addr PROVE Has(t, addr) <=> Has(s, addr) \/ addr = x
  BY <1>1, <1>2, Zenon DEF Has
<1>4. ASSUME Once(s), x \in Macs => ~Has(s, x) PROVE Once(t)
  <2> SUFFICES ASSUME NEW i \in DOMAIN t, NEW j \in DOMAIN t, t[i] = t[j], t[i] \in Macs
               PROVE  i = j
    BY DEF Once
  <2>1. CASE i \in 1..Len(s) /\ j \in 1..Len(s)
    BY <1>1, <1>4, <2>1 DEF Once
  <2>2. ASSUME NEW k \in 1..Len(s), t[k] = t[Len(s) + 1], t[k] \in Macs PROVE FALSE
    BY <1>1, <1>4, <2>2 DEF Has
  <2> QED BY <1>1, <1>2, <2>1, <2>2
<1> QED BY <1>1, <1>3, <1>4 DEF t

LEMMA RemovedOnce ==
    ASSUME NEW S, NEW s \in Seq(S), NEW i \in DOMAIN s, Once(s)
    PROVE  /\ RemoveAt(s, i) \in Seq(S)
           /\ s[i] \in S /\ Has(s, s[i])
           /\ \A addr : Has(RemoveAt(s, i), addr) => Has(s, addr)
           /\ \A addr : Has(s, addr) /\ addr # s[i] => Has(RemoveAt(s, i), addr)
           /\ s[i] \in Macs => ~Has(RemoveAt(s, i), s[i])
           /\ Once(RemoveAt(s, i))
<1> DEFINE t == RemoveAt(s, i)
           from(j) == IF j < i THEN j ELSE j + 1
<1>1. /\ Len(s) \in Nat /\ DOMAIN s = 1..Len(s) /\ i \in 1..Len(s)
      /\ t \in Seq(S) /\ DOMAIN t = 1..(Len(s) - 1)
      /\ \A j \in 1..(Len(s) - 1) : t[j] = IF j < i THEN s[j] ELSE s[j + 1]
  BY RemoveAtProperties, LenProperties
<1> HIDE DEF t
<1>2. \A j \in DOMAIN t : from(j) \in DOMAIN s /\ from(j) # i /\ t[j] = s[from(j)]
  BY <1>1
<1>3. \A j, k \in DOMAIN t : from(j) = from(k) => j = k
  BY <1>1
<1>4. \A k \in DOMAIN s : k # i => \E j \in DOMAIN t : from(j) = k
  <2> SUFFICES ASSUME NEW k \in DOMAIN s, k # i PROVE \E j \in DOMAIN t : from(j) = k
    OBVIOUS
  <2>1. CASE k < i
    <3>1. k \in DOMAIN t /\ from(k) = k
      BY <2>1, <1>1
    <3> QED BY <3>1
  <2>2. CASE ~(k < i)
    <3>1. k - 1 \in DOMAIN t /\ from(k - 1) = k
      BY <2>2, <1>1
    <3> QED BY <3>1
  <2> QED BY <2>1, <2>2
<1> HIDE DEF from
<1>5. s[i] \in S /\ Has(s, s[i])
  BY <1>1, ElementOfSeq DEF Has
<1>6. ASSUME NEW addr, Has(t, addr) PROVE Has(s, addr)
  BY <1>2, <1>6, Zenon DEF Has
<1>7. ASSUME NEW addr, Has(s, addr), addr # s[i] PROVE Has(t, addr)
  <2>1. PICK k \in DOMAIN s : s[k] = addr /\ k # i
    BY <1>7 DEF Has
  <2>2. PICK j \in DOMAIN t : from(j) = k
    BY <1>4, <2>1
  <2> QED BY <1>2, <2>1, <2>2 DEF Has
<1>8. ASSUME s[i] \in Macs, Has(t, s[i]) PROVE FALSE
  <2>1. PICK j \in DOMAIN t : t[j] = s[i]
    BY <1>8 DEF Has
  <2>2. from(j) \in DOMAIN s /\ from(j) # i /\ s[from(j)] = s[i]
    BY <1>2, <2>1
  <2> QED BY <2>2, <1>8 DEF Once
<1>9. Once(t)
  <2> SUFFICES ASSUME NEW j \in DOMAIN t, NEW k \in DOMAIN t, t[j] = t[k], t[j] \in Macs
               PROVE  j = k
    BY DEF Once
  <2>1. /\ from(j) \in DOMAIN s /\ from(k) \in DOMAIN s
        /\ s[from(j)] = s[from(k)] /\ s[from(j)] \in Macs
    BY <1>2
  <2> QED BY <2>1, <1>3 DEF Once
<1> QED BY <1>1, <1>5, <1>6, <1>7, <1>8, <1>9 DEF t

LEMMA JoinedOnce ==
    ASSUME NEW S, NEW s \in Seq(S), NEW t \in Seq(S)
    PROVE  /\ s \o t \in Seq(S)
           /\ \A addr : Has(s \o t, addr) <=> Has(s, addr) \/ Has(t, addr)
           /\ Once(s) /\ Once(t) /\ (\A addr \in Macs : ~(Has(s, addr) /\ Has(t, addr)))
                => Once(s \o t)
<1> DEFINE u == s \o t
           m == Len(s)
           n == Len(t)
<1>1. /\ m \in Nat /\ n \in Nat /\ DOMAIN s = 1..m /\ DOMAIN t = 1..n
      /\ u \in Seq(S) /\ DOMAIN u = 1..(m + n)
      /\ \A i \in 1..(m + n) : u[i] = IF i <= m THEN s[i] ELSE t[i - m]
  BY ConcatProperties, LenProperties
<1> HIDE DEF u, m, n
<1>2. \A i \in DOMAIN u : \/ i \in DOMAIN s /\ u[i] = s[i]
                          \/ i - m \in DOMAIN t /\ u[i] = t[i - m]
  BY <1>1
<1>3. \A i \in DOMAIN s : i \in DOMAIN u /\ u[i] = s[i]
  BY <1>1
<1>4. ASSUME NEW i \in DOMAIN t PROVE m + i \in DOMAIN u /\ u[m + i] = t[i]
  <2>1. m + i \in 1..(m + n) /\ ~(m + i <= m) /\ (m + i) - m = i
    BY <1>1
  <2> QED BY <2>1, <1>1
<1>5. ASSUME NEW addr PROVE Has(u, addr) <=> Has(s, addr) \/ Has(t, addr)
  BY <1>2, <1>3, <1>4, Zenon DEF Has
<1>6. ASSUME Once(s), Once(t), \A addr \in Macs : ~(Has(s, addr) /\ Has(t, addr))
      PROVE  Once(u)
  <2> SUFFICES ASSUME NEW i \in DOMAIN u, NEW j \in DOMAIN u, u[i] = u[j], u[i] \in Macs
               PROVE  i = j
    BY DEF Once
  <2>1. CASE i \in DOMAIN s /\ u[i] = s[i] /\ j \in DOMAIN s /\ u[j] = s[j]
    BY <2>1, <1>6 DEF Once
  <2>2. CASE i - m \in DOMAIN t /\ u[i] = t[i - m] /\ j - m \in DOMAIN t /\ u[j] = t[j - m]
    <3>1. i - m = j - m
      BY <2>2, <1>6 DEF Once
    <3> QED BY <3>1, <1>1
  <2>3. ASSUME NEW k \in DOMAIN s, NEW l \in DOMAIN t, s[k] = u[i], t[l] = u[i] PROVE FALSE
    BY <2>3, <1>6 DEF Has
  <2> QED BY <1>2, <2>1, <2>2, <2>3
<1> QED BY <1>1, <1>5, <1>6 DEF u

LEMMA ReplacedOnce ==
    ASSUME NEW S, NEW s \in Seq(S), NEW i \in DOMAIN s, NEW x \in S,
           Once(s), x \in Macs => ~Has(s, x)
    PROVE  /\ [s EXCEPT ![i] = x] \in Seq(S)
           /\ \A addr \in Macs : Has([s EXCEPT ![i] = x], addr)
                                  <=> addr = x \/ (Has(s, addr) /\ addr # s[i])
           /\ Once([s EXCEPT ![i] = x])
<1> DEFINE t == [s EXCEPT ![i] = x]
<1>1. /\ i \in 1..Len(s) /\ DOMAIN s = 1..Len(s) /\ DOMAIN t = DOMAIN s /\ t \in Seq(S)
      /\ t[i] = x /\ \A j \in DOMAIN s : j # i => t[j] = s[j]
  BY ExceptSeq, LenProperties
<1> HIDE DEF t
<1>2. ASSUME NEW addr \in Macs
      PROVE  Has(t, addr) <=> addr = x \/ (Has(s, addr) /\ addr # s[i])
  BY <1>1 DEF Has, Once
<1>3. Once(t)
  BY <1>1 DEF Has, Once
<1> QED BY <1>1, <1>2, <1>3 DEF t

LEMMA EmptyOnce == Once(<<>>) /\ \A addr : ~Has(<<>>, addr)
  BY DEF Once, Has

LEMMA TailOnce ==
    ASSUME NEW S, NEW s \in Seq(S), s # <<>>, Once(s)
    PROVE  /\ Tail(s) \in Seq(S) /\ Once(Tail(s))
           /\ \A addr : Has(Tail(s), addr) => Has(s, addr)
<1>1. /\ Len(s) \in Nat /\ DOMAIN s = 1..Len(s)
      /\ Tail(s) \in Seq(S) /\ DOMAIN Tail(s) = 1..(Len(s) - 1)
      /\ \A i \in 1..(Len(s) - 1) : Tail(s)[i] = s[i + 1]
  BY HeadTailProperties, LenProperties
<1>2. \A i \in 1..(Len(s) - 1) : i + 1 \in DOMAIN s
  BY <1>1
<1>3. Once(Tail(s))
  BY <1>1, <1>2 DEF Once
<1>4. \A addr : Has(Tail(s), addr) => Has(s, addr)
  BY <1>1, <1>2 DEF Has
<1> QED BY <1>1, <1>3, <1>4

(* An item that goes from one list to the end of another.                  *)
MovesOne(a, b, i) ==
    /\ RemoveAt(a, i) \in Seq(Entries) /\ Append(b, a[i]) \in Seq(Entries)
    /\ Once(RemoveAt(a, i)) /\ Once(Append(b, a[i]))
    /\ Has(a, a[i])
    /\ \A addr : Has(RemoveAt(a, i), addr) => Has(a, addr)
    /\ \A addr : Has(a, addr) /\ addr # a[i] => Has(RemoveAt(a, i), addr)
    /\ a[i] \in Macs => ~Has(RemoveAt(a, i), a[i])
    /\ \A addr : Has(Append(b, a[i]), addr) <=> Has(b, addr) \/ addr = a[i]

LEMMA MovedOnce ==
    ASSUME NEW a \in Seq(Entries), NEW b \in Seq(Entries), NEW i \in DOMAIN a,
           Once(a), Once(b), \A addr \in Macs : ~(Has(a, addr) /\ Has(b, addr))
    PROVE  MovesOne(a, b, i)
<1>1. /\ RemoveAt(a, i) \in Seq(Entries)
      /\ a[i] \in Entries /\ Has(a, a[i])
      /\ \A addr : Has(RemoveAt(a, i), addr) => Has(a, addr)
      /\ \A addr : Has(a, addr) /\ addr # a[i] => Has(RemoveAt(a, i), addr)
      /\ a[i] \in Macs => ~Has(RemoveAt(a, i), a[i])
      /\ Once(RemoveAt(a, i))
  BY RemovedOnce
<1>2. a[i] \in Macs => ~Has(b, a[i])
  BY <1>1
<1>3. /\ Append(b, a[i]) \in Seq(Entries)
      /\ \A addr : Has(Append(b, a[i]), addr) <=> Has(b, addr) \/ addr = a[i]
      /\ Once(Append(b, a[i]))
  BY <1>1, <1>2, AppendedOnce
<1> QED BY <1>1, <1>3 DEF MovesOne

-----------------------------------------------------------------------------
column(tab) == [k \in DOMAIN tab |-> tab[k].mac]
Apart(a, b) == \A addr \in Macs : ~(Has(a, addr) /\ Has(b, addr))
InPlace(addr) == Has(othermacs, addr) \/ Has(straymacs, addr) \/ Has(column(nodeTable), addr)

(* An address is once in one of the three, and then used; the used ones    *)
(* are there.                                                              *)
PlacedInv ==
    /\ Once(othermacs) /\ Once(straymacs) /\ Once(column(nodeTable))
    /\ Apart(othermacs, straymacs) /\ Apart(othermacs, column(nodeTable))
    /\ Apart(straymacs, column(nodeTable))
    /\ \A addr \in Macs : InPlace(addr) => addr \in usedmacs
    /\ cleared \/ \A addr \in Macs \cap usedmacs : InPlace(addr)

LEMMA ColumnProperties ==
    ASSUME NEW tab \in Seq(Row)
    PROVE  /\ column(tab) \in Seq(Entries \cup {Blank})
           /\ Len(column(tab)) = Len(tab) /\ Len(column(tab)) \in Nat
           /\ DOMAIN tab = 1..Len(tab) /\ DOMAIN column(tab) = DOMAIN tab
           /\ \A k \in DOMAIN tab : column(tab)[k] = tab[k].mac /\ tab[k] \in Row
<1>1. /\ DOMAIN tab = 1..Len(tab) /\ Len(tab) \in Nat
      /\ \A k \in 1..Len(tab) : tab[k] \in Row
  BY LenProperties, ElementOfSeq
<1>2. column(tab) \in [1..Len(tab) -> Entries \cup {Blank}]
  BY <1>1 DEF column, Row
<1>3. column(tab) \in Seq(Entries \cup {Blank})
  BY <1>1, <1>2, SeqDef
<1>4. Len(column(tab)) = Len(tab)
  BY <1>1, <1>2, <1>3, LenProperties
<1> QED BY <1>1, <1>2, <1>3, <1>4 DEF column

LEMMA InitPlaced == MgmtInit => PlacedInv
<1> SUFFICES ASSUME MgmtInit PROVE PlacedInv
  OBVIOUS
<1>1. /\ othermacs = SampleMacs /\ straymacs = SampleStray /\ DOMAIN column(nodeTable) = {}
      /\ usedmacs = ToSet(SampleMacs) \cup ToSet(SampleStray)
  BY DEF MgmtInit, column
<1>2. Once(othermacs) /\ Once(straymacs) /\ Once(column(nodeTable))
  BY <1>1, SamplesAssumption DEF Once, IsInjective
<1>3. \A addr : /\ Has(othermacs, addr) <=> addr \in ToSet(SampleMacs)
                /\ Has(straymacs, addr) <=> addr \in ToSet(SampleStray)
                /\ ~Has(column(nodeTable), addr)
  BY <1>1 DEF Has, ToSet
<1> QED BY <1>1, <1>2, <1>3, SamplesAssumption, Zenon DEF PlacedInv, Apart, InPlace

LEMMA ReverseProperties ==
    ASSUME NEW S, NEW s \in Seq(S)
    PROVE  Reverse(s) \in Seq(S)
<1>1. Len(s) \in Nat /\ \A i \in 1..Len(s) : (Len(s) - i) + 1 \in 1..Len(s)
  BY LenProperties
<1>2. Reverse(s) \in [1..Len(s) -> S]
  BY <1>1, ElementOfSeq DEF Reverse
<1> QED BY <1>1, <1>2, SeqDef

(* The steps that move addresses between the lists.                        *)
LEMMA MovesStayPlaced ==
    ASSUME SeqsTyped, PlacedInv, Move
    PROVE  SeqsTyped' /\ PlacedInv'
<1>1. UNCHANGED <<nodeTable, oda, usedmacs, column(nodeTable)>>
  BY DEF Move, straytounass_clicked, unasstostray_clicked, allstraytounass_clicked,
         allunasstostray_clicked, clearmacs_clicked, nodes
<1>2. ASSUME othermacs' \in Seq(Entries), straymacs' \in Seq(Entries) PROVE SeqsTyped'
  BY <1>1, <1>2 DEF SeqsTyped
<1>3. ASSUME NEW i \in DOMAIN straymacs, straytounass_clicked(i)
      PROVE  SeqsTyped' /\ PlacedInv'
  <2>1. /\ othermacs' = Append(othermacs, straymacs[i]) /\ straymacs' = RemoveAt(straymacs, i)
        /\ cleared' = cleared
    BY <1>3 DEF straytounass_clicked
  <2>2. MovesOne(straymacs, othermacs, i)
    BY MovedOnce DEF SeqsTyped, PlacedInv, Apart
  <2>3. SeqsTyped'
    BY <1>2, <2>1, <2>2 DEF MovesOne
  <2>4. PlacedInv'
    BY <1>1, <2>1, <2>2, Zenon DEF PlacedInv, Apart, InPlace, MovesOne
  <2> QED BY <2>3, <2>4
<1>4. ASSUME NEW i \in DOMAIN othermacs, unasstostray_clicked(i)
      PROVE  SeqsTyped' /\ PlacedInv'
  <2>1. /\ straymacs' = Append(straymacs, othermacs[i]) /\ othermacs' = RemoveAt(othermacs, i)
        /\ cleared' = cleared
    BY <1>4 DEF unasstostray_clicked
  <2>2. MovesOne(othermacs, straymacs, i)
    BY MovedOnce DEF SeqsTyped, PlacedInv, Apart
  <2>3. SeqsTyped'
    BY <1>2, <2>1, <2>2 DEF MovesOne
  <2>4. PlacedInv'
    BY <1>1, <2>1, <2>2, Zenon DEF PlacedInv, Apart, InPlace, MovesOne
  <2> QED BY <2>3, <2>4
<1>5. CASE allstraytounass_clicked
  <2>1. othermacs' = othermacs \o straymacs /\ straymacs' = <<>> /\ cleared' = cleared
    BY <1>5 DEF allstraytounass_clicked
  <2>2. /\ othermacs \o straymacs \in Seq(Entries)
        /\ Once(othermacs \o straymacs)
        /\ \A addr : Has(othermacs \o straymacs, addr) <=> Has(othermacs, addr) \/ Has(straymacs, addr)
    BY JoinedOnce DEF SeqsTyped, PlacedInv, Apart
  <2>3. SeqsTyped'
    BY <1>2, <2>1, <2>2, EmptySeq
  <2>4. PlacedInv'
    BY <1>1, <2>1, <2>2, EmptyOnce, Zenon DEF PlacedInv, Apart, InPlace
  <2> QED BY <2>3, <2>4
<1>6. CASE allunasstostray_clicked
  <2>1. straymacs' = straymacs \o othermacs /\ othermacs' = <<>> /\ cleared' = cleared
    BY <1>6 DEF allunasstostray_clicked
  <2>2. /\ straymacs \o othermacs \in Seq(Entries)
        /\ Once(straymacs \o othermacs)
        /\ \A addr : Has(straymacs \o othermacs, addr) <=> Has(straymacs, addr) \/ Has(othermacs, addr)
    BY JoinedOnce DEF SeqsTyped, PlacedInv, Apart
  <2>3. SeqsTyped'
    BY <1>2, <2>1, <2>2, EmptySeq
  <2>4. PlacedInv'
    BY <1>1, <2>1, <2>2, EmptyOnce, Zenon DEF PlacedInv, Apart, InPlace
  <2> QED BY <2>3, <2>4
<1>7. CASE clearmacs_clicked
  <2>1. /\ othermacs # <<>> /\ othermacs' = Tail(othermacs) /\ straymacs' = straymacs
        /\ cleared' = TRUE
    BY <1>7 DEF clearmacs_clicked
  <2>2. /\ Tail(othermacs) \in Seq(Entries) /\ Once(Tail(othermacs))
        /\ \A addr : Has(Tail(othermacs), addr) => Has(othermacs, addr)
    BY <2>1, TailOnce DEF SeqsTyped, PlacedInv
  <2>3. SeqsTyped'
    BY <1>2, <2>1, <2>2 DEF SeqsTyped
  <2>4. PlacedInv'
    BY <1>1, <2>1, <2>2, Zenon DEF PlacedInv, Apart, InPlace
  <2> QED BY <2>3, <2>4
<1> QED BY <1>3, <1>4, <1>5, <1>6, <1>7 DEF Move

LEMMA ImportsStayPlaced ==
    ASSUME SeqsTyped, PlacedInv, NEW lines \in Seq(Macs), insertUnused(lines),
           UNCHANGED <<straymacs, nodes, cleared>>
    PROVE  SeqsTyped' /\ PlacedInv'
<1>1. PICK added \in Seq(Macs) :
         /\ othermacs' = othermacs \o added
         /\ usedmacs' = usedmacs \cup ToSet(lines)
         /\ \A i, j \in DOMAIN added : added[i] = added[j] => i = j
         /\ \A addr : Has(added, addr) <=> addr \in ToSet(lines) /\ addr \notin usedmacs
  BY ImportedLines
<1>2. UNCHANGED <<straymacs, nodeTable, oda, column(nodeTable), cleared>>
  BY DEF nodes, column
<1>3. added \in Seq(Entries) /\ Once(added)
  BY <1>1, SeqMonotonic DEF Entries, Once
<1>4. ToSet(lines) \subseteq Entries
  BY LenProperties, ElementOfSeq DEF ToSet, Entries
<1>5. \A addr \in Macs : ~(Has(othermacs, addr) /\ Has(added, addr))
  BY <1>1 DEF PlacedInv, InPlace
<1>6. /\ othermacs \o added \in Seq(Entries)
      /\ Once(othermacs \o added)
      /\ \A addr : Has(othermacs \o added, addr) <=> Has(othermacs, addr) \/ Has(added, addr)
  BY <1>3, <1>5, JoinedOnce DEF SeqsTyped, PlacedInv
<1>7. SeqsTyped'
  BY <1>1, <1>2, <1>4, <1>6 DEF SeqsTyped
<1>8. PlacedInv'
  <2>1. \A addr \in Macs : InPlace(addr)' <=> InPlace(addr) \/ Has(added, addr)
    BY <1>1, <1>2, <1>6, Zenon DEF InPlace
  <2>2. Once(othermacs)' /\ Once(straymacs)' /\ Once(column(nodeTable))'
    BY <1>1, <1>2, <1>6 DEF PlacedInv
  <2>3. \A addr \in Macs : Has(added, addr) => ~InPlace(addr)
    BY <1>1 DEF PlacedInv
  <2>4. /\ Apart(othermacs, straymacs)' /\ Apart(othermacs, column(nodeTable))'
        /\ Apart(straymacs, column(nodeTable))'
    BY <1>1, <1>2, <1>6, <2>3, Zenon DEF PlacedInv, InPlace, Apart
  <2>5. /\ \A addr \in Macs : InPlace(addr)' => addr \in usedmacs'
        /\ cleared' \/ \A addr \in Macs \cap usedmacs' : InPlace(addr)'
    BY <1>1, <1>2, <2>1 DEF PlacedInv
  <2> QED BY <2>2, <2>4, <2>5 DEF PlacedInv
<1> QED BY <1>7, <1>8

(* A definition of nodes puts its list at the end of the column(nodeTable).           *)
LEMMA DefinedColumn ==
    ASSUME SeqsTyped, texts \in Settings,
           NEW list \in Seq(Entries \cup {Blank}), definenodes(list)
    PROVE  /\ nodeTable' \in Seq(Row)
           /\ \A name \in DOMAIN oda' : name \in Nat /\ oda'[name] \in Entries \cup {Blank}
           /\ column(nodeTable') = column(nodeTable) \o list
<1>1. nodeTable \in Seq(Row)
  BY DEF SeqsTyped
<1>2. /\ Len(list) \in Nat /\ DOMAIN list = 1..Len(list)
      /\ \A k \in 1..Len(list) : list[k] \in Entries \cup {Blank}
  BY LenProperties, ElementOfSeq
<1>3. /\ nodeTable' \in Seq(Row)
      /\ Len(nodeTable') = Len(nodeTable) + Len(list)
      /\ \A k \in 1..Len(nodeTable) : nodeTable'[k] = nodeTable[k]
      /\ \A k \in 1..Len(list) :
            nodeTable'[Len(nodeTable) + k]
              = [num |-> texts.num + (k - 1), ip |-> texts.ip + (k - 1), mac |-> list[k]]
  BY <1>1, DefinedRows
<1>4. /\ column(nodeTable) \in Seq(Entries \cup {Blank})
      /\ Len(column(nodeTable)) = Len(nodeTable) /\ Len(column(nodeTable)) \in Nat
      /\ \A k \in 1..Len(nodeTable) : column(nodeTable)[k] = nodeTable[k].mac
  BY <1>1, ColumnProperties
<1>5. /\ column(nodeTable') \in Seq(Entries \cup {Blank})
      /\ Len(column(nodeTable')) = Len(nodeTable')
      /\ \A k \in 1..Len(nodeTable') : column(nodeTable')[k] = nodeTable'[k].mac
  BY <1>3, ColumnProperties
<1>6. /\ column(nodeTable) \o list \in Seq(Entries \cup {Blank})
      /\ Len(column(nodeTable) \o list) = Len(column(nodeTable)) + Len(list)
      /\ \A k \in 1..(Len(column(nodeTable)) + Len(list)) :
            (column(nodeTable) \o list)[k] = IF k <= Len(column(nodeTable))
                                             THEN column(nodeTable)[k]
                                             ELSE list[k - Len(column(nodeTable))]
  BY ONLY <1>4, list \in Seq(Entries \cup {Blank}), ConcatProperties
<1>7. ASSUME NEW k \in 1..Len(column(nodeTable'))
      PROVE  column(nodeTable')[k] = (column(nodeTable) \o list)[k]
  <2>1. CASE k <= Len(column(nodeTable))
    BY <2>1, <1>2, <1>3, <1>4, <1>5, <1>6
  <2>2. CASE ~(k <= Len(column(nodeTable)))
    <3>1. PICK m \in Nat, n \in Nat :
             /\ m = Len(nodeTable) /\ m = Len(column(nodeTable)) /\ n = Len(list)
             /\ k \in 1..(m + n) /\ ~(k <= m)
      BY <2>2, <1>2, <1>3, <1>4, <1>5
    <3>2. PICK j \in 1..n : m + j = k /\ k - m = j
      <4>1. k - m \in 1..n /\ m + (k - m) = k
        BY <3>1
      <4> QED BY <4>1
    <3>3. nodeTable'[Len(nodeTable) + j].mac = list[j]
      <4>1. j \in 1..Len(list)
        BY <3>1
      <4>2. nodeTable'[Len(nodeTable) + j]
              = [num |-> texts.num + (j - 1), ip |-> texts.ip + (j - 1), mac |-> list[j]]
        BY <4>1, <1>3, Zenon
      <4> QED BY <4>2
    <3>4. (column(nodeTable) \o list)[k] = list[j]
      BY <3>1, <3>2, <1>6
    <3>5. column(nodeTable')[k] = nodeTable'[k].mac
      BY <1>5
    <3> QED BY <3>1, <3>2, <3>3, <3>4, <3>5
  <2> QED BY <2>1, <2>2
<1>8. column(nodeTable') = column(nodeTable) \o list
  BY <1>2, <1>3, <1>4, <1>5, <1>6, <1>7, SeqEqual
<1>9. ASSUME NEW name \in DOMAIN oda'
      PROVE  name \in Nat /\ oda'[name] \in Entries \cup {Blank}
  <2> DEFINE names == {(texts.num + (k - 1)) : k \in DOMAIN list}
  <2>1. oda' = [n \in names \cup DOMAIN oda |->
                  IF n \in DOMAIN oda THEN oda[n] ELSE list[(n - texts.num) + 1]]
    BY DEF definenodes
  <2>2. \A n \in names : n \in Nat /\ (n - texts.num) + 1 \in DOMAIN list
    BY <1>2 DEF Settings
  <2> HIDE DEF names
  <2> QED BY <1>2, <2>1, <2>2 DEF SeqsTyped
<1> QED BY <1>3, <1>8, <1>9

(* The address of one row is replaced, in the table and in ODA.            *)
LEMMA ReplacedAddress ==
    ASSUME SeqsTyped, NEW row \in DOMAIN nodeTable, NEW x \in Entries \cup {Blank},
           nodeTable' = [nodeTable EXCEPT ![row].mac = x],
           modify_records(nodeTable[row].num, x)
    PROVE  /\ nodeTable' \in Seq(Row)
           /\ column(nodeTable') = [column(nodeTable) EXCEPT ![row] = x]
           /\ \A name \in DOMAIN oda' : name \in Nat /\ oda'[name] \in Entries \cup {Blank}
<1>1. /\ nodeTable \in Seq(Row) /\ row \in 1..Len(nodeTable)
      /\ DOMAIN nodeTable = 1..Len(nodeTable)
      /\ nodeTable[row] \in Row
  BY LenProperties, ElementOfSeq DEF SeqsTyped
<1> DEFINE r == [nodeTable[row] EXCEPT !.mac = x]
<1>2. r \in Row /\ r.mac = x
  BY <1>1 DEF Row
<1>3. nodeTable' = [nodeTable EXCEPT ![row] = r]
  OBVIOUS
<1> HIDE DEF r
<1>4. nodeTable' \in Seq(Row)
  BY <1>1, <1>2, <1>3, ExceptSeq
<1>5. column(nodeTable') = [column(nodeTable) EXCEPT ![row] = x]
  BY <1>2, <1>3 DEF column
<1>6. \A name \in DOMAIN oda' : name \in Nat /\ oda'[name] \in Entries \cup {Blank}
  BY DEF modify_records, SeqsTyped
<1> QED BY <1>4, <1>5, <1>6

LEMMA NoneIsAnAddress == Blank \notin Macs /\ Macs \subseteq Entries
  BY EntriesAssumption DEF Entries

LEMMA DefinitionsStayPlaced ==
    ASSUME SeqsTyped, PlacedInv, texts \in Settings,
           \/ \E numnodes \in 1..MaxNodes : defineNnodes(numnodes)
           \/ \E i \in DOMAIN othermacs : assignmac_defining(i)
           \/ assignallmacs_defining
    PROVE  SeqsTyped' /\ PlacedInv'
<1> DEFINE c == column(nodeTable)
<1>1. /\ UNCHANGED <<straymacs, usedmacs, cleared>>
      /\ c \in Seq(Entries \cup {Blank}) /\ Once(c)
      /\ othermacs \in Seq(Entries) /\ Once(othermacs)
  BY ColumnProperties
     DEF SeqsTyped, PlacedInv, defineNnodes, assignmac_defining, assignallmacs_defining, lists
<1> HIDE DEF c
<1>2. ASSUME NEW list \in Seq(Entries \cup {Blank}), definenodes(list), othermacs' \in Seq(Entries)
      PROVE  SeqsTyped' /\ column(nodeTable') = c \o list
  BY <1>1, <1>2, DefinedColumn DEF SeqsTyped, c
<1>3. ASSUME NEW numnodes \in 1..MaxNodes, defineNnodes(numnodes) PROVE SeqsTyped' /\ PlacedInv'
  <2> DEFINE list == [k \in 1..numnodes |-> Blank]
  <2>1. /\ list \in Seq(Entries \cup {Blank}) /\ Once(list)
        /\ \A addr \in Macs : ~Has(list, addr)
    <3>1. numnodes \in Nat
      BY BoundsAssumption
    <3> QED BY <3>1, SeqDef, NoneIsAnAddress DEF Once, Has
  <2>2. definenodes(list) /\ othermacs' = othermacs
    BY <1>3 DEF defineNnodes, lists
  <2> HIDE DEF list
  <2>3. SeqsTyped' /\ column(nodeTable') = c \o list
    BY <1>1, <1>2, <2>1, <2>2
  <2>4. /\ Once(c \o list)
        /\ \A addr \in Macs : Has(c \o list, addr) <=> Has(c, addr)
    BY <1>1, <2>1, JoinedOnce
  <2>5. PlacedInv'
    BY <1>1, <2>2, <2>3, <2>4, Zenon DEF PlacedInv, Apart, InPlace, c
  <2> QED BY <2>3, <2>5
<1>4. ASSUME NEW i \in DOMAIN othermacs, assignmac_defining(i) PROVE SeqsTyped' /\ PlacedInv'
  <2> DEFINE x == othermacs[i]
             list == <<x>>
  <2>1. /\ RemoveAt(othermacs, i) \in Seq(Entries)
        /\ x \in Entries /\ Has(othermacs, x)
        /\ \A addr : Has(RemoveAt(othermacs, i), addr) => Has(othermacs, addr)
        /\ \A addr : Has(othermacs, addr) /\ addr # x => Has(RemoveAt(othermacs, i), addr)
        /\ x \in Macs => ~Has(RemoveAt(othermacs, i), x)
        /\ Once(RemoveAt(othermacs, i))
    BY <1>1, RemovedOnce
  <2>2. definenodes(list) /\ othermacs' = RemoveAt(othermacs, i)
    BY <1>4 DEF assignmac_defining
  <2> HIDE DEF x
  <2>3. /\ list \in Seq(Entries \cup {Blank}) /\ Once(list)
        /\ \A addr : Has(list, addr) <=> addr = x
    BY <2>1 DEF Once, Has
  <2> HIDE DEF list
  <2>4. SeqsTyped' /\ column(nodeTable') = c \o list
    BY <1>2, <2>1, <2>2, <2>3
  <2>5. x \in Macs => ~Has(c, x) /\ ~Has(straymacs, x) /\ x \in usedmacs
    BY <2>1 DEF PlacedInv, Apart, InPlace, c
  <2>6. /\ Once(c \o list)
        /\ \A addr : Has(c \o list, addr) <=> Has(c, addr) \/ addr = x
    BY <1>1, <2>3, <2>5, JoinedOnce
  <2>7. PlacedInv'
    BY <1>1, <2>1, <2>2, <2>4, <2>5, <2>6, Zenon DEF PlacedInv, Apart, InPlace, c
  <2> QED BY <2>4, <2>7
<1>5. CASE assignallmacs_defining
  <2>1. definenodes(othermacs) /\ othermacs' = <<>>
    BY <1>5 DEF assignallmacs_defining
  <2>2. othermacs \in Seq(Entries \cup {Blank}) /\ othermacs' \in Seq(Entries)
    BY <1>1, <2>1, SeqMonotonic, EmptySeq
  <2>3. SeqsTyped' /\ column(nodeTable') = c \o othermacs
    BY <1>2, <2>1, <2>2
  <2>4. /\ Once(c \o othermacs)
        /\ \A addr : Has(c \o othermacs, addr) <=> Has(c, addr) \/ Has(othermacs, addr)
    BY <1>1, <2>2, JoinedOnce DEF PlacedInv, Apart, c
  <2>5. PlacedInv'
    BY <1>1, <2>1, <2>3, <2>4, EmptyOnce, Zenon DEF PlacedInv, Apart, InPlace, c
  <2> QED BY <2>3, <2>5
<1> QED BY <1>3, <1>4, <1>5

LEMMA SwapsStayPlaced ==
    ASSUME SeqsTyped, PlacedInv,
           NEW i \in DOMAIN othermacs, NEW row \in DOMAIN nodeTable, assignmac_clicked(i, row)
    PROVE  SeqsTyped' /\ PlacedInv'
<1> DEFINE c == column(nodeTable)
           x == othermacs[i]
           old == nodeTable[row].mac
           o == RemoveAt(othermacs, i)
<1>1. /\ UNCHANGED <<straymacs, usedmacs, cleared>>
      /\ othermacs \in Seq(Entries) /\ Once(othermacs)
      /\ nodeTable' = [nodeTable EXCEPT ![row].mac = x]
      /\ modify_records(nodeTable[row].num, x)
      /\ othermacs' = IF old = Blank THEN o ELSE Append(o, old)
  BY DEF SeqsTyped, PlacedInv, assignmac_clicked
<1>2. /\ c \in Seq(Entries \cup {Blank}) /\ Once(c) /\ row \in DOMAIN c /\ c[row] = old
      /\ old \in Entries \cup {Blank}
  BY ColumnProperties DEF SeqsTyped, PlacedInv, Row
<1>3. /\ o \in Seq(Entries)
      /\ x \in Entries /\ Has(othermacs, x)
      /\ \A addr : Has(o, addr) => Has(othermacs, addr)
      /\ \A addr : Has(othermacs, addr) /\ addr # x => Has(o, addr)
      /\ x \in Macs => ~Has(o, x)
      /\ Once(o)
  BY <1>1, RemovedOnce
<1>4. /\ nodeTable' \in Seq(Row)
      /\ column(nodeTable') = [c EXCEPT ![row] = x]
      /\ \A name \in DOMAIN oda' : name \in Nat /\ oda'[name] \in Entries \cup {Blank}
  BY <1>1, <1>3, ReplacedAddress
<1> HIDE DEF x, old, o, c
<1>5. x \in Macs => ~Has(c, x) /\ ~Has(straymacs, x) /\ x \in usedmacs
  BY <1>3 DEF PlacedInv, Apart, InPlace, c
<1>6. /\ \A addr \in Macs : Has(column(nodeTable'), addr) <=> addr = x \/ (Has(c, addr) /\ addr # old)
      /\ Once(column(nodeTable'))
  <2>1. /\ c \in Seq(Entries \cup {Blank}) /\ x \in Entries \cup {Blank}
        /\ row \in DOMAIN c /\ Once(c) /\ (x \in Macs => ~Has(c, x))
    BY <1>2, <1>3, <1>5
  <2>2. /\ \A addr \in Macs : Has([c EXCEPT ![row] = x], addr)
                               <=> addr = x \/ (Has(c, addr) /\ addr # c[row])
        /\ Once([c EXCEPT ![row] = x])
    BY ONLY <2>1, ReplacedOnce
  <2> QED BY <2>2, <1>2, <1>4, Zenon
<1>7. Has(c, old)
  BY <1>2 DEF Has
<1>8. old \in Macs => ~Has(o, old) /\ ~Has(straymacs, old) /\ old \in usedmacs /\ old # x
  BY <1>3, <1>5, <1>7 DEF PlacedInv, Apart, InPlace, c
<1>9. /\ othermacs' \in Seq(Entries) /\ Once(othermacs')
      /\ \A addr \in Macs : Has(othermacs', addr) <=> Has(o, addr) \/ addr = old
  <2>1. CASE old = Blank
    BY <1>1, <1>3, <2>1, NoneIsAnAddress
  <2>2. CASE old # Blank
    BY <1>1, <1>2, <1>3, <1>8, <2>2, AppendedOnce
  <2> QED BY <2>1, <2>2
<1>10. SeqsTyped'
  BY <1>1, <1>4, <1>9 DEF SeqsTyped
<1>11. PlacedInv'
  <2>1. \A addr \in Macs : InPlace(addr)' <=> InPlace(addr)
    BY <1>1, <1>3, <1>6, <1>7, <1>9, Zenon DEF InPlace, c
  <2>2. /\ Apart(othermacs, straymacs)' /\ Apart(othermacs, column(nodeTable))'
        /\ Apart(straymacs, column(nodeTable))'
    BY <1>1, <1>3, <1>5, <1>6, <1>8, <1>9, Zenon DEF PlacedInv, Apart, c
  <2> QED BY <1>1, <1>6, <1>9, <2>1, <2>2 DEF PlacedInv
<1> QED BY <1>10, <1>11

LEMMA ReturnsStayPlaced ==
    ASSUME SeqsTyped, PlacedInv, NEW row \in DOMAIN nodeTable, unassignmac_clicked(row)
    PROVE  SeqsTyped' /\ PlacedInv'
<1> DEFINE c == column(nodeTable)
           old == nodeTable[row].mac
<1>1. /\ UNCHANGED <<straymacs, usedmacs, cleared>>
      /\ othermacs \in Seq(Entries) /\ Once(othermacs)
      /\ nodeTable' = [nodeTable EXCEPT ![row].mac = Blank]
      /\ modify_records(nodeTable[row].num, Blank)
      /\ old # Blank /\ othermacs' = Append(othermacs, old)
  BY DEF SeqsTyped, PlacedInv, unassignmac_clicked
<1>2. /\ c \in Seq(Entries \cup {Blank}) /\ Once(c) /\ row \in DOMAIN c /\ c[row] = old
      /\ old \in Entries
  BY <1>1, ColumnProperties DEF SeqsTyped, PlacedInv, Row
<1>3. /\ nodeTable' \in Seq(Row)
      /\ column(nodeTable') = [c EXCEPT ![row] = Blank]
      /\ \A name \in DOMAIN oda' : name \in Nat /\ oda'[name] \in Entries \cup {Blank}
  BY <1>1, ReplacedAddress
<1> HIDE DEF old, c
<1>4. /\ \A addr \in Macs : Has(column(nodeTable'), addr) <=> Has(c, addr) /\ addr # old
      /\ Once(column(nodeTable'))
  <2>1. /\ c \in Seq(Entries \cup {Blank}) /\ Blank \in Entries \cup {Blank}
        /\ row \in DOMAIN c /\ Once(c) /\ (Blank \in Macs => ~Has(c, Blank))
    BY <1>2, NoneIsAnAddress
  <2>2. /\ \A addr \in Macs : Has([c EXCEPT ![row] = Blank], addr)
                               <=> addr = Blank \/ (Has(c, addr) /\ addr # c[row])
        /\ Once([c EXCEPT ![row] = Blank])
    BY ONLY <2>1, ReplacedOnce
  <2> QED BY <2>2, <1>2, <1>3, NoneIsAnAddress, Zenon
<1>5. Has(c, old)
  BY <1>2 DEF Has
<1>6. old \in Macs => ~Has(othermacs, old) /\ ~Has(straymacs, old) /\ old \in usedmacs
  BY <1>5 DEF PlacedInv, Apart, InPlace, c
<1>7. /\ othermacs' \in Seq(Entries) /\ Once(othermacs')
      /\ \A addr \in Macs : Has(othermacs', addr) <=> Has(othermacs, addr) \/ addr = old
  BY <1>1, <1>2, <1>6, AppendedOnce
<1>8. SeqsTyped'
  BY <1>1, <1>3, <1>7 DEF SeqsTyped
<1>9. PlacedInv'
  <2>1. \A addr \in Macs : InPlace(addr)' <=> InPlace(addr)
    BY <1>1, <1>4, <1>5, <1>7, Zenon DEF InPlace, c
  <2>2. /\ Apart(othermacs, straymacs)' /\ Apart(othermacs, column(nodeTable))'
        /\ Apart(straymacs, column(nodeTable))'
    BY <1>1, <1>4, <1>6, <1>7, Zenon DEF PlacedInv, Apart, c
  <2> QED BY <1>1, <1>4, <1>7, <2>1, <2>2 DEF PlacedInv
<1> QED BY <1>8, <1>9

(* The first addresses go to the nodes without one, the others stay.       *)
Fills(n, row) ==
    /\ \A i, j \in 1..n : row[i] = row[j] => i = j
    /\ \A j \in 1..n : row[j] \in DOMAIN nodeTable /\ nodeTable[row[j]].mac = Blank
    /\ \A j \in 1..n : nodeTable'[row[j]] = [nodeTable[row[j]] EXCEPT !.mac = othermacs[j]]
    /\ \A k \in DOMAIN nodeTable : (\A j \in 1..n : row[j] # k) => nodeTable'[k] = nodeTable[k]
    /\ \A name \in DOMAIN oda :
          LET last == {j \in 1..n : /\ nodeTable[row[j]].num = name
                                    /\ \A i \in (j + 1)..n : nodeTable[row[i]].num # name}
          IN IF last = {} THEN oda'[name] = oda[name]
             ELSE \E j \in last : oda'[name] = othermacs[j]

LEMMA FilledRows ==
    ASSUME SeqsTyped, assignallmacs_clicked
    PROVE  /\ nodeTable' \in Seq(Row) /\ DOMAIN nodeTable' = DOMAIN nodeTable
           /\ DOMAIN oda' = DOMAIN oda
           /\ \E n \in 0..Len(othermacs) : \E row \in [1..n -> DOMAIN nodeTable] :
                 Fills(n, row) /\ othermacs' = SubSeq(othermacs, n + 1, Len(othermacs))
<1> DEFINE B == {k \in DOMAIN nodeTable : nodeTable[k].mac = Blank}
           W(row) ==
             LET n == IF Len(row) < Len(othermacs) THEN Len(row) ELSE Len(othermacs)
                 to(k) == {j \in 1..n : row[j] = k}
                 last(name) == {j \in 1..n : /\ nodeTable[row[j]].num = name
                                             /\ \A i \in (j + 1)..n : nodeTable[row[i]].num # name}
                 addr(js) == othermacs[CHOOSE j \in js : TRUE]
             IN /\ nodeTable' = [k \in DOMAIN nodeTable |->
                      IF to(k) = {} THEN nodeTable[k]
                      ELSE [nodeTable[k] EXCEPT !.mac = addr(to(k))]]
                /\ oda' = [name \in DOMAIN oda |->
                      IF last(name) = {} THEN oda[name] ELSE addr(last(name))]
                /\ othermacs' = SubSeq(othermacs, n + 1, Len(othermacs))
<1>1. PICK row \in inOrder(B) : W(row)
  BY DEF assignallmacs_clicked
<1>2. /\ Len(nodeTable) \in Nat /\ DOMAIN nodeTable = 1..Len(nodeTable)
      /\ \A k \in DOMAIN nodeTable : nodeTable[k] \in Row
      /\ Len(othermacs) \in Nat
      /\ \A j \in 1..Len(othermacs) : othermacs[j] \in Entries
  BY LenProperties, ElementOfSeq DEF SeqsTyped
<1>3. B \in SUBSET Nat /\ IsFiniteSet(B)
  <2>1. IsFiniteSet(1..Len(nodeTable)) /\ B \in SUBSET (1..Len(nodeTable))
    BY <1>2, FS_Interval
  <2> QED BY <2>1, FS_Subset
<1>4. \A k \in B : k \in DOMAIN nodeTable /\ nodeTable[k].mac = Blank
  OBVIOUS
<1> HIDE DEF B
<1>5. /\ Len(row) \in Nat /\ row \in [1..Len(row) -> B]
      /\ \A i, j \in 1..Len(row) : row[i] = row[j] => i = j
  BY <1>1, <1>3, InOrderProperties
<1> DEFINE n == IF Len(row) < Len(othermacs) THEN Len(row) ELSE Len(othermacs)
           to(k) == {j \in 1..n : row[j] = k}
           last(name) == {j \in 1..n : /\ nodeTable[row[j]].num = name
                                       /\ \A i \in (j + 1)..n : nodeTable[row[i]].num # name}
           addr(js) == othermacs[CHOOSE j \in js : TRUE]
           given == [j \in 1..n |-> row[j]]
<1>6. /\ nodeTable' = [k \in DOMAIN nodeTable |->
            IF to(k) = {} THEN nodeTable[k] ELSE [nodeTable[k] EXCEPT !.mac = addr(to(k))]]
      /\ oda' = [name \in DOMAIN oda |->
            IF last(name) = {} THEN oda[name] ELSE addr(last(name))]
      /\ othermacs' = SubSeq(othermacs, n + 1, Len(othermacs))
  BY <1>1
<1> HIDE DEF W
<1>7. /\ n \in 0..Len(othermacs) /\ n \in Nat
      /\ \A j \in 1..n : j \in 1..Len(othermacs) /\ j \in 1..Len(row)
  BY <1>2, <1>5
<1> HIDE DEF n
<1>8. /\ given \in [1..n -> DOMAIN nodeTable]
      /\ \A j \in 1..n : given[j] = row[j] /\ row[j] \in DOMAIN nodeTable
                         /\ nodeTable[row[j]].mac = Blank
      /\ \A i, j \in 1..n : given[i] = given[j] => i = j
  BY <1>4, <1>5, <1>7
<1>9. ASSUME NEW js \in SUBSET (1..n), js # {}
      PROVE  \E j \in js : addr(js) = othermacs[j]
  BY <1>9
<1>10. ASSUME NEW j \in 1..n
       PROVE  nodeTable'[row[j]] = [nodeTable[row[j]] EXCEPT !.mac = othermacs[j]]
  <2>1. to(row[j]) = {j}
    BY <1>8
  <2>2. addr(to(row[j])) = othermacs[j]
    BY <2>1
  <2>3. to(row[j]) # {} /\ row[j] \in DOMAIN nodeTable
    BY <2>1, <1>8
  <2> HIDE DEF to, addr
  <2> QED BY <2>2, <2>3, <1>6
<1>11. ASSUME NEW k \in DOMAIN nodeTable, \A j \in 1..n : row[j] # k
       PROVE  nodeTable'[k] = nodeTable[k]
  <2>1. to(k) = {}
    BY <1>11
  <2> HIDE DEF to
  <2> QED BY <2>1, <1>6
<1>12. nodeTable' \in Seq(Row) /\ DOMAIN nodeTable' = DOMAIN nodeTable
  <2>1. ASSUME NEW k \in DOMAIN nodeTable PROVE nodeTable'[k] \in Row
    <3>1. CASE \A j \in 1..n : row[j] # k
      BY <3>1, <1>2, <1>11
    <3>2. ASSUME NEW j \in 1..n, row[j] = k PROVE nodeTable'[k] \in Row
      <4>1. nodeTable[k] \in Row /\ othermacs[j] \in Entries
        BY <1>2, <1>7
      <4>2. nodeTable'[k] = [nodeTable[k] EXCEPT !.mac = othermacs[j]]
        BY <1>10, <3>2
      <4> QED BY <4>1, <4>2 DEF Row
    <3> QED BY <3>1, <3>2
  <2>2. DOMAIN nodeTable' = DOMAIN nodeTable
    BY <1>6
  <2>3. nodeTable' \in [1..Len(nodeTable) -> Row]
    BY <2>1, <2>2, <1>2, <1>6
  <2> QED BY <2>2, <2>3, <1>2, SeqDef
<1>13. ASSUME NEW name \in DOMAIN oda
       PROVE  IF last(name) = {} THEN oda'[name] = oda[name]
              ELSE \E j \in last(name) : oda'[name] = othermacs[j]
  <2>1. last(name) \in SUBSET (1..n)
    OBVIOUS
  <2> HIDE DEF last
  <2>2. last(name) # {} => \E j \in last(name) : addr(last(name)) = othermacs[j]
    BY <2>1, <1>9
  <2> HIDE DEF addr
  <2> QED BY <2>2, <1>6
<1>14. DOMAIN oda' = DOMAIN oda
  BY <1>6
<1>15. ASSUME NEW name
       PROVE  last(name) = {j \in 1..n : /\ nodeTable[given[j]].num = name
                              /\ \A i \in (j + 1)..n : nodeTable[given[i]].num # name}
  <2>1. \A j \in 1..n : \A i \in (j + 1)..n : i \in 1..n
    BY <1>7
  <2> QED BY <2>1, <1>8
<1> HIDE DEF given, last
<1> QED
  <2>1. \A k \in DOMAIN nodeTable :
           (\A j \in 1..n : given[j] # k) => nodeTable'[k] = nodeTable[k]
    BY <1>8, <1>11
  <2>2. Fills(n, given)
    BY <1>8, <1>10, <1>13, <1>15, <2>1 DEF Fills
  <2>3. othermacs' = SubSeq(othermacs, n + 1, Len(othermacs))
    BY <1>6
  <2> QED BY <1>7, <1>8, <1>12, <1>14, <2>2, <2>3

LEMMA FillsStayPlaced ==
    ASSUME SeqsTyped, PlacedInv, assignallmacs_clicked
    PROVE  SeqsTyped' /\ PlacedInv'
<1> DEFINE c == column(nodeTable)
           d == column(nodeTable')
           m == Len(othermacs)
           Given(k, addr) == \E j \in 1..k : othermacs[j] = addr
<1>1. UNCHANGED <<straymacs, usedmacs, cleared>>
  BY DEF assignallmacs_clicked
<1>2. /\ nodeTable' \in Seq(Row) /\ DOMAIN nodeTable' = DOMAIN nodeTable
      /\ DOMAIN oda' = DOMAIN oda
  BY FilledRows
<1>0. PICK n \in 0..m : \E row \in [1..n -> DOMAIN nodeTable] :
         Fills(n, row) /\ othermacs' = SubSeq(othermacs, n + 1, m)
  BY FilledRows
<1>3. PICK row \in [1..n -> DOMAIN nodeTable] :
         Fills(n, row) /\ othermacs' = SubSeq(othermacs, n + 1, m)
  BY <1>0
<1>4. /\ othermacs \in Seq(Entries) /\ m \in Nat /\ n \in Nat /\ DOMAIN othermacs = 1..m
      /\ \A j \in 1..m : othermacs[j] \in Entries
      /\ Once(othermacs)
      /\ \A j \in 1..n : j \in 1..m
  BY LenProperties, ElementOfSeq DEF SeqsTyped, PlacedInv
<1>5. /\ DOMAIN c = DOMAIN nodeTable /\ DOMAIN d = DOMAIN nodeTable /\ Once(c)
      /\ \A k \in DOMAIN nodeTable : /\ c[k] = nodeTable[k].mac /\ d[k] = nodeTable'[k].mac
                                     /\ nodeTable[k] \in Row
  BY <1>2, ColumnProperties DEF SeqsTyped, PlacedInv
<1> HIDE DEF c, d, m
<1>6. \A j \in 1..n : /\ row[j] \in DOMAIN c
                      /\ c[row[j]] = Blank /\ d[row[j]] = othermacs[j]
  <2> SUFFICES ASSUME NEW j \in 1..n
               PROVE  row[j] \in DOMAIN c /\ c[row[j]] = Blank /\ d[row[j]] = othermacs[j]
    OBVIOUS
  <2>1. /\ row[j] \in DOMAIN nodeTable /\ nodeTable[row[j]].mac = Blank
        /\ nodeTable'[row[j]] = [nodeTable[row[j]] EXCEPT !.mac = othermacs[j]]
    BY <1>3 DEF Fills
  <2>2. nodeTable[row[j]] \in Row
    BY <1>5, <2>1
  <2>3. nodeTable'[row[j]].mac = othermacs[j]
    BY <2>1, <2>2 DEF Row
  <2> QED BY <1>5, <2>1, <2>3
<1>7. \A k \in DOMAIN c : (\A j \in 1..n : row[j] # k) => d[k] = c[k]
  BY <1>3, <1>5 DEF Fills
<1>8. ASSUME NEW addr \in Macs
      PROVE  Has(d, addr) <=> Has(c, addr) \/ Given(n, addr)
  <2>1. ASSUME NEW k \in DOMAIN d, d[k] = addr
        PROVE  Has(c, addr) \/ Given(n, addr)
    BY <2>1, <1>5, <1>6, <1>7 DEF Has
  <2>2. ASSUME NEW k \in DOMAIN c, c[k] = addr PROVE Has(d, addr)
    <3>1. \A j \in 1..n : row[j] # k
      BY <2>2, <1>6, NoneIsAnAddress
    <3> QED BY <2>2, <3>1, <1>5, <1>7 DEF Has
  <2>3. ASSUME NEW j \in 1..n, othermacs[j] = addr PROVE Has(d, addr)
    BY <2>3, <1>5, <1>6 DEF Has
  <2> QED BY <2>1, <2>2, <2>3 DEF Has
<1>9. \A addr \in Macs : Has(c, addr) => ~Has(othermacs, addr)
  BY DEF PlacedInv, Apart, c
<1>10. Once(d)
  <2> SUFFICES ASSUME NEW k \in DOMAIN d, NEW l \in DOMAIN d, d[k] = d[l], d[k] \in Macs
               PROVE  k = l
    BY DEF Once
  <2>1. ASSUME NEW k1 \in DOMAIN d, NEW i \in 1..n, \A j \in 1..n : row[j] # k1,
               d[k1] = d[row[i]], d[k1] \in Macs
        PROVE  FALSE
    <3>1. c[k1] = othermacs[i] /\ c[k1] \in Macs /\ i \in DOMAIN othermacs
      BY <2>1, <1>4, <1>5, <1>6, <1>7
    <3> QED BY <3>1, <2>1, <1>5, <1>9 DEF Has
  <2>2. CASE (\A j \in 1..n : row[j] # k) /\ (\A j \in 1..n : row[j] # l)
    BY <2>2, <1>5, <1>7 DEF Once
  <2>3. ASSUME NEW i \in 1..n, NEW j \in 1..n, row[i] = k, row[j] = l PROVE k = l
    <3>1. othermacs[i] = othermacs[j] /\ othermacs[i] \in Macs
      BY <2>3, <1>6
    <3>2. i = j
      BY <3>1, <1>4 DEF Once
    <3> QED BY <3>2, <2>3
  <2> QED BY <2>1, <2>2, <2>3
<1>11. /\ othermacs' \in Seq(Entries) /\ DOMAIN othermacs' = 1..(m - n)
       /\ \A i \in 1..(m - n) : othermacs'[i] = othermacs[n + i]
  <2>1. n + 1 \in Int /\ m \in Int /\ \A i \in (n + 1)..m : othermacs[i] \in Entries
    BY <1>3, <1>4
  <2>2. /\ othermacs' \in Seq(Entries)
        /\ Len(othermacs') = IF n + 1 <= m THEN m - (n + 1) + 1 ELSE 0
        /\ \A i \in 1..(m - (n + 1) + 1) : othermacs'[i] = othermacs[(n + 1) + i - 1]
    BY <2>1, <1>3, SubSeqProperties
  <2>3. Len(othermacs') = m - n /\ DOMAIN othermacs' = 1..Len(othermacs')
    BY <2>2, <1>3, <1>4, LenProperties
  <2>4. ASSUME NEW i \in 1..(m - n) PROVE othermacs'[i] = othermacs[n + i]
    <3>1. i \in 1..(m - (n + 1) + 1) /\ (n + 1) + i - 1 = n + i
      BY <1>3, <1>4
    <3> QED BY <3>1, <2>2
  <2> QED BY <2>2, <2>3, <2>4
<1>12. /\ \A i \in 1..(m - n) : n + i \in 1..m /\ n + i \notin 1..n
       /\ \A j \in 1..m : j \in 1..n \/ (j - n \in 1..(m - n) /\ n + (j - n) = j)
  BY <1>3, <1>4
<1>13. ASSUME NEW addr \in Macs
       PROVE  /\ Has(othermacs', addr) => Has(othermacs, addr) /\ ~Given(n, addr)
              /\ Has(othermacs, addr) => Has(othermacs', addr) \/ Given(n, addr)
  <2>1. ASSUME NEW i \in 1..(m - n), othermacs'[i] = addr
        PROVE  Has(othermacs, addr) /\ ~Given(n, addr)
    <3>1. n + i \in 1..m /\ n + i \notin 1..n /\ othermacs[n + i] = addr
      BY <2>1, <1>11, <1>12
    <3> QED BY <3>1, <1>4 DEF Has, Once
  <2>2. ASSUME NEW j \in 1..m, othermacs[j] = addr, j \notin 1..n PROVE Has(othermacs', addr)
    <3>1. j - n \in 1..(m - n) /\ othermacs'[j - n] = othermacs[j]
      BY <2>2, <1>11, <1>12
    <3> QED BY <3>1, <2>2, <1>11 DEF Has
  <2> QED BY <2>1, <2>2, <1>4, <1>11 DEF Has
<1>14. Once(othermacs')
  <2> SUFFICES ASSUME NEW i \in 1..(m - n), NEW j \in 1..(m - n),
                      othermacs'[i] = othermacs'[j], othermacs'[i] \in Macs
               PROVE  i = j
    BY <1>11 DEF Once
  <2>1. n + i = n + j
    BY <1>4, <1>11, <1>12 DEF Once
  <2> QED BY <2>1, <1>3, <1>4
<1>15. \A name \in DOMAIN oda' : name \in Nat /\ oda'[name] \in Entries \cup {Blank}
  <2> SUFFICES ASSUME NEW name \in DOMAIN oda
               PROVE  name \in Nat /\ oda'[name] \in Entries \cup {Blank}
    BY <1>2
  <2>1. oda'[name] = oda[name] \/ \E j \in 1..n : oda'[name] = othermacs[j]
    BY <1>3 DEF Fills
  <2> QED BY <2>1, <1>4 DEF SeqsTyped
<1>16. SeqsTyped'
  BY <1>1, <1>2, <1>11, <1>15 DEF SeqsTyped
<1>17. PlacedInv'
  <2>1. \A addr : Given(n, addr) => Has(othermacs, addr)
    BY <1>4 DEF Has
  <2> HIDE DEF Given
  <2>2. \A addr \in Macs : InPlace(addr)' <=> InPlace(addr)
    BY <1>1, <1>8, <1>13, <2>1, Zenon DEF InPlace, c, d
  <2>3. /\ Apart(othermacs, straymacs)' /\ Apart(othermacs, column(nodeTable))'
        /\ Apart(straymacs, column(nodeTable))'
    BY <1>1, <1>8, <1>9, <1>13, <2>1, Zenon DEF PlacedInv, Apart, c, d
  <2> QED BY <1>1, <1>10, <1>14, <2>2, <2>3 DEF PlacedInv, d
<1> QED BY <1>16, <1>17

LEMMA PlacesInductive ==
    ASSUME SeqsTyped, RestTyped, PlacedInv, [MgmtNext]_mgmtVars
    PROVE  SeqsTyped' /\ PlacedInv'
<1>1. ASSUME UNCHANGED <<lists, nodes, usedmacs, cleared>> PROVE SeqsTyped' /\ PlacedInv'
  BY <1>1 DEF SeqsTyped, PlacedInv, InPlace, lists, nodes
<1>2. CASE UNCHANGED mgmtVars
  BY <1>1, <1>2 DEF mgmtVars
<1>3. CASE Collect
  <2>1. CASE processnetmacs
    <3>1. macs \in Seq(Macs) /\ insertUnused(macs) /\ UNCHANGED <<straymacs, nodes, cleared>>
      BY <2>1 DEF processnetmacs, RestTyped
    <3> QED BY <3>1, ImportsStayPlaced
  <2>2. CASE ~processnetmacs
    BY <1>1, <1>3, <2>2
       DEF Collect, startnetcollection, stopcollect_clicked, getcollectedmacs, processExited
  <2> QED BY <2>1, <2>2
<1>4. CASE Import
  <2>1. ASSUME NEW newmacs \in Files, importmacs_clicked(newmacs)
        PROVE  SeqsTyped' /\ PlacedInv'
    <3>1. Reverse(newmacs) \in Seq(Macs)
      <4>1. \A m, n \in Macs : <<m>> \in Seq(Macs) /\ <<m, n>> \in Seq(Macs)
        OBVIOUS
      <4>2. (\E m \in Macs : newmacs = <<m>>) \/ (\E m, n \in Macs : newmacs = <<m, n>>)
        BY DEF Files
      <4>3. newmacs \in Seq(Macs)
        BY <4>1, <4>2, Zenon
      <4> QED BY <4>3, ReverseProperties
    <3> QED BY <2>1, <3>1, ImportsStayPlaced DEF importmacs_clicked
  <2>2. ASSUME NEW addr \in Macs, importmanualmac_clicked(addr) PROVE SeqsTyped' /\ PlacedInv'
    <3>1. /\ othermacs' = Append(othermacs, One) /\ usedmacs' = usedmacs \cup {One}
          /\ UNCHANGED <<straymacs, nodeTable, oda, cleared>>
      BY <2>2 DEF importmanualmac_clicked, nodes
    <3>2. One \in Entries /\ One \notin Macs
      BY EntriesAssumption DEF Entries
    <3>3. /\ Append(othermacs, One) \in Seq(Entries) /\ Once(Append(othermacs, One))
          /\ \A m \in Macs : Has(Append(othermacs, One), m) <=> Has(othermacs, m)
      BY <3>2, AppendedOnce DEF SeqsTyped, PlacedInv
    <3>4. SeqsTyped'
      BY <3>1, <3>2, <3>3 DEF SeqsTyped
    <3>5. \A m \in Macs : InPlace(m)' <=> InPlace(m)
      BY <3>1, <3>3, Zenon DEF InPlace
    <3>6. /\ Apart(othermacs, straymacs)' /\ Apart(othermacs, column(nodeTable))'
          /\ Apart(straymacs, column(nodeTable))'
      BY <3>1, <3>3, Zenon DEF PlacedInv, Apart
    <3>7. PlacedInv'
      BY <3>1, <3>2, <3>3, <3>5, <3>6 DEF PlacedInv
    <3> QED BY <3>4, <3>7
  <2> QED BY <1>4, <2>1, <2>2 DEF Import
<1>5. CASE Move
  BY <1>5, MovesStayPlaced
<1>6. CASE Assign
  BY <1>6, DefinitionsStayPlaced, SwapsStayPlaced, FillsStayPlaced, ReturnsStayPlaced
     DEF Assign, RestTyped
<1>7. CASE Set
  <2>1. UNCHANGED <<lists, nodes, usedmacs, cleared>>
    BY <1>7 DEF Set, nodesettingschange_clicked, edit, setundopoint, restoreundo, reject
  <2> QED BY <1>1, <2>1
<1>8. CASE closeDialog_clicked
  BY <1>1, <1>8 DEF closeDialog_clicked
<1> QED BY <1>2, <1>3, <1>4, <1>5, <1>6, <1>7, <1>8 DEF MgmtNext

(* Once in a list is once in the count.                                    *)
LEMMA CountedOnce ==
    ASSUME NEW S, NEW s \in Seq(S), NEW addr \in Macs, Once(s)
    PROVE  Cardinality({i \in DOMAIN s : s[i] = addr}) = IF Has(s, addr) THEN 1 ELSE 0
<1> DEFINE I == {i \in DOMAIN s : s[i] = addr}
<1>1. CASE Has(s, addr)
  <2>1. PICK i \in DOMAIN s : s[i] = addr
    BY <1>1 DEF Has
  <2>2. I = {i}
    BY <2>1 DEF Once
  <2> QED BY <1>1, <2>2, FS_Singleton
<1>2. CASE ~Has(s, addr)
  <2>1. I = {}
    BY <1>2 DEF Has
  <2> QED BY <1>2, <2>1, FS_EmptySet
<1> QED BY <1>1, <1>2

LEMMA PlacedIsOnePlace == SeqsTyped /\ PlacedInv => AddressesHaveAPlace
<1> SUFFICES ASSUME SeqsTyped, PlacedInv, NEW addr \in Macs
             PROVE  /\ Places(addr) <= 1
                    /\ addr \in usedmacs /\ ~cleared => Places(addr) = 1
  BY DEF AddressesHaveAPlace
<1> DEFINE count(s) == IF Has(s, addr) THEN 1 ELSE 0
           c == column(nodeTable)
<1>1. /\ Cardinality({i \in DOMAIN othermacs : othermacs[i] = addr}) = count(othermacs)
      /\ Cardinality({i \in DOMAIN straymacs : straymacs[i] = addr}) = count(straymacs)
  BY CountedOnce DEF SeqsTyped, PlacedInv
<1>2. /\ c \in Seq(Entries \cup {Blank}) /\ DOMAIN c = DOMAIN nodeTable
      /\ \A k \in DOMAIN nodeTable : c[k] = nodeTable[k].mac
  BY ColumnProperties DEF SeqsTyped
<1>3. Once(c)
  BY DEF PlacedInv
<1>4. Cardinality({i \in DOMAIN nodeTable : nodeTable[i].mac = addr}) = count(c)
  <2> HIDE DEF c
  <2>1. {i \in DOMAIN nodeTable : nodeTable[i].mac = addr} = {i \in DOMAIN c : c[i] = addr}
    BY <1>2
  <2>2. Cardinality({i \in DOMAIN c : c[i] = addr}) = count(c)
    BY <1>2, <1>3, CountedOnce
  <2> QED BY <2>1, <2>2
<1>5. Places(addr) = count(othermacs) + count(straymacs) + count(c)
  BY <1>1, <1>4 DEF Places
<1>6. /\ ~(Has(othermacs, addr) /\ Has(straymacs, addr))
      /\ ~(Has(othermacs, addr) /\ Has(c, addr)) /\ ~(Has(straymacs, addr) /\ Has(c, addr))
      /\ addr \in usedmacs /\ ~cleared => Has(othermacs, addr) \/ Has(straymacs, addr) \/ Has(c, addr)
  BY DEF PlacedInv, Apart, InPlace
<1> HIDE DEF c
<1> QED BY <1>5, <1>6

(* The window's state is well formed after any use of it, and the button   *)
(* "Stop" can be pressed while mac_collector runs (NodeMgmtDialog.ui.h:    *)
(* 155-196).                                                               *)
THEOREM MgmtTypeCorrect == MgmtSpec => []MgmtTypeOK
<1> DEFINE Inv == SeqsTyped /\ RestTyped /\ PlacedInv
<1>1. MgmtInit => Inv
  BY MgmtInitType, InitPlaced, TypeParts
<1>2. Inv /\ [MgmtNext]_mgmtVars => Inv'
  BY RestStaysTyped, PlacesInductive
<1>3. Inv => MgmtTypeOK
  BY TypeParts
<1> QED BY <1>1, <1>2, <1>3, PTL DEF MgmtSpec

(* No address is doubled or lost, for any addresses, any files and any     *)
(* number of nodes (NodeMgmtDialog.ui.h:175-186, 209-218, 246-288,         *)
(* 373-469).                                                               *)
THEOREM AddressesKeepTheirPlace == MgmtSpec => []AddressesHaveAPlace
<1> DEFINE Inv == SeqsTyped /\ RestTyped /\ PlacedInv
<1>1. MgmtInit => Inv
  BY MgmtInitType, InitPlaced, TypeParts
<1>2. Inv /\ [MgmtNext]_mgmtVars => Inv'
  BY RestStaysTyped, PlacesInductive
<1>3. Inv => AddressesHaveAPlace
  BY PlacedIsOnePlace
<1> QED BY <1>1, <1>2, <1>3, PTL DEF MgmtSpec

-----------------------------------------------------------------------------
(* While no number was typed, the rows are numbered below what Cancel goes *)
(* back to, and so are ODA's nodes.                                        *)
Numbered ==
    /\ \A k \in DOMAIN nodeTable : \A j \in DOMAIN nodeTable \ {k} :
          nodeTable[j].num # nodeTable[k].num /\ nodeTable[j].ip # nodeTable[k].ip
    /\ \A k \in DOMAIN nodeTable :
          /\ nodeTable[k].num \in DOMAIN oda
          /\ oda[nodeTable[k].num] = nodeTable[k].mac
          /\ nodeTable[k].num < undo.num /\ nodeTable[k].ip < undo.ip
    /\ \A name \in DOMAIN oda : name < undo.num
NumbersInv == renumbered \/ Numbered

LEMMA InitNumbers == MgmtInit => NumbersInv
  BY DEF MgmtInit, NumbersInv, Numbered

LEMMA NumbersAreOda == NumbersInv => TableIsOda
  BY DEF NumbersInv, Numbered, TableIsOda

(* Addresses change, the numbers do not.                                   *)
LEMMA SameNumbers ==
    ASSUME Numbered, undo' = undo,
           DOMAIN nodeTable' = DOMAIN nodeTable, DOMAIN oda' = DOMAIN oda,
           \A k \in DOMAIN nodeTable : /\ nodeTable'[k].num = nodeTable[k].num
                                       /\ nodeTable'[k].ip = nodeTable[k].ip
                                       /\ oda'[nodeTable[k].num] = nodeTable'[k].mac
    PROVE  Numbered'
  BY DEF Numbered

LEMMA DefinitionsAreNumbered ==
    ASSUME SeqsTyped, RestTyped, NumbersInv,
           NEW list \in Seq(Entries \cup {Blank}), definenodes(list)
    PROVE  NumbersInv'
<1> SUFFICES ASSUME Numbered, texts = undo PROVE Numbered'
  BY DEF NumbersInv, definenodes
<1>1. nodeTable \in Seq(Row) /\ texts \in Settings
  BY DEF SeqsTyped, RestTyped
<1>2. /\ nodeTable' \in Seq(Row)
      /\ Len(nodeTable') = Len(nodeTable) + Len(list)
      /\ \A k \in 1..Len(nodeTable) : nodeTable'[k] = nodeTable[k]
      /\ \A k \in 1..Len(list) :
            nodeTable'[Len(nodeTable) + k]
              = [num |-> texts.num + (k - 1), ip |-> texts.ip + (k - 1), mac |-> list[k]]
      /\ texts' = [num |-> texts.num + Len(list), ip |-> texts.ip + Len(list)]
  BY ONLY <1>1, definenodes(list), list \in Seq(Entries \cup {Blank}), DefinedRows
<1>3. PICK m \in Nat, n \in Nat, u \in Nat, v \in Nat :
         m = Len(nodeTable) /\ n = Len(list) /\ u = undo.num /\ v = undo.ip
  BY <1>1, LenProperties DEF Settings
<1>4. /\ DOMAIN nodeTable = 1..m /\ DOMAIN nodeTable' = 1..(m + n) /\ DOMAIN list = 1..n
      /\ undo'.num = u + n /\ undo'.ip = v + n
      /\ \A k \in 1..m : nodeTable'[k] = nodeTable[k] /\ nodeTable[k] \in Row
  BY <1>1, <1>2, <1>3, LenProperties, ElementOfSeq DEF definenodes
<1>5. \A j \in 1..n : /\ nodeTable'[m + j].num = u + (j - 1)
                      /\ nodeTable'[m + j].ip = v + (j - 1)
                      /\ nodeTable'[m + j].mac = list[j]
  <2> SUFFICES ASSUME NEW j \in 1..n
               PROVE  /\ nodeTable'[m + j].num = u + (j - 1)
                      /\ nodeTable'[m + j].ip = v + (j - 1)
                      /\ nodeTable'[m + j].mac = list[j]
    OBVIOUS
  <2>1. nodeTable'[Len(nodeTable) + j]
          = [num |-> texts.num + (j - 1), ip |-> texts.ip + (j - 1), mac |-> list[j]]
    BY <1>2, <1>3, Zenon
  <2> QED BY <2>1, <1>3
<1>6. \A k \in 1..(m + n) : k \in 1..m \/ \E j \in 1..n : k = m + j
  <2> SUFFICES ASSUME NEW k \in 1..(m + n), k \notin 1..m PROVE \E j \in 1..n : k = m + j
    OBVIOUS
  <2>1. k - m \in 1..n /\ k = m + (k - m)
    OBVIOUS
  <2> QED BY <2>1
<1>7. \A k \in 1..m : /\ nodeTable[k].num \in Nat /\ nodeTable[k].ip \in Nat
                      /\ nodeTable[k].num < u /\ nodeTable[k].ip < v
                      /\ nodeTable[k].num \in DOMAIN oda
                      /\ oda[nodeTable[k].num] = nodeTable[k].mac
  BY <1>3, <1>4 DEF Numbered, Row
<1> DEFINE names == {(texts.num + (k - 1)) : k \in DOMAIN list}
<1>8. oda' = [x \in names \cup DOMAIN oda |->
                IF x \in DOMAIN oda THEN oda[x] ELSE list[(x - texts.num) + 1]]
  BY DEF definenodes
<1>9. \A x \in names : x \in u..(u + n) /\ x < u + n
  BY <1>3, <1>4
<1>10. \A j \in 1..n : u + (j - 1) \in names
  BY <1>3, <1>4
<1>11. \A x \in DOMAIN oda : x \in Nat /\ x < u
  BY <1>3 DEF Numbered, SeqsTyped
<1> HIDE DEF names
<1>12. ASSUME NEW k \in 1..m
       PROVE  nodeTable[k].num \in DOMAIN oda' /\ oda'[nodeTable[k].num] = nodeTable[k].mac
  BY <1>7, <1>8
<1>13. ASSUME NEW j \in 1..n
       PROVE  u + (j - 1) \in DOMAIN oda' /\ oda'[u + (j - 1)] = list[j]
  <2>1. u + (j - 1) \notin DOMAIN oda /\ ((u + (j - 1)) - u) + 1 = j
    BY <1>11
  <2> QED BY <2>1, <1>3, <1>8, <1>10
<1>14. \A x \in DOMAIN oda' : x < undo'.num
  <2>1. \A x \in names \cup DOMAIN oda : x < u + n
    BY <1>9, <1>11
  <2> QED BY <2>1, <1>4, <1>8
<1>15. ASSUME NEW k \in 1..(m + n)
       PROVE  /\ nodeTable'[k].num \in DOMAIN oda' /\ oda'[nodeTable'[k].num] = nodeTable'[k].mac
              /\ nodeTable'[k].num < undo'.num /\ nodeTable'[k].ip < undo'.ip
  <2>1. CASE k \in 1..m
    BY <2>1, <1>4, <1>7, <1>12
  <2>2. ASSUME NEW j \in 1..n, k = m + j
        PROVE  /\ nodeTable'[k].num \in DOMAIN oda' /\ oda'[nodeTable'[k].num] = nodeTable'[k].mac
               /\ nodeTable'[k].num < undo'.num /\ nodeTable'[k].ip < undo'.ip
    <3>1. u + (j - 1) < u + n /\ v + (j - 1) < v + n
      OBVIOUS
    <3>2. /\ nodeTable'[k].num = u + (j - 1) /\ nodeTable'[k].ip = v + (j - 1)
          /\ nodeTable'[k].mac = list[j]
      BY <2>2, <1>5, Zenon
    <3>3. u + (j - 1) \in DOMAIN oda' /\ oda'[u + (j - 1)] = list[j]
      BY <1>13
    <3> QED BY <1>4, <3>1, <3>2, <3>3
  <2> QED BY <2>1, <2>2, <1>6
<1>16. ASSUME NEW k \in 1..(m + n), NEW l \in 1..(m + n), k # l
       PROVE  nodeTable'[l].num # nodeTable'[k].num /\ nodeTable'[l].ip # nodeTable'[k].ip
  <2>1. CASE k \in 1..m /\ l \in 1..m
    BY <2>1, <1>4, <1>16 DEF Numbered
  <2>2. ASSUME NEW k1 \in 1..m, NEW j \in 1..n
        PROVE  /\ nodeTable'[k1].num # nodeTable'[m + j].num
               /\ nodeTable'[k1].ip # nodeTable'[m + j].ip
    BY <1>4, <1>5, <1>7
  <2>3. ASSUME NEW i \in 1..n, NEW j \in 1..n, k = m + i, l = m + j
        PROVE  nodeTable'[l].num # nodeTable'[k].num /\ nodeTable'[l].ip # nodeTable'[k].ip
    <3>1. /\ nodeTable'[k].num = u + (i - 1) /\ nodeTable'[k].ip = v + (i - 1)
          /\ nodeTable'[l].num = u + (j - 1) /\ nodeTable'[l].ip = v + (j - 1)
      BY <2>3, <1>5, Zenon
    <3>2. i # j
      BY <2>3, <1>16
    <3> QED BY <3>1, <3>2
  <2> QED BY <2>1, <2>2, <2>3, <1>6
<1> QED BY <1>4, <1>14, <1>15, <1>16 DEF Numbered

LEMMA NumbersInductive ==
    ASSUME SeqsTyped, RestTyped, NumbersInv, [MgmtNext]_mgmtVars
    PROVE  NumbersInv'
<1>1. ASSUME UNCHANGED <<nodes, undo, renumbered>> PROVE NumbersInv'
  BY <1>1 DEF NumbersInv, Numbered, nodes
<1>2. CASE UNCHANGED mgmtVars
  BY <1>1, <1>2 DEF mgmtVars, settings
<1>3. CASE Collect
  <2>1. UNCHANGED <<nodes, undo, renumbered>>
    BY <1>3 DEF Collect, startnetcollection, stopcollect_clicked, getcollectedmacs, processExited,
                processnetmacs, settings
  <2> QED BY <1>1, <2>1
<1>4. CASE Import
  <2>1. UNCHANGED <<nodes, undo, renumbered>>
    BY <1>4 DEF Import, importmacs_clicked, importmanualmac_clicked, settings
  <2> QED BY <1>1, <2>1
<1>5. CASE Move
  <2>1. UNCHANGED <<nodes, undo, renumbered>>
    BY <1>5 DEF Move, straytounass_clicked, unasstostray_clicked, allstraytounass_clicked,
                allunasstostray_clicked, clearmacs_clicked, settings
  <2> QED BY <1>1, <2>1
<1>6. CASE Assign
  <2>1. ASSUME NEW numnodes \in 1..MaxNodes, defineNnodes(numnodes) PROVE NumbersInv'
    <3>1. numnodes \in Nat
      OBVIOUS
    <3>2. [k \in 1..numnodes |-> Blank] \in Seq(Entries \cup {Blank})
      BY <3>1, SeqDef
    <3> QED BY <2>1, <3>2, DefinitionsAreNumbered DEF defineNnodes
  <2>2. ASSUME NEW i \in DOMAIN othermacs, assignmac_defining(i) PROVE NumbersInv'
    <3>1. othermacs[i] \in Entries \cup {Blank}
      BY LenProperties, ElementOfSeq DEF SeqsTyped
    <3>2. <<othermacs[i]>> \in Seq(Entries \cup {Blank})
      BY <3>1
    <3> QED BY <2>2, <3>2, DefinitionsAreNumbered DEF assignmac_defining
  <2>3. CASE assignallmacs_defining
    <3>1. othermacs \in Seq(Entries \cup {Blank})
      BY SeqMonotonic DEF SeqsTyped
    <3> QED BY <2>3, <3>1, DefinitionsAreNumbered DEF assignallmacs_defining
  <2>4. \A k \in DOMAIN nodeTable : nodeTable[k] \in Row
    BY LenProperties, ElementOfSeq DEF SeqsTyped
  <2>5. ASSUME NEW row \in DOMAIN nodeTable, NEW x \in Entries \cup {Blank},
               nodeTable' = [nodeTable EXCEPT ![row].mac = x],
               modify_records(nodeTable[row].num, x), UNCHANGED <<undo, renumbered>>
        PROVE  NumbersInv'
    <3> SUFFICES ASSUME Numbered PROVE Numbered'
      BY <2>5 DEF NumbersInv
    <3>1. DOMAIN nodeTable' = DOMAIN nodeTable /\ DOMAIN oda' = DOMAIN oda
      BY <2>5 DEF modify_records
    <3>2. ASSUME NEW k \in DOMAIN nodeTable
          PROVE  /\ nodeTable'[k].num = nodeTable[k].num /\ nodeTable'[k].ip = nodeTable[k].ip
                 /\ oda'[nodeTable[k].num] = nodeTable'[k].mac
      <4>1. nodeTable[k] \in Row /\ nodeTable[k].num \in DOMAIN oda
            /\ oda[nodeTable[k].num] = nodeTable[k].mac
        BY <2>4 DEF Numbered
      <4>2. CASE k = row
        BY <2>5, <4>1, <4>2 DEF modify_records, Row
      <4>3. CASE k # row
        <5>1. nodeTable[k].num # nodeTable[row].num
          BY <4>3 DEF Numbered
        <5> QED BY <2>5, <4>1, <4>3, <5>1 DEF modify_records
      <4> QED BY <4>2, <4>3
    <3> QED BY <3>1, <3>2, <2>5, SameNumbers
  <2>6. ASSUME NEW i \in DOMAIN othermacs, NEW row \in DOMAIN nodeTable, assignmac_clicked(i, row)
        PROVE  NumbersInv'
    <3>1. othermacs[i] \in Entries \cup {Blank}
      BY LenProperties, ElementOfSeq DEF SeqsTyped
    <3> QED BY <2>5, <2>6, <3>1 DEF assignmac_clicked, settings
  <2>7. ASSUME NEW row \in DOMAIN nodeTable, unassignmac_clicked(row) PROVE NumbersInv'
    BY <2>5, <2>7 DEF unassignmac_clicked, settings
  <2>8. CASE assignallmacs_clicked
    <3>1. UNCHANGED <<undo, renumbered>>
      BY <2>8 DEF assignallmacs_clicked, settings
    <3> SUFFICES ASSUME Numbered PROVE Numbered'
      BY <3>1 DEF NumbersInv
    <3>2. DOMAIN nodeTable' = DOMAIN nodeTable /\ DOMAIN oda' = DOMAIN oda
      BY <2>8, FilledRows
    <3>3. PICK n \in 0..Len(othermacs) : \E row \in [1..n -> DOMAIN nodeTable] : Fills(n, row)
      BY <2>8, FilledRows
    <3>4. PICK row \in [1..n -> DOMAIN nodeTable] : Fills(n, row)
      BY <3>3
    <3>5. ASSUME NEW k \in DOMAIN nodeTable
          PROVE  /\ nodeTable'[k].num = nodeTable[k].num /\ nodeTable'[k].ip = nodeTable[k].ip
                 /\ oda'[nodeTable[k].num] = nodeTable'[k].mac
      <4> DEFINE last == {j \in 1..n : /\ nodeTable[row[j]].num = nodeTable[k].num
                                       /\ \A i \in (j + 1)..n :
                                             nodeTable[row[i]].num # nodeTable[k].num}
      <4>1. /\ nodeTable[k] \in Row /\ nodeTable[k].num \in DOMAIN oda
            /\ oda[nodeTable[k].num] = nodeTable[k].mac
        BY <2>4 DEF Numbered
      <4>2. IF last = {} THEN oda'[nodeTable[k].num] = oda[nodeTable[k].num]
            ELSE \E j \in last : oda'[nodeTable[k].num] = othermacs[j]
        BY <3>4, <4>1 DEF Fills
      <4>3. \A j \in 1..n : row[j] \in DOMAIN nodeTable
                            /\ (row[j] # k => nodeTable[row[j]].num # nodeTable[k].num)
        BY <3>4 DEF Fills, Numbered
      <4>4. CASE \A j \in 1..n : row[j] # k
        <5>1. last = {}
          BY <4>3, <4>4
        <5>2. nodeTable'[k] = nodeTable[k]
          BY <3>4, <4>4 DEF Fills
        <5> HIDE DEF last
        <5> QED BY <4>1, <4>2, <5>1, <5>2
      <4>5. ASSUME NEW j \in 1..n, row[j] = k
            PROVE  /\ nodeTable'[k].num = nodeTable[k].num /\ nodeTable'[k].ip = nodeTable[k].ip
                   /\ oda'[nodeTable[k].num] = nodeTable'[k].mac
        <5>1. \A i \in 1..n : row[i] = k => i = j
          BY <3>4, <4>5 DEF Fills
        <5>2. j \in last /\ last \subseteq {j}
          <6>1. \A i \in (j + 1)..n : i \in 1..n /\ i # j
            OBVIOUS
          <6> QED BY <6>1, <5>1, <4>3, <4>5
        <5> HIDE DEF last
        <5>3. oda'[nodeTable[k].num] = othermacs[j]
          BY <4>2, <5>2
        <5>4. nodeTable'[k] = [nodeTable[k] EXCEPT !.mac = othermacs[j]]
          BY <3>4, <4>5 DEF Fills
        <5> QED BY <4>1, <5>3, <5>4 DEF Row
      <4> QED BY <4>4, <4>5
    <3> QED BY <3>1, <3>2, <3>5, SameNumbers
  <2> QED BY <1>6, <2>1, <2>2, <2>3, <2>6, <2>7, <2>8 DEF Assign
<1>7. CASE Set
  <2>1. CASE setundopoint
    <3>1. nodes' = nodes /\ undo' = texts /\ renumbered' = (renumbered \/ texts # undo)
      BY <2>1 DEF setundopoint
    <3>2. CASE texts = undo
      BY <1>1, <3>1, <3>2 DEF RestTyped
    <3>3. CASE texts # undo
      BY <3>1, <3>3 DEF NumbersInv
    <3> QED BY <3>2, <3>3
  <2>2. CASE ~setundopoint
    <3>1. UNCHANGED <<nodes, undo, renumbered>>
      BY <1>7, <2>2 DEF Set, nodesettingschange_clicked, edit, restoreundo, reject
    <3> QED BY <1>1, <3>1
  <2> QED BY <2>1, <2>2
<1>8. CASE closeDialog_clicked
  BY <1>1, <1>8 DEF closeDialog_clicked, settings
<1> QED BY <1>2, <1>3, <1>4, <1>5, <1>6, <1>7, <1>8 DEF MgmtNext

(* ODA is what the table shows, and names and IPs are distinct, for any    *)
(* number of nodes defined in any order with the dialog open beside them,  *)
(* while no number that was typed is accepted (NodeMgmtDialog.ui.h:        *)
(* 306-351, 373-469, NodeSettingsDialog.ui.h:46-76).                       *)
THEOREM TableStaysOda == MgmtSpec => []TableIsOda
<1> DEFINE Inv == SeqsTyped /\ RestTyped /\ PlacedInv /\ NumbersInv
<1>1. MgmtInit => Inv
  BY MgmtInitType, InitPlaced, InitNumbers, TypeParts
<1>2. Inv /\ [MgmtNext]_mgmtVars => Inv'
  BY RestStaysTyped, PlacesInductive, NumbersInductive
<1>3. Inv => TableIsOda
  BY NumbersAreOda
<1> QED BY <1>1, <1>2, <1>3, PTL DEF MgmtSpec

(* No step forgets a line of mac_collector (NodeMgmtDialog.ui.h:155-196).  *)
THEOREM HeardLinesAreKept == MgmtSpec => HeardIsKept
<1> DEFINE Kept == ToSet(macs) \subseteq usedmacs' \cup ToSet(macs')
<1>1. ASSUME MgmtTypeOK, [MgmtNext]_mgmtVars PROVE Kept
  <2>1. CASE UNCHANGED macs
    BY <2>1 DEF ToSet
  <2>2. CASE processnetmacs
    BY <2>2 DEF processnetmacs, insertUnused
  <2>3. ASSUME NEW addr \in Macs, getcollectedmacs(addr) PROVE Kept
    <3>1. macs' = Append(macs, addr) /\ macs \in Seq(Macs)
      BY <2>3, <1>1 DEF getcollectedmacs, MgmtTypeOK
    <3>2. \A i \in DOMAIN macs : i \in DOMAIN macs' /\ macs'[i] = macs[i]
      BY <3>1, AppendProperties, LenProperties
    <3> QED BY <3>2 DEF ToSet
  <2>4. CASE /\ ~processnetmacs /\ \A addr \in Macs : ~getcollectedmacs(addr)
    <3>1. UNCHANGED macs
      <4>1. CASE UNCHANGED mgmtVars
        BY <4>1 DEF mgmtVars, collector
      <4>2. CASE Collect
        BY <4>2, <2>4 DEF Collect, startnetcollection, stopcollect_clicked, processExited
      <4>3. CASE Import
        <5>1. UNCHANGED collector
          BY <4>3 DEF Import, importmacs_clicked, importmanualmac_clicked
        <5> QED BY <5>1 DEF collector
      <4>4. CASE Move
        <5>1. UNCHANGED collector
          BY <4>4 DEF Move, straytounass_clicked, unasstostray_clicked, allstraytounass_clicked,
                      allunasstostray_clicked, clearmacs_clicked
        <5> QED BY <5>1 DEF collector
      <4>5. CASE Assign
        <5>1. UNCHANGED collector
          BY <4>5 DEF Assign, defineNnodes, assignmac_defining, assignmac_clicked,
                      assignallmacs_defining, assignallmacs_clicked, unassignmac_clicked
        <5> QED BY <5>1 DEF collector
      <4>6. CASE Set
        BY <4>6 DEF Set, nodesettingschange_clicked, edit, setundopoint, restoreundo, reject,
                    collector
      <4>7. CASE closeDialog_clicked
        BY <4>7 DEF closeDialog_clicked
      <4> QED BY <1>1, <4>1, <4>2, <4>3, <4>4, <4>5, <4>6, <4>7 DEF MgmtNext
    <3> QED BY <2>1, <3>1
  <2> QED BY <2>2, <2>3, <2>4
<1>2. MgmtTypeOK /\ [MgmtNext]_mgmtVars => [Kept]_mgmtVars
  BY <1>1
<1> QED BY <1>2, MgmtTypeCorrect, PTL DEF MgmtSpec, HeardIsKept
=============================================================================
