----------------------------- MODULE OrmProofs -----------------------------
(***************************************************************************)
(* Theorems about Orm, for any set of lines and any bounds: the types, when*)
(* the program gives up, and which packages are shown in the end.          *)
(***************************************************************************)
EXTENDS Orm, SequenceTheorems, TLAPS

(* A popup is there before a query, and is what wait_popup points to when  *)
(* the answer comes.                                                       *)
PopupFirst ==
    /\ thread # "idle" => wait_popup # "none"
    /\ slots # <<>> => Head(slots) = GET_LIST_REPO \/ wait_popup # "none"
    /\ app = "starting" => selected = NoRepo

TypeInv == TypeOK /\ PopupFirst

LEMMA InitTypes == Init => TypeInv
<1> SUFFICES ASSUME Init PROVE TypeInv
  OBVIOUS
<1>1. slots \in Seq(Modes) /\ events \in Seq(Answers) /\ connections \in 0..MaxConnections
  BY BoundsAssumption DEF Init
<1>2. {orphan, alone, overlapped, fresh} \subseteq BOOLEAN
  BY DEF Init
<1> QED
  BY <1>1, <1>2 DEF Init, TypeInv, TypeOK, PopupFirst, Urls

(* What the two calls of one slot leave of the types.                      *)
LEMMA InitCallTypes ==
  ASSUME TypeOK, NEW url \in Urls, NEW m \in Modes, init(url, m)
  PROVE  /\ repo_url' \in Urls /\ mode' \in Modes
         /\ thread' \in {"idle", "started", "compared", "repos", "opkgs", "done"}
         /\ thread' # "idle" /\ fresh' \in BOOLEAN
         /\ query' = query /\ events' = events
  BY DEF init, TypeOK

LEMMA AskTypes ==
  ASSUME TypeOK, NEW url \in Urls, ask_to_wait(url)
  PROVE  /\ wait_popup' = "open" /\ asked' \in Urls
         /\ {orphan', alone', overlapped'} \subseteq BOOLEAN
  BY DEF ask_to_wait, TypeOK

LEMMA SlotsTypes ==
  ASSUME TypeOK, NEW text \in Items, accepted(text)
  PROVE  /\ slots' \in Seq(Modes)
         /\ slots' # <<>> => Head(slots') = GET_LIST_REPO
<1>1. connections \in Nat
  BY BoundsAssumption DEF TypeOK
<1>2. 2 * connections \in Nat
  BY <1>1
<1>3. \A i \in 1..(2 * connections) :
        (IF i % 2 = 1 THEN GET_LIST_REPO ELSE GET_LIST_OPKGS) \in Modes
  BY DEF Modes
<1>4. slots' \in Seq(Modes)
  BY <1>2, <1>3 DEF accepted
<1>5. slots' # <<>> => Head(slots') = GET_LIST_REPO
  <2>1. SUFFICES ASSUME slots' # <<>> PROVE slots'[1] = GET_LIST_REPO
    BY <1>4
  <2>2. Len(slots') = 2 * connections
    BY <1>2 DEF accepted
  <2>3. 1 \in 1..(2 * connections)
    BY <1>1, <1>4, <2>1, <2>2
  <2> QED
    BY <2>3 DEF accepted
<1> QED
  BY <1>4, <1>5

LEMMA EmitTypes ==
  ASSUME TypeOK, NEW answer \in Answers, emit(answer)
  PROVE  events' \in Seq(Answers) /\ thread' = "done"
  BY DEF emit, TypeOK

LEMMA TypeStep == TypeInv /\ [Next]_vars => TypeInv'
<1> SUFFICES ASSUME TypeInv, [Next]_vars PROVE TypeInv'
  OBVIOUS
<1>0. TypeOK
  BY DEF TypeInv
<1> USE DEF window, adding, popup, params, worker
<1>1. CASE main
  BY <1>1 DEF main, ORMMainWindow, TypeInv, TypeOK, PopupFirst
<1>2. CASE create_add_repo_window
  BY <1>2, BoundsAssumption DEF create_add_repo_window, InFront, Attentive, TypeInv, TypeOK, PopupFirst
<1>3. CASE rejected
  BY <1>3 DEF rejected, Attentive, TypeInv, TypeOK, PopupFirst
<1>4. ASSUME NEW text \in Items, accepted(text) PROVE TypeInv'
  <2>1. slots' \in Seq(Modes) /\ (slots' # <<>> => Head(slots') = GET_LIST_REPO)
    BY <1>0, <1>4, SlotsTypes
  <2> QED
    BY <1>4, <2>1 DEF accepted, Attentive, TypeInv, TypeOK, PopupFirst, Urls
<1>5. ASSUME NEW line \in Urls, display_opkgs_from_repo(line) PROVE TypeInv'
  <2>1. init(line, GET_LIST_OPKGS) /\ ask_to_wait(line)
    BY <1>5 DEF display_opkgs_from_repo
  <2>2. /\ repo_url' \in Urls /\ mode' \in Modes
        /\ thread' \in {"idle", "started", "compared", "repos", "opkgs", "done"}
        /\ thread' # "idle" /\ fresh' \in BOOLEAN
        /\ query' = query /\ events' = events
    BY <1>0, <2>1, InitCallTypes DEF Modes
  <2>3. /\ wait_popup' = "open" /\ asked' \in Urls
        /\ {orphan', alone', overlapped'} \subseteq BOOLEAN
    BY <1>0, <2>1, AskTypes
  <2> QED
    BY <1>5, <2>2, <2>3
    DEF display_opkgs_from_repo, InFront, Attentive, TypeInv, TypeOK, PopupFirst
<1>6. CASE ClosePopups
  BY <1>6 DEF ClosePopups, Attentive, TypeInv, TypeOK, PopupFirst
<1>7. CASE Close
  BY <1>7 DEF Close, InFront, Attentive, TypeInv, TypeOK, PopupFirst
<1>8. CASE add_repo_to_list
  <2>1. slots \in Seq(Modes) /\ slots # <<>> /\ Head(slots) \in Modes
        /\ Tail(slots) \in Seq(Modes)
    BY <1>8 DEF add_repo_to_list, TypeInv, TypeOK
  <2>2. /\ repo_url' \in Urls /\ mode' \in Modes
        /\ thread' \in {"idle", "started", "compared", "repos", "opkgs", "done"}
        /\ thread' # "idle" /\ fresh' \in BOOLEAN
        /\ query' = query /\ events' = events
    BY <1>0, <1>8, <2>1, InitCallTypes DEF add_repo_to_list, TypeOK
  <2>3. /\ wait_popup' \in {"open", "closed"} /\ asked' \in Urls
        /\ {orphan', alone', overlapped'} \subseteq BOOLEAN
    <3>1. CASE Head(slots) = GET_LIST_REPO
      BY <1>0, <1>8, <3>1, AskTypes DEF add_repo_to_list, TypeOK
    <3>2. CASE Head(slots) # GET_LIST_REPO
      BY <1>8, <3>2 DEF add_repo_to_list, TypeInv, TypeOK, PopupFirst
    <3> QED
      BY <3>1, <3>2
  <2> QED
    BY <1>8, <2>1, <2>2, <2>3 DEF add_repo_to_list, TypeInv, TypeOK, PopupFirst
<1>9. CASE kill_popup
  <2>1. Head(events) \in Answers /\ Tail(events) \in Seq(Answers)
    BY <1>9 DEF kill_popup, TypeInv, TypeOK
  <2>2. Head(events).repos \subseteq Items /\ Head(events).opkgs \subseteq Urls
    BY <2>1 DEF Answers
  <2>3. /\ listRepos' \subseteq Items /\ listOPKGs' \subseteq Urls
        /\ selected' \in listRepos' \cup {NoRepo}
        /\ wait_popup' = "closed" /\ events' = Tail(events)
    BY <1>9, <2>2 DEF kill_popup, TypeInv, TypeOK
  <2>4. /\ asked' \in Urls /\ repo_url' \in Urls /\ mode' \in Modes \cup {0}
        /\ {orphan', alone', overlapped', fresh'} \subseteq BOOLEAN
        /\ thread' \in {"idle", "started", "compared", "repos", "opkgs", "done"}
        /\ thread' # "idle" => mode' \in Modes
    BY <1>9 DEF kill_popup, TypeInv, TypeOK, Urls, Modes
  <2> QED
    BY <1>9, <2>1, <2>3, <2>4 DEF kill_popup, Attentive, TypeInv, TypeOK, PopupFirst
<1>10. CASE compare_repo
  BY <1>10 DEF compare_repo, TypeInv, TypeOK, PopupFirst
<1>11. CASE compare_opkgs
  BY <1>11 DEF compare_opkgs, TypeInv, TypeOK, PopupFirst
<1>12. CASE opd2_list_repos
  <2>1. PICK lines \in SUBSET Items : emit([repos |-> lines, opkgs |-> {}])
    BY <1>12 DEF opd2_list_repos
  <2>2. [repos |-> lines, opkgs |-> {}] \in Answers
    BY DEF Answers
  <2>3. events' \in Seq(Answers) /\ thread' = "done"
    BY <1>0, <2>1, <2>2, EmitTypes
  <2> QED
    BY <1>12, <2>3 DEF opd2_list_repos, TypeInv, TypeOK, PopupFirst
<1>13. CASE opd2_list_opkgs
  <2>1. /\ [repos |-> {}, opkgs |-> {query}] \in Answers
        /\ [repos |-> {}, opkgs |-> {}] \in Answers
    BY DEF Answers, TypeInv, TypeOK
  <2>2. events' \in Seq(Answers) /\ thread' = "done" /\ fresh' \in BOOLEAN
    BY <1>0, <1>13, <2>1, EmitTypes DEF opd2_list_opkgs, TypeOK
  <2> QED
    BY <1>13, <2>2 DEF opd2_list_opkgs, TypeInv, TypeOK, PopupFirst
<1>14. CASE finished
  BY <1>14 DEF finished, TypeInv, TypeOK, PopupFirst
<1>15. CASE UNCHANGED vars
  BY <1>15 DEF vars, TypeInv, TypeOK, PopupFirst
<1> QED
  BY <1>1, <1>2, <1>3, <1>4, <1>5, <1>6, <1>7, <1>8, <1>9, <1>10, <1>11, <1>12,
     <1>13, <1>14, <1>15 DEF Next, User, Window, Thread

LEMMA TypesHold == Spec => []TypeInv
<1>1. TypeInv /\ [Next]_vars => TypeInv'
  BY TypeStep
<1> QED
  BY InitTypes, <1>1, PTL DEF Spec

(* The variables keep their types; while the thread runs it has a mode, and*)
(* an answer never finds the window without a popup to close.              *)
THEOREM TypeCorrect == Spec => []TypeOK
<1>1. TypeInv => TypeOK
  BY DEF TypeInv
<1> QED
  BY TypesHold, <1>1, PTL

-----------------------------------------------------------------------------
(* Between its two readings of mode the thread only finds another one when *)
(* a popup was opened meanwhile.                                           *)
ExitInv ==
    /\ ExitsOnlyWhenOverlapped
    /\ thread = "compared" /\ ~overlapped => mode = GET_LIST_OPKGS

LEMMA ExitStep == TypeInv /\ ExitInv /\ [Next]_vars => ExitInv'
<1> SUFFICES ASSUME TypeInv, ExitInv, [Next]_vars PROVE ExitInv'
  OBVIOUS
<1> USE DEF window, adding, popup, params, worker, ExitInv, ExitsOnlyWhenOverlapped
<1>1. CASE main \/ Close \/ finished \/ compare_opkgs \/ opd2_list_repos \/ opd2_list_opkgs
  BY <1>1 DEF main, ORMMainWindow, Close, InFront, Attentive, finished, compare_opkgs,
              opd2_list_repos, opd2_list_opkgs, emit
<1>2. CASE create_add_repo_window \/ rejected \/ ClosePopups
           \/ \E text \in Items : accepted(text)
  BY <1>2 DEF create_add_repo_window, rejected, ClosePopups, accepted
<1>3. ASSUME NEW line \in Urls, display_opkgs_from_repo(line) PROVE ExitInv'
  BY <1>3 DEF display_opkgs_from_repo, InFront, Attentive, init, ask_to_wait
<1>4. CASE add_repo_to_list
  <2>1. Head(slots) \in Modes
    BY <1>4 DEF add_repo_to_list, TypeInv, TypeOK
  <2>2. mode' = Head(slots) /\ (thread' = "compared" => thread = "compared")
        /\ app = "running" /\ app' = app
    BY <1>4 DEF add_repo_to_list, init
  <2>3. Head(slots) = GET_LIST_REPO => overlapped' = (thread # "idle")
    BY <1>4 DEF add_repo_to_list, ask_to_wait
  <2> QED
    BY <2>1, <2>2, <2>3 DEF Modes
<1>5. CASE kill_popup
  BY <1>5 DEF kill_popup, Attentive
<1>6. CASE compare_repo
  BY <1>6 DEF compare_repo, TypeInv, TypeOK, Modes
<1>7. CASE UNCHANGED vars
  BY <1>7 DEF vars
<1> QED
  BY <1>1, <1>2, <1>3, <1>4, <1>5, <1>6, <1>7 DEF Next, User, Window, Thread

(* The program gives up only when another popup was opened while the thread*)
(* ran, whatever the order of the window's writes and the thread's reads.  *)
THEOREM ExitsAreOverlaps == Spec => []ExitsOnlyWhenOverlapped
<1>1. Init => ExitInv
  BY DEF Init, ExitInv, ExitsOnlyWhenOverlapped
<1>2. TypeInv /\ ExitInv /\ [Next]_vars => ExitInv'
  BY ExitStep
<1>3. ExitInv => ExitsOnlyWhenOverlapped
  BY DEF ExitInv
<1> QED
  BY TypesHold, <1>1, <1>2, <1>3, PTL DEF Spec

-----------------------------------------------------------------------------
(* Where the answer to the last query is, when that one is for packages:   *)
(* still to come, on its way with nothing behind it, or in the window.     *)
Arriving ==
    IF events = <<>> THEN listOPKGs = {asked}
    ELSE events[Len(events)].opkgs = {asked}

FreshInv ==
    /\ slots # <<>> => Head(slots) = GET_LIST_REPO \/ asked = typed
    /\ fresh => /\ mode = GET_LIST_OPKGS
                /\ repo_url = asked
                /\ thread # "repos"
                /\ thread = "opkgs" => query = asked
                /\ thread \in {"done", "idle"} => Arriving

LEMMA AppendLast ==
  ASSUME NEW S, NEW s \in Seq(S), NEW e \in S
  PROVE  Append(s, e) # <<>> /\ Append(s, e)[Len(Append(s, e))] = e
  OBVIOUS

LEMMA TailLast ==
  ASSUME NEW S, NEW s \in Seq(S), s # <<>>, Tail(s) # <<>>
  PROVE  Tail(s)[Len(Tail(s))] = s[Len(s)]
  OBVIOUS

LEMMA TailEmpty ==
  ASSUME NEW S, NEW s \in Seq(S), s # <<>>, Tail(s) = <<>>
  PROVE  Head(s) = s[Len(s)]
<1>1. Len(Tail(s)) = Len(s) - 1 /\ Len(s) \in Nat
  OBVIOUS
<1>2. Len(Tail(s)) = 0
  BY EmptySeq
<1>3. Len(s) = 1
  BY <1>1, <1>2
<1> QED
  BY <1>3

LEMMA FreshStep == TypeInv /\ TypeInv' /\ FreshInv /\ [Next]_vars => FreshInv'
<1> SUFFICES ASSUME TypeInv, TypeInv', FreshInv, [Next]_vars PROVE FreshInv'
  OBVIOUS
<1>0. TypeOK
  BY DEF TypeInv
<1> USE DEF window, adding, popup, params, worker
<1>1. CASE main \/ Close \/ ClosePopups \/ rejected \/ create_add_repo_window
  BY <1>1 DEF main, ORMMainWindow, Close, InFront, Attentive, ClosePopups, rejected,
              create_add_repo_window, FreshInv, Arriving
<1>2. ASSUME NEW text \in Items, accepted(text) PROVE FreshInv'
  <2>1. slots' # <<>> => Head(slots') = GET_LIST_REPO
    BY <1>0, <1>2, SlotsTypes
  <2> QED
    BY <1>2, <2>1 DEF accepted, FreshInv, Arriving
<1>3. ASSUME NEW line \in Urls, display_opkgs_from_repo(line) PROVE FreshInv'
  <2>1. slots' = <<>>
    BY <1>3 DEF display_opkgs_from_repo, InFront, Attentive
  <2>2. asked' = line /\ repo_url' = line /\ mode' = GET_LIST_OPKGS
    BY <1>3 DEF display_opkgs_from_repo, init, ask_to_wait
  <2>3. fresh' => thread' = "started"
    BY <1>3 DEF display_opkgs_from_repo, init
  <2> QED
    BY <2>1, <2>2, <2>3 DEF FreshInv
<1>4. CASE add_repo_to_list
  <2>1. Head(slots) \in Modes /\ slots # <<>> /\ typed' = typed
    BY <1>4 DEF add_repo_to_list, TypeInv, TypeOK
  <2>2. asked' = typed
    BY <1>4, <2>1 DEF add_repo_to_list, ask_to_wait, FreshInv
  <2>3. fresh' => thread' = "started" /\ Head(slots) = GET_LIST_OPKGS
    BY <1>4 DEF add_repo_to_list, init
  <2>4. mode' = Head(slots) /\ repo_url' = typed
    BY <1>4 DEF add_repo_to_list, init
  <2> QED
    BY <2>1, <2>2, <2>3, <2>4 DEF FreshInv
<1>5. CASE kill_popup
  <2>1. slots' = <<>> /\ events \in Seq(Answers) /\ events # <<>> /\ events' = Tail(events)
    BY <1>5 DEF kill_popup, Attentive, TypeInv, TypeOK
  <2>2. CASE Head(events).repos # {} /\ selected # NoRepo
    <3>1. /\ asked' = NoRepo /\ repo_url' = NoRepo /\ mode' = GET_LIST_OPKGS
          /\ fresh' => thread' = "started"
      BY <1>5, <2>2 DEF kill_popup
    <3> QED
      BY <2>1, <3>1 DEF FreshInv
  <2>3. CASE ~(Head(events).repos # {} /\ selected # NoRepo)
    <3>1. UNCHANGED <<asked, params, thread, query, fresh, typed>>
      BY <1>5, <2>3 DEF kill_popup
    <3>2. listOPKGs' = IF Head(events).opkgs # {} THEN Head(events).opkgs ELSE listOPKGs
      BY <1>5 DEF kill_popup
    <3>3. ASSUME events[Len(events)].opkgs = {asked} PROVE Arriving'
      <4>1. CASE Tail(events) = <<>>
        <5>1. Head(events).opkgs = {asked}
          BY <2>1, <3>3, <4>1, TailEmpty
        <5>2. listOPKGs' = {asked}
          BY <3>2, <5>1
        <5> QED
          BY <2>1, <3>1, <4>1, <5>2 DEF Arriving
      <4>2. CASE Tail(events) # <<>>
        BY <2>1, <3>1, <3>3, <4>2, TailLast DEF Arriving
      <4> QED
        BY <4>1, <4>2
    <3>4. fresh /\ thread \in {"done", "idle"} => events[Len(events)].opkgs = {asked}
      BY <2>1 DEF FreshInv, Arriving
    <3> QED
      BY <2>1, <3>1, <3>3, <3>4 DEF FreshInv
  <2> QED
    BY <2>2, <2>3
<1>6. CASE compare_repo \/ compare_opkgs
  BY <1>6 DEF compare_repo, compare_opkgs, FreshInv, Arriving, GET_LIST_REPO,
              GET_LIST_OPKGS
<1>7. CASE opd2_list_repos
  BY <1>7 DEF opd2_list_repos, FreshInv, Arriving
<1>8. CASE opd2_list_opkgs
  <2>1. events \in Seq(Answers) /\ [repos |-> {}, opkgs |-> {query}] \in Answers
    BY DEF TypeInv, TypeOK, Answers
  <2>2. fresh' => fresh /\ events' = Append(events, [repos |-> {}, opkgs |-> {query}])
    BY <1>8 DEF opd2_list_opkgs, emit
  <2>3. fresh' => query = asked /\ mode = GET_LIST_OPKGS /\ repo_url = asked
    BY <1>8, <2>2 DEF opd2_list_opkgs, FreshInv
  <2>4. thread' = "done" /\ UNCHANGED <<slots, typed, asked, mode, repo_url>>
    BY <1>8 DEF opd2_list_opkgs, emit
  <2>5. fresh' => events' # <<>> /\ events'[Len(events')].opkgs = {asked}
    BY <2>1, <2>2, <2>3, AppendLast
  <2> QED
    BY <2>3, <2>4, <2>5 DEF FreshInv, Arriving
<1>9. CASE finished
  BY <1>9 DEF finished, FreshInv, Arriving
<1>10. CASE UNCHANGED vars
  BY <1>10 DEF vars, FreshInv, Arriving
<1> QED
  BY <1>1, <1>2, <1>3, <1>4, <1>5, <1>6, <1>7, <1>8, <1>9, <1>10
  DEF Next, User, Window, Thread

(* When nothing goes on any more, the packages shown are those of the last *)
(* repository that was asked for, unless opd2 named none or the thread had *)
(* been busy; answers to earlier questions never stay on the screen.       *)
THEOREM LastAnswerIsShown == Spec => []ShowsWhatWasAsked
<1>1. Init => FreshInv
  BY DEF Init, FreshInv
<1>2. TypeInv /\ TypeInv' /\ FreshInv /\ [Next]_vars => FreshInv'
  BY FreshStep
<1>3. FreshInv => ShowsWhatWasAsked
  BY DEF FreshInv, Arriving, ShowsWhatWasAsked, Quiet
<1> QED
  BY TypesHold, <1>1, <1>2, <1>3, PTL DEF Spec
=============================================================================
