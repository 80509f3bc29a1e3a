--------------------------- MODULE PStreamProofs ---------------------------
(***************************************************************************)
(* Theorems about PStream, for buffers and pipes of any size and any modes:*)
(* what is left when there is no process, when what the child has written  *)
(* is dropped, in which order it is given its input, and that its output   *)
(* is read in order and can be put back.                                   *)
(***************************************************************************)
EXTENDS PStream, SequenceTheorems, TLAPS

(* Inductive: a call that is not finished has a process.                   *)
CleanInv ==
    /\ ppid_ \in {-1, 0, 1}
    /\ rsrc_ \in Src
    /\ call \in {"open", "close", "wait"} => ppid_ = 1
    /\ ppid_ = 1 => child # "none"
    /\ ppid_ # 1 => /\ child = "none"
                    /\ ~wpipe_ /\ rpipe_ = Both(FALSE)
                    /\ wbuffer_ = NULL /\ rbuffer_ = Both(NULL) /\ area = NULL

(* is_open() compares a number.                                            *)
LEMMA OpenIffProcess == CleanInv => (is_open <=> ppid_ = 1)
<1>1. ppid_ \in {-1, 0, 1} => (is_open <=> ppid_ = 1)
  BY DEF is_open
<1> QED
  BY <1>1 DEF CleanInv

(* wait() leaves nothing, fork() leaves a process.                          *)
LEMMA ReapCleans ==
  ASSUME CleanInv, reap, call' \notin {"open", "close", "wait"}
  PROVE  CleanInv'
  BY DEF reap, destroy_all, close_fds, CleanInv, Both

LEMMA ForkOpens ==
  ASSUME NEW m, NEW how \in {"running", "forked"}, fork(m, how)
  PROVE  ppid_' = 1 /\ child' # "none" /\ (rsrc_ \in Src => rsrc_' \in Src)
  BY DEF fork, source, Src

(* One step for each action.                                               *)
LEMMA CleanStep == CleanInv /\ [Next]_vars => CleanInv'
<1> SUFFICES ASSUME CleanInv, [Next]_vars PROVE CleanInv'
  OBVIOUS
<1> USE DEF idle, ended, fds, buffers, process, history, parent
<1>1. ASSUME NEW m \in Modes, open(m) \/ open_file(m) PROVE CleanInv'
  <2>1. CASE fork(m, "running") \/ fork(m, "forked")
    BY <1>1, <2>1, ForkOpens DEF CleanInv
  <2>2. CASE ~(fork(m, "running") \/ fork(m, "forked"))
    BY <1>1, <2>2 DEF open, open_file, CleanInv, Both
  <2> QED
    BY <2>1, <2>2
<1>2. CASE open_file_returns
  <2>1. CASE reap
    BY <1>2, <2>1, ReapCleans DEF open_file_returns
  <2>2. CASE ~reap
    BY <1>2, <2>2 DEF open_file_returns, CleanInv
  <2> QED
    BY <2>1, <2>2
<1>3. CASE sync \/ peof \/ exited
  <2>1. CASE reap
    <3>1. call' = call
      BY <1>3 DEF sync, peof, exited, unwritten
    <3> QED
      BY <1>3, <2>1, <3>1, ReapCleans DEF sync, peof, exited
  <2>2. CASE ~reap
    BY <1>3, <2>2 DEF sync, peof, exited, unwritten, nothing, writes, writable, CleanInv, Both
  <2> QED
    BY <2>1, <2>2
<1>4. CASE close_pipes \/ wait \/ close_interrupted \/ wait_interrupted
  <2>1. CASE reap /\ call' = "none"
    BY <1>4, <2>1, ReapCleans
  <2>2. CASE ~(reap /\ call' = "none")
    BY <1>4, <2>2 DEF close_pipes, wait, close_interrupted, wait_interrupted,
                        destroy_all, CleanInv
  <2> QED
    BY <2>1, <2>2
<1>5. ASSUME NEW n \in 1..bufsz, xsputn(n) PROVE CleanInv'
  BY <1>5 DEF xsputn, unwritten, CleanInv
<1>6. CASE sputc \/ overflow
  BY <1>6 DEF sputc, overflow, unwritten, CleanInv
<1>7. ASSUME NEW src \in Src, read_err(src) PROVE CleanInv'
  <2>1. area' = area \/ ppid_ = 1
    BY <1>7 DEF read_err, CleanInv, Both
  <2> QED
    BY <1>7, <2>1 DEF read_err, unread, CleanInv, Both
<1>8. CASE sbumpc
  BY <1>8 DEF sbumpc, unread, CleanInv
<1>9. ASSUME NEW other \in BOOLEAN, pbackfail(other) PROVE CleanInv'
  BY <1>9 DEF pbackfail, unread, CleanInv
<1>10. CASE underflow
  <2>1. /\ UNCHANGED <<ppid_, child, wpipe_, rpipe_, wbuffer_, rsrc_>>
        /\ call' \in {call, "crashed"}
    BY <1>10 DEF underflow, unread
  <2>2. CASE ppid_ = 1
    BY <2>1, <2>2 DEF CleanInv
  <2>3. CASE ppid_ # 1
    <3>1. kept = 0 /\ rbuffer_[rsrc_] = NULL /\ area = NULL
      BY <2>3 DEF CleanInv, kept, Both
    <3>2. ~(kept > 0)
      BY <3>1
    <3>3. fill_buffer_fails /\ UNCHANGED call /\ UNCHANGED unread
      BY <1>10, <3>1, <3>2 DEF underflow
    <3>4. area' = NULL /\ UNCHANGED <<rbuffer_, rsrc_>>
      BY <1>10, <3>1, <3>3 DEF underflow, fill_buffer_fails
    <3> QED
      BY <2>1, <2>3, <3>1, <3>3, <3>4 DEF unread, CleanInv
  <2> QED
    BY <2>2, <2>3
<1>11. CASE kill \/ close \/ exec \/ child_reads \/ child_exits \/ Elsewhere
  <2>1. /\ UNCHANGED <<ppid_, fds, buffers>>
        /\ child' = child \/ (child # "none" /\ child' # "none")
    BY <1>11 DEF kill, close, exec, child_reads, child_exits, Elsewhere, fork_elsewhere,
                 sibling_exits
  <2>2. call' = call \/ (call' = "close" /\ ppid_ = 1)
    BY <1>11, OpenIffProcess DEF kill, close, exec, child_reads, child_exits, Elsewhere,
                                 fork_elsewhere, sibling_exits
  <2> QED
    BY <2>1, <2>2 DEF CleanInv
<1>12. ASSUME NEW s \in Src, child_writes(s) PROVE CleanInv'
  BY <1>12 DEF child_writes, CleanInv
<1>13. CASE UNCHANGED vars
  BY <1>13 DEF vars, CleanInv
<1> QED
  BY <1>1, <1>2, <1>3, <1>4, <1>5, <1>6, <1>7, <1>8, <1>9, <1>10, <1>11, <1>12, <1>13
  DEF Next, Caller, Closing, Child

LEMMA CleanHolds == Spec => []CleanInv
<1>1. Init => CleanInv
  BY DEF Init, CleanInv, Both, Src
<1>2. CleanInv /\ [Next]_vars => CleanInv'
  BY CleanStep
<1> QED
  BY <1>1, <1>2, PTL DEF Spec

(* When there is no process nothing of one is left, and when there is one  *)
(* it can be waited for, whichever call failed or was interrupted.         *)
THEOREM ClosedStreamsAreClean == Spec => []ClosedIsClean
<1>1. CleanInv => ClosedIsClean
  BY OpenIffProcess DEF CleanInv, ClosedIsClean
<1> QED
  BY CleanHolds, <1>1, PTL

-----------------------------------------------------------------------------
(* Pipes are opened only by a process that has none of them open, and only *)
(* sync, peof, exited and close, or an exec that failed, close some.       *)
THEOREM NothingUnreadIsDropped ==
    Spec => [][\A s \in Src : rpipe_[s] /\ ~rpipe_'[s] => ended \/ call = "close"]_vars
<1>1. ASSUME CleanInv, Next, NEW s \in Src, rpipe_[s], ~rpipe_'[s]
      PROVE  ended \/ call = "close"
  <2>1. is_open
    BY <1>1, OpenIffProcess DEF CleanInv, Both
  <2> QED
    BY <1>1, <2>1 DEF Next, Caller, Closing, Child, Elsewhere, open, open_file,
       open_file_returns, reap, xsputn, sputc, overflow, sync, peof, read_err, sbumpc,
       pbackfail, underflow, exited, kill, close, close_interrupted, wait_interrupted,
       close_pipes, wait, exec, child_reads, child_exits, child_writes, fork_elsewhere,
       sibling_exits, unwritten, unread, fds, parent
<1>2. CleanInv /\ [Next]_vars =>
        [\A s \in Src : rpipe_[s] /\ ~rpipe_'[s] => ended \/ call = "close"]_vars
  BY <1>1
<1> QED
  BY <1>2, CleanHolds, PTL DEF Spec

-----------------------------------------------------------------------------
Put == Seq(1..MaxIn)

(* What the child has read, what is in its pipe and what is in the put     *)
(* area, and how many characters have been put.                            *)
InOrder(r, s, w, n) == r \o s \o w = numbers(n)

(* An empty put area is not no put area.                                   *)
LEMMA NullIsNoBuffer == NULL \notin Put
  BY ValuesAssumption DEF Put

(* What numbers(n) is.                                                     *)
LEMMA NumbersAreASequence ==
  ASSUME NEW n \in Nat
  PROVE  /\ numbers(n) \in Seq(Nat) /\ Len(numbers(n)) = n
         /\ \A i \in 1..n : numbers(n)[i] = i
<1>1. numbers(n) \in Seq(Nat)
  BY DEF numbers
<1> QED
  BY <1>1 DEF numbers

(* The put area is moved into the pipe.                                    *)
LEMMA WrittenInOrder ==
  ASSUME NEW r \in Put, NEW s \in Put, NEW w \in Put, NEW n \in Nat, InOrder(r, s, w, n)
  PROVE  InOrder(r, s \o w, <<>>, n) /\ Len(r) + Len(s \o w) = n
<1>1. s \o w \in Put /\ Len(s \o w) = Len(s) + Len(w)
  BY DEF Put
<1>2. r \o (s \o w) = r \o s \o w
  BY ConcatAssociative DEF Put
<1>3. r \o (s \o w) \in Put /\ Len(r \o (s \o w)) = Len(r) + Len(s \o w)
  BY <1>1 DEF Put
<1>4. r \o (s \o w) \o <<>> = r \o (s \o w)
  BY <1>3, ConcatEmptySeq DEF Put
<1> QED
  BY <1>2, <1>3, <1>4, NumbersAreASequence DEF InOrder

(* More is put behind the put area.                                        *)
LEMMA PutInOrder ==
  ASSUME NEW r \in Put, NEW s \in Put, NEW w \in Put, NEW n \in Nat, NEW k \in Nat,
         InOrder(r, s, w, n), n + k <= MaxIn
  PROVE  /\ w \o [i \in 1..k |-> n + i] \in Put
         /\ InOrder(r, s, w \o [i \in 1..k |-> n + i], n + k)
<1> DEFINE more == [i \in 1..k |-> n + i]
<1>1. more \in Put /\ Len(more) = k /\ \A i \in 1..k : more[i] = n + i
  BY BoundsAssumption DEF Put
<1>2. r \o s \in Put /\ r \o s \o w \in Put /\ w \o more \in Put
  BY <1>1 DEF Put
<1>3. r \o s \o (w \o more) = r \o s \o w \o more
  BY <1>1, <1>2, ConcatAssociative DEF Put
<1> HIDE DEF more
<1>4. numbers(n) \o more = numbers(n + k)
  <2>1. /\ numbers(n) \in Seq(Nat) /\ Len(numbers(n)) = n
        /\ \A i \in 1..n : numbers(n)[i] = i
    BY NumbersAreASequence
  <2>2. /\ numbers(n + k) \in Seq(Nat) /\ Len(numbers(n + k)) = n + k
        /\ \A i \in 1..(n + k) : numbers(n + k)[i] = i
    BY NumbersAreASequence
  <2>3. more \in Seq(Nat)
    BY <1>1, BoundsAssumption DEF Put
  <2> HIDE DEF more
  <2>4. /\ numbers(n) \o more \in Seq(Nat) /\ Len(numbers(n) \o more) = n + k
        /\ \A i \in 1..(n + k) : (numbers(n) \o more)[i] = i
    <3> DEFINE old == numbers(n)
    <3> HIDE DEF old
    <3>1. /\ old \o more \in Seq(Nat) /\ Len(old \o more) = n + k
          /\ \A i \in 1..(n + k) :
                 (old \o more)[i] = IF i <= n THEN old[i] ELSE more[i - n]
      BY <1>1, <2>1, <2>3, ConcatProperties DEF old
    <3>2. ASSUME NEW i \in 1..(n + k) PROVE (old \o more)[i] = i
      BY <1>1, <2>1, <3>1 DEF old
    <3> QED
      BY <3>1, <3>2 DEF old
  <2> QED
    BY <2>2, <2>4, SeqEqual
<1> QED
  BY <1>2, <1>3, <1>4 DEF InOrder, more

(* The child reads.                                                        *)
LEMMA ReadInOrder ==
  ASSUME NEW r \in Put, NEW s \in Put, s # <<>>
  PROVE  /\ Append(r, Head(s)) \in Put /\ Tail(s) \in Put
         /\ Append(r, Head(s)) \o Tail(s) = r \o s
         /\ Len(Append(r, Head(s))) + Len(Tail(s)) = Len(r) + Len(s)
<1> DEFINE x == Append(r, Head(s))
           y == Tail(s)
<1>1. /\ x \in Put /\ Len(x) = Len(r) + 1
      /\ \A i \in 1..Len(x) : x[i] = IF i <= Len(r) THEN r[i] ELSE s[1]
  <2>1. Head(s) \in 1..MaxIn
    BY HeadTailProperties DEF Put
  <2>2. Head(s) = s[1]
    BY DEF Put
  <2> QED
    BY <2>1, <2>2, AppendProperties, LenProperties DEF Put
<1>2. /\ y \in Put /\ Len(y) = Len(s) - 1 /\ Len(s) \in Nat \ {0}
      /\ \A i \in 1..Len(y) : y[i] = s[i + 1]
  BY HeadTailProperties, EmptySeq DEF Put
<1> HIDE DEF x, y
<1>3. /\ x \o y \in Put /\ r \o s \in Put /\ Len(r) \in Nat /\ Len(s) \in Nat
      /\ Len(x \o y) = Len(r) + Len(s) /\ Len(r \o s) = Len(r) + Len(s)
  <2>1. Len(r) \in Nat /\ Len(s) \in Nat
    BY LenProperties DEF Put
  <2>2. x \o y \in Put /\ Len(x \o y) = Len(x) + Len(y)
    BY <1>1, <1>2, ConcatProperties DEF Put
  <2>3. r \o s \in Put /\ Len(r \o s) = Len(r) + Len(s)
    BY ConcatProperties DEF Put
  <2> QED
    BY <1>1, <1>2, <2>1, <2>2, <2>3
<1>4. ASSUME NEW i \in 1..Len(x \o y) PROVE (x \o y)[i] = (r \o s)[i]
  <2>1. (x \o y)[i] = IF i <= Len(r) + 1 THEN x[i] ELSE y[i - (Len(r) + 1)]
    BY <1>1, <1>2, <1>3, ConcatProperties DEF Put
  <2>2. (r \o s)[i] = IF i <= Len(r) THEN r[i] ELSE s[i - Len(r)]
    BY <1>3, ConcatProperties DEF Put
  <2> QED
    BY <1>1, <1>2, <1>3, <2>1, <2>2
<1>5. x \o y = r \o s
  BY <1>3, <1>4, SeqEqual DEF Put
<1> QED
  BY <1>1, <1>2, <1>5 DEF x, y, Put

(* InputInOrder of any contents.                                           *)
Ok(r, s, w, n, p) ==
    /\ r \o s = numbers(Len(r) + Len(s))
    /\ Len(r) + Len(s) <= n
    /\ p => r \o s \o (IF w = NULL THEN <<>> ELSE w) = numbers(n)

(* Nothing put, nothing received.                                          *)
LEMMA EmptyIsOk ==
  ASSUME NEW w \in {NULL, <<>>}, NEW p
  PROVE  Ok(<<>>, <<>>, w, 0, p)
<1>1. numbers(0) = <<>>
  BY DEF numbers
<1>2. <<>> \o <<>> = <<>> /\ <<>> \o <<>> \o <<>> = <<>> /\ Len(<<>>) = 0
  BY ConcatEmptySeq, EmptySeq
<1> QED
  BY <1>1, <1>2 DEF Ok

(* The put area is written, and dropped or left empty.                     *)
LEMMA OkWritten ==
  ASSUME NEW r \in Put, NEW s \in Put, NEW w \in Put, NEW n \in 0..MaxIn,
         Ok(r, s, w, n, TRUE), NEW left \in {NULL, <<>>}, NEW p
  PROVE  s \o w \in Put /\ Ok(r, s \o w, left, n, p)
<1>0. n \in Nat /\ n <= n
  BY BoundsAssumption
<1>1. InOrder(r, s, w, n)
  BY NullIsNoBuffer DEF Ok, InOrder
<1>2. InOrder(r, s \o w, <<>>, n) /\ Len(r) + Len(s \o w) = n
  BY <1>1, WrittenInOrder, BoundsAssumption
<1>3. s \o w \in Put
  BY ConcatProperties DEF Put
<1>4. r \o (s \o w) \in Put
  BY <1>3, ConcatProperties DEF Put
<1>5. r \o (s \o w) \o <<>> = r \o (s \o w)
  BY <1>4, ConcatEmptySeq DEF Put
<1>6. /\ r \o (s \o w) = numbers(Len(r) + Len(s \o w))
      /\ Len(r) + Len(s \o w) <= n
      /\ r \o (s \o w) \o <<>> = numbers(n)
  BY <1>0, <1>2, <1>5 DEF InOrder
<1>7. (IF left = NULL THEN <<>> ELSE left) = <<>>
  OBVIOUS
<1> QED
  BY <1>3, <1>6, <1>7 DEF Ok

(* Several characters are put, or one, or the child reads one.              *)
LEMMA OkPut ==
  ASSUME NEW r \in Put, NEW s \in Put, NEW w \in Put, NEW n \in 0..MaxIn, NEW p,
         Ok(r, s, w, n, p), NEW k \in Nat, n + k <= MaxIn
  PROVE  /\ w \o [i \in 1..k |-> n + i] \in Put
         /\ Ok(r, s, w \o [i \in 1..k |-> n + i], n + k, p)
<1> DEFINE more == [i \in 1..k |-> n + i]
<1>1. more \in Put
  BY BoundsAssumption DEF Put
<1>2. w \o more \in Put
  BY <1>1, ConcatProperties DEF Put
<1>3. p => InOrder(r, s, w, n)
  BY NullIsNoBuffer DEF Ok, InOrder
<1>4. p => InOrder(r, s, w \o more, n + k)
  BY <1>3, PutInOrder
<1>5. Len(r) \in Nat /\ Len(s) \in Nat
  BY LenProperties DEF Put
<1> HIDE DEF more
<1>6. Len(r) + Len(s) <= n + k
  BY <1>5 DEF Ok
<1> QED
  BY <1>2, <1>4, <1>6, NullIsNoBuffer DEF Ok, InOrder, more

LEMMA OkAppend ==
  ASSUME NEW r \in Put, NEW s \in Put, NEW w \in Put, NEW n \in 0..MaxIn, NEW p,
         Ok(r, s, w, n, p), n < MaxIn
  PROVE  Append(w, n + 1) \in Put /\ Ok(r, s, Append(w, n + 1), n + 1, p)
<1>1. [i \in 1..1 |-> n + i] = <<n + 1>>
  OBVIOUS
<1>2. n + 1 \in 1..MaxIn
  BY BoundsAssumption
<1>3. Append(w, n + 1) = w \o <<n + 1>>
  BY <1>2, AppendIsConcat DEF Put
<1>4. n + 1 <= MaxIn /\ 1 \in Nat
  BY BoundsAssumption
<1>5. /\ w \o [i \in 1..1 |-> n + i] \in Put
      /\ Ok(r, s, w \o [i \in 1..1 |-> n + i], n + 1, p)
  BY <1>4, OkPut
<1> QED
  BY <1>1, <1>3, <1>5

LEMMA OkRead ==
  ASSUME NEW r \in Put, NEW s \in Put, NEW w, NEW n, NEW p, Ok(r, s, w, n, p), s # <<>>
  PROVE  /\ Append(r, Head(s)) \in Put /\ Tail(s) \in Put
         /\ Ok(Append(r, Head(s)), Tail(s), w, n, p)
  BY ReadInOrder DEF Ok

(* Nothing has been put into a stream without a process, nor into one      *)
(* whose process is being started.                                         *)
OrderInv ==
    /\ received \in Put /\ stdin \in Put /\ accepted \in 0..MaxIn
    /\ wbuffer_ \in Put \cup {NULL}
    /\ ppid_ # 1 \/ call = "open" =>
           received = <<>> /\ stdin = <<>> /\ accepted = 0 /\ wbuffer_ = NULL
    /\ Ok(received, stdin, wbuffer_, accepted, wpipe_)

(* A stream that has just been started or has been waited for.             *)
LEMMA EmptyOrder ==
  ASSUME received' = <<>>, stdin' = <<>>, accepted' = 0, wbuffer_' \in {NULL, <<>>},
         wbuffer_' = NULL \/ (ppid_' = 1 /\ call' # "open")
  PROVE  OrderInv'
<1>1. Ok(received', stdin', wbuffer_', accepted', wpipe_')
  BY EmptyIsOk
<1>2. <<>> \in Put /\ 0 \in 0..MaxIn
  BY EmptySeq, BoundsAssumption DEF Put
<1> QED
  BY <1>1, <1>2 DEF OrderInv

LEMMA ReapOrder == reap => OrderInv'
  BY EmptyOrder DEF reap, destroy_all

(* The put area is written or kept, and what is left of it may be dropped. *)
LEMMA EmptyBufferIsOk ==
  ASSUME OrderInv, NEW p, p => wpipe_
  PROVE  /\ empty_buffer.to \in Put
         /\ empty_buffer.left \in Put \cup {NULL}
         /\ Ok(received, empty_buffer.to, empty_buffer.left, accepted, p)
         /\ Ok(received, empty_buffer.to, NULL, accepted, FALSE)
<1>1. CASE writes
  <2>1. wbuffer_ \in Put /\ wpipe_
    BY <1>1 DEF writes, writable, nothing, OrderInv
  <2>2. Ok(received, stdin, wbuffer_, accepted, TRUE)
    BY <2>1 DEF OrderInv, Ok
  <2>3. /\ stdin \o wbuffer_ \in Put
        /\ Ok(received, stdin \o wbuffer_, <<>>, accepted, p)
        /\ Ok(received, stdin \o wbuffer_, NULL, accepted, FALSE)
    BY <2>1, <2>2, OkWritten DEF OrderInv
  <2>4. empty_buffer.to = stdin \o wbuffer_ /\ empty_buffer.left = <<>>
    BY <1>1 DEF empty_buffer
  <2>5. <<>> \in Put
    BY EmptySeq DEF Put
  <2> QED
    BY <2>3, <2>4, <2>5
<1>2. CASE ~writes
  <2>1. empty_buffer.to = stdin /\ empty_buffer.left = wbuffer_
    BY <1>2 DEF empty_buffer
  <2> QED
    BY <2>1 DEF OrderInv, Ok
<1> QED
  BY <1>1, <1>2

(* One step for each action that touches the input.                        *)
LEMMA OrderStep == CleanInv /\ OrderInv /\ [Next]_vars => OrderInv'
<1> SUFFICES ASSUME CleanInv, OrderInv, [Next]_vars PROVE OrderInv'
  OBVIOUS
<1> DEFINE put == <<received, stdin, wbuffer_, accepted, wpipe_, ppid_>>
<1>0. ASSUME UNCHANGED put, call' = call \/ call' # "open" PROVE OrderInv'
  BY <1>0 DEF OrderInv
<1>1. ASSUME NEW m \in Modes, open(m) PROVE OrderInv'
  <2>1. CASE fork(m, "running") /\ ~is_open
    <3>1. /\ received = <<>> /\ stdin = <<>> /\ accepted = 0 /\ wbuffer_ = NULL
          /\ call = "none" /\ ppid_' = 1
      BY <1>1, <2>1, OpenIffProcess DEF open, fork, idle, OrderInv
    <3>2. UNCHANGED <<received, stdin, accepted>>
      BY <2>1 DEF fork
    <3>3. wbuffer_' \in {NULL, <<>>} /\ call' = "none"
      BY <1>1, <3>1 DEF open, create_buffers, process, history, buffers
    <3> QED
      BY <3>1, <3>2, <3>3, EmptyOrder
  <2>2. CASE ~(fork(m, "running") /\ ~is_open)
    BY <1>0, <1>1, <2>2 DEF open, process, history, buffers, fds
  <2> QED
    BY <2>1, <2>2
<1>2. ASSUME NEW m \in Modes, open_file(m) PROVE OrderInv'
  <2>1. received = <<>> /\ stdin = <<>> /\ accepted = 0 /\ wbuffer_ = NULL
    BY <1>2, OpenIffProcess DEF open_file, OrderInv
  <2>2. UNCHANGED <<received, stdin, accepted, wbuffer_>>
    BY <1>2 DEF open_file, fork
  <2> QED
    BY <2>1, <2>2, EmptyOrder
<1>3. CASE open_file_returns
  <2>1. CASE reap
    BY <2>1, ReapOrder
  <2>2. CASE create_buffers(mode, rsrc_, area) /\ UNCHANGED <<ppid_, process, history>>
    <3>1. /\ received = <<>> /\ stdin = <<>> /\ accepted = 0 /\ wbuffer_ = NULL
          /\ ppid_ = 1 /\ call' = "none"
      BY <1>3 DEF open_file_returns, OrderInv, CleanInv
    <3>2. wbuffer_' \in {NULL, <<>>} /\ UNCHANGED <<ppid_, received, stdin, accepted>>
      BY <2>2, <3>1 DEF create_buffers, process, history
    <3> QED
      BY <3>1, <3>2, EmptyOrder
  <2>3. CASE UNCHANGED <<ppid_, fds, buffers, process, history>>
    BY <1>0, <1>3, <2>3 DEF open_file_returns, process, history, buffers, fds
  <2> QED
    BY <1>3, <2>1, <2>2, <2>3 DEF open_file_returns
<1>4. ASSUME NEW n \in 1..bufsz, xsputn(n) PROVE OrderInv'
  <2>1. /\ wbuffer_ \in Put /\ n \in Nat /\ accepted + n <= MaxIn
        /\ call = "none" /\ ppid_ = 1
    BY <1>4, SizesAssumption DEF xsputn, OrderInv, CleanInv, idle
  <2>2. /\ wbuffer_' \in Put
        /\ Ok(received, stdin, wbuffer_', accepted', wpipe_)
    BY <1>4, <2>1, OkPut DEF xsputn, OrderInv
  <2>3. accepted' \in 0..MaxIn
    BY <1>4, <2>1, BoundsAssumption DEF xsputn, OrderInv
  <2> QED
    BY <1>4, <2>1, <2>2, <2>3 DEF xsputn, unwritten, fds, OrderInv
<1>5. CASE sputc
  <2>1. wbuffer_ \in Put /\ accepted < MaxIn /\ call = "none" /\ ppid_ = 1
    BY <1>5 DEF sputc, OrderInv, CleanInv, idle
  <2>2. wbuffer_' \in Put /\ Ok(received, stdin, wbuffer_', accepted', wpipe_)
    BY <1>5, <2>1, OkAppend DEF sputc, OrderInv
  <2>3. accepted' \in 0..MaxIn
    BY <1>5, <2>1, BoundsAssumption DEF sputc, OrderInv
  <2> QED
    BY <1>5, <2>1, <2>2, <2>3 DEF sputc, unwritten, fds, OrderInv
<1>6. CASE overflow
  <2>1. /\ wbuffer_ # NULL /\ accepted < MaxIn /\ call = "none" /\ ppid_ = 1
        /\ empty_buffer.left = <<>>
    BY <1>6 DEF overflow, OrderInv, CleanInv, idle, empty_buffer
  <2>2. /\ stdin' \in Put /\ <<>> \in Put
        /\ Ok(received, stdin', <<>>, accepted, wpipe_)
    BY <1>6, <2>1, EmptyBufferIsOk, EmptySeq DEF overflow, Put
  <2>3. wbuffer_' = Append(<<>>, accepted + 1) /\ accepted' = accepted + 1
    BY <1>6, <2>1 DEF overflow
  <2>4. wbuffer_' \in Put /\ Ok(received, stdin', wbuffer_', accepted', wpipe_)
    BY <2>1, <2>2, <2>3, OkAppend DEF OrderInv
  <2>5. accepted' \in 0..MaxIn
    BY <2>1, <2>3, BoundsAssumption DEF OrderInv
  <2> QED
    BY <1>6, <2>1, <2>2, <2>4, <2>5 DEF overflow, unwritten, fds, OrderInv
<1>7. CASE sync
  <2>1. CASE reap
    BY <2>1, ReapOrder
  <2>2. CASE ~reap
    <3>1. wbuffer_ # NULL /\ call = "none" /\ ppid_ = 1
      BY <1>7, <2>2 DEF sync, writes, writable, nothing, idle, CleanInv
    <3>2. /\ stdin' \in Put /\ wbuffer_' \in Put \cup {NULL}
          /\ Ok(received, stdin', wbuffer_', accepted, wpipe_)
      BY <1>7, <2>2, EmptyBufferIsOk DEF sync
    <3> QED
      BY <1>7, <2>2, <3>1, <3>2 DEF sync, unwritten, fds, OrderInv
  <2> QED
    BY <2>1, <2>2
<1>8. CASE peof
  <2>1. CASE reap
    BY <2>1, ReapOrder
  <2>2. CASE ~reap
    <3>1. call = "none" /\ ppid_ = 1
      BY <1>8, OpenIffProcess DEF peof, idle
    <3>2. /\ stdin' \in Put /\ wbuffer_' = NULL /\ wpipe_' = FALSE
          /\ Ok(received, stdin', NULL, accepted, FALSE)
      BY <1>8, <2>2, EmptyBufferIsOk DEF peof
    <3>3. Ok(received, stdin', wbuffer_', accepted, wpipe_')
      BY <3>2 DEF Ok
    <3>4. UNCHANGED <<received, accepted, ppid_, call>>
      BY <1>8, <2>2 DEF peof, history
    <3> QED
      BY <3>1, <3>2, <3>3, <3>4 DEF OrderInv
  <2> QED
    BY <2>1, <2>2
<1>9. CASE close_pipes \/ close_interrupted
  <2>1. CASE reap
    BY <2>1, ReapOrder
  <2>2. CASE ~reap
    <3>1. call = "close" /\ ppid_ = 1 /\ call' = "wait"
      BY <1>9, <2>2 DEF close_pipes, close_interrupted, CleanInv
    <3>2. stdin' = empty_buffer.to \/ stdin' = stdin
      BY <1>9, <2>2 DEF close_pipes, close_interrupted, process
    <3>3. stdin' \in Put /\ Ok(received, stdin', NULL, accepted, FALSE)
      <4>1. /\ empty_buffer.to \in Put
            /\ Ok(received, empty_buffer.to, NULL, accepted, FALSE)
        BY EmptyBufferIsOk
      <4>2. stdin \in Put /\ Ok(received, stdin, NULL, accepted, FALSE)
        BY DEF OrderInv, Ok
      <4> QED
        BY <3>2, <4>1, <4>2
    <3>4. wbuffer_' = NULL /\ wpipe_' = FALSE
      BY <1>9, <2>2 DEF close_pipes, close_interrupted, destroy_all, close_fds
    <3>5. Ok(received, stdin', wbuffer_', accepted, wpipe_')
      BY <3>3, <3>4 DEF Ok
    <3>6. UNCHANGED <<received, accepted, ppid_>>
      BY <1>9, <2>2 DEF close_pipes, close_interrupted, process, history
    <3> QED
      BY <3>1, <3>3, <3>4, <3>5, <3>6 DEF OrderInv
  <2> QED
    BY <2>1, <2>2
<1>10. CASE exited \/ wait
  BY <1>10, ReapOrder DEF exited, wait
<1>11. CASE child_reads
  <2>1. /\ Append(received, Head(stdin)) \in Put /\ Tail(stdin) \in Put
        /\ Ok(Append(received, Head(stdin)), Tail(stdin), wbuffer_, accepted, wpipe_)
    BY <1>11, OkRead DEF child_reads, OrderInv
  <2> QED
    BY <1>11, <2>1 DEF child_reads, parent, fds, buffers, history, OrderInv
<1>12. CASE kill \/ close \/ wait_interrupted \/ exec \/ child_exits \/ Elsewhere
  BY <1>0, <1>12 DEF kill, close, wait_interrupted, exec, child_exits, Elsewhere,
       fork_elsewhere, sibling_exits, parent, process, history, buffers, fds
<1>13. ASSUME NEW s \in Src, child_writes(s) \/ read_err(s) PROVE OrderInv'
  BY <1>0, <1>13 DEF child_writes, read_err, parent, unread, history, buffers, fds
<1>14. CASE sbumpc \/ underflow \/ \E other \in BOOLEAN : pbackfail(other)
  BY <1>0, <1>14 DEF sbumpc, underflow, pbackfail, unread, fds
<1>15. CASE UNCHANGED vars
  BY <1>0, <1>15 DEF vars, process, history, buffers, fds
<1> QED
  BY <1>1, <1>2, <1>3, <1>4, <1>5, <1>6, <1>7, <1>8, <1>9, <1>10, <1>11, <1>12, <1>13,
     <1>14, <1>15 DEF Next, Caller, Closing, Child

(* The child is given what was put into the stream, in order and once,     *)
(* whatever fails, is interrupted or is tried again.                       *)
THEOREM InputIsInOrder == Spec => []InputInOrder
<1>1. Init => OrderInv
  <2>1. <<>> \in Put /\ 0 \in 0..MaxIn /\ Ok(<<>>, <<>>, NULL, 0, wpipe_)
    BY EmptyIsOk, EmptySeq, BoundsAssumption DEF Put
  <2> QED
    BY <2>1 DEF Init, OrderInv
<1>2. CleanInv /\ OrderInv /\ [Next]_vars => OrderInv'
  BY OrderStep
<1>3. OrderInv => InputInOrder
  BY DEF OrderInv, Ok, InputInOrder
<1> QED
  BY <1>1, <1>2, <1>3, CleanHolds, PTL DEF Spec

-----------------------------------------------------------------------------
(***************************************************************************)
(* The reading side.  A get area that lives lies in a buffer of its source,*)
(* and one that is left of the process before is dead: with that, and with *)
(* ordered pointers, the types are inductive.                              *)
(***************************************************************************)
(* A get area lies in its buffer, if that one still exists.                *)
AreaOk(a, b) ==
    a = NULL \/ /\ a \in Area
                /\ a.eback <= a.gptr /\ a.gptr <= a.egptr
                /\ a.live => b \in Buffer

TypeInv ==
    /\ TypeOK
    /\ \A s \in Src : AreaOk(get_area(s), rbuffer_[s])
    /\ ppid_ # 1 => rbufstate_ = dead(rbufstate_)

(* Areas, buffers and NULL.                                                *)
LEMMA AreaIsNotNull ==
  ASSUME NEW a \in Area PROVE a # NULL
  BY ValuesAssumption DEF Area, Pointer

LEMMA BufferIsNotNull ==
  ASSUME NEW b \in Buffer PROVE b # NULL
  BY ValuesAssumption DEF Buffer

LEMMA StartIsOk ==
  /\ start \in Area
  /\ \A b \in Buffer : AreaOk(start, b)
<1>1. pbsz \in 0..bufsz
  BY SizesAssumption
<1> QED
  BY <1>1 DEF start, AreaOk, Area, Pointer

(* What is freed is dead, and fits any buffer.                             *)
LEMMA DeadIsOk ==
  ASSUME NEW a \in Area \cup {NULL}, NEW b, AreaOk(a, b)
  PROVE  /\ dead(a) \in Area \cup {NULL}
         /\ \A c : AreaOk(dead(a), c)
         /\ dead(dead(a)) = dead(a)
<1>1. CASE a = NULL
  BY <1>1 DEF dead, AreaOk
<1>2. CASE a # NULL
  <2>1. a \in Area
    BY <1>2
  <2>2. /\ dead(a) \in Area /\ dead(a).live = FALSE
        /\ dead(a).eback = a.eback /\ dead(a).gptr = a.gptr /\ dead(a).egptr = a.egptr
        /\ [dead(a) EXCEPT !.live = FALSE] = dead(a)
    BY <1>2, <2>1 DEF dead, Area
  <2> QED
    BY <1>2, <2>1, <2>2, AreaIsNotNull DEF dead, AreaOk
<1> QED
  BY <1>1, <1>2

(* The buffers that fork and create_buffers make.                          *)
LEMMA ForkTyped ==
  ASSUME TypeInv, ppid_ # 1, CleanInv, NEW m \in Modes, NEW how \in {"running", "forked"},
         fork(m, how)
  PROVE  /\ ppid_' = 1 /\ wpipe_' \in BOOLEAN /\ rpipe_' \in [Src -> BOOLEAN]
         /\ rsrc_' \in Src /\ rsrc_' = source(m)
         /\ rbufstate_' \in Area \cup {NULL} /\ rbufstate_' = dead(rbufstate_')
         /\ forked_area(m) \in Area \cup {NULL}
         /\ forked_area(m) = dead(forked_area(m))
         /\ mode' \in Modes /\ child' \in {"running", "forked"} /\ carried' \in BOOLEAN
         /\ \A b : AreaOk(rbufstate_', b) /\ AreaOk(forked_area(m), b)
<1>1. /\ rsrc_ \in Src /\ area = NULL /\ rbufstate_ \in Area \cup {NULL}
      /\ rbufstate_ = dead(rbufstate_) /\ \E b : AreaOk(rbufstate_, b)
  BY DEF TypeInv, TypeOK, CleanInv, get_area, Src
<1>2. \A b : AreaOk(rbufstate_, b) /\ AreaOk(NULL, b)
  BY <1>1, DeadIsOk DEF AreaOk
<1>3. source(m) \in Src
  BY <1>1 DEF source, Src
<1>4. dead(NULL) = NULL
  BY DEF dead
<1> QED
  BY <1>1, <1>2, <1>3, <1>4 DEF fork, forked_area, Src

LEMMA CreateTyped ==
  ASSUME NEW m, NEW s \in Src, NEW a \in Area \cup {NULL}, create_buffers(m, s, a),
         wbuffer_ \in Put \cup {NULL}, rbuffer_ \in [Src -> Buffer \cup {NULL}],
         AreaOk(a, rbuffer_[s])
  PROVE  /\ wbuffer_' \in Put \cup {NULL}
         /\ rbuffer_' \in [Src -> Buffer \cup {NULL}]
         /\ \A t \in Src : rbuffer_'[t] = rbuffer_[t] \/ (t \in m /\ rbuffer_'[t] \in Buffer)
         /\ area' \in Area \cup {NULL}
         /\ AreaOk(area', rbuffer_'[s])
<1>1. [i \in Index |-> Garbage] \in Buffer
  BY DEF Buffer
<1>2. <<>> \in Put
  BY EmptySeq DEF Put
<1> QED
  BY <1>1, <1>2, StartIsOk DEF create_buffers

(* TypeOK without the input and the buffers.                               *)
RestOk ==
    /\ wpipe_ \in BOOLEAN /\ rpipe_ \in [Src -> BOOLEAN]
    /\ {error_, failbit, sibling, carried} \subseteq BOOLEAN
    /\ call \in {"none", "open", "close", "wait", "crashed"}
    /\ opens \in 0..MaxOpens
    /\ mode \in Modes \cup {{}}
    /\ child \in {"none", "forked", "running", "failed", "zombie"}
    /\ stuck \in Src \cup {NULL}
    /\ pipe \in [Src -> Seq(Char)]
    /\ written \in [Src -> 0..MaxOut]
    /\ pos \in [Src -> Int] /\ floor \in [Src -> Int]

BuffersOk ==
    /\ rbuffer_ \in [Src -> Buffer \cup {NULL}]
    /\ area \in Area \cup {NULL} /\ rbufstate_ \in Area \cup {NULL}
    /\ \A s \in Src : AreaOk(get_area(s), rbuffer_[s])
    /\ ppid_ # 1 => rbufstate_ = dead(rbufstate_)

LEMMA TypeParts ==
  /\ TypeInv => RestOk /\ BuffersOk
  /\ RestOk /\ BuffersOk /\ CleanInv /\ OrderInv => TypeInv
<1>1. TypeInv => RestOk /\ BuffersOk
  BY DEF TypeInv, TypeOK, RestOk, BuffersOk
<1>2. RestOk /\ BuffersOk /\ CleanInv /\ OrderInv => TypeInv
  BY DEF TypeInv, TypeOK, RestOk, BuffersOk, CleanInv, OrderInv, Put
<1> QED
  BY <1>1, <1>2

LEMMA ReapRest ==
  ASSUME RestOk, reap, call' \in {call, "none"}, UNCHANGED opens, error_' \in BOOLEAN,
         failbit' \in BOOLEAN
  PROVE  RestOk'
<1>1. <<>> \in Seq(Char) /\ 0 \in 0..MaxOut
  BY EmptySeq, BoundsAssumption
<1>2. /\ wpipe_' \in BOOLEAN /\ rpipe_' \in [Src -> BOOLEAN]
      /\ sibling' \in BOOLEAN /\ carried' \in BOOLEAN
      /\ mode' = {} /\ child' = "none" /\ stuck' = NULL
  BY DEF reap, close_fds, Both
<1>3. /\ pipe' \in [Src -> Seq(Char)] /\ written' \in [Src -> 0..MaxOut]
      /\ pos' \in [Src -> Int] /\ floor' \in [Src -> Int]
  BY <1>1 DEF reap, Both
<1> QED
  BY <1>2, <1>3 DEF RestOk

(* One step for each action.                                               *)
LEMMA RestStep == TypeInv /\ [Next]_vars => RestOk'
<1> SUFFICES ASSUME TypeInv, [Next]_vars PROVE RestOk'
  OBVIOUS
<1>0. RestOk
  BY TypeParts
<1> USE DEF RestOk
<1>1. ASSUME NEW m \in Modes, open(m) PROVE RestOk'
  <2>1. error_' \in BOOLEAN /\ failbit' \in BOOLEAN
    <3>1. error_' = error_ \/ error_' = (error_ \/ ~is_open)
      BY <1>1 DEF open
    <3>2. error_ \in BOOLEAN
      BY <1>0
    <3>3. failbit' \in BOOLEAN
      BY <1>1 DEF open
    <3>4. error_' \in BOOLEAN
      BY <3>1, <3>2
    <3> QED
      BY <3>3, <3>4
  <2>2. wpipe_' \in BOOLEAN /\ rpipe_' \in [Src -> BOOLEAN] /\ carried' \in BOOLEAN
    <3>1. CASE fork(m, "running")
      BY <3>1 DEF fork
    <3>2. CASE UNCHANGED <<fds, history>>
      BY <1>0, <3>2 DEF fds, history
    <3> QED
      BY <1>1, <3>1, <3>2 DEF open
  <2>3. /\ opens' \in 0..MaxOpens /\ call' = call
        /\ UNCHANGED <<stuck, sibling, pipe, written, pos, floor>>
        /\ mode' \in {mode, m} /\ child' \in {child, "running"}
    BY <1>0, <1>1, BoundsAssumption DEF open, fork, process, history
  <2> QED
    BY <1>0, <2>1, <2>2, <2>3
<1>2. ASSUME NEW m \in Modes, open_file(m) PROVE RestOk'
  BY <1>0, <1>2, BoundsAssumption DEF open_file, fork, fds, process, history
<1>3. CASE open_file_returns
  <2>1. CASE reap
    BY <1>0, <1>3, <2>1, ReapRest DEF open_file_returns
  <2>2. CASE ~reap
    BY <1>0, <1>3, <2>2 DEF open_file_returns, fds, process, history
  <2> QED
    BY <2>1, <2>2
<1>4. CASE sync \/ peof \/ exited
  <2>1. CASE reap
    BY <1>0, <1>4, <2>1, ReapRest DEF sync, peof, exited, unwritten
  <2>2. CASE ~reap
    BY <1>0, <1>4, <2>2 DEF sync, peof, exited, unwritten, fds, process, history
  <2> QED
    BY <2>1, <2>2
<1>5. CASE close_pipes \/ wait
  <2>1. CASE reap /\ call' = "none" /\ failbit' \in BOOLEAN
    BY <1>0, <1>5, <2>1, ReapRest DEF close_pipes, wait
  <2>2. CASE ~(reap /\ call' = "none" /\ failbit' \in BOOLEAN)
    BY <1>0, <1>5, <2>2 DEF close_pipes, wait, close_fds, Both, history
  <2> QED
    BY <2>1, <2>2
<1>6. CASE close_interrupted \/ wait_interrupted
  BY <1>0, <1>6 DEF close_interrupted, wait_interrupted, close_fds, Both, history, process,
                    fds
<1>7. CASE sputc \/ overflow \/ \E n \in 1..bufsz : xsputn(n)
  BY <1>0, <1>7 DEF xsputn, sputc, overflow, unwritten, fds
<1>8. ASSUME NEW src \in Src, read_err(src) PROVE RestOk'
  BY <1>0, <1>8 DEF read_err, unread, fds
<1>9. CASE sbumpc \/ \E other \in BOOLEAN : pbackfail(other)
  BY <1>0, <1>9 DEF sbumpc, pbackfail, taken, unread, fds
<1>10. CASE underflow
  <2>1. /\ \E n \in Nat : pipe' \in {pipe, [pipe EXCEPT ![rsrc_] = SubSeq(@, n + 1, Len(@))]}
        /\ floor' \in {floor, [floor EXCEPT ![rsrc_] = pos[rsrc_]]}
        /\ call' \in {call, "crashed"}
        /\ UNCHANGED <<wpipe_, rpipe_, error_, failbit, sibling, carried, opens, mode, child,
                       stuck, written, pos>>
    <3>1. rsrc_ \in Src /\ pipe[rsrc_] \in Seq(Char)
      BY <1>0 DEF TypeInv, TypeOK
    <3>2. count \in Nat
      BY <3>1, LenProperties, SizesAssumption DEF count, least
    <3> QED
      BY <1>10, <3>2 DEF underflow, fill_buffer, fill_buffer_fails, unread, fds
  <2>2. rsrc_ \in Src
    BY DEF TypeInv, TypeOK
  <2>3. \A n \in Nat : SubSeq(pipe[rsrc_], n + 1, Len(pipe[rsrc_])) \in Seq(Char)
    BY <1>0, <2>2, SubSeqProperties, LenProperties
  <2>4. pipe' \in [Src -> Seq(Char)]
    BY <1>0, <2>1, <2>3
  <2> QED
    BY <1>0, <2>1, <2>2, <2>4
<1>11. CASE kill \/ close \/ exec \/ child_reads \/ child_exits \/ Elsewhere
  BY <1>0, <1>11 DEF kill, close, exec, child_reads, child_exits, Elsewhere, fork_elsewhere,
                     sibling_exits, process, history, parent, fds
<1>12. ASSUME NEW s \in Src, child_writes(s) PROVE RestOk'
  <2>1. /\ written[s] + 1 \in Char /\ written[s] + 1 \in 0..MaxOut
    BY <1>0, <1>12, BoundsAssumption DEF child_writes, Char
  <2>2. Append(pipe[s], written[s] + 1) \in Seq(Char)
    BY <1>0, <2>1, AppendProperties
  <2>3. /\ pipe' \in {pipe, [pipe EXCEPT ![s] = Append(@, written[s] + 1)]}
        /\ written' \in {written, [written EXCEPT ![s] = @ + 1]}
        /\ child' \in {child, "zombie"} /\ stuck' \in {stuck, s, NULL}
        /\ UNCHANGED <<parent, sibling>>
    BY <1>12 DEF child_writes
  <2> QED
    BY <1>0, <2>1, <2>2, <2>3 DEF parent, fds, history
<1>13. CASE UNCHANGED vars
  BY <1>0, <1>13 DEF vars, fds, process, history
<1> QED
  BY <1>1, <1>2, <1>3, <1>4, <1>5, <1>6, <1>7, <1>8, <1>9, <1>10, <1>11, <1>12, <1>13
  DEF Next, Caller, Closing, Child

(* A refill keeps within the buffer.                                       *)
LEMMA KeptIsShort ==
  ASSUME area \in Area \cup {NULL}, NEW b, AreaOk(area, b)
  PROVE  /\ kept \in 0..pbsz
         /\ area # NULL => kept <= area.gptr - area.eback
<1>1. CASE area = NULL
  BY <1>1, SizesAssumption DEF kept
<1>2. CASE area # NULL
  <2>1. area.eback \in Nat /\ area.gptr \in Nat /\ area.eback <= area.gptr
    BY <1>2, SizesAssumption DEF AreaOk, Area, Pointer
  <2>2. kept = least(area.gptr - area.eback, pbsz)
    BY <1>2 DEF kept
  <2> QED
    BY <1>2, <2>1, <2>2, SizesAssumption DEF least
<1> QED
  BY <1>1, <1>2

LEMMA RefillTyped ==
  ASSUME BuffersOk, rsrc_ \in Src, rbuffer_[rsrc_] # NULL, pipe[rsrc_] \in Seq(Char)
  PROVE  /\ moved \in Buffer /\ filled \in Buffer /\ count \in 0..(bufsz - pbsz)
         /\ count <= Len(pipe[rsrc_])
<1>1. AreaOk(area, rbuffer_[rsrc_]) /\ rbuffer_[rsrc_] \in Buffer /\ area \in Area \cup {NULL}
  BY DEF BuffersOk, get_area
<1>2. kept \in 0..pbsz /\ (area # NULL => kept <= area.gptr - area.eback)
  BY <1>1, KeptIsShort
<1>3. ASSUME NEW i \in Index, i \in (pbsz - kept)..(pbsz - 1), area.live
      PROVE  rbuffer_[rsrc_][area.gptr - pbsz + i] \in Char \cup {Other, Garbage}
  <2>1. area # NULL
    BY <1>2, <1>3, SizesAssumption DEF kept
  <2>2. /\ area.gptr \in 0..bufsz /\ area.eback \in 0..bufsz
        /\ kept <= area.gptr - area.eback
    BY <1>1, <1>2, <2>1 DEF Area, Pointer
  <2>3. area.gptr - pbsz + i \in Index
    BY <1>2, <1>3, <2>2, SizesAssumption DEF Index
  <2> QED
    BY <1>1, <2>3 DEF Buffer
<1>4. moved \in Buffer
  <2> DEFINE x(i) == IF i \in (pbsz - kept)..(pbsz - 1)
                     THEN IF area.live THEN rbuffer_[rsrc_][area.gptr - pbsz + i]
                          ELSE Garbage
                     ELSE rbuffer_[rsrc_][i]
  <2>1. \A i \in Index : x(i) \in Char \cup {Other, Garbage}
    BY <1>1, <1>3 DEF Buffer
  <2> QED
    BY <2>1 DEF moved, Buffer
<1>5. Len(pipe[rsrc_]) \in Nat
  BY LenProperties
<1>6. count \in 0..(bufsz - pbsz) /\ count <= Len(pipe[rsrc_])
  BY <1>5, SizesAssumption DEF count, least
<1>7. filled \in Buffer
  <2>1. ASSUME NEW i \in Index, i \in pbsz..(pbsz + count - 1)
        PROVE  pipe[rsrc_][i - pbsz + 1] \in Char
    <3>1. i - pbsz + 1 \in 1..Len(pipe[rsrc_])
      BY <1>5, <1>6, <2>1, SizesAssumption DEF Index
    <3> QED
      BY <3>1, ElementOfSeq
  <2> QED
    BY <1>4, <2>1 DEF filled, Buffer
<1> QED
  BY <1>4, <1>6, <1>7

LEMMA DestroyBuffers ==
  ASSUME BuffersOk, destroy_all PROVE BuffersOk'
<1>1. /\ rbuffer_' = Both(NULL) /\ area' = NULL /\ rbufstate_' = dead(rbufstate_)
      /\ rsrc_' = rsrc_
  BY DEF destroy_all
<1>2. /\ dead(rbufstate_) \in Area \cup {NULL} /\ \A c : AreaOk(dead(rbufstate_), c)
      /\ dead(dead(rbufstate_)) = dead(rbufstate_)
  <2>1. PICK t \in Src : t # rsrc_
    BY DEF Src
  <2>2. AreaOk(rbufstate_, rbuffer_[t]) /\ rbufstate_ \in Area \cup {NULL}
    BY <2>1 DEF BuffersOk, get_area
  <2> QED
    BY <2>2, DeadIsOk
<1> QED
  BY <1>1, <1>2 DEF BuffersOk, get_area, AreaOk, Both

(* The get area of the active source moves within its buffer.              *)
LEMMA MoveTyped ==
  ASSUME BuffersOk, rsrc_ \in Src, area # NULL, NEW n \in 0..bufsz,
         area.eback <= n, n <= area.egptr
  PROVE  /\ [area EXCEPT !.gptr = n] \in Area
         /\ \A b : AreaOk(area, b) => AreaOk([area EXCEPT !.gptr = n], b)
<1>1. area \in Area
  BY DEF BuffersOk
<1> QED
  BY <1>1 DEF Area, Pointer, AreaOk

(* One step for each action.                                               *)
LEMMA BuffersStep == TypeInv /\ CleanInv /\ [Next]_vars => BuffersOk'
<1> SUFFICES ASSUME TypeInv, CleanInv, [Next]_vars PROVE BuffersOk'
  OBVIOUS
<1>0. BuffersOk /\ RestOk /\ rsrc_ \in Src
  BY TypeParts DEF TypeInv, TypeOK
<1> DEFINE read == <<rbuffer_, area, rbufstate_, rsrc_, ppid_>>
<1>1. ASSUME UNCHANGED read PROVE BuffersOk'
  BY <1>0, <1>1 DEF BuffersOk, get_area
<1>2. ASSUME destroy_all PROVE BuffersOk'
  BY <1>0, <1>2, DestroyBuffers
<1>3. ASSUME NEW m \in Modes, open(m) \/ open_file(m) PROVE BuffersOk'
  <2>1. CASE ~is_open /\ (fork(m, "running") \/ fork(m, "forked"))
    <3>1. ppid_ # 1
      BY <2>1, OpenIffProcess
    <3>2. /\ ppid_' = 1 /\ rsrc_' \in Src /\ rsrc_' = source(m)
          /\ rbufstate_' \in Area \cup {NULL}
          /\ forked_area(m) \in Area \cup {NULL}
          /\ \A b : AreaOk(rbufstate_', b) /\ AreaOk(forked_area(m), b)
      BY <2>1, <3>1, ForkTyped
    <3>3. \/ create_buffers(m, source(m), forked_area(m))
          \/ area' = forked_area(m) /\ rbuffer_' = rbuffer_
          \/ UNCHANGED <<ppid_, buffers>>
      BY <1>3 DEF open, open_file
    <3>4. CASE create_buffers(m, source(m), forked_area(m))
      <4>1. /\ rbuffer_' \in [Src -> Buffer \cup {NULL}] /\ area' \in Area \cup {NULL}
            /\ AreaOk(area', rbuffer_'[rsrc_'])
        BY <1>0, <3>2, <3>4, CreateTyped DEF TypeInv, TypeOK, Put, BuffersOk
      <4> QED
        BY <3>2, <4>1 DEF BuffersOk, get_area
    <3>5. CASE area' = forked_area(m) /\ rbuffer_' = rbuffer_
      BY <1>0, <3>2, <3>5 DEF BuffersOk, get_area
    <3>6. CASE UNCHANGED <<ppid_, buffers>>
      BY <1>1, <3>6 DEF buffers
    <3> QED
      BY <3>3, <3>4, <3>5, <3>6
  <2>2. CASE ~(~is_open /\ (fork(m, "running") \/ fork(m, "forked")))
    BY <1>1, <1>3, <2>2 DEF open, open_file, buffers
  <2> QED
    BY <2>1, <2>2
<1>4. CASE open_file_returns
  <2>1. CASE reap
    BY <1>2, <2>1 DEF reap
  <2>2. CASE create_buffers(mode, rsrc_, area) /\ UNCHANGED <<ppid_, rbufstate_, rsrc_>>
    <3>1. /\ area \in Area \cup {NULL} /\ AreaOk(area, rbuffer_[rsrc_])
          /\ rbuffer_ \in [Src -> Buffer \cup {NULL}]
      BY <1>0 DEF BuffersOk, get_area
    <3>2. /\ rbuffer_' \in [Src -> Buffer \cup {NULL}] /\ area' \in Area \cup {NULL}
          /\ AreaOk(area', rbuffer_'[rsrc_])
          /\ \A t \in Src : rbuffer_'[t] = rbuffer_[t] \/ rbuffer_'[t] \in Buffer
      BY <1>0, <2>2, <3>1, CreateTyped DEF TypeInv, TypeOK, Put
    <3>3. \A t \in Src : AreaOk(get_area(t), rbuffer_'[t])
      BY <1>0, <3>2 DEF BuffersOk, AreaOk
    <3> QED
      BY <1>0, <2>2, <3>2, <3>3 DEF BuffersOk, get_area
  <2> QED
    BY <1>1, <1>4, <2>1, <2>2 DEF open_file_returns, buffers
<1>5. CASE sync \/ peof \/ exited \/ close_pipes \/ close_interrupted \/ wait
  <2>1. CASE destroy_all
    BY <1>2, <2>1
  <2> QED
    BY <1>1, <1>2, <1>5, <2>1 DEF sync, peof, exited, close_pipes, close_interrupted, wait, reap,
                             unwritten, process
<1>6. CASE sputc \/ overflow \/ \E n \in 1..bufsz : xsputn(n)
  BY <1>1, <1>6 DEF sputc, overflow, xsputn, unwritten
<1>7. ASSUME NEW src \in Src, read_err(src) PROVE BuffersOk'
  <2>1. /\ rsrc_' = src /\ src # rsrc_ /\ area' = rbufstate_ /\ rbufstate_' = area
        /\ UNCHANGED <<rbuffer_, ppid_>> /\ ppid_ = 1
    BY <1>7 DEF read_err, unread, CleanInv, Both
  <2>2. \A s \in Src : get_area(s)' = get_area(s)
    BY <1>0, <2>1 DEF get_area, Src
  <2> QED
    BY <1>0, <2>1, <2>2 DEF BuffersOk
<1>8. CASE sbumpc
  <2>1. area # NULL /\ area \in Area /\ AreaOk(area, rbuffer_[rsrc_])
    BY <1>0, <1>8 DEF sbumpc, BuffersOk, get_area
  <2>2. /\ area.gptr + 1 \in 0..bufsz /\ area.eback <= area.gptr + 1
        /\ area.gptr + 1 <= area.egptr
    BY <1>8, <2>1, SizesAssumption DEF sbumpc, AreaOk, Area, Pointer
  <2>3. area' = [area EXCEPT !.gptr = area.gptr + 1]
    BY <1>8 DEF sbumpc
  <2>4. area' \in Area /\ AreaOk(area', rbuffer_[rsrc_])
    BY <1>0, <2>1, <2>2, <2>3, MoveTyped
  <2> QED
    BY <1>0, <1>8, <2>4 DEF sbumpc, unread, BuffersOk, get_area
<1>9. ASSUME NEW other \in BOOLEAN, pbackfail(other) PROVE BuffersOk'
  <2>1. area # NULL /\ area \in Area /\ AreaOk(area, rbuffer_[rsrc_])
    BY <1>0, <1>9 DEF pbackfail, BuffersOk, get_area
  <2>2. /\ area.gptr - 1 \in 0..bufsz /\ area.eback <= area.gptr - 1
        /\ area.gptr - 1 <= area.egptr /\ area.gptr - 1 \in Index
    BY <1>9, <2>1, SizesAssumption DEF pbackfail, AreaOk, Area, Pointer, Index
  <2>3. area' = [area EXCEPT !.gptr = area.gptr - 1]
    BY <1>9 DEF pbackfail
  <2>4. /\ area' \in Area
        /\ \A b : AreaOk(area, b) => AreaOk(area', b)
    BY <1>0, <2>1, <2>2, <2>3, MoveTyped
  <2>5. CASE other /\ area.live
    <3>1. rbuffer_[rsrc_] \in Buffer
      BY <2>1, <2>5 DEF AreaOk
    <3>2. [rbuffer_[rsrc_] EXCEPT ![area.gptr - 1] = Other] \in Buffer
      BY <2>2, <3>1 DEF Buffer
    <3>3. rbuffer_' = [rbuffer_ EXCEPT
                         ![rsrc_] = [rbuffer_[rsrc_] EXCEPT ![area.gptr - 1] = Other]]
      BY <1>9, <2>5 DEF pbackfail
    <3>4. /\ rbuffer_' \in [Src -> Buffer \cup {NULL}]
          /\ rbuffer_'[rsrc_] \in Buffer
          /\ \A t \in Src \ {rsrc_} : rbuffer_'[t] = rbuffer_[t]
      BY <1>0, <3>2, <3>3 DEF BuffersOk
    <3>5. AreaOk(area', rbuffer_'[rsrc_])
      BY <2>1, <2>4, <3>4 DEF AreaOk
    <3> QED
      BY <1>0, <1>9, <2>4, <3>4, <3>5 DEF pbackfail, unread, BuffersOk, get_area
  <2>6. CASE ~(other /\ area.live)
    <3>1. UNCHANGED <<rbuffer_, rbufstate_, rsrc_, ppid_>>
      BY <1>9, <2>6 DEF pbackfail, unread
    <3> QED
      BY <1>0, <2>1, <2>4, <3>1 DEF BuffersOk, get_area
  <2> QED
    BY <2>5, <2>6
<1>10. CASE underflow
  <2>1. UNCHANGED <<rbufstate_, rsrc_, ppid_>>
    BY <1>10 DEF underflow, unread
  <2>2. \/ UNCHANGED <<rbuffer_, area>>
        \/ rbuffer_[rsrc_] # NULL /\ fill_buffer
        \/ fill_buffer_fails
    BY <1>10 DEF underflow
  <2>3. CASE rbuffer_[rsrc_] # NULL /\ fill_buffer
    <3>1. filled \in Buffer /\ count \in 0..(bufsz - pbsz)
      BY <1>0, <2>3, RefillTyped DEF RestOk
    <3>2. kept \in 0..pbsz
      BY <1>0, KeptIsShort DEF BuffersOk, get_area
    <3>3. /\ rbuffer_' = [rbuffer_ EXCEPT ![rsrc_] = filled]
          /\ area' = [eback |-> pbsz - kept, gptr |-> pbsz, egptr |-> pbsz + count,
                      live |-> TRUE]
      BY <2>3 DEF fill_buffer
    <3>4. area' \in Area /\ AreaOk(area', filled)
      BY <3>1, <3>2, <3>3, SizesAssumption DEF Area, Pointer, AreaOk
    <3>5. /\ rbuffer_' \in [Src -> Buffer \cup {NULL}] /\ rbuffer_'[rsrc_] = filled
          /\ \A t \in Src \ {rsrc_} : rbuffer_'[t] = rbuffer_[t]
      BY <1>0, <3>1, <3>3 DEF BuffersOk
    <3> QED
      BY <1>0, <2>1, <3>4, <3>5 DEF BuffersOk, get_area
  <2>4. CASE fill_buffer_fails
    <3>1. area' = NULL /\ AreaOk(area', rbuffer_'[rsrc_])
      BY <2>4 DEF fill_buffer_fails, AreaOk
    <3>2. CASE rbuffer_[rsrc_] = NULL
      BY <1>0, <2>1, <2>4, <3>1, <3>2 DEF fill_buffer_fails, BuffersOk, get_area
    <3>3. CASE rbuffer_[rsrc_] # NULL
      <4>1. rbuffer_' = [rbuffer_ EXCEPT ![rsrc_] = moved] /\ moved \in Buffer
        BY <1>0, <2>4, <3>3, RefillTyped DEF fill_buffer_fails, RestOk
      <4>2. /\ rbuffer_' \in [Src -> Buffer \cup {NULL}]
            /\ \A t \in Src \ {rsrc_} : rbuffer_'[t] = rbuffer_[t]
        BY <1>0, <4>1 DEF BuffersOk
      <4> QED
        BY <1>0, <2>1, <3>1, <4>2 DEF BuffersOk, get_area
    <3> QED
      BY <3>2, <3>3
  <2> QED
    BY <1>1, <2>1, <2>2, <2>3, <2>4
<1>11. CASE kill \/ close \/ wait_interrupted \/ exec \/ child_reads \/ child_exits \/ Elsewhere
  BY <1>1, <1>11 DEF kill, close, wait_interrupted, exec, child_reads, child_exits, Elsewhere,
                     fork_elsewhere, sibling_exits, buffers, parent
<1>12. ASSUME NEW s \in Src, child_writes(s) PROVE BuffersOk'
  BY <1>1, <1>12 DEF child_writes, parent, buffers
<1>13. CASE UNCHANGED vars
  BY <1>1, <1>13 DEF vars, buffers
<1> QED
  BY <1>3, <1>4, <1>5, <1>6, <1>7, <1>8, <1>9, <1>10, <1>11, <1>12, <1>13
  DEF Next, Caller, Closing, Child

LEMMA TypeHolds == Spec => [](CleanInv /\ OrderInv /\ TypeInv)
<1>3. Init => CleanInv /\ OrderInv
  <2>1. <<>> \in Put /\ 0 \in 0..MaxIn /\ Ok(<<>>, <<>>, NULL, 0, wpipe_)
    BY EmptyIsOk, EmptySeq, BoundsAssumption DEF Put
  <2> QED
    BY <2>1 DEF Init, OrderInv, CleanInv, Both, Src
<1>1. Init => TypeInv
  <2>1. /\ 0 \in 0..MaxOut /\ 0 \in 0..MaxIn /\ 0 \in 0..MaxOpens /\ <<>> \in Seq(Char)
        /\ <<>> \in Seq(1..MaxIn)
    BY BoundsAssumption, EmptySeq
  <2>2. ASSUME Init PROVE RestOk
    <3>1. /\ pipe \in [Src -> Seq(Char)] /\ written \in [Src -> 0..MaxOut]
          /\ pos \in [Src -> Int] /\ floor \in [Src -> Int]
      BY <2>1, <2>2 DEF Init, Both
    <3>2. /\ wpipe_ \in BOOLEAN /\ rpipe_ \in [Src -> BOOLEAN]
          /\ {error_, failbit, sibling, carried} \subseteq BOOLEAN
      BY <2>2 DEF Init, Both
    <3> QED
      BY <2>1, <2>2, <3>1, <3>2 DEF Init, RestOk
  <2>3. ASSUME Init PROVE BuffersOk
    BY <2>3 DEF Init, BuffersOk, AreaOk, get_area, dead, Both
  <2> QED
    BY <2>1, <2>2, <2>3, <1>3, TypeParts
<1>2. CleanInv /\ OrderInv /\ TypeInv /\ [Next]_vars => (CleanInv /\ OrderInv /\ TypeInv)'
  <2>1. ASSUME CleanInv', OrderInv', RestOk', BuffersOk' PROVE TypeInv'
    BY <2>1, TypeParts DEF TypeInv, TypeOK, RestOk, BuffersOk, CleanInv, OrderInv, Put
  <2> QED
    BY <2>1, CleanStep, OrderStep, RestStep, BuffersStep
<1> QED
  BY <1>1, <1>2, <1>3, PTL DEF Spec

(* The state has its types: no pointer of a get area leaves its buffer,   *)
(* and nothing is moved from or stored in a buffer that is not there       *)
(* (pstream.h:1643-1650, 1673-1699).                                       *)
THEOREM TypeCorrect == Spec => []TypeOK
<1>1. TypeInv => TypeOK
  BY DEF TypeInv
<1> QED
  BY <1>1, TypeHolds, PTL

-----------------------------------------------------------------------------
(***************************************************************************)
(* What a source has read, has in its get area and has in its pipe is what *)
(* the child has written, unless a get area was carried over from the      *)
(* process before.  Inductive: the characters that can be put back are in  *)
(* the buffer too, there are as many as PutbackKept asks for, and a source *)
(* without a get area has nothing to put back.                             *)
(***************************************************************************)
(* A source that has read p of the w characters of the child, the last     *)
(* time it failed after f of them: the get area and the pipe c hold the    *)
(* others, and the part for putback those before.                          *)
ReadOk(a, b, p, f, c, w) ==
    IF a = NULL THEN p + Len(c) = w /\ p <= f
    ELSE /\ a.live /\ pbsz <= a.egptr
         /\ p + (a.egptr - a.gptr) + Len(c) = w
         /\ \A i \in a.eback..(a.egptr - 1) : b[i] \in {p + 1 + (i - a.gptr), Other}
         /\ pbsz - a.eback >= least(p + (pbsz - a.gptr) - f, pbsz)

PipeOk(c, w) == \A i \in 1..Len(c) : c[i] = w - Len(c) + i

SourceOk(s) ==
    /\ PipeOk(pipe[s], written[s])
    /\ rpipe_[s] => s \in mode
    /\ rpipe_[s] /\ ~carried =>
         ReadOk(get_area(s), rbuffer_[s], pos[s], floor[s], pipe[s], written[s])

ReadInv ==
    /\ \A s \in Src : SourceOk(s)
    /\ call = "open" /\ ~carried => area = NULL /\ rbufstate_ = NULL
    /\ ppid_ # 1 => pipe = Both(<<>>) /\ written = Both(0) /\ pos = Both(0) /\ floor = Both(0)

(* A source of which nothing can be put back, with an empty get area.      *)
LEMMA NothingRead ==
  ASSUME NEW a \in {NULL, start}, NEW b, NEW p \in Int, NEW f \in Int, p <= f,
         NEW c, NEW w \in Int, Len(c) \in Nat, p + Len(c) = w
  PROVE  ReadOk(a, b, p, f, c, w)
<1>1. CASE a = NULL
  BY <1>1 DEF ReadOk
<1>2. CASE a = start /\ a # NULL
  BY <1>2, SizesAssumption DEF ReadOk, start, least
<1> QED
  BY <1>1, <1>2

(* The child writes one more character.                                    *)
LEMMA WriteIsOk ==
  ASSUME NEW c \in Seq(Char), NEW w \in 0..MaxOut, w + 1 \in Char, PipeOk(c, w)
  PROVE  PipeOk(Append(c, w + 1), w + 1)
<1> DEFINE d == Append(c, w + 1)
<1>1. Len(c) \in Nat /\ w \in Nat
  BY LenProperties, BoundsAssumption
<1>2. /\ Len(d) = Len(c) + 1
      /\ \A i \in 1..Len(c) : d[i] = c[i]
      /\ d[Len(c) + 1] = w + 1
  BY AppendProperties
<1> HIDE DEF d
<1>3. PipeOk(d, w + 1)
  BY <1>1, <1>2 DEF PipeOk
<1> QED
  BY <1>3 DEF d

LEMMA WriteIsRead ==
  ASSUME NEW c \in Seq(Char), NEW w \in 0..MaxOut, w + 1 \in Char,
         NEW a \in Area \cup {NULL}, NEW b, NEW p \in Int, NEW f \in Int,
         ReadOk(a, b, p, f, c, w)
  PROVE  ReadOk(a, b, p, f, Append(c, w + 1), w + 1)
<1> DEFINE d == Append(c, w + 1)
<1>1. Len(c) \in Nat /\ w \in Nat
  BY LenProperties, BoundsAssumption
<1>2. Len(d) = Len(c) + 1
  BY AppendProperties
<1> HIDE DEF d
<1>3. CASE a = NULL
  BY <1>1, <1>2, <1>3 DEF ReadOk, d
<1>4. CASE a # NULL
  <2>1. a.egptr - a.gptr \in Int
    BY <1>4, SizesAssumption DEF Area, Pointer
  <2> QED
    BY <1>1, <1>2, <1>4, <2>1 DEF ReadOk, d
<1> QED
  BY <1>3, <1>4

(* A character is taken, or put back.                                      *)
LEMMA MoveIsRead ==
  ASSUME NEW a \in Area, NEW e \in Area, NEW b, NEW p \in Int, NEW f \in Int,
         NEW c, Len(c) \in Nat, NEW w \in Int,
         ReadOk(a, b, p, f, c, w), NEW n \in Int, e.gptr = a.gptr + n,
         e.eback = a.eback, e.egptr = a.egptr, e.live = a.live
  PROVE  a.live /\ ReadOk(e, b, p + n, f, c, w)
<1>1. /\ a # NULL /\ e # NULL
      /\ a.eback \in Int /\ a.gptr \in Int /\ a.egptr \in Int
  BY AreaIsNotNull, SizesAssumption DEF Area, Pointer
<1>2. \A i \in a.eback..(a.egptr - 1) : p + 1 + (i - a.gptr) = p + n + 1 + (i - e.gptr)
  <2>1. ASSUME NEW i \in Int PROVE p + 1 + (i - a.gptr) = p + n + 1 + (i - e.gptr)
    BY <1>1
  <2> QED
    BY <1>1, <2>1
<1>3. p + n + (e.egptr - e.gptr) = p + (a.egptr - a.gptr)
  BY <1>1
<1>4. p + n + (pbsz - e.gptr) - f = p + (pbsz - a.gptr) - f
  BY <1>1, SizesAssumption
<1>5. /\ a.live /\ pbsz <= a.egptr /\ p + (a.egptr - a.gptr) + Len(c) = w
      /\ \A i \in a.eback..(a.egptr - 1) : b[i] \in {p + 1 + (i - a.gptr), Other}
      /\ pbsz - a.eback >= least(p + (pbsz - a.gptr) - f, pbsz)
  BY <1>1 DEF ReadOk
<1>6. p + n + (e.egptr - e.gptr) + Len(c) = w
  BY <1>3, <1>5
<1>7. \A i \in e.eback..(e.egptr - 1) : b[i] \in {p + n + 1 + (i - e.gptr), Other}
  BY <1>1, <1>2, <1>5
<1>8. pbsz - e.eback >= least(p + n + (pbsz - e.gptr) - f, pbsz)
  BY <1>1, <1>4, <1>5
<1> QED
  BY <1>1, <1>5, <1>6, <1>7, <1>8 DEF ReadOk

(* Another character is put back.                                          *)
LEMMA OtherIsRead ==
  ASSUME NEW a \in Area, NEW b, NEW d, NEW p, NEW f, NEW c, NEW w,
         ReadOk(a, b, p, f, c, w), \A i \in Index : d[i] \in {b[i], Other}
  PROVE  ReadOk(a, d, p, f, c, w)
<1>1. a # NULL /\ \A i \in a.eback..(a.egptr - 1) : i \in Index
  BY AreaIsNotNull, SizesAssumption DEF Area, Pointer, Index
<1> QED
  BY <1>1 DEF ReadOk

(* A read fails: what was taken cannot be put back.                        *)
LEMMA FailIsRead ==
  ASSUME NEW a \in Area \cup {NULL}, NEW b, AreaOk(a, b), a # NULL => a.gptr >= a.egptr,
         NEW p \in Int, NEW f, NEW c, Len(c) \in Nat, NEW w, NEW d, ReadOk(a, b, p, f, c, w)
  PROVE  ReadOk(NULL, d, p, p, c, w)
<1>1. CASE a = NULL
  BY <1>1 DEF ReadOk
<1>2. CASE a # NULL
  <2>1. a.gptr \in Int /\ a.egptr \in Int /\ a.egptr = a.gptr
    BY <1>2, SizesAssumption DEF AreaOk, Area, Pointer
  <2> QED
    BY <1>2, <2>1 DEF ReadOk
<1> QED
  BY <1>1, <1>2

(* What is left in the pipe after a refill of n characters.                *)
LEMMA RestOfPipe ==
  ASSUME NEW c \in Seq(Char), NEW n \in Nat, n <= Len(c)
  PROVE  /\ Len(SubSeq(c, n + 1, Len(c))) = Len(c) - n
         /\ \A i \in 1..(Len(c) - n) : SubSeq(c, n + 1, Len(c))[i] = c[i + n]
<1>1. Len(c) \in Nat
  BY LenProperties
<1> QED
  BY <1>1, SubSeqProperties

(* They are still the last ones that the child has written.                *)
LEMMA RestIsOk ==
  ASSUME NEW c, NEW d, NEW n \in Nat, n <= Len(c), Len(c) \in Nat, NEW w \in Int,
         Len(d) = Len(c) - n, \A i \in 1..(Len(c) - n) : d[i] = c[i + n], PipeOk(c, w)
  PROVE  PipeOk(d, w)
<1>1. ASSUME NEW i \in 1..Len(d) PROVE d[i] = w - Len(d) + i
  <2>1. d[i] = c[i + n] /\ i + n \in 1..Len(c) /\ i \in Int
    BY <1>1
  <2>2. c[i + n] = w - Len(c) + (i + n)
    BY <2>1 DEF PipeOk
  <2> QED
    BY <2>1, <2>2
<1> QED
  BY <1>1 DEF PipeOk

(* Where memmove takes character i from.                                   *)
LEMMA Shift ==
  ASSUME NEW x \in Nat, NEW y \in Nat, NEW k \in Nat, NEW q \in Nat, NEW i \in Int,
         k <= x - y, q - k <= i, i < q
  PROVE  x - q + i \in y..(x - 1) /\ (x - q + i) - x = i - q
  OBVIOUS

(* A refill: n characters of the pipe c behind the k that are kept of the  *)
(* get area a of the buffer b make the get area e of the buffer g.         *)
Refilled(a, b, c, k, n, e, g, d) ==
    /\ a # NULL => a.gptr >= a.egptr
    /\ k = IF a = NULL THEN 0 ELSE least(a.gptr - a.eback, pbsz)
    /\ n <= Len(c) /\ Len(d) = Len(c) - n
    /\ e.eback = pbsz - k /\ e.gptr = pbsz /\ e.egptr = pbsz + n /\ e.live = TRUE
    /\ \A i \in (pbsz - k)..(pbsz - 1) : a.live => g[i] = b[a.gptr - pbsz + i]
    /\ \A i \in pbsz..((pbsz + n) - 1) : g[i] = c[i - pbsz + 1]

LEMMA RefillIsRead ==
  ASSUME NEW a \in Area \cup {NULL}, NEW b, AreaOk(a, b), NEW c, Len(c) \in Nat,
         NEW p \in Int, NEW f \in Int, NEW w \in Int, PipeOk(c, w), ReadOk(a, b, p, f, c, w),
         NEW k \in Nat, k <= pbsz, NEW n \in Nat, NEW e \in Area, NEW g, NEW d,
         Refilled(a, b, c, k, n, e, g, d)
  PROVE  ReadOk(e, g, p, f, d, w)
<1> USE DEF Refilled
<1>1. pbsz \in Nat /\ pbsz > 0 /\ bufsz \in Nat
  BY SizesAssumption
<1>2. a # NULL => /\ a.gptr \in Nat /\ a.eback \in Nat /\ a.egptr = a.gptr
                  /\ a.eback <= a.gptr /\ a.live /\ pbsz <= a.gptr
                  /\ k <= a.gptr - a.eback /\ p + Len(c) = w
                  /\ \A i \in a.eback..(a.gptr - 1) : b[i] \in {p + 1 + (i - a.gptr), Other}
                  /\ pbsz - a.eback >= least(p + (pbsz - a.gptr) - f, pbsz)
  <2>1. ASSUME a # NULL
        PROVE  /\ a.gptr \in Nat /\ a.eback \in Nat /\ a.egptr = a.gptr
               /\ a.eback <= a.gptr
    BY <1>1, <2>1 DEF AreaOk, Area, Pointer
  <2>2. ASSUME a # NULL
        PROVE  /\ a.live /\ pbsz <= a.gptr /\ p + Len(c) = w
               /\ \A i \in a.eback..(a.gptr - 1) : b[i] \in {p + 1 + (i - a.gptr), Other}
               /\ pbsz - a.eback >= least(p + (pbsz - a.gptr) - f, pbsz)
    BY <2>1, <2>2 DEF ReadOk
  <2>3. ASSUME a # NULL PROVE k <= a.gptr - a.eback
    BY <1>1, <2>1, <2>3 DEF least
  <2> QED
    BY <2>1, <2>2, <2>3
<1>3. p + Len(c) = w
  BY <1>2 DEF ReadOk
<1>4. p + n + Len(d) = w
  BY <1>3
<1>5. ASSUME NEW i \in (pbsz - k)..((pbsz + n) - 1)
      PROVE  g[i] \in {p + 1 + (i - pbsz), Other}
  <2>1. i \in Int
    BY <1>1
  <2>2. CASE i >= pbsz
    <3>1. g[i] = c[i - pbsz + 1] /\ i - pbsz + 1 \in 1..Len(c)
      BY <1>1, <2>1, <2>2
    <3>2. c[i - pbsz + 1] = w - Len(c) + (i - pbsz + 1)
      BY <3>1 DEF PipeOk
    <3>3. w - Len(c) + (i - pbsz + 1) = p + 1 + (i - pbsz)
      BY <1>1, <1>3, <2>1
    <3> QED
      BY <3>1, <3>2, <3>3
  <2>3. CASE i < pbsz
    <3>1. k > 0 /\ a # NULL
      BY <1>1, <2>1, <2>3
    <3> DEFINE j == a.gptr - pbsz + i
    <3>2. a.gptr \in Nat /\ a.eback \in Nat /\ k <= a.gptr - a.eback /\ a.live
      BY <1>2, <3>1
    <3>3. j \in a.eback..(a.gptr - 1) /\ j - a.gptr = i - pbsz
      <4>1. pbsz - k <= i
        BY <1>1
      <4> QED
        BY <1>1, <2>1, <2>3, <3>2, <4>1, Shift
    <3>4. i \in (pbsz - k)..(pbsz - 1)
      BY <1>1, <2>1, <2>3
    <3>5. g[i] = b[j]
      BY <3>2, <3>4
    <3> HIDE DEF j
    <3>6. b[j] \in {p + 1 + (j - a.gptr), Other}
      BY <1>2, <3>1, <3>3
    <3> QED
      BY <3>3, <3>5, <3>6
  <2> QED
    BY <1>1, <2>1, <2>2, <2>3
<1>6. k >= least(p - f, pbsz)
  <2>1. CASE a = NULL
    <3>1. p <= f /\ k = 0
      BY <2>1 DEF ReadOk
    <3> QED
      BY <1>1, <3>1 DEF least
  <2>2. CASE a # NULL
    <3>1. k = least(a.gptr - a.eback, pbsz)
      BY <2>2
    <3>2. /\ a.gptr \in Nat /\ a.eback \in Nat /\ pbsz <= a.gptr
          /\ pbsz - a.eback >= least(p + (pbsz - a.gptr) - f, pbsz)
      BY <1>2, <2>2
    <3>3. CASE p + (pbsz - a.gptr) - f < pbsz
      <4>1. pbsz - a.eback >= p + (pbsz - a.gptr) - f
        BY <3>2, <3>3 DEF least
      <4>2. a.gptr - a.eback >= p - f
        BY <1>1, <3>2, <4>1
      <4> QED
        BY <1>1, <3>1, <3>2, <4>2 DEF least
    <3>4. CASE ~(p + (pbsz - a.gptr) - f < pbsz)
      <4>1. pbsz - a.eback >= pbsz
        BY <3>2, <3>4 DEF least
      <4>2. a.gptr - a.eback >= pbsz
        BY <1>1, <3>2, <4>1
      <4> QED
        BY <1>1, <3>1, <3>2, <4>2 DEF least
    <3> QED
      BY <3>3, <3>4
  <2> QED
    BY <2>1, <2>2
<1>7. /\ p + (pbsz - pbsz) - f = p - f /\ p + (pbsz + n - pbsz) = p + n
      /\ pbsz - (pbsz - k) = k /\ pbsz <= pbsz + n
  BY <1>1
<1>8. e # NULL
  BY AreaIsNotNull
<1>9. /\ e.live /\ pbsz <= e.egptr
      /\ p + (e.egptr - e.gptr) + Len(d) = w
  BY <1>1, <1>4, <1>7
<1>10. \A i \in e.eback..(e.egptr - 1) : g[i] \in {p + 1 + (i - e.gptr), Other}
  <2>1. e.eback..(e.egptr - 1) = (pbsz - k)..((pbsz + n) - 1)
    <3>1. e.eback = pbsz - k /\ e.egptr = pbsz + n
      OBVIOUS
    <3> QED
      BY ONLY <3>1, Zenon
  <2>2. e.gptr = pbsz
    OBVIOUS
  <2> QED
    BY <1>5, <2>1, <2>2
<1>11. pbsz - e.eback >= least(p + (pbsz - e.gptr) - f, pbsz)
  BY <1>6, <1>7
<1> QED
  BY <1>8, <1>9, <1>10, <1>11 DEF ReadOk

(* wait() leaves nothing to read.                                          *)
LEMMA ReapRead ==
  ASSUME reap, call' # "open" PROVE ReadInv'
<1>1. /\ rpipe_' = Both(FALSE) /\ pipe' = Both(<<>>) /\ written' = Both(0)
      /\ pos' = Both(0) /\ floor' = Both(0)
  BY DEF reap, close_fds
<1>2. Len(<<>>) = 0
  BY EmptySeq
<1> QED
  BY <1>1, <1>2 DEF ReadInv, SourceOk, PipeOk, Both

(* Nothing that the reading side looks at has changed.                     *)
reading == <<rpipe_, rbuffer_, area, rbufstate_, rsrc_, ppid_, mode, pipe, written, pos,
             floor, carried>>

LEMMA FrameRead ==
  ASSUME ReadInv, UNCHANGED reading, call' = call \/ call' # "open"
  PROVE  ReadInv'
  BY DEF ReadInv, SourceOk, reading, get_area

(* A source that is new has nothing in its buffer, its pipe or its past.   *)
LEMMA ForkRead ==
  ASSUME CleanInv, TypeInv, ReadInv, ppid_ # 1, NEW m \in Modes, NEW how, fork(m, how),
         \/ area' = forked_area(m)
         \/ area' = IF rsrc_' \in m THEN start ELSE forked_area(m),
         call' = "open" => area' = forked_area(m)
  PROVE  ReadInv'
<1>1. area = NULL
  BY DEF CleanInv
<1>2. ~carried' => rbufstate_ = NULL /\ rbufstate_' = NULL /\ forked_area(m) = NULL
  BY <1>1 DEF fork, forked_area
<1>3. /\ pipe' = Both(<<>>) /\ written' = Both(0) /\ pos' = Both(0) /\ floor' = Both(0)
      /\ \A s \in Src : rpipe_'[s] => s \in mode'
      /\ ppid_' = 1
  BY DEF fork, ReadInv
<1>4. Len(<<>>) = 0 /\ 0 + 0 = 0 /\ 0 <= 0
  BY EmptySeq
<1>5. ASSUME NEW s \in Src, ~carried'
      PROVE  ReadOk(get_area(s)', rbuffer_'[s], 0, 0, <<>>, 0)
  <2>1. get_area(s)' \in {NULL, start}
    BY <1>2, <1>5 DEF get_area
  <2> QED
    BY <1>4, <2>1, NothingRead
<1> QED
  BY <1>2, <1>3, <1>4, <1>5 DEF ReadInv, SourceOk, PipeOk, Both

(* One step for each action.                                               *)
LEMMA ReadStep ==
  CleanInv /\ TypeInv /\ ReadInv /\ [Next]_vars /\ TypeInv' => ReadInv'
<1> SUFFICES ASSUME CleanInv, TypeInv, ReadInv, [Next]_vars, TypeInv' PROVE ReadInv'
  OBVIOUS
<1>0. /\ BuffersOk /\ RestOk /\ rsrc_ \in Src
      /\ \A s \in Src : Len(pipe[s]) \in Nat /\ pipe[s] \in Seq(Char)
      /\ \A s \in Src : pos[s] \in Int /\ floor[s] \in Int /\ written[s] \in Int
  <2>1. BuffersOk /\ RestOk /\ rsrc_ \in Src
    BY TypeParts DEF TypeInv, TypeOK
  <2>2. \A s \in Src : pipe[s] \in Seq(Char)
    BY <2>1 DEF RestOk
  <2>3. \A s \in Src : pos[s] \in Int /\ floor[s] \in Int /\ written[s] \in Int
    BY <2>1, BoundsAssumption DEF RestOk
  <2> QED
    BY <2>1, <2>2, <2>3, LenProperties
<1>1. ASSUME NEW m \in Modes, open(m) \/ open_file(m) PROVE ReadInv'
  <2>1. CASE ~is_open /\ (fork(m, "running") \/ fork(m, "forked"))
    <3>1. ppid_ # 1
      BY <2>1, OpenIffProcess
    <3>2. CASE open_file(m)
      BY <2>1, <3>1, <3>2, ForkRead DEF open_file
    <3>3. CASE open(m) /\ create_buffers(m, source(m), forked_area(m)) /\ call' = call
      <4>1. rsrc_' = source(m) /\ call' # "open"
        BY <2>1, <3>3 DEF open, fork, idle
      <4> QED
        BY <2>1, <3>1, <3>3, <4>1, ForkRead DEF create_buffers
    <3>4. CASE open(m) /\ UNCHANGED <<ppid_, fds, buffers, call, process, history>>
      BY <3>4, FrameRead DEF reading, fds, buffers, process, history
    <3> QED
      BY <1>1, <3>2, <3>3, <3>4 DEF open
  <2>2. CASE ~(~is_open /\ (fork(m, "running") \/ fork(m, "forked")))
    BY <1>1, <2>2, FrameRead DEF open, open_file, reading, fds, buffers, process, history
  <2> QED
    BY <2>1, <2>2
<1>2. CASE open_file_returns
  <2>1. CASE reap
    BY <1>2, <2>1, ReapRead DEF open_file_returns
  <2>2. CASE /\ create_buffers(mode, rsrc_, area)
             /\ UNCHANGED <<ppid_, fds, rbufstate_, rsrc_, process, history>>
    <3>1. call = "open" /\ call' = "none"
      BY <1>2 DEF open_file_returns
    <3>2. /\ UNCHANGED <<ppid_, rpipe_, rbufstate_, rsrc_, mode, pipe, written, pos, floor, carried>>
          /\ area' = IF rsrc_ \in mode THEN start ELSE area
      BY <2>2 DEF fds, process, history, create_buffers
    <3>3. ASSUME NEW s \in Src, rpipe_[s], ~carried
          PROVE  ReadOk(get_area(s)', rbuffer_'[s], pos[s], floor[s], pipe[s], written[s])
      <4>1. get_area(s) = NULL
        BY <3>1, <3>3 DEF ReadInv, get_area
      <4>2. pos[s] <= floor[s] /\ pos[s] + Len(pipe[s]) = written[s]
        BY <3>3, <4>1 DEF ReadInv, SourceOk, ReadOk
      <4>3. get_area(s)' \in {NULL, start}
        BY <3>2, <4>1 DEF get_area
      <4> QED
        BY <1>0, <4>2, <4>3, NothingRead
    <3> QED
      BY <3>1, <3>2, <3>3 DEF ReadInv, SourceOk
  <2>3. CASE UNCHANGED <<ppid_, fds, buffers, process, history>>
    BY <1>2, <2>3, FrameRead DEF open_file_returns, reading, fds, buffers, process, history
  <2> QED
    BY <1>2, <2>1, <2>2, <2>3 DEF open_file_returns
<1>3. CASE sync \/ peof \/ exited \/ wait
  <2>1. CASE reap /\ call' # "open"
    BY <2>1, ReapRead
  <2> QED
    BY <1>3, <2>1, FrameRead DEF sync, peof, exited, wait, idle, reading, unwritten, fds, history
<1>4. CASE close_pipes \/ close_interrupted
  <2>1. CASE reap
    BY <1>4, <2>1, ReapRead DEF close_pipes, close_interrupted
  <2>2. CASE ~reap
    <3>1. /\ rpipe_' = Both(FALSE) /\ call' = "wait" /\ ppid_' = ppid_
          /\ UNCHANGED <<pipe, written>> /\ ppid_ = 1
      BY <1>4, <2>2 DEF close_pipes, close_interrupted, close_fds, process, CleanInv
    <3> QED
      BY <3>1 DEF ReadInv, SourceOk, Both
  <2> QED
    BY <2>1, <2>2
<1>5. CASE sputc \/ overflow \/ \E n \in 1..bufsz : xsputn(n)
  BY <1>5, FrameRead DEF sputc, overflow, xsputn, reading, unwritten, fds
<1>6. CASE kill \/ close \/ wait_interrupted \/ exec \/ child_reads \/ child_exits \/ Elsewhere
  BY <1>6, FrameRead DEF kill, close, wait_interrupted, exec, child_reads, child_exits,
       Elsewhere, fork_elsewhere, sibling_exits, reading, fds, buffers, process, history, parent
<1>7. CASE UNCHANGED vars
  BY <1>7, FrameRead DEF vars, reading, fds, buffers, process, history
<1>8. ASSUME NEW s \in Src, child_writes(s) PROVE ReadInv'
  <2>1. /\ UNCHANGED <<rpipe_, rbuffer_, area, rbufstate_, rsrc_, ppid_, mode, pos, floor,
                       carried, call>>
        /\ child = "running"
    BY <1>8 DEF child_writes, parent, fds, buffers, history
  <2>2. CASE UNCHANGED <<pipe, written>>
    BY <2>1, <2>2, FrameRead DEF reading
  <2>3. CASE /\ pipe' = [pipe EXCEPT ![s] = Append(@, written[s] + 1)]
             /\ written' = [written EXCEPT ![s] = @ + 1]
    <3>1. /\ written[s] \in 0..MaxOut /\ written[s] + 1 \in Char
      BY <1>0, <1>8, BoundsAssumption DEF RestOk, child_writes, Char
    <3>2. /\ pipe'[s] = Append(pipe[s], written[s] + 1) /\ written'[s] = written[s] + 1
          /\ \A t \in Src \ {s} : pipe'[t] = pipe[t] /\ written'[t] = written[t]
      BY <1>0, <2>3 DEF RestOk
    <3>3. get_area(s) \in Area \cup {NULL}
      BY <1>0 DEF BuffersOk, get_area
    <3>4. /\ PipeOk(pipe'[s], written'[s])
          /\ rpipe_[s] /\ ~carried =>
               ReadOk(get_area(s), rbuffer_[s], pos[s], floor[s], pipe'[s], written'[s])
      <4>1. PipeOk(pipe[s], written[s])
        BY DEF ReadInv, SourceOk
      <4>2. PipeOk(Append(pipe[s], written[s] + 1), written[s] + 1)
        BY <1>0, <3>1, <4>1, WriteIsOk
      <4>3. rpipe_[s] /\ ~carried =>
               ReadOk(get_area(s), rbuffer_[s], pos[s], floor[s], pipe[s], written[s])
        BY DEF ReadInv, SourceOk
      <4>4. rpipe_[s] /\ ~carried =>
               ReadOk(get_area(s), rbuffer_[s], pos[s], floor[s],
                      Append(pipe[s], written[s] + 1), written[s] + 1)
        BY <1>0, <3>1, <3>3, <4>3, WriteIsRead
      <4> QED
        BY <3>2, <4>2, <4>4
    <3>5. ppid_ = 1
      BY <2>1 DEF CleanInv
    <3> QED
      BY <2>1, <3>2, <3>4, <3>5 DEF ReadInv, SourceOk, get_area
  <2> QED
    BY <1>8, <2>2, <2>3 DEF child_writes
<1>9. ASSUME NEW src \in Src, read_err(src) PROVE ReadInv'
  <2>1. /\ rsrc_' = src /\ src # rsrc_ /\ area' = rbufstate_ /\ rbufstate_' = area
        /\ UNCHANGED <<rpipe_, rbuffer_, ppid_, mode, pipe, written, pos, floor, carried, call>>
        /\ call = "none"
    BY <1>9 DEF read_err, unread, fds, idle
  <2>2. \A s \in Src : get_area(s)' = get_area(s)
    BY <1>0, <2>1 DEF get_area, Src
  <2> QED
    BY <2>1, <2>2 DEF ReadInv, SourceOk
<1>10. CASE sbumpc \/ \E other \in BOOLEAN : pbackfail(other)
  <2>1. PICK n \in {-1, 1} :
          /\ area' = [area EXCEPT !.gptr = area.gptr + n]
          /\ pos' = taken(n)
          /\ (n = 1 /\ area.gptr < area.egptr) \/ (n = -1 /\ area.gptr # area.eback)
    BY <1>10 DEF sbumpc, pbackfail
  <2>2. /\ UNCHANGED <<rpipe_, rbufstate_, rsrc_, ppid_, mode, pipe, written, floor, carried,
                       call>>
        /\ area # NULL /\ area \in Area /\ call = "none" /\ AreaOk(area, rbuffer_[rsrc_])
    BY <1>0, <1>10 DEF sbumpc, pbackfail, unread, fds, BuffersOk, idle, get_area
  <2>3. /\ area' \in Area /\ area'.gptr = area.gptr + n /\ area'.eback = area.eback
        /\ area'.egptr = area.egptr /\ area'.live = area.live
    <3>1. /\ area.gptr + n \in 0..bufsz /\ area.eback <= area.gptr + n
          /\ area.gptr + n <= area.egptr
      BY <2>1, <2>2, SizesAssumption DEF AreaOk, Area, Pointer
    <3>2. area' \in Area
      BY <1>0, <2>1, <2>2, <3>1, MoveTyped
    <3>3. /\ area'.gptr = area.gptr + n /\ area'.eback = area.eback
          /\ area'.egptr = area.egptr /\ area'.live = area.live
      BY <2>1, <2>2 DEF Area
    <3> QED
      BY <3>2, <3>3
  <2>4. /\ \A s \in Src \ {rsrc_} : rbuffer_'[s] = rbuffer_[s]
        /\ area.live => \A i \in Index : rbuffer_'[rsrc_][i] \in {rbuffer_[rsrc_][i], Other}
    <3>1. \/ rbuffer_' = rbuffer_
          \/ /\ area.live /\ area.gptr - 1 \in Index
             /\ rbuffer_' = [rbuffer_ EXCEPT
                  ![rsrc_] = [rbuffer_[rsrc_] EXCEPT ![area.gptr - 1] = Other]]
      <4>1. area.gptr # area.eback => area.gptr - 1 \in Index
        BY <2>2, SizesAssumption DEF AreaOk, Area, Pointer, Index
      <4> QED
        BY <1>10, <4>1 DEF sbumpc, pbackfail
    <3>2. CASE rbuffer_' = rbuffer_
      BY <3>2
    <3>3. CASE /\ area.live /\ area.gptr - 1 \in Index
               /\ rbuffer_' = [rbuffer_ EXCEPT
                    ![rsrc_] = [rbuffer_[rsrc_] EXCEPT ![area.gptr - 1] = Other]]
      <4>1. rbuffer_[rsrc_] \in Buffer /\ rbuffer_ \in [Src -> Buffer \cup {NULL}]
        BY <1>0, <2>2, <3>3 DEF AreaOk, BuffersOk
      <4>2. /\ rbuffer_'[rsrc_] = [rbuffer_[rsrc_] EXCEPT ![area.gptr - 1] = Other]
            /\ \A s \in Src \ {rsrc_} : rbuffer_'[s] = rbuffer_[s]
        BY <1>0, <3>3, <4>1
      <4> QED
        BY <4>1, <4>2 DEF Buffer
    <3> QED
      BY <3>1, <3>2, <3>3
  <2>5. ASSUME rpipe_[rsrc_], ~carried
        PROVE  /\ pos' = [pos EXCEPT ![rsrc_] = @ + n]
               /\ ReadOk(area', rbuffer_'[rsrc_], pos[rsrc_] + n, floor[rsrc_], pipe[rsrc_],
                         written[rsrc_])
    <3>1. ReadOk(area, rbuffer_[rsrc_], pos[rsrc_], floor[rsrc_], pipe[rsrc_], written[rsrc_])
      BY <1>0, <2>5 DEF ReadInv, SourceOk, get_area
    <3>2. /\ area.live
          /\ ReadOk(area', rbuffer_[rsrc_], pos[rsrc_] + n, floor[rsrc_], pipe[rsrc_],
                    written[rsrc_])
      <4>1. n \in Int
        OBVIOUS
      <4> QED
        BY <1>0, <2>2, <2>3, <3>1, <4>1, MoveIsRead
    <3> QED
      BY <2>1, <2>3, <2>4, <3>2, OtherIsRead DEF taken
  <2>6. \A s \in Src \ {rsrc_} : pos'[s] = pos[s]
    BY <1>0, <2>1 DEF taken, RestOk
  <2>7. ASSUME NEW s \in Src, rpipe_[s], ~carried
        PROVE  ReadOk(get_area(s)', rbuffer_'[s], pos'[s], floor[s], pipe[s], written[s])
    <3>1. CASE s = rsrc_
      <4>1. pos'[s] = pos[s] + n
        BY <1>0, <2>5, <2>7, <3>1 DEF RestOk
      <4> QED
        BY <2>2, <2>5, <2>7, <3>1, <4>1 DEF get_area
    <3>2. CASE s # rsrc_
      BY <2>2, <2>4, <2>6, <2>7, <3>2 DEF ReadInv, SourceOk, get_area
    <3> QED
      BY <3>1, <3>2
  <2>8. ppid_ = 1
    BY <2>2 DEF CleanInv
  <2> QED
    BY <2>2, <2>7, <2>8 DEF ReadInv, SourceOk
<1>11. CASE underflow
  <2>1. /\ UNCHANGED <<rpipe_, rbufstate_, rsrc_, ppid_, mode, written, pos, carried>>
        /\ call = "none" /\ call' \in {"none", "crashed"} /\ starved
    BY <1>11 DEF underflow, unread, fds, idle
  <2>2. AreaOk(area, rbuffer_[rsrc_]) /\ area \in Area \cup {NULL}
    BY <1>0 DEF BuffersOk, get_area
  <2>3. CASE UNCHANGED <<rbuffer_, pipe, area, floor>>
    BY <2>1, <2>3, FrameRead DEF reading
  <2>4. CASE rbuffer_[rsrc_] # NULL /\ fill_buffer
    <3>1. /\ count \in Nat /\ count <= Len(pipe[rsrc_]) /\ kept \in Nat /\ kept <= pbsz
          /\ bufsz \in Nat /\ pbsz \in Nat /\ pbsz + count <= bufsz
      BY <1>0, <2>2, <2>4, RefillTyped, KeptIsShort, SizesAssumption
    <3>2. /\ rbuffer_' = [rbuffer_ EXCEPT ![rsrc_] = filled]
          /\ pipe' = [pipe EXCEPT ![rsrc_] = SubSeq(pipe[rsrc_], count + 1, Len(pipe[rsrc_]))]
          /\ area' = [eback |-> pbsz - kept, gptr |-> pbsz, egptr |-> pbsz + count,
                      live |-> TRUE]
          /\ UNCHANGED floor
      BY <2>4 DEF fill_buffer
    <3>3. /\ area' \in Area /\ area'.eback = pbsz - kept /\ area'.gptr = pbsz
          /\ area'.egptr = pbsz + count /\ area'.live = TRUE
      BY <3>1, <3>2 DEF Area, Pointer
    <3>4. /\ pipe'[rsrc_] = SubSeq(pipe[rsrc_], count + 1, Len(pipe[rsrc_]))
          /\ rbuffer_'[rsrc_] = filled
          /\ \A s \in Src \ {rsrc_} : pipe'[s] = pipe[s] /\ rbuffer_'[s] = rbuffer_[s]
      BY <1>0, <3>2 DEF RestOk, BuffersOk
    <3>5. /\ Len(pipe'[rsrc_]) = Len(pipe[rsrc_]) - count
          /\ \A i \in 1..(Len(pipe[rsrc_]) - count) : pipe'[rsrc_][i] = pipe[rsrc_][i + count]
      BY <1>0, <3>1, <3>4, RestOfPipe
    <3>6. PipeOk(pipe[rsrc_], written[rsrc_])
      BY <1>0 DEF ReadInv, SourceOk
    <3>7. PipeOk(pipe'[rsrc_], written[rsrc_])
      BY <1>0, <3>1, <3>5, <3>6, RestIsOk
    <3>8. ASSUME rpipe_[rsrc_], ~carried
          PROVE  ReadOk(area', filled, pos[rsrc_], floor[rsrc_], pipe'[rsrc_], written[rsrc_])
      <4>1. ReadOk(area, rbuffer_[rsrc_], pos[rsrc_], floor[rsrc_], pipe[rsrc_],
                   written[rsrc_])
        BY <1>0, <3>8 DEF ReadInv, SourceOk, get_area
      <4>2. /\ area # NULL => area.gptr >= area.egptr
            /\ kept = IF area = NULL THEN 0 ELSE least(area.gptr - area.eback, pbsz)
        BY <2>1 DEF starved, kept
      <4>3. \A i \in (pbsz - kept)..(pbsz - 1) :
              area.live => filled[i] = rbuffer_[rsrc_][area.gptr - pbsz + i]
        <5>1. ASSUME NEW i \in (pbsz - kept)..(pbsz - 1)
              PROVE  i \in Index /\ i \notin pbsz..(pbsz + count - 1)
          BY <3>1, SizesAssumption DEF Index
        <5> QED
          BY <5>1 DEF filled, moved
      <4>4. \A i \in pbsz..((pbsz + count) - 1) : filled[i] = pipe[rsrc_][i - pbsz + 1]
        <5>1. ASSUME NEW i \in pbsz..((pbsz + count) - 1)
              PROVE  i \in Index /\ i \in pbsz..(pbsz + count - 1)
          BY <3>1, SizesAssumption DEF Index
        <5> QED
          BY <5>1 DEF filled
      <4>5. Refilled(area, rbuffer_[rsrc_], pipe[rsrc_], kept, count, area', filled,
                     pipe'[rsrc_])
        BY <3>1, <3>3, <3>5, <4>2, <4>3, <4>4 DEF Refilled
      <4> QED
        BY <1>0, <2>2, <3>1, <3>3, <3>6, <4>1, <4>5, RefillIsRead
    <3>9. ASSUME NEW s \in Src, rpipe_[s], ~carried
          PROVE  ReadOk(get_area(s)', rbuffer_'[s], pos[s], floor[s], pipe'[s], written[s])
      BY <2>1, <3>4, <3>8, <3>9 DEF ReadInv, SourceOk, get_area
    <3>10. rpipe_[rsrc_] /\ ppid_ = 1
      BY <2>4 DEF fill_buffer, CleanInv, Both
    <3>11. \A s \in Src : PipeOk(pipe'[s], written[s])
      BY <3>4, <3>7 DEF ReadInv, SourceOk
    <3> QED
      BY <2>1, <3>2, <3>9, <3>10, <3>11 DEF ReadInv, SourceOk
  <2>5. CASE fill_buffer_fails
    <3>1. /\ area' = NULL /\ UNCHANGED pipe
          /\ floor' = [floor EXCEPT ![rsrc_] = pos[rsrc_]]
          /\ rbuffer_' = rbuffer_ \/ rbuffer_' = [rbuffer_ EXCEPT ![rsrc_] = moved]
      BY <2>5 DEF fill_buffer_fails
    <3>2. /\ floor'[rsrc_] = pos[rsrc_]
          /\ \A s \in Src \ {rsrc_} : floor'[s] = floor[s] /\ rbuffer_'[s] = rbuffer_[s]
      BY <1>0, <3>1 DEF RestOk, BuffersOk
    <3>3. ASSUME NEW s \in Src, rpipe_[s], ~carried
          PROVE  ReadOk(get_area(s)', rbuffer_'[s], pos[s], floor'[s], pipe[s], written[s])
      <4>0. ReadOk(get_area(s), rbuffer_[s], pos[s], floor[s], pipe[s], written[s])
        BY <3>3 DEF ReadInv, SourceOk
      <4>1. CASE s = rsrc_
        <5>1. area # NULL => area.gptr >= area.egptr
          BY <2>1 DEF starved
        <5> QED
          BY <1>0, <2>1, <2>2, <3>1, <3>2, <4>0, <4>1, <5>1, FailIsRead DEF get_area
      <4>2. CASE s # rsrc_
        BY <2>1, <3>2, <4>0, <4>2 DEF get_area
      <4> QED
        BY <4>1, <4>2
    <3>4. ppid_ # 1 => floor' = Both(0)
      BY <1>0, <3>1 DEF ReadInv, Both
    <3> QED
      BY <2>1, <3>1, <3>3, <3>4 DEF ReadInv, SourceOk
  <2> QED
    BY <1>11, <2>3, <2>4, <2>5 DEF underflow
<1> QED
  BY <1>1, <1>2, <1>3, <1>4, <1>5, <1>6, <1>7, <1>8, <1>9, <1>10, <1>11
  DEF Next, Caller, Closing, Child

LEMMA ReadHolds == Spec => [](CleanInv /\ TypeInv /\ ReadInv)
<1>1. Init => ReadInv
  <2>1. Len(<<>>) = 0
    BY EmptySeq
  <2> QED
    BY <2>1 DEF Init, ReadInv, SourceOk, PipeOk, Both
<1>2. CleanInv /\ TypeInv /\ ReadInv /\ [Next]_vars /\ (CleanInv /\ TypeInv)' => ReadInv'
  BY ReadStep
<1> QED
  BY <1>1, <1>2, TypeHolds, PTL DEF Spec

(* Read, put back and read again from two sources in turn, no character of *)
(* the child is lost or read twice (pstream.h:1372-1385, 1622-1650,        *)
(* 1673-1699).                                                             *)
THEOREM OutputIsInOrder == Spec => []OutputInOrder
<1>1. ASSUME TypeInv, ReadInv, NEW s \in Src, rpipe_[s], ~carried
      PROVE  LET a == get_area(s)
                 ready == IF a = NULL THEN 0 ELSE a.egptr - a.gptr
             IN /\ pos[s] + ready + Len(pipe[s]) = written[s]
                /\ \A i \in 0..(ready - 1) :
                       rbuffer_[s][a.gptr + i] \in {pos[s] + 1 + i, Other}
  <2> DEFINE a == get_area(s)
  <2>1. ReadOk(a, rbuffer_[s], pos[s], floor[s], pipe[s], written[s])
    BY <1>1 DEF ReadInv, SourceOk
  <2>2. AreaOk(a, rbuffer_[s]) /\ pos[s] \in Int
    BY <1>1 DEF TypeInv, TypeOK
  <2>3. Len(pipe[s]) \in Nat
    BY <1>1, LenProperties DEF TypeInv, TypeOK
  <2> HIDE DEF a
  <2>4. CASE a = NULL
    BY <2>1, <2>2, <2>3, <2>4 DEF ReadOk, a
  <2>5. CASE a # NULL
    <3>1. /\ a.eback \in Nat /\ a.gptr \in Nat /\ a.egptr \in Nat /\ a.eback <= a.gptr
      BY <2>2, <2>5, SizesAssumption DEF AreaOk, Area, Pointer
    <3>2. ASSUME NEW i \in 0..(a.egptr - a.gptr - 1)
          PROVE  rbuffer_[s][a.gptr + i] \in {pos[s] + 1 + i, Other}
      <4>1. a.gptr + i \in a.eback..(a.egptr - 1) /\ (a.gptr + i) - a.gptr = i
        BY <3>1
      <4>2. rbuffer_[s][a.gptr + i] \in {pos[s] + 1 + ((a.gptr + i) - a.gptr), Other}
        BY <2>1, <2>5, <4>1 DEF ReadOk
      <4> QED
        BY <4>1, <4>2
    <3>3. pos[s] + (a.egptr - a.gptr) + Len(pipe[s]) = written[s]
      BY <2>1, <2>5 DEF ReadOk
    <3> QED
      BY <2>5, <3>2, <3>3 DEF a
  <2> QED
    BY <2>4, <2>5
<1>2. TypeInv /\ ReadInv => OutputInOrder
  BY <1>1 DEF OutputInOrder
<1> QED
  BY <1>2, ReadHolds, PTL

(* What was taken since the last end of file can be put back, up to pbsz   *)
(* characters (pstream.h:95).                                              *)
THEOREM TakenCanBePutBack == Spec => []PutbackKept
<1>1. ReadInv => PutbackKept
  BY DEF ReadInv, SourceOk, ReadOk, PutbackKept
<1> QED
  BY <1>1, ReadHolds, PTL
=============================================================================
