------------------------------ MODULE PStream ------------------------------
(***************************************************************************)
(* pstream.h: a stream buffer connected by pipes to the standard streams   *)
(* of a child process.  One basic_pstreambuf that is opened again and      *)
(* again, its child, and other children of the same program, which inherit *)
(* the ends of the pipes.  A call that would block is a step that is not   *)
(* enabled, except in close() and open(file), which wait for the child.    *)
(* The system calls, the child and the signals are external; SIGPIPE is    *)
(* ignored by the program, or it would not see a write fail.  Characters   *)
(* are numbered: the child writes 1, 2, 3, ... and is given 1, 2, 3, ...   *)
(***************************************************************************)
EXTENDS Integers, Sequences

CONSTANTS
    bufsz, pbsz,    \* size of a buffer, and of its part for putback
    PipeSize,       \* characters a pipe holds
    Modes,          \* what streams are opened with
    MaxOut, MaxIn,  \* bounds: characters the child writes and is given
    MaxOpens,       \* bound: calls of open
    NULL,           \* no pointer
    Other,          \* a character put back in the place of another one
    Garbage         \* uninitialised or freed memory

Src == {"out", "err"}           \* buf_read_src
Char == 1..MaxOut
Index == 0..(bufsz - 1)

ASSUME SizesAssumption ==
    /\ bufsz \in Nat /\ pbsz \in Nat /\ PipeSize \in Nat
    /\ 0 < pbsz /\ pbsz < bufsz /\ bufsz <= PipeSize
ASSUME BoundsAssumption == MaxOut \in Nat /\ MaxIn \in Nat /\ MaxOpens \in Nat
ASSUME ModesAssumption == Modes \subseteq SUBSET {"in", "out", "err"}
ASSUME ValuesAssumption ==
    /\ NULL \notin Seq(1..MaxIn)
    /\ NULL \notin [Index -> Char \cup {Other, Garbage}]
    /\ NULL \notin [eback : 0..bufsz, gptr : 0..bufsz, egptr : 0..bufsz,
                    live : BOOLEAN]
    /\ Other # Garbage /\ {Other, Garbage} \cap Char = {}

(* The modes of the stream classes.                                        *)
ipstream(mode) == mode \cup {"out"}
opstream(mode) == mode \cup {"in"}
pstream(mode) == mode
rpstream(mode) == mode

VARIABLES
    ppid_,      \* -1: no process yet, 0: it has been waited for, 1: its pid
    wpipe_,     \* TRUE iff the write end of its stdin is open
    rpipe_,     \* the same for the read ends of its stdout and stderr
    wbuffer_,   \* the put area, or NULL
    rbuffer_,   \* the two buffers for reading, or NULL
    area,       \* eback(), gptr(), egptr(): indexes of the active buffer
    rbufstate_, \* the same of the other one; not live when it was freed
    rsrc_,      \* the active source
    error_,     \* TRUE iff a call has failed
    call,       \* what the caller is in: "none", "open", "close", "wait"
    failbit,    \* TRUE iff the last open or close returned NULL
    opens       \* how often it has been opened
VARIABLES
    mode,       \* the standard streams of the child that are pipes
    child,      \* "none", "forked", "running", "failed" (exec) or "zombie"
    stuck,      \* the stream the child is blocked in writing, or NULL
    stdin,      \* what is in the pipe of its stdin
    received,   \* what it has read of it
    pipe,       \* what is in the pipes of its stdout and stderr
    written,    \* how much it has written to them
    sibling     \* TRUE iff another child has inherited the ends of the pipes
VARIABLES
    accepted,   \* history: characters put into the stream
    pos,        \* history: characters taken from each source
    floor,      \* history: pos when a read last failed
    carried     \* history: rbufstate_ was set when the process was started

fds == <<wpipe_, rpipe_>>
buffers == <<wbuffer_, rbuffer_, area, rbufstate_, rsrc_>>
process == <<mode, child, stuck, stdin, received, pipe, written, sibling>>
history == <<accepted, pos, floor, carried>>
vars == <<ppid_, fds, buffers, error_, call, failbit, opens, process, history>>

Buffer == [Index -> Char \cup {Other, Garbage}]
Pointer == 0..bufsz
Area == [eback : Pointer, gptr : Pointer, egptr : Pointer, live : BOOLEAN]

TypeOK ==
    /\ ppid_ \in {-1, 0, 1}
    /\ wpipe_ \in BOOLEAN
    /\ rpipe_ \in [Src -> BOOLEAN]
    /\ wbuffer_ \in Seq(1..MaxIn) \cup {NULL}
    /\ rbuffer_ \in [Src -> Buffer \cup {NULL}]
    /\ area \in Area \cup {NULL}
    /\ rbufstate_ \in Area \cup {NULL}
    /\ rsrc_ \in Src
    /\ {error_, failbit, sibling, carried} \subseteq BOOLEAN
    /\ call \in {"none", "open", "close", "wait", "crashed"}
    /\ opens \in 0..MaxOpens
    /\ mode \in Modes \cup {{}}
    /\ child \in {"none", "forked", "running", "failed", "zombie"}
    /\ stuck \in Src \cup {NULL}
    /\ stdin \in Seq(1..MaxIn) /\ received \in Seq(1..MaxIn)
    /\ pipe \in [Src -> Seq(Char)]
    /\ written \in [Src -> 0..MaxOut]
    /\ accepted \in 0..MaxIn
    /\ pos \in [Src -> Int] /\ floor \in [Src -> Int]

Both(v) == [s \in Src |-> v]

(* The constructors; those with arguments then open.                       *)
Init ==
    /\ ppid_ = -1
    /\ wpipe_ = FALSE /\ rpipe_ = Both(FALSE)
    /\ wbuffer_ = NULL /\ rbuffer_ = Both(NULL)
    /\ area = NULL /\ rbufstate_ = NULL
    /\ rsrc_ = "out"
    /\ error_ = FALSE
    /\ call = "none" /\ failbit = FALSE /\ opens = 0
    /\ mode = {} /\ child = "none" /\ stuck = NULL
    /\ stdin = <<>> /\ received = <<>>
    /\ pipe = Both(<<>>) /\ written = Both(0)
    /\ sibling = FALSE
    /\ accepted = 0 /\ pos = Both(0) /\ floor = Both(0) /\ carried = FALSE

is_open == ppid_ > 0
ended == child \in {"zombie", "failed"}
idle == call = "none"

-----------------------------------------------------------------------------
(* open                                                                    *)

(* fork: the pipes and the child.  Nothing is started once there has been  *)
(* an error.  When only stderr is read it becomes the source; when stdout  *)
(* is read the source stays what it was for the process before.            *)
source(m) == IF "err" \in m /\ "out" \notin m THEN "err" ELSE rsrc_

fork(m, how) ==
    /\ ~error_
    /\ ppid_' = 1
    /\ wpipe_' = ("in" \in m)
    /\ rpipe_' = [s \in Src |-> s \in m]
    /\ rsrc_' = source(m)
    /\ rbufstate_' = IF source(m) # rsrc_ THEN area ELSE rbufstate_
    /\ mode' = m
    /\ child' = how
    /\ carried' = (rbufstate_ # NULL)
    /\ UNCHANGED <<stuck, stdin, received, pipe, written, sibling,
                   accepted, pos, floor>>

forked_area(m) == IF source(m) # rsrc_ THEN rbufstate_ ELSE area

start == [eback |-> pbsz, gptr |-> pbsz, egptr |-> pbsz, live |-> TRUE]

(* New buffers; the get area points into the one of the source, when that  *)
(* source is a pipe.                                                       *)
create_buffers(m, src, a) ==
    /\ wbuffer_' = IF "in" \in m THEN <<>> ELSE wbuffer_
    /\ rbuffer_' = [s \in Src |-> IF s \in m THEN [i \in Index |-> Garbage]
                                  ELSE rbuffer_[s]]
    /\ area' = IF src \in m THEN start ELSE a

(* open(command): the shell is executed, and nothing tells whether it was. *)
open(m) ==
    /\ idle /\ opens < MaxOpens
    /\ opens' = opens + 1
    /\ \/ /\ ~is_open
          /\ fork(m, "running")
          /\ create_buffers(m, source(m), forked_area(m))
          /\ failbit' = FALSE
          /\ UNCHANGED <<error_, call>>
       \/ /\ failbit' = TRUE
          /\ error_' = (error_ \/ ~is_open)     \* a pipe or the fork failed
          /\ UNCHANGED <<ppid_, fds, buffers, call, process, history>>

(* open(file, argv): a pipe that is closed by a successful exec tells.     *)
open_file(m) ==
    /\ idle /\ opens < MaxOpens /\ ~is_open
    /\ opens' = opens + 1
    /\ fork(m, "forked")
    /\ area' = forked_area(m)
    /\ call' = "open"
    /\ UNCHANGED <<wbuffer_, rbuffer_, error_, failbit>>

exec ==
    /\ child = "forked"
    /\ child' \in {"running", "failed"}
    /\ UNCHANGED <<ppid_, fds, buffers, error_, call, failbit, opens, mode, stuck,
                   stdin, received, pipe, written, sibling, history>>

(* Freed: what rbufstate_ points into.                                     *)
dead(a) == IF a = NULL THEN NULL ELSE [a EXCEPT !.live = FALSE]

destroy_all ==
    /\ wbuffer_' = NULL
    /\ rbuffer_' = Both(NULL)
    /\ area' = NULL
    /\ rbufstate_' = dead(rbufstate_)
    /\ UNCHANGED rsrc_

close_fds == wpipe_' = FALSE /\ rpipe_' = Both(FALSE)

(* Mutant: the descriptors stay open.                                      *)
reap_keeping_fds ==
    /\ ended
    /\ ppid_' = 0
    /\ destroy_all
    /\ mode' = {} /\ child' = "none" /\ stuck' = NULL
    /\ stdin' = <<>> /\ received' = <<>>
    /\ pipe' = Both(<<>>) /\ written' = Both(0) /\ sibling' = FALSE
    /\ accepted' = 0 /\ pos' = Both(0) /\ floor' = Both(0) /\ carried' = FALSE
    /\ UNCHANGED fds

(* wait finds that the process has exited: nothing is left of it, nor of   *)
(* what it wrote.                                                          *)
reap ==
    /\ ended
    /\ ppid_' = 0
    /\ destroy_all
    /\ close_fds
    /\ mode' = {} /\ child' = "none" /\ stuck' = NULL
    /\ stdin' = <<>> /\ received' = <<>>
    /\ pipe' = Both(<<>>) /\ written' = Both(0) /\ sibling' = FALSE
    /\ accepted' = 0 /\ pos' = Both(0) /\ floor' = Both(0) /\ carried' = FALSE

(* The caller reads the pipe of exec: nothing, an error number, or the     *)
(* read is interrupted.                                                    *)
open_file_returns ==
    /\ call = "open"
    /\ call' = "none"
    /\ \/ /\ child # "forked" /\ child # "failed"
          /\ create_buffers(mode, rsrc_, area)
          /\ failbit' = FALSE
          /\ UNCHANGED <<ppid_, fds, rbufstate_, rsrc_, error_, process, history>>
       \/ /\ child = "failed"
          /\ reap
          /\ error_' = TRUE /\ failbit' = TRUE
       \/ /\ child \in {"forked", "failed"}     \* interrupted
          /\ error_' = TRUE /\ failbit' = TRUE
          /\ UNCHANGED <<ppid_, fds, buffers, process, history>>
    /\ UNCHANGED opens

-----------------------------------------------------------------------------
(* Writing                                                                 *)

(* A buffer is no larger than what a pipe takes at once: all of it is      *)
(* written, or nothing because the child is gone, or because the caller    *)
(* was interrupted waiting for room.                                       *)
nothing == wbuffer_ \in {NULL, <<>>}
writable == ~nothing /\ wpipe_ /\ ~ended
room == Len(stdin) + Len(wbuffer_) <= PipeSize
writes == writable /\ room
blocked == writable /\ ~room

(* Mutant: the put area is not emptied.                                    *)
empty_buffer_keeping ==
    [to |-> IF writes THEN stdin \o wbuffer_ ELSE stdin,
     left |-> wbuffer_]

(* The pipe and the put area after empty_buffer, which succeeds iff        *)
(* something was written.                                                  *)
empty_buffer ==
    [to |-> IF writes THEN stdin \o wbuffer_ ELSE stdin,
     left |-> IF writes THEN <<>> ELSE wbuffer_]

unwritten == <<ppid_, fds, rbuffer_, area, rbufstate_, rsrc_, error_, call,
               failbit, opens, mode, child, stuck, received, pipe, written,
               sibling, pos, floor, carried>>

(* xsputn copies when there is room to spare, and is a loop of sputc else. *)
xsputn(n) ==
    /\ idle /\ wbuffer_ # NULL
    /\ n < bufsz - Len(wbuffer_) /\ accepted + n <= MaxIn
    /\ wbuffer_' = wbuffer_ \o [i \in 1..n |-> accepted + i]
    /\ accepted' = accepted + n
    /\ UNCHANGED <<stdin, unwritten>>

(* sputc on a full buffer; on one with room for it overflow is not called. *)
sputc ==
    /\ idle /\ wbuffer_ # NULL /\ Len(wbuffer_) < bufsz /\ accepted < MaxIn
    /\ wbuffer_' = Append(wbuffer_, accepted + 1)
    /\ accepted' = accepted + 1
    /\ UNCHANGED <<stdin, unwritten>>

overflow ==
    /\ idle /\ wbuffer_ # NULL /\ Len(wbuffer_) = bufsz /\ accepted < MaxIn
    /\ writes
    /\ stdin' = empty_buffer.to
    /\ wbuffer_' = Append(empty_buffer.left, accepted + 1)
    /\ accepted' = accepted + 1
    /\ UNCHANGED unwritten

(* sync, when it does anything: the process may be found to have exited.   *)
sync ==
    /\ idle
    /\ \/ /\ writes
          /\ stdin' = empty_buffer.to
          /\ wbuffer_' = empty_buffer.left
          /\ UNCHANGED <<accepted, unwritten>>
       \/ /\ is_open /\ reap
          /\ UNCHANGED <<error_, call, failbit, opens>>

(* peof: what could not be written is lost.                                *)
peof ==
    /\ idle /\ is_open
    /\ \/ /\ ~ended
          /\ stdin' = empty_buffer.to
          /\ wbuffer_' = NULL
          /\ wpipe_' = FALSE
          /\ UNCHANGED <<ppid_, rpipe_, rbuffer_, area, rbufstate_, rsrc_, mode,
                         child, stuck, received, pipe, written, sibling, history>>
       \/ reap
    /\ UNCHANGED <<error_, call, failbit, opens>>

-----------------------------------------------------------------------------
(* Reading                                                                 *)

unread == <<ppid_, fds, wbuffer_, error_, failbit, opens, mode, child, stuck,
            stdin, received, written, sibling, accepted, carried>>

(* Toggle the source, when its pipe is open.                               *)
read_err(src) ==
    /\ idle /\ rpipe_[src] /\ src # rsrc_
    /\ rsrc_' = src
    /\ area' = rbufstate_
    /\ rbufstate_' = area
    /\ UNCHANGED <<rbuffer_, pipe, pos, floor, call, unread>>

taken(n) == IF area.live THEN [pos EXCEPT ![rsrc_] = @ + n] ELSE pos

sbumpc ==
    /\ idle /\ area # NULL /\ area.gptr < area.egptr
    /\ area' = [area EXCEPT !.gptr = @ + 1]
    /\ pos' = taken(1)
    /\ UNCHANGED <<rbuffer_, rbufstate_, rsrc_, pipe, floor, call, unread>>

(* sungetc and sputbackc; pbackfail stores another character.              *)
pbackfail(other) ==
    /\ idle /\ area # NULL /\ area.gptr # area.eback
    /\ area' = [area EXCEPT !.gptr = @ - 1]
    /\ pos' = taken(-1)
    /\ rbuffer_' = IF other /\ area.live
                   THEN [rbuffer_ EXCEPT ![rsrc_][area.gptr - 1] = Other]
                   ELSE rbuffer_
    /\ UNCHANGED <<rbufstate_, rsrc_, pipe, floor, call, unread>>

least(a, b) == IF a < b THEN a ELSE b

(* Mutant: everything is kept.                                             *)
kept_all == IF area = NULL THEN 0 ELSE area.gptr - area.eback

(* Mutant: one character less is kept for putback.                         *)
kept_one_less ==
    IF area = NULL THEN 0 ELSE least(area.gptr - area.eback, pbsz - 1)

(* How many characters fill_buffer keeps for putback.                      *)
kept == IF area = NULL THEN 0 ELSE least(area.gptr - area.eback, pbsz)

(* Mutant: they are not moved.                                             *)
moved_not == rbuffer_[rsrc_]

(* The buffer after memmove.                                               *)
moved ==
    [i \in Index |->
        IF i \in (pbsz - kept)..(pbsz - 1)
        THEN IF area.live THEN rbuffer_[rsrc_][area.gptr - pbsz + i] ELSE Garbage
        ELSE rbuffer_[rsrc_][i]]

(* The buffer after read, and what is left in the pipe.                    *)
count == least(Len(pipe[rsrc_]), bufsz - pbsz)
filled == [i \in Index |-> IF i \in pbsz..(pbsz + count - 1)
                           THEN pipe[rsrc_][i - pbsz + 1]
                           ELSE moved[i]]

starved == area # NULL => area.gptr >= area.egptr

fill_buffer ==
    /\ rpipe_[rsrc_] /\ count > 0
    /\ rbuffer_' = [rbuffer_ EXCEPT ![rsrc_] = filled]
    /\ pipe' = [pipe EXCEPT ![rsrc_] = SubSeq(@, count + 1, Len(@))]
    /\ area' = [eback |-> pbsz - kept, gptr |-> pbsz, egptr |-> pbsz + count,
                live |-> TRUE]
    /\ UNCHANGED floor

(* End of file, an interrupted read, no descriptor, or no buffer: the get  *)
(* area is gone, and with it what could be put back.                       *)
fill_buffer_fails ==
    /\ \/ ~rpipe_[rsrc_] \/ count = 0
       \/ rbuffer_[rsrc_] = NULL
    /\ area' = NULL
    /\ rbuffer_' = IF rbuffer_[rsrc_] = NULL THEN rbuffer_
                   ELSE [rbuffer_ EXCEPT ![rsrc_] = moved]
    /\ floor' = [floor EXCEPT ![rsrc_] = pos[rsrc_]]
    /\ UNCHANGED pipe

(* underflow.  Freed characters moved to no buffer end the program.        *)
underflow ==
    /\ idle /\ starved
    /\ IF rbuffer_[rsrc_] = NULL /\ kept > 0
       THEN call' = "crashed" /\ UNCHANGED <<rbuffer_, pipe, area, floor>>
       ELSE /\ \/ rbuffer_[rsrc_] # NULL /\ fill_buffer
               \/ fill_buffer_fails
            /\ UNCHANGED call
    /\ UNCHANGED <<rbufstate_, rsrc_, pos, unread>>

-----------------------------------------------------------------------------
(* Ending                                                                  *)

(* exited; also what a call of wait without hanging does.                  *)
exited ==
    /\ idle /\ is_open
    /\ reap
    /\ UNCHANGED <<error_, call, failbit, opens>>

kill ==
    /\ idle /\ is_open /\ child = "running"
    /\ child' = "zombie" /\ stuck' = NULL
    /\ UNCHANGED <<ppid_, fds, buffers, error_, call, failbit, opens, mode, stdin,
                   received, pipe, written, sibling, history>>

close ==
    /\ idle /\ is_open
    /\ call' = "close"
    /\ UNCHANGED <<ppid_, fds, buffers, error_, failbit, opens, process, history>>

(* Mutant: wait is left to destroy the buffers and to close the pipes.     *)
close_pipes_late ==
    /\ call = "close"
    /\ \/ /\ ~ended /\ ~blocked
          /\ stdin' = empty_buffer.to
          /\ wbuffer_' = empty_buffer.left
          /\ call' = "wait"
          /\ UNCHANGED <<ppid_, fds, rbuffer_, area, rbufstate_, rsrc_, failbit, mode,
                         child, stuck, received, pipe, written, sibling, history>>
       \/ /\ reap
          /\ call' = "none" /\ failbit' = TRUE
    /\ UNCHANGED <<error_, opens>>

(* sync, destroy_buffers and the pipes.  When sync finds that the process  *)
(* has exited there is no process left to wait for, and NULL is returned.  *)
close_pipes ==
    /\ call = "close"
    /\ \/ /\ ~ended /\ ~blocked
          /\ stdin' = empty_buffer.to
          /\ destroy_all
          /\ close_fds
          /\ call' = "wait"
          /\ UNCHANGED <<ppid_, failbit, mode, child, stuck, received, pipe, written,
                         sibling, history>>
       \/ /\ reap
          /\ call' = "none" /\ failbit' = TRUE
    /\ UNCHANGED <<error_, opens>>

close_interrupted ==
    /\ call = "close" /\ blocked
    /\ destroy_all
    /\ close_fds
    /\ call' = "wait"
    /\ UNCHANGED <<ppid_, error_, failbit, opens, process, history>>

wait ==
    /\ call = "wait"
    /\ reap
    /\ call' = "none" /\ failbit' = FALSE
    /\ UNCHANGED <<error_, opens>>

(* waitpid fails: the process stays, without its pipes.                    *)
wait_interrupted ==
    /\ call = "wait" /\ ~ended
    /\ call' = "none" /\ failbit' = TRUE /\ error_' = TRUE
    /\ UNCHANGED <<ppid_, fds, buffers, opens, process, history>>

-----------------------------------------------------------------------------
(* The child                                                               *)

parent == <<ppid_, fds, buffers, error_, call, failbit, opens, mode, history>>

child_reads ==
    /\ child = "running" /\ stuck = NULL /\ stdin # <<>>
    /\ received' = Append(received, Head(stdin))
    /\ stdin' = Tail(stdin)
    /\ UNCHANGED <<parent, child, stuck, pipe, written, sibling>>

(* It writes, or is blocked in writing, or gets SIGPIPE.                   *)
child_writes(s) ==
    /\ child = "running" /\ s \in mode /\ written[s] < MaxOut
    /\ stuck \in {NULL, s}
    /\ IF ~rpipe_[s] /\ ~sibling
       THEN child' = "zombie" /\ stuck' = NULL /\ UNCHANGED <<pipe, written>>
       ELSE IF Len(pipe[s]) < PipeSize
       THEN /\ pipe' = [pipe EXCEPT ![s] = Append(@, written[s] + 1)]
            /\ written' = [written EXCEPT ![s] = @ + 1]
            /\ stuck' = NULL
            /\ UNCHANGED child
       ELSE stuck' = s /\ UNCHANGED <<child, pipe, written>>
    /\ UNCHANGED <<parent, stdin, received, sibling>>

child_exits ==
    /\ child = "running" /\ stuck = NULL
    /\ child' = "zombie"
    /\ UNCHANGED <<parent, stuck, stdin, received, pipe, written, sibling>>

at_eof == "in" \in mode /\ stdin = <<>> /\ ~wpipe_ /\ ~sibling

(* Another child of the program, while the pipes are open.                 *)
fork_elsewhere ==
    /\ is_open /\ ~sibling
    /\ wpipe_ \/ \E s \in Src : rpipe_[s]
    /\ sibling' = TRUE
    /\ UNCHANGED <<parent, child, stuck, stdin, received, pipe, written>>

sibling_exits ==
    /\ sibling
    /\ sibling' = FALSE
    /\ UNCHANGED <<parent, child, stuck, stdin, received, pipe, written>>

-----------------------------------------------------------------------------
Caller == \/ \E m \in Modes : open(m) \/ open_file(m)
          \/ open_file_returns
          \/ \E n \in 1..bufsz : xsputn(n)
          \/ sputc \/ overflow \/ sync \/ peof
          \/ \E src \in Src : read_err(src)
          \/ sbumpc \/ \E other \in BOOLEAN : pbackfail(other)
          \/ underflow
          \/ exited \/ kill \/ close
          \/ close_interrupted \/ wait_interrupted
Closing == close_pipes \/ wait
Child == \/ exec \/ child_reads \/ child_exits
         \/ \E s \in Src : child_writes(s)
Elsewhere == fork_elsewhere \/ sibling_exits

Next == Caller \/ Closing \/ Child \/ Elsewhere

(* close() goes on when it can.  The child is a filter: it reads its       *)
(* input, a write that blocked is completed or ends it, and it exits at    *)
(* the end of its input.                                                   *)
Fairness ==
    /\ WF_vars(Closing)
    /\ WF_vars(exec)
    /\ WF_vars(child_reads)
    /\ WF_vars(stuck # NULL /\ \E s \in Src : child_writes(s))
    /\ WF_vars(at_eof /\ child_exits)

Spec == Init /\ [][Next]_vars /\ Fairness

-----------------------------------------------------------------------------
(* When there is no process, nothing of one is left: no descriptor, no     *)
(* buffer, no child that nobody waits for, whichever call failed and       *)
(* whatever was interrupted (pstream.h:1127-1145, 1283-1304, 1399-1428).   *)
ClosedIsClean ==
    IF is_open THEN child # "none"
    ELSE /\ child = "none"
         /\ ~wpipe_ /\ rpipe_ = Both(FALSE)
         /\ wbuffer_ = NULL /\ rbuffer_ = Both(NULL) /\ area = NULL

numbers(n) == [i \in 1..n |-> i]

(* The child is given the characters in the order they were put, each of   *)
(* them once, and none is missing before the last it has been given; while *)
(* the pipe is open none is missing at all (pstream.h:1552-1615).          *)
InputInOrder ==
    /\ received \o stdin = numbers(Len(received) + Len(stdin))
    /\ Len(received) + Len(stdin) <= accepted
    /\ wpipe_ => received \o stdin \o (IF wbuffer_ = NULL THEN <<>> ELSE wbuffer_)
                    = numbers(accepted)

get_area(s) == IF s = rsrc_ THEN area ELSE rbufstate_

(* Whatever is read, put back and read again from two sources in turn, no  *)
(* character of the child is lost or read twice: those taken, those in the *)
(* buffer and those in the pipe are the ones it has written, in order.     *)
(* Not so for a process started with a get area saved from the one before  *)
(* (pstream.h:1372-1385, 1622-1650, 1673-1699).                            *)
OutputInOrder ==
    \A s \in Src : idle /\ rpipe_[s] /\ ~carried =>
        LET a == get_area(s)
            ready == IF a = NULL THEN 0 ELSE a.egptr - a.gptr
        IN /\ pos[s] + ready + Len(pipe[s]) = written[s]
           /\ \A i \in 0..(ready - 1) :
                  rbuffer_[s][a.gptr + i] \in {pos[s] + 1 + i, Other}

(* A refill keeps what was taken since the last end of file, up to pbsz    *)
(* characters, so that it can be put back (pstream.h:95: "Number of        *)
(* putback characters kept"), also when the source was changed in between. *)
(* The refill put the first new character at pbsz.                         *)
PutbackKept ==
    \A s \in Src : idle /\ rpipe_[s] /\ ~carried /\ get_area(s) # NULL =>
        LET a == get_area(s)
            takenBefore == pos[s] + (pbsz - a.gptr) - floor[s]
        IN pbsz - a.eback >= least(takenBefore, pbsz)

(* The pipes the child writes to, and what is unread in them, go away only *)
(* when it has ended or the stream is being closed (pstream.h:1295, 1420). *)
OutputDroppedAtTheEnd ==
    [][\A s \in Src : rpipe_[s] /\ ~rpipe_'[s] => ended \/ call = "close"]_vars

(* close() of a stream that writes to a filter comes back: the child gets  *)
(* its end of file, unless another child holds the pipe as well, or the    *)
(* child is blocked in writing while close() is blocked in writing to it   *)
(* (pstream.h:1294: "close pipes before wait() so child gets EOF/SIGPIPE").*)
jammed == call = "close" /\ blocked /\ stuck # NULL
CloseComesBack ==
    (call \in {"close", "wait"} /\ "in" \in mode)
        ~> (call = "none" \/ sibling \/ jammed)
=============================================================================
