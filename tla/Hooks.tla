--------------------------------- MODULE Hooks ---------------------------------
(***************************************************************************)
(* coroutine/hook.cpp: what the overridden socket, accept, close, fcntl,   *)
(* connect and setsockopt keep about a descriptor (its FdContext) and what *)
(* the kernel knows about the open file behind it.  The hooks make every   *)
(* file non-blocking and remember whether the program asked for that.      *)
(* FdEvents models the calls that wait; here a call is one step, except    *)
(* connect and a read that waits.  No two tasks use a descriptor at once.  *)
(***************************************************************************)
EXTENDS Integers, FiniteSets

CONSTANTS
    Numbers,        \* descriptor numbers, reused by the kernel
    Files,      \* open file descriptions of the kernel
    Polls,      \* how often connect polls, 3
    Habits,     \* what the program does beyond the cases the hooks handle
    Closed

ASSUME HooksAssumption ==
    /\ Closed \notin Numbers \cup Files
    /\ Polls \in Nat
    \* sockets made before start(), connections accepted before it, hooked sockets
    \* made with SOCK_NONBLOCK, O_NONBLOCK taken back, flags set to what was read
    \* and one more, a hooked file duplicated
    /\ Habits \subseteq {"early", "early_accept", "typed", "clear", "getset", "dup"}

VARIABLES
    running,    \* m_running of the scheduler; nothing changes hook_enable
    flag,        \* g_contexts: no entry, O_NONBLOCK not in its m_flag, or in it
    file,       \* kernel: the file of a descriptor, Closed if it is not open
    nonb,       \* kernel: files with O_NONBLOCK
    conn,       \* kernel: each file's connection
    timed,      \* kernel: files with a SO_RCVTIMEO
    asked,      \* history: files for which the program last asked O_NONBLOCK
    call,       \* each descriptor: the call that a task has not returned from
    polls,      \* connect: polls that ended without an event
    said        \* connect: what it told the program

kernel == <<file, nonb, conn, timed>>
calls == <<call, polls, said>>
hookvars == <<running, flag, kernel, asked, calls>>

HookInit ==
    /\ running = FALSE
    /\ flag = [f \in Numbers |-> "none"]
    /\ file = [f \in Numbers |-> Closed]
    /\ nonb = {} /\ conn = [h \in Files |-> "idle"] /\ timed = {}
    /\ asked = {}
    /\ call = [f \in Numbers |-> "none"] /\ polls = [f \in Numbers |-> 0]
    /\ said = [f \in Numbers |-> "nothing"]

Disabled == ~running
Unused(h) == \A f \in Numbers : file[f] # h
Idle(f) == file[f] # Closed /\ call[f] = "none"

\* do_hook passes a call on f straight to the kernel.
Direct(f) == Disabled \/ flag[f] \in {"none", "nonblock"}

Start == running' = TRUE /\ UNCHANGED <<flag, kernel, asked, calls>>

\* The kernel opens a file for f, non-blocking if the program wants it so, and the
\* hook makes it its own, with an m_flag of 0 all the same, or does not.
Open(f, h, hooked, want, c) ==
    /\ file[f] = Closed /\ Unused(h)
    /\ file' = [file EXCEPT ![f] = h]
    /\ nonb' = IF hooked \/ want THEN nonb \cup {h} ELSE nonb \ {h}
    /\ asked' = IF want THEN asked \cup {h} ELSE asked \ {h}
    /\ flag' = [flag EXCEPT ![f] = IF hooked THEN "wait" ELSE @]
    /\ conn' = [conn EXCEPT ![h] = c]
    /\ timed' = timed \ {h}
    /\ UNCHANGED <<running, calls>>

\* socket, with SOCK_NONBLOCK in its type or without.
NewSocket(f, h, want) ==
    /\ running \/ "early" \in Habits
    /\ want => Disabled \/ "typed" \in Habits
    /\ Open(f, h, ~Disabled, want, "idle")

\* accept hooks the new descriptor whether the hooks are enabled or not.
Accept(f, g, h) ==
    (running \/ "early_accept" \in Habits) /\ Idle(f) /\ Open(g, h, TRUE, FALSE, "up")

\* A variant that leaves the context in g_contexts.
CloseKeeps(f) ==
    /\ Idle(f)
    /\ file' = [file EXCEPT ![f] = Closed]
    /\ said' = [said EXCEPT ![f] = "nothing"]
    /\ UNCHANGED <<running, flag, nonb, conn, timed, asked, call, polls>>

Close(f) ==
    /\ Idle(f)
    /\ file' = [file EXCEPT ![f] = Closed]
    /\ flag' = [flag EXCEPT ![f] = IF Disabled THEN @ ELSE "none"]
    /\ said' = [said EXCEPT ![f] = "nothing"]
    /\ UNCHANGED <<running, nonb, conn, timed, asked, call, polls>>
-----------------------------------------------------------------------------
(* fcntl *)

\* F_DUPFD: a second descriptor of the file, of which the hooks know nothing.
Dup(f, g) ==
    /\ Idle(f) /\ file[g] = Closed
    /\ "dup" \in Habits \/ flag[f] = "none" \/ file[f] \in asked
    /\ file' = [file EXCEPT ![g] = file[f]]
    /\ UNCHANGED <<running, flag, nonb, conn, timed, asked, calls>>

\* F_SETFL with or without O_NONBLOCK.  On a hooked descriptor the kernel is
\* always given it; addFlag sets it in m_flag and clears nothing.
SetFl(f, want) ==
    LET passed == Disabled \/ flag[f] = "none" IN
    /\ Idle(f)
    /\ want \/ passed \/ "clear" \in Habits
    /\ asked' = IF want THEN asked \cup {file[f]} ELSE asked \ {file[f]}
    /\ nonb' = IF want \/ ~passed THEN nonb \cup {file[f]} ELSE nonb \ {file[f]}
    /\ flag' = [flag EXCEPT ![f] = IF want /\ ~passed THEN "nonblock" ELSE @]
    /\ UNCHANGED <<running, file, conn, timed, calls>>

\* F_SETFL with what F_GETFL answered and some other flag, on a hooked file: an
\* O_NONBLOCK that the hooks gave the kernel goes into m_flag.
SetAnotherFlag(f) ==
    /\ Idle(f) /\ ~Disabled /\ flag[f] # "none"
    /\ "getset" \in Habits \/ file[f] \in asked
    /\ flag' = [flag EXCEPT ![f] = IF file[f] \in nonb THEN "nonblock" ELSE @]
    /\ nonb' = nonb \cup {file[f]}
    /\ UNCHANGED <<running, file, conn, timed, asked, calls>>
-----------------------------------------------------------------------------
(* connect *)

Tell(f, what) == said' = [said EXCEPT ![f] = what]
Done(f) == call' = [call EXCEPT ![f] = "none"] /\ polls' = [polls EXCEPT ![f] = 0]

\* connect_fn: the connection is made or refused at once, or takes its time.
Connect(f) ==
    /\ Idle(f) /\ conn[file[f]] = "idle"
    /\ \E c \in {"up", "refused", "pending"} : conn' = [conn EXCEPT ![file[f]] = c]
    /\ \/ conn'[file[f]] = "up" /\ Tell(f, "ok") /\ UNCHANGED call
       \/ conn'[file[f]] = "refused" /\ Tell(f, "refused") /\ UNCHANGED call
       \/ /\ conn'[file[f]] = "pending"
          /\ IF Direct(f) /\ file[f] \in nonb
             THEN Tell(f, "in progress") /\ UNCHANGED call
             ELSE /\ call' = [call EXCEPT ![f] = IF file[f] \in nonb THEN "poll" ELSE "kernel"]
                  /\ UNCHANGED said
    /\ UNCHANGED <<running, flag, file, nonb, timed, asked, polls>>

\* The other side answers.
Answer(h) ==
    /\ conn[h] = "pending"
    /\ \E c \in {"up", "refused"} : conn' = [conn EXCEPT ![h] = c]
    /\ UNCHANGED <<running, flag, file, nonb, timed, asked, calls>>

\* A connect of a blocking file returns from the kernel.
KernelConnected(f) ==
    /\ call[f] = "kernel" /\ conn[file[f]] # "pending"
    /\ Tell(f, IF conn[file[f]] = "up" THEN "ok" ELSE "refused")
    /\ Done(f)
    /\ UNCHANGED <<running, flag, kernel, asked>>

\* A variant: success after the loop, whatever it saw.
PollsOverOk(f) ==
    /\ call[f] = "poll" /\ polls[f] = Polls
    /\ Tell(f, "ok") /\ Done(f)
    /\ UNCHANGED <<running, flag, kernel, asked>>

\* poll returns after its time without an event.
PollNothing(f) ==
    /\ call[f] = "poll" /\ conn[file[f]] = "pending" /\ polls[f] < Polls
    /\ polls' = [polls EXCEPT ![f] = @ + 1]
    /\ UNCHANGED <<running, flag, kernel, asked, call, said>>

\* poll returns an event; Linux reports POLLOUT for a refused connection too.
PollEvent(f) ==
    /\ call[f] = "poll" /\ conn[file[f]] # "pending" /\ polls[f] < Polls
    /\ Tell(f, "ok") /\ Done(f)
    /\ UNCHANGED <<running, flag, kernel, asked>>

\* After the last poll SO_ERROR is read: the answer may have come by then.
PollsOver(f) ==
    /\ call[f] = "poll" /\ polls[f] = Polls
    /\ Tell(f, IF conn[file[f]] = "refused" THEN "refused" ELSE "timed out")
    /\ Done(f)
    /\ UNCHANGED <<running, flag, kernel, asked>>
-----------------------------------------------------------------------------
(* setsockopt(SO_RCVTIMEO), and a read that has to wait for data *)

\* The kernel is told; the copy in the FdContext is read by nothing.
SetRecvTimeOut(f) ==
    /\ Idle(f)
    /\ timed' = timed \cup {file[f]}
    /\ UNCHANGED <<running, flag, file, nonb, conn, asked, calls>>

\* The wait is the kernel's, or the one of a suspended task.
Read(f) ==
    /\ Idle(f) /\ conn[file[f]] = "up"
    /\ ~Direct(f) \/ file[f] \notin nonb
    /\ call' = [call EXCEPT ![f] = IF Direct(f) THEN "kernel read" ELSE "read"]
    /\ UNCHANGED <<running, flag, kernel, asked, polls, said>>

ReadData(f) ==
    /\ call[f] \in {"read", "kernel read"} /\ Done(f)
    /\ UNCHANGED <<running, flag, kernel, asked, said>>

KernelTimeOut(f) ==
    /\ call[f] = "kernel read" /\ file[f] \in timed /\ Done(f)
    /\ UNCHANGED <<running, flag, kernel, asked, said>>
-----------------------------------------------------------------------------
HookNext ==
    \/ Start
    \/ \E h \in Files : Answer(h)
    \/ \E f \in Numbers, h \in Files :
        \/ \E want \in BOOLEAN : NewSocket(f, h, want)
        \/ \E g \in Numbers : Accept(f, g, h)
    \/ \E f, g \in Numbers : Dup(f, g)
    \/ \E f \in Numbers, want \in BOOLEAN : SetFl(f, want)
    \/ \E f \in Numbers :
        \/ Close(f) \/ SetAnotherFlag(f)
        \/ Connect(f) \/ KernelConnected(f) \/ PollNothing(f) \/ PollEvent(f) \/ PollsOver(f)
        \/ SetRecvTimeOut(f) \/ Read(f) \/ ReadData(f) \/ KernelTimeOut(f)

HookSpec == HookInit /\ [][HookNext]_hookvars

\* The kernel ends what it has to end.
FairSpec == HookSpec /\ \A f \in Numbers : WF_hookvars(KernelTimeOut(f))
-----------------------------------------------------------------------------
\* The next call on a descriptor does what the program asked for, whatever the
\* hooks did behind its back, also when the number had another file before: one
\* that goes straight to the kernel returns at once exactly if the program wants
\* that, one that suspends the task finds a file that cannot block the thread,
\* and does not suspend a program that wants no waiting.
CallsAsAsked ==
    \A f \in Numbers : file[f] # Closed =>
        IF Direct(f) THEN file[f] \in nonb <=> file[f] \in asked
                     ELSE file[f] \in nonb \ asked

\* connect reports success only after the other side has answered.
ConnectNotEarly ==
    \A f \in Numbers : said[f] = "ok" => conn[file[f]] \in {"up", "refused"}

\* connect returns 0 when the connection is made ("connect succ", hook.cpp:212).
ConnectTells == \A f \in Numbers : said[f] = "ok" => conn[file[f]] = "up"

\* A read of a socket with a receive timeout ends (hook.cpp:335-336 keeps the
\* timeout for the hooked read).
TimedReadEnds ==
    \A f \in Numbers : (call[f] \in {"read", "kernel read"} /\ file[f] \in timed) ~> call[f] = "none"
=============================================================================
