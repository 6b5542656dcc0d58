--------------------------- MODULE ReconcileLoop ---------------------------
(***************************************************************************)
(* What makes the daemon reconcile, and how it ends                        *)
(* (src/src/bin/ghaf-device-manager.rs): the udev monitor task turns       *)
(* kernel events into messages on a bounded channel, the reconcile task    *)
(* waits for one of them or for its timer, and main waits for a signal,    *)
(* for the API server or for the end of the reconcile task, before it      *)
(* hands the host driver gate back.                                        *)
(*                                                                         *)
(* The monitor's socket is edge triggered: tokio's readiness is set when   *)
(* an event arrives, and clear_ready clears it only if none has arrived    *)
(* since the guard was made.  A pass stands for reconcile(): its first     *)
(* scan, and its end with success, a deferral or a failure.  Time is       *)
(* abstract: the delay is the retry or the safety interval, and either     *)
(* timer may fire at any moment.                                           *)
(***************************************************************************)
EXTENDS Integers, Sequences

CONSTANTS
    Capacity,         \* of the channel
    AttachConnected,  \* the option -a: reconcile before anything else
    Faults,           \* what may go wrong: see FaultKinds
    MaxQueue          \* bound on the events waiting in the socket

FaultKinds == {"listen", "monitor", "pass", "api"}

ASSUME ConstantsAssumption ==
    /\ Capacity \in Nat \ {0} /\ MaxQueue \in Nat
    /\ AttachConnected \in BOOLEAN /\ Faults \subseteq FaultKinds

VARIABLES
    queue,     \* events in the monitor socket: is it about usb or pci?
    ready,     \* AsyncFd's readiness
    fresh,     \* an event arrived since the monitor's guard was made
    mon,       \* the monitor task
    found,     \* it read a relevant event
    chan,      \* messages in the channel
    loop,      \* the reconcile task
    delay,     \* its next sleep
    deferred,  \* DeviceManager::deferred
    left,      \* the last pass left something undone
    unseen,    \* a relevant event arrived since the last pass began
    main,      \* the main task
    signal     \* SIGTERM or SIGINT arrived

monVars  == <<queue, ready, fresh, mon, found>>
loopVars == <<loop, delay, deferred, left>>
vars == <<monVars, chan, loopVars, unseen, main, signal>>

MonPcs  == {"off", "wait", "read", "clear", "send", "dead"}
LoopPcs == {"off", "select", "drain", "scan", "pass", "done"}
MainPcs == {"boot", "scan", "pass", "serve", "abort", "gate", "exit"}

\* Everything ends with the process.
Alive == main # "exit"

---------------------------------------------------------------------------
(* The kernel, the user and the API clients.                               *)

\* Only a subscribed socket keeps the event.
Arrive(relevant) ==
    /\ Alive /\ Len(queue) < MaxQueue
    /\ IF mon \in {"off", "dead"} THEN UNCHANGED <<queue, ready, fresh>>
       ELSE /\ queue' = Append(queue, relevant)
            /\ ready' = TRUE /\ fresh' = TRUE
    /\ unseen' = (unseen \/ relevant)
    /\ UNCHANGED <<mon, found, chan, loopVars, main, signal>>

Signal ==
    /\ Alive /\ ~signal /\ signal' = TRUE
    /\ UNCHANGED <<monVars, chan, loopVars, unseen, main>>

\* A resume request of a client finds its VM stopped.
ApiDefers ==
    /\ main = "serve" /\ ~deferred /\ deferred' = TRUE
    /\ UNCHANGED <<monVars, chan, loop, delay, left, unseen, main, signal>>

---------------------------------------------------------------------------
(* The monitor task.                                                       *)

Monitor(pc) == /\ Alive /\ mon = pc
               /\ UNCHANGED <<loopVars, unseen, main, signal>>

MonWake ==
    /\ Monitor("wait") /\ ready
    /\ mon' = "read" /\ fresh' = FALSE
    /\ UNCHANGED <<queue, ready, found, chan>>

\* any() stops at the first relevant event and leaves the others unread.
MonRead ==
    /\ Monitor("read")
    /\ mon' = "clear"
    /\ \/ \E n \in 1..Len(queue) :
             /\ queue[n] /\ \A k \in 1..(n - 1) : ~queue[k]
             /\ queue' = SubSeq(queue, n + 1, Len(queue))
             /\ found' = TRUE
       \/ /\ \A k \in 1..Len(queue) : ~queue[k]
          /\ queue' = <<>> /\ found' = FALSE
    /\ UNCHANGED <<ready, fresh, chan>>

MonClear ==
    /\ Monitor("clear")
    /\ ready' = fresh
    /\ mon' = IF found THEN "send" ELSE "wait"
    /\ UNCHANGED <<queue, fresh, found, chan>>

\* The channel holds the monitor back when it is full.
F_MonSend ==             \* without a bound
    /\ Monitor("send") /\ chan' = chan + 1 /\ mon' = "wait"
    /\ UNCHANGED <<queue, ready, fresh, found>>
MonSend ==
    /\ Monitor("send")
    /\ \/ /\ loop # "done" /\ chan < Capacity
          /\ chan' = chan + 1 /\ mon' = "wait"
       \/ loop = "done" /\ mon' = "dead" /\ UNCHANGED chan
    /\ UNCHANGED <<queue, ready, fresh, found>>

\* The socket errs, the task ends, and the sender goes with it.
MonDies ==
    /\ Monitor("wait") /\ "monitor" \in Faults
    /\ mon' = "dead"
    /\ UNCHANGED <<queue, ready, fresh, found, chan>>

---------------------------------------------------------------------------
(* The reconcile task.                                                     *)

Loop(pc) == /\ Alive /\ loop = pc
            /\ UNCHANGED <<monVars, main, signal>>

\* An aborted task does not get past an await.
Selecting == Loop("select") /\ main # "abort"

LoopRecv ==
    /\ Selecting /\ chan > 0
    /\ chan' = chan - 1 /\ loop' = "drain"
    /\ UNCHANGED <<delay, deferred, left, unseen>>

LoopClosed ==
    /\ Selecting /\ chan = 0 /\ mon = "dead"
    /\ loop' = "done"
    /\ UNCHANGED <<chan, delay, deferred, left, unseen>>

\* The timer is new in every select!, so a message that is there, or the end of
\* the channel, comes first.  (A timer that has run out before the message came
\* but whose task is polled after it: the message arrives at "drain".)
LoopSleep ==
    /\ Selecting /\ chan = 0 /\ mon # "dead"
    /\ loop' = "drain"
    /\ UNCHANGED <<chan, delay, deferred, left, unseen>>

LoopDrain ==
    /\ Loop("drain")
    /\ chan' = 0 /\ loop' = "scan"
    /\ UNCHANGED <<delay, deferred, left, unseen>>

\* A pass begins: deferred is reset, and the devices are scanned.
Scan == deferred' = FALSE /\ unseen' = FALSE

\* A pass ends: whether it succeeded, and whether it put something off.
Delay(ok, off) == IF ok /\ ~off THEN "safety" ELSE "retry"

PassEnds ==
    \E ok, off \in BOOLEAN :
       /\ deferred' = (deferred \/ off)
       /\ left' = (~ok \/ off)
       /\ delay' = Delay(ok, deferred')

LoopScan ==
    /\ Loop("scan") /\ Scan
    /\ loop' = "pass"
    /\ UNCHANGED <<chan, delay, left>>

F_LoopPass ==            \* the channel is drained after the pass as well
    /\ Loop("pass") /\ PassEnds
    /\ loop' = "select" /\ chan' = 0
    /\ UNCHANGED unseen
LoopPass ==
    /\ Loop("pass") /\ PassEnds
    /\ loop' = "select"
    /\ UNCHANGED <<chan, unseen>>

LoopPanics ==
    /\ Loop("pass") /\ "pass" \in Faults
    /\ loop' = "done"
    /\ UNCHANGED <<chan, delay, deferred, left, unseen>>

---------------------------------------------------------------------------
(* The main task.                                                          *)

MainStep(pc) == /\ main = pc
                /\ UNCHANGED <<queue, ready, fresh, found, chan, signal>>

Serving == loop' = "select" /\ main' = "serve"

\* The monitor subscribes before the first scan.
MainBoot ==
    /\ MainStep("boot")
    /\ \/ /\ mon' = "wait" /\ delay' = "retry"
          /\ IF AttachConnected THEN main' = "scan" /\ loop' = "off" ELSE Serving
       \/ /\ "listen" \in Faults
          /\ main' = "gate" /\ UNCHANGED <<mon, delay, loop>>
    /\ UNCHANGED <<deferred, left, unseen>>

MainScan ==
    /\ MainStep("scan") /\ Scan
    /\ main' = "pass"
    /\ UNCHANGED <<mon, loop, delay, left>>

MainPass ==
    /\ MainStep("pass") /\ PassEnds
    /\ Serving
    /\ UNCHANGED <<mon, unseen>>

\* select! over the API server, the reconcile task and the signal.  The task is
\* aborted at its next await; a pass may be cut anywhere.
Serves(ends) ==
    /\ MainStep("serve") /\ ends
    /\ main' = "abort"
    /\ UNCHANGED <<mon, loopVars, unseen>>

F_StopsDeaf  == signal          \* the end of the task goes unnoticed
F_StopsAsked == loop = "done"   \* no signal handler
Stops == signal \/ loop = "done"

MainStops == Serves(Stops)

\* The API server fails.
ApiEnds == Serves("api" \in Faults)

Cancelled ==
    /\ MainStep("abort") /\ loop \in {"select", "pass"}
    /\ loop' = "done"
    /\ UNCHANGED <<mon, main, delay, deferred, left, unseen>>

\* The end of the task is awaited, then open_usb_gate runs.
F_Awaited == TRUE
Awaited == loop = "done"

MainGate ==
    /\ MainStep("abort") /\ Awaited
    /\ main' = "gate"
    /\ UNCHANGED <<mon, loopVars, unseen>>

MainExit ==
    /\ MainStep("gate")
    /\ main' = "exit"
    /\ UNCHANGED <<mon, loopVars, unseen>>

---------------------------------------------------------------------------

Init ==
    /\ queue = <<>> /\ ready = FALSE /\ fresh = FALSE
    /\ mon = "off" /\ found = FALSE /\ chan = 0
    /\ loop = "off" /\ delay = "retry" /\ deferred = FALSE /\ left = TRUE
    /\ unseen = TRUE
    /\ main = "boot" /\ signal = FALSE

MonNext  == MonWake \/ MonRead \/ MonClear \/ MonSend
LoopNext == LoopRecv \/ LoopClosed \/ LoopDrain \/ LoopScan \/ LoopPass \/ Cancelled
MainNext == MainBoot \/ MainScan \/ MainPass \/ MainStops \/ MainGate \/ MainExit

Next == \/ \E relevant \in BOOLEAN : Arrive(relevant)
        \/ Signal \/ ApiDefers \/ MonDies \/ LoopSleep \/ LoopPanics
        \/ MonNext \/ LoopNext \/ MainNext \/ ApiEnds

Spec == Init /\ [][Next]_vars

\* Every task that can run does: a pass ends because each of its commands has
\* a timeout, and main notices a signal and the end of the reconcile task.
\* The timers are given no fairness, so what is shown is owed to the events.
FairSpec ==
    /\ Spec
    /\ WF_vars(MonWake) /\ WF_vars(MonRead) /\ WF_vars(MonClear) /\ WF_vars(MonSend)
    /\ WF_vars(LoopNext) /\ WF_vars(MainNext)

---------------------------------------------------------------------------
(* Properties.                                                             *)

\* The types of the state.
TypeOK ==
    /\ queue \in Seq(BOOLEAN) /\ ready \in BOOLEAN /\ fresh \in BOOLEAN
    /\ mon \in MonPcs /\ found \in BOOLEAN /\ chan \in 0..Capacity
    /\ loop \in LoopPcs /\ delay \in {"retry", "safety"}
    /\ deferred \in BOOLEAN /\ left \in BOOLEAN /\ unseen \in BOOLEAN
    /\ main \in MainPcs /\ signal \in BOOLEAN

\* The word of an event is on its way to the reconcile task: the monitor is
\* about to read it or to send, or the channel has a message.
OnItsWay ==
    \/ chan > 0
    \/ mon = "send"
    \/ mon = "clear" /\ (found \/ fresh)
    \/ mon = "read"
    \/ mon = "wait" /\ ready
    \/ mon = "dead"

\* While the reconcile task sleeps for the 30 seconds of the safety interval,
\* no event waits behind it (a udev event that came before, during or after
\* the last pass, unread in a full socket or behind a full channel), and the
\* last pass left nothing undone that a retry in two seconds would pick up.
NothingWaits ==
    loop = "select" /\ delay = "safety" => (unseen => OnItsWay) /\ ~left

\* "Awaited so no reconcile outlives the gate reopen".
GateComesLast == main \in {"gate", "exit"} => loop \in {"off", "done"}

\* An event is answered with a pass even if no timer ever fires, and even if
\* the monitor left it unread behind another one, unless the daemon stops.
EventsAnswered ==
    (unseen /\ loop = "select" /\ delay = "safety") ~> (~unseen \/ main = "exit")

\* After a signal, and when the monitor or the reconcile task has died, the
\* daemon stops and reopens the gate: it never runs on deaf to devices.
StopsWhenAsked == signal ~> main = "exit"
StopsWhenDeaf  == (mon = "dead" \/ loop = "done") ~> main = "exit"
=============================================================================
