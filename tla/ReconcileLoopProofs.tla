------------------------- MODULE ReconcileLoopProofs -------------------------
(***************************************************************************)
(* No event is left to the safety interval, and no reconcile outlives the  *)
(* reopening of the gate, for any channel capacity, any number of events   *)
(* in the socket, and whatever fails.                                      *)
(***************************************************************************)
EXTENDS ReconcileLoop, TLAPS

\* A relevant event is unread, and the monitor is going to look.
InSocket ==
    /\ \E k \in 1..Len(queue) : queue[k]
    /\ \/ mon = "read"
       \/ mon = "wait" /\ ready
       \/ mon = "clear" /\ fresh

\* The monitor has read one, or the channel has its message.
Heard == chan > 0 \/ mon = "send" \/ (mon = "clear" /\ found)

Reached == mon = "dead" \/ Heard \/ InSocket

\* From the start of a pass until the channel is drained again, whatever
\* came since is on its way, or the retry timer is running.
Covered ==
    unseen /\ (loop \in {"pass", "select"} \/ main = "pass")
    => Reached \/ (loop = "select" /\ delay = "retry")

\* What runs at which stage of the main task.
Stages ==
    /\ main \in {"boot", "scan", "pass"} => loop = "off"
    /\ mon = "off" => main \in {"boot", "gate", "exit"} /\ loop = "off"
    /\ main = "boot" => mon = "off" /\ chan = 0

\* The safety interval follows only a pass that left nothing.
Settled == delay = "safety" => ~left

IInv == TypeOK /\ Covered /\ Stages /\ Settled /\ GateComesLast

LEMMA InitIInv == Init => IInv
<1> SUFFICES ASSUME Init PROVE IInv
  OBVIOUS
<1>1. queue \in Seq(BOOLEAN)
  BY DEF Init
<1>2. TypeOK
  <2>1. chan \in 0..Capacity
    BY ConstantsAssumption DEF ConstantsAssumption, Init
  <2>2. /\ ready \in BOOLEAN /\ fresh \in BOOLEAN /\ found \in BOOLEAN
        /\ deferred \in BOOLEAN /\ left \in BOOLEAN /\ unseen \in BOOLEAN
        /\ signal \in BOOLEAN
    BY Zenon DEF Init
  <2>3. mon \in MonPcs /\ loop \in LoopPcs /\ delay \in {"retry", "safety"} /\ main \in MainPcs
    BY DEF Init, MonPcs, LoopPcs, MainPcs
  <2> QED
    BY <1>1, <2>1, <2>2, <2>3 DEF TypeOK
<1>3. Covered /\ Stages /\ Settled /\ GateComesLast
  BY DEF Init, Covered, Stages, Settled, GateComesLast
<1> QED
  BY <1>2, <1>3 DEF IInv

\* Reading up to the first relevant event leaves a queue.
LEMMA Suffix ==
  ASSUME NEW s \in Seq(BOOLEAN), NEW n \in 1..Len(s)
  PROVE  SubSeq(s, n + 1, Len(s)) \in Seq(BOOLEAN)
  OBVIOUS

LEMMA StepIInv == IInv /\ [Next]_vars => IInv'
<1> SUFFICES ASSUME IInv, [Next]_vars PROVE IInv'
  OBVIOUS
<1> USE ConstantsAssumption
        DEF ConstantsAssumption, IInv, TypeOK, Covered, Stages, Settled, GateComesLast,
            Reached, Heard, InSocket, MonPcs, LoopPcs, MainPcs
\* The environment.
<1>1. ASSUME NEW e \in BOOLEAN, Arrive(e) PROVE IInv'
  <2>1. CASE mon \in {"off", "dead"}
    BY <1>1, <2>1 DEF Arrive, loopVars, Alive
  <2>2. CASE mon \notin {"off", "dead"}
    <3>1. /\ queue' = Append(queue, e) /\ ready' = TRUE /\ fresh' = TRUE
          /\ unseen' = (unseen \/ e)
          /\ UNCHANGED <<mon, found, chan, loop, delay, deferred, left, main, signal>>
      BY <1>1, <2>2 DEF Arrive, loopVars
    <3>2. /\ queue' \in Seq(BOOLEAN) /\ Len(queue') = Len(queue) + 1
          /\ queue'[Len(queue) + 1] = e
          /\ \A k \in 1..Len(queue) : queue'[k] = queue[k]
      BY <3>1
    <3>3. TypeOK' /\ Stages' /\ Settled' /\ GateComesLast'
      BY <3>1, <3>2
    <3>4. ASSUME e \/ \E k \in 1..Len(queue) : queue[k]
          PROVE  \E k \in 1..Len(queue') : queue'[k]
      BY <3>2, <3>4
    <3>5. ASSUME unseen' , loop \in {"pass", "select"} \/ main = "pass"
          PROVE  Reached' \/ (loop = "select" /\ delay = "retry")
      <4>1. CASE e
        BY <2>2, <3>1, <3>4, <4>1
      <4>2. CASE ~e
        BY <2>2, <3>1, <3>4, <3>5, <4>2
      <4> QED
        BY <4>1, <4>2
    <3> QED
      BY <3>1, <3>3, <3>5
  <2> QED
    BY <2>1, <2>2
<1>2. CASE Signal
  BY <1>2 DEF Signal, monVars, loopVars
<1>3. CASE ApiDefers
  BY <1>3 DEF ApiDefers, monVars
\* The monitor.
<1>4. CASE MonWake
  <2>1. /\ mon = "wait" /\ ready /\ mon' = "read" /\ fresh' = FALSE
        /\ UNCHANGED <<queue, ready, found, chan, loop, delay, deferred, left, unseen,
                       main, signal>>
    BY <1>4 DEF MonWake, Monitor, loopVars
  <2>2. TypeOK' /\ Stages' /\ Settled' /\ GateComesLast'
    BY <2>1, ZenonT(30)
  <2>3. Reached => Reached'
    BY <2>1
  <2>4. Covered'
    BY <2>1, <2>3
  <2> QED
    BY <2>2, <2>4
<1>5. CASE MonRead
  <2> USE <1>5 DEF Monitor, loopVars, Alive
  <2>1. ASSUME NEW n \in 1..Len(queue), queue' = SubSeq(queue, n + 1, Len(queue)),
               found' = TRUE
        PROVE  IInv'
    <3>1. queue' \in Seq(BOOLEAN)
      BY <2>1, Suffix
    <3> QED
      BY <2>1, <3>1 DEF MonRead
  <2>2. ASSUME \A k \in 1..Len(queue) : ~queue[k], queue' = <<>>, found' = FALSE
        PROVE  IInv'
    <3>1. /\ mon = "read" /\ mon' = "clear"
          /\ UNCHANGED <<ready, fresh, chan, loop, delay, deferred, left, unseen,
                         main, signal>>
      BY DEF MonRead
    <3>2. queue' \in Seq(BOOLEAN)
      BY <2>2
    <3>3. TypeOK'
      <4>1. found' \in BOOLEAN
        BY <2>2
      <4> QED
        BY <3>1, <3>2, <4>1
    <3>4. Stages' /\ Settled' /\ GateComesLast'
      BY <3>1
    <3>5. Reached => Reached'
      BY <2>2, <3>1
    <3>6. Covered'
      BY <3>1, <3>5
    <3> QED
      BY <3>3, <3>4, <3>6
  <2> QED
    BY <2>1, <2>2 DEF MonRead
<1>6. CASE MonClear
  BY <1>6 DEF MonClear, Monitor, loopVars
<1>7. CASE MonSend
  <2>1. /\ mon = "send" /\ mon' \in {"wait", "dead"} /\ chan' \in 0..Capacity
        /\ mon' = "wait" => chan' > 0
        /\ UNCHANGED <<queue, ready, fresh, found, loop, delay, deferred, left, unseen,
                       main, signal>>
    BY <1>7 DEF MonSend, Monitor, loopVars
  <2>2. TypeOK' /\ Stages' /\ Settled' /\ GateComesLast'
    BY <2>1
  <2>3. Reached'
    BY <2>1
  <2>4. Covered'
    BY <2>1, <2>3
  <2> QED
    BY <2>2, <2>4
<1>8. CASE MonDies
  BY <1>8 DEF MonDies, Monitor, loopVars
\* The reconcile task.
<1>9. CASE LoopRecv
  BY <1>9 DEF LoopRecv, Selecting, Loop, Alive, monVars
<1>10. CASE LoopClosed
  BY <1>10 DEF LoopClosed, Selecting, Loop, Alive, monVars
<1>11. CASE LoopSleep
  BY <1>11 DEF LoopSleep, Selecting, Loop, Alive, monVars
<1>12. CASE LoopDrain
  BY <1>12 DEF LoopDrain, Loop, Alive, monVars
<1>13. CASE LoopScan
  <2>1. /\ loop = "scan" /\ loop' = "pass" /\ deferred' = FALSE /\ unseen' = FALSE
        /\ UNCHANGED <<mon, queue, ready, fresh, found, chan, delay, left, main, signal>>
    BY <1>13 DEF LoopScan, Scan, Loop, Alive, monVars
  <2>2. TypeOK' /\ Stages' /\ Settled' /\ GateComesLast'
    BY <2>1
  <2>3. Covered'
    BY <2>1
  <2> QED
    BY <2>2, <2>3
<1>14. CASE LoopPass
  BY <1>14 DEF LoopPass, PassEnds, Delay, Loop, Alive, monVars
<1>15. CASE LoopPanics
  BY <1>15 DEF LoopPanics, Loop, Alive, monVars
<1>16. CASE Cancelled
  BY <1>16 DEF Cancelled, MainStep
\* The main task.
<1>17. CASE MainBoot
  BY <1>17 DEF MainBoot, Serving, MainStep
<1>18. CASE MainScan
  BY <1>18 DEF MainScan, Scan, MainStep
<1>19. CASE MainPass
  BY <1>19 DEF MainPass, PassEnds, Delay, Serving, MainStep
<1>20. CASE MainStops \/ ApiEnds
  BY <1>20 DEF MainStops, ApiEnds, Serves, MainStep, loopVars
<1>21. CASE MainGate
  BY <1>21 DEF MainGate, Awaited, MainStep, loopVars
<1>22. CASE MainExit
  BY <1>22 DEF MainExit, MainStep, loopVars
<1>23. CASE UNCHANGED vars
  BY <1>23 DEF vars, monVars, loopVars
<1> QED
  BY <1>1, <1>2, <1>3, <1>4, <1>5, <1>6, <1>7, <1>8, <1>9, <1>10, <1>11, <1>12, <1>13,
     <1>14, <1>15, <1>16, <1>17, <1>18, <1>19, <1>20, <1>21, <1>22, <1>23
     DEF Next, MonNext, LoopNext, MainNext

THEOREM Invariance == Spec => []IInv
  BY InitIInv, StepIInv, PTL DEF Spec

\* The state keeps its types; the channel never holds more messages than its
\* capacity, though the monitor and its overflow path both send.
THEOREM TypeCorrect == Spec => []TypeOK
<1>1. IInv => TypeOK
  BY DEF IInv
<1> QED
  BY <1>1, Invariance, PTL

\* No event waits for the safety interval to pass, and nothing a pass put off
\* does (spawn_udev_monitor, the loop of daemon).
THEOREM NoLostWakeup == Spec => []NothingWaits
<1>1. IInv => NothingWaits
  BY DEF IInv, Covered, Reached, Heard, InSocket, Settled, NothingWaits, OnItsWay
<1> QED
  BY <1>1, Invariance, PTL

\* The reconcile task has ended when the gate is reopened (daemon, run).
THEOREM GateLast == Spec => []GateComesLast
<1>1. IInv => GateComesLast
  BY DEF IInv
<1> QED
  BY <1>1, Invariance, PTL
=============================================================================
