----------------------------- MODULE ApiServer -----------------------------
(***************************************************************************)
(* The API: serve and connection (src/src/api.rs), its clients             *)
(* (src/src/client.rs and the ghaf-device command, src/src/bin/            *)
(* ghaf-device.rs), and the channel on which the manager publishes its     *)
(* notifications.                                                          *)
(*                                                                         *)
(* Every transport has a task that takes a permit and then accepts; the    *)
(* permit passes to the connection, and back to the first task in line     *)
(* when that ends.  A connection subscribes to the notifications when it   *)
(* starts, and forwards them once its client has asked for them.  It does  *)
(* one thing at a time: while a handler runs or a line waits for room in   *)
(* the socket it neither reads nor forwards.  Clients have a deadline, go  *)
(* away, or come back with a new connection; the daemon may be killed and  *)
(* started again.                                                          *)
(*                                                                         *)
(* Abstractions.  A client sends one line and at once, as client.rs does;  *)
(* a line is a number, 0 for a response and n for the n-th notification.   *)
(* What a handler does is the subject of the other modules: here it ends.  *)
(* Time is abstract: a deadline may strike at any moment.                  *)
(***************************************************************************)
EXTENDS Integers, Sequences, FiniteSets

CONSTANTS
    Transports,      \* general.api.transports
    Clients,
    Via,             \* Via[k]: the transport of client k
    Kind,            \* Kind[k]: the command it runs, see Kinds
    Rejected,        \* the clients whose CID is not in allowedCids
    MaxConnections,  \* MAX_CONNECTIONS, 64
    Capacity,        \* of the notification channel, 128
    Buffer,          \* lines that fit in a socket
    MaxEvents, MaxTries, MaxFaults  \* bounds of the environment

Kinds == {"request",  \* ghaf-device usb, pci: one attempt
          "retry",    \* ghaf-device vmm args: until its deadline
          "listen"}   \* ghaf-device listen

ASSUME ConstantsAssumption ==
    /\ Via \in [Clients -> Transports] /\ Kind \in [Clients -> Kinds]
    /\ Rejected \subseteq Clients
    /\ IsFiniteSet(Transports) /\ IsFiniteSet(Clients) /\ MaxConnections \in Nat
    /\ Capacity \in Nat \ {0} /\ Buffer \in Nat \ {0}
    /\ MaxEvents \in Nat /\ MaxTries \in Nat \ {0} /\ MaxFaults \in Nat

VARIABLES
    up,       \* the daemon runs
    free,     \* permits in the semaphore
    waiters,  \* the tasks that wait for a permit, in the order they came
    task,     \* task[t]: what the task of transport t does
    backlog,  \* backlog[t]: connections the kernel has for t
    conn,     \* conn[c]: a connection, by client and attempt
    client,   \* client[k]: the command
    sent,     \* notifications published so far
    faults    \* faults so far

serverVars == <<free, waiters, task, backlog>>
vars == <<up, serverVars, conn, client, sent, faults>>

---------------------------------------------------------------------------
(* Types.                                                                  *)

Conns   == {c \in Clients \X (1..MaxTries) : Kind[c[1]] = "retry" \/ c[2] = 1}
Tasks   == {"start", "queued", "accept", "backoff"}
ConnPcs == {"none", "backlog", "read", "run", "push", "closed"}
Connections == [pc: ConnPcs,
                line: BOOLEAN,     \* a request waits to be read
                enabled: BOOLEAN,  \* notifications are on
                birth: Nat,        \* notifications published before it started
                cursor: Nat,       \* the receiver's position in the channel
                lost: BOOLEAN,     \* the receiver has lagged
                out: Seq(Nat),     \* lines the client has not read
                gone: BOOLEAN]     \* the client has closed its end
ClientPcs == {"connect", "wait", "listen", "done", "failed", "expired"}
Commands  == [pc: ClientPcs, try: 1..MaxTries, got: Seq(Nat)]

NoConn == [pc |-> "none", line |-> FALSE, enabled |-> FALSE, birth |-> 0, cursor |-> 0,
           lost |-> FALSE, out |-> <<>>, gone |-> FALSE]

Answer == 0

\* The daemon's end is closed; what is in the socket can still be read.
Closed(e) == [NoConn EXCEPT !.pc = "closed", !.out = e.out]
\* The client's end is closed.
Abandoned(e) == IF e.pc = "closed" THEN Closed(NoConn) ELSE [e EXCEPT !.gone = TRUE, !.out = <<>>]

\* The connections that hold a permit.
Served == {c \in Conns : conn[c].pc \in {"read", "run", "push"}}
\* The tasks that hold one, while they wait for a client or back off.
Holding == {t \in Transports : task[t] \in {"accept", "backoff"}}

Current(k) == <<k, client[k].try>>

---------------------------------------------------------------------------
(* Permits: a tokio Semaphore is fair.                                     *)

\* A permit is dropped.
\* (Faulty variants, named F_..., show which property notices the fault.)
F_DropPermit ==          \* nobody is woken
    free' = free + 1 /\ UNCHANGED <<task, waiters>>
DropPermit ==
    IF waiters = <<>>
    THEN free' = free + 1 /\ UNCHANGED <<task, waiters>>
    ELSE /\ task' = [task EXCEPT ![Head(waiters)] = "accept"]
         /\ waiters' = Tail(waiters) /\ free' = free

\* Task t asks for a permit.
AskPermit(t) ==
    IF free > 0
    THEN free' = free - 1 /\ task' = [task EXCEPT ![t] = "accept"] /\ waiters' = waiters
    ELSE /\ task' = [task EXCEPT ![t] = "queued"]
         /\ waiters' = Append(waiters, t) /\ free' = free

\* Task t drops its permit and asks for one.
PassPermit(t) ==
    IF waiters = <<>>
    THEN task' = [task EXCEPT ![t] = "accept"] /\ UNCHANGED <<free, waiters>>
    ELSE /\ task' = [task EXCEPT ![t] = "queued", ![Head(waiters)] = "accept"]
         /\ waiters' = Append(Tail(waiters), t) /\ free' = free

---------------------------------------------------------------------------
(* The tasks of the transports.                                            *)

Begin(t) ==
    /\ up /\ task[t] = "start" /\ AskPermit(t)
    /\ UNCHANGED <<up, backlog, conn, client, sent, faults>>

\* The connection c is accepted on t: rejected, and the permit dropped, or
\* served with it.
Accept(t) ==
    /\ up /\ task[t] = "accept" /\ backlog[t] # <<>>
    /\ LET c == Head(backlog[t]) IN
       \/ /\ c[1] \in Rejected
          /\ conn' = [conn EXCEPT ![c] = Closed(@)]
          /\ PassPermit(t)
       \/ /\ c[1] \notin Rejected
          /\ conn' = [conn EXCEPT ![c] =
                         [@ EXCEPT !.pc = "read", !.birth = sent, !.cursor = sent]]
          /\ AskPermit(t)
    /\ backlog' = [backlog EXCEPT ![t] = Tail(@)]
    /\ UNCHANGED <<up, client, sent, faults>>

\* accept errs; the permit is kept during the 100 ms of accept_failed.
AcceptFails(t) ==
    /\ up /\ task[t] = "accept" /\ faults < MaxFaults
    /\ faults' = faults + 1
    /\ task' = [task EXCEPT ![t] = "backoff"]
    /\ UNCHANGED <<up, free, waiters, backlog, conn, client, sent>>

F_Backoff(t) ==          \* the permit is forgotten
    /\ up /\ task[t] = "backoff"
    /\ AskPermit(t)
    /\ UNCHANGED <<up, backlog, conn, client, sent, faults>>
Backoff(t) ==
    /\ up /\ task[t] = "backoff"
    /\ PassPermit(t)
    /\ UNCHANGED <<up, backlog, conn, client, sent, faults>>

---------------------------------------------------------------------------
(* A connection.                                                           *)

Conn(c, pc) == conn[c].pc = pc /\ UNCHANGED <<up, backlog, client, sent, faults>>

\* connection() returns, and spawn_connection drops the permit.
Close(c) == conn' = [conn EXCEPT ![c] = Closed(@)] /\ DropPermit

\* The line is handled whether or not its client still waits.
ReadLine(c) ==
    /\ Conn(c, "read") /\ conn[c].line
    /\ conn' = [conn EXCEPT ![c] = [@ EXCEPT !.line = FALSE, !.pc = "run",
                                             !.enabled = (Kind[c[1]] = "listen")]]
    /\ UNCHANGED <<free, waiters, task>>

\* framed.send of line n, which errs when the client has gone and waits while
\* the socket is full.
Send(c, n) ==
    \/ conn[c].gone /\ Close(c)
    \/ /\ ~conn[c].gone /\ Len(conn[c].out) < Buffer
       /\ conn' = [conn EXCEPT ![c] = [@ EXCEPT !.pc = "read", !.out = Append(conn[c].out, n)]]
       /\ UNCHANGED <<free, waiters, task>>

\* The handler has ended.
Reply(c) == Conn(c, "run") /\ Send(c, Answer)

\* A receiver that has fallen behind by more than the capacity goes on with
\* the oldest notification there is; nobody is told.
F_Recv(c) ==             \* whether or not the client has asked
    /\ Conn(c, "read") /\ sent > conn[c].cursor
    /\ conn' = [conn EXCEPT ![c] = [@ EXCEPT !.cursor = conn[c].cursor + 1, !.pc = "push"]]
    /\ UNCHANGED <<free, waiters, task>>
Recv(c) ==
    /\ Conn(c, "read") /\ conn[c].enabled /\ sent > conn[c].cursor
    /\ \/ /\ sent - conn[c].cursor > Capacity
          /\ conn' = [conn EXCEPT ![c] = [@ EXCEPT !.cursor = sent - Capacity, !.lost = TRUE]]
       \/ /\ sent - conn[c].cursor <= Capacity
          /\ conn' = [conn EXCEPT ![c] = [@ EXCEPT !.cursor = conn[c].cursor + 1, !.pc = "push"]]
    /\ UNCHANGED <<free, waiters, task>>

F_Push(c) ==             \* a full socket is skipped
    /\ Conn(c, "push")
    /\ \/ Send(c, conn[c].cursor)
       \/ /\ ~conn[c].gone /\ Len(conn[c].out) = Buffer
          /\ conn' = [conn EXCEPT ![c].pc = "read"]
          /\ UNCHANGED <<free, waiters, task>>
Push(c) == Conn(c, "push") /\ Send(c, conn[c].cursor)

EndOfFile(c) == Conn(c, "read") /\ ~conn[c].line /\ conn[c].gone /\ Close(c)

---------------------------------------------------------------------------
(* The daemon.                                                             *)

Publish ==
    /\ up /\ sent < MaxEvents /\ sent' = sent + 1
    /\ UNCHANGED <<up, serverVars, conn, client, faults>>

\* Connections end with the process.
Crash ==
    /\ up /\ faults < MaxFaults
    /\ up' = FALSE /\ faults' = faults + 1
    /\ conn' = [c \in Conns |-> IF conn[c].pc = "none" THEN NoConn
                                ELSE Closed(conn[c])]
    /\ free' = MaxConnections /\ waiters' = <<>>
    /\ task' = [t \in Transports |-> "start"]
    /\ backlog' = [t \in Transports |-> <<>>]
    /\ UNCHANGED <<client, sent>>

Start == ~up /\ up' = TRUE /\ UNCHANGED <<serverVars, conn, client, sent, faults>>

---------------------------------------------------------------------------
(* The clients.                                                            *)

Client(k, pc) == /\ client[k].pc = pc
                 /\ UNCHANGED <<up, free, waiters, task, sent, faults>>

\* The error of an attempt: request_with_retry comes back after a second.
F_AttemptFails(k) ==     \* no retry
    client' = [client EXCEPT ![k].pc = "failed"]
AttemptFails(k) ==
    client' = [client EXCEPT ![k] =
        IF Kind[k] # "retry" THEN [@ EXCEPT !.pc = "failed"]
        ELSE IF @.try = MaxTries THEN [@ EXCEPT !.pc = "expired"]
        ELSE [pc |-> "connect", try |-> @.try + 1, got |-> <<>>]]

Connect(k) ==
    /\ Client(k, "connect")
    /\ \/ /\ up
          /\ conn' = [conn EXCEPT ![Current(k)] =
                         [NoConn EXCEPT !.pc = "backlog", !.line = TRUE]]
          /\ backlog' = [backlog EXCEPT ![Via[k]] = Append(@, Current(k))]
          /\ client' = [client EXCEPT ![k].pc = "wait"]
       \/ /\ ~up
          /\ AttemptFails(k) /\ UNCHANGED <<conn, backlog>>

\* exchange() drops the stream with the answer; a listener keeps it.
ReadLines(k) ==
    LET c == Current(k) IN
    /\ client[k].pc \in {"wait", "listen"} /\ conn[c].out # <<>>
    /\ conn' = [conn EXCEPT ![c] = IF Kind[k] = "listen" THEN [@ EXCEPT !.out = Tail(conn[c].out)]
                                   ELSE Abandoned(@)]
    /\ client' = [client EXCEPT ![k] =
                     [@ EXCEPT !.got = Append(client[k].got, Head(conn[c].out)),
                               !.pc = IF Kind[k] = "listen" THEN "listen" ELSE "done"]]
    /\ UNCHANGED <<up, serverVars, sent, faults>>

\* "API connection closed by remote".
HungUp(k) ==
    /\ client[k].pc \in {"wait", "listen"}
    /\ conn[Current(k)].pc = "closed" /\ conn[Current(k)].out = <<>>
    /\ AttemptFails(k)
    /\ UNCHANGED <<up, serverVars, conn, sent, faults>>

\* The deadline of a command strikes, or its user ends it.
Deadline(k) ==
    /\ client[k].pc \in {"wait", "listen"}
    /\ client' = [client EXCEPT ![k].pc = "expired"]
    /\ conn' = [conn EXCEPT ![Current(k)] = Abandoned(@)]
    /\ UNCHANGED <<up, serverVars, sent, faults>>

---------------------------------------------------------------------------

Init ==
    /\ up = TRUE /\ free = MaxConnections /\ waiters = <<>>
    /\ task = [t \in Transports |-> "start"]
    /\ backlog = [t \in Transports |-> <<>>]
    /\ conn = [c \in Conns |-> NoConn]
    /\ client = [k \in Clients |-> [pc |-> "connect", try |-> 1, got |-> <<>>]]
    /\ sent = 0 /\ faults = 0

TaskNext(t) == Begin(t) \/ Accept(t) \/ Backoff(t)
ConnNext(c) == ReadLine(c) \/ Reply(c) \/ Recv(c) \/ Push(c)
               \/ EndOfFile(c)
ClientNext(k) == Connect(k) \/ ReadLines(k) \/ HungUp(k)

Next == \/ \E t \in Transports : TaskNext(t) \/ AcceptFails(t)
        \/ \E c \in Conns : ConnNext(c)
        \/ \E k \in Clients : ClientNext(k) \/ Deadline(k)
        \/ Publish \/ Crash \/ Start

Spec == Init /\ [][Next]_vars

\* Tasks are scheduled, handlers end since every command they run has a
\* timeout, and systemd starts the daemon again.  A listener need not read.
FairSpec ==
    /\ Spec /\ WF_vars(Start)
    /\ \A t \in Transports : WF_vars(TaskNext(t))
    /\ \A c \in Conns : WF_vars(ConnNext(c))
    /\ \A k \in Clients : Kind[k] # "listen" => WF_vars(ClientNext(k))

---------------------------------------------------------------------------
(* Properties.                                                             *)

\* The types of the state; nobody waits for a permit while one is free, and
\* nobody waits twice.
TypeOK ==
    /\ up \in BOOLEAN /\ free \in 0..MaxConnections
    /\ waiters \in Seq(Transports) /\ (waiters # <<>> => free = 0)
    /\ task \in [Transports -> Tasks]
    /\ \A i, j \in DOMAIN waiters : waiters[i] = waiters[j] => i = j
    /\ \A t \in Transports : task[t] = "queued" <=> \E i \in DOMAIN waiters : waiters[i] = t
    /\ backlog \in [Transports -> Seq(Conns)]
    /\ conn \in [Conns -> Connections]
    /\ client \in [Clients -> Commands]
    /\ sent \in 0..MaxEvents /\ faults \in 0..MaxFaults

\* No permit is lost or made, whichever of its ways a connection or an accept
\* takes: what is not free is with a connection that is served or with a task.
PermitsAccounted ==
    free + Cardinality(Served) + Cardinality(Holding) = MaxConnections

\* What a client reads first is the answer to its request, never an event,
\* and it reads no more than one answer.
AnswerFirst ==
    \A k \in Clients :
        LET lines == client[k].got \o conn[Current(k)].out
        IN  \A i \in DOMAIN lines : lines[i] = Answer <=> i = 1

\* The notifications a connection has handed to its client, read or not, are
\* the ones published since it started, in order, each once and none missing,
\* however slowly the client reads, unless it fell behind by more than the
\* capacity of the channel; and even then they are in order.
Handed(c) == IF conn[c].pc = "push" THEN conn[c].cursor - 1 ELSE conn[c].cursor

FeedComplete ==
    \A k \in Clients :
        LET c     == Current(k)
            lines == client[k].got \o conn[c].out
        IN  /\ \A i, j \in 2..Len(lines) : i < j => lines[i] < lines[j]
            /\ (conn[c].pc = "read" /\ conn[c].enabled /\ ~conn[c].lost /\ ~conn[c].gone) =>
                  Len(lines) = 1 + conn[c].cursor - conn[c].birth

\* Every request comes to an end by itself, whatever the listeners do, and if
\* vmm args does, it is not because of an error that a retry can mend.  (There
\* must be permits for the listeners and the tasks besides: see the README.)
Ends(k) == IF Kind[k] = "retry" THEN {"done", "expired"} ELSE {"done", "failed", "expired"}

RequestsSettle ==
    \A k \in {k \in Clients : Kind[k] # "listen"} :
        client[k].pc = "wait" ~> client[k].pc \in Ends(k)
=============================================================================
