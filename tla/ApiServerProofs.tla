-------------------------- MODULE ApiServerProofs --------------------------
(***************************************************************************)
(* Proofs about ApiServer, for every value of its constants: the permits   *)
(* of the semaphore, and what a client reads.                              *)
(***************************************************************************)
EXTENDS ApiServer, FiniteSetTheorems, SequenceTheorems, TLAPS

\* The semaphore and its queue: a task waits at one place in it, and nobody
\* waits while a permit is free.
QueueOK ==
    /\ free \in Nat /\ waiters \in Seq(Transports) /\ (waiters # <<>> => free = 0)
    /\ task \in [Transports -> Tasks]
    /\ \A i, j \in DOMAIN waiters : waiters[i] = waiters[j] => i = j
    /\ \A t \in Transports : task[t] = "queued" <=> \E i \in DOMAIN waiters : waiters[i] = t

StateOK ==
    /\ up \in BOOLEAN
    /\ backlog \in [Transports -> Seq(Conns)]
    /\ conn \in [Conns -> Connections]
    /\ client \in [Clients -> Commands]
    /\ sent \in 0..MaxEvents /\ faults \in 0..MaxFaults

\* A connection is in the backlog of its transport, once, until it is accepted,
\* and has not begun before its client has come to that attempt.
LinkOK ==
    /\ \A k \in Clients : client[k].try > 1 => Kind[k] = "retry"
    /\ \A t \in Transports : \A i \in DOMAIN backlog[t] :
          /\ conn[backlog[t][i]].pc = "backlog" /\ Via[backlog[t][i][1]] = t
          /\ \A j \in DOMAIN backlog[t] : backlog[t][i] = backlog[t][j] => i = j
    /\ \A c \in Conns :
          \/ c[2] > client[c[1]].try
          \/ c[2] = client[c[1]].try /\ client[c[1]].pc = "connect"
          => conn[c].pc = "none"

\* Permits that no connection has.
Unused == free + Cardinality(Holding)

---------------------------------------------------------------------------
(* Finite sets and sequences.                                              *)

LEMMA ServedFinite ==
    /\ IsFiniteSet(Served) /\ Cardinality(Served) \in Nat
    /\ IsFiniteSet(Holding) /\ Cardinality(Holding) \in Nat
<1>1. IsFiniteSet(Clients \X (1..MaxTries))
  <2>1. IsFiniteSet(Clients) /\ IsFiniteSet(Transports) /\ MaxTries \in Int
    BY ConstantsAssumption DEF ConstantsAssumption
  <2>2. IsFiniteSet(1..MaxTries)
    BY <2>1, FS_Interval
  <2> QED
    BY <2>1, <2>2, FS_Product
<1>2. Served \subseteq Clients \X (1..MaxTries) /\ Holding \subseteq Transports
  BY DEF Served, Conns, Holding
<1>3. IsFiniteSet(Served) /\ IsFiniteSet(Holding)
  BY <1>1, <1>2, FS_Subset, ConstantsAssumption DEF ConstantsAssumption
<1> QED
  BY <1>3, FS_CardinalityType

\* The first task in line leaves it: the others are still there, once.
LEMMA QueueHead ==
    ASSUME QueueOK, waiters # <<>>
    PROVE  /\ Head(waiters) \in Transports /\ task[Head(waiters)] = "queued"
           /\ Tail(waiters) \in Seq(Transports)
           /\ \A i, j \in DOMAIN Tail(waiters) : Tail(waiters)[i] = Tail(waiters)[j] => i = j
           /\ \A t \in Transports : (\E i \in DOMAIN Tail(waiters) : Tail(waiters)[i] = t)
                                      <=> task[t] = "queued" /\ t # Head(waiters)
<1> DEFINE w == waiters
           r == Tail(waiters)
<1>1. /\ w \in Seq(Transports) /\ Len(w) \in Nat \ {0} /\ DOMAIN w = 1..Len(w)
      /\ r \in Seq(Transports) /\ Len(r) = Len(w) - 1 /\ DOMAIN r = 1..Len(r)
      /\ \A i \in 1..Len(r) : r[i] = w[i + 1]
      /\ Head(w) = w[1]
  BY EmptySeq, LenProperties, HeadTailProperties DEF QueueOK
<1>2. Head(w) \in Transports /\ task[Head(w)] = "queued"
  BY <1>1 DEF QueueOK
<1>3. \A i, j \in DOMAIN w : w[i] = w[j] => i = j
  BY DEF QueueOK
<1>4. \A i, j \in DOMAIN r : r[i] = r[j] => i = j
  <2> SUFFICES ASSUME NEW i \in 1..Len(r), NEW j \in 1..Len(r), r[i] = r[j] PROVE i = j
    BY <1>1
  <2>1. w[i + 1] = w[j + 1] /\ i + 1 \in 1..Len(w) /\ j + 1 \in 1..Len(w)
    BY <1>1
  <2> QED
    BY <2>1, <1>1, <1>3
<1>5. ASSUME NEW t \in Transports
      PROVE  (\E i \in DOMAIN r : r[i] = t) <=> task[t] = "queued" /\ t # Head(w)
  <2>1. task[t] = "queued" <=> \E i \in 1..Len(w) : w[i] = t
    BY <1>1 DEF QueueOK
  <2>2. ASSUME NEW i \in 1..Len(r), r[i] = t PROVE task[t] = "queued" /\ t # Head(w)
    <3>1. w[i + 1] = t /\ i + 1 \in 1..Len(w) /\ 1 \in 1..Len(w) /\ i + 1 # 1
      BY <1>1, <2>2
    <3> QED
      BY <3>1, <2>1, <1>1, <1>3
  <2>3. ASSUME task[t] = "queued", t # Head(w) PROVE \E i \in 1..Len(r) : r[i] = t
    <3>1. PICK i \in 1..Len(w) : w[i] = t
      BY <2>1, <2>3
    <3>2. i - 1 \in 1..Len(r) /\ r[i - 1] = t
      BY <3>1, <2>3, <1>1
    <3> QED
      BY <3>2
  <2> QED
    BY <2>2, <2>3, <1>1
<1> QED
  BY <1>1, <1>2, <1>4, <1>5

\* A task gets in line behind w.
LEMMA QueueLast ==
    ASSUME NEW w \in Seq(Transports), NEW t \in Transports,
           \A i, j \in DOMAIN w : w[i] = w[j] => i = j,
           \A i \in DOMAIN w : w[i] # t
    PROVE  /\ Append(w, t) \in Seq(Transports) /\ Append(w, t) # <<>>
           /\ \A i, j \in DOMAIN Append(w, t) : Append(w, t)[i] = Append(w, t)[j] => i = j
           /\ \A u \in Transports : (\E i \in DOMAIN Append(w, t) : Append(w, t)[i] = u)
                                      <=> u = t \/ \E i \in DOMAIN w : w[i] = u
<1> DEFINE x == Append(w, t)
<1>1. /\ Len(w) \in Nat /\ DOMAIN w = 1..Len(w)
      /\ x \in Seq(Transports) /\ Len(x) = Len(w) + 1 /\ DOMAIN x = 1..Len(x)
      /\ x[Len(w) + 1] = t /\ \A i \in 1..Len(w) : x[i] = w[i]
  BY LenProperties, AppendProperties
<1>2. x # <<>>
  BY <1>1, EmptySeq
<1>3. ASSUME NEW i \in 1..Len(x), NEW j \in 1..Len(x), x[i] = x[j] PROVE i = j
  BY <1>1, <1>3
<1>4. ASSUME NEW u \in Transports
      PROVE  (\E i \in 1..Len(x) : x[i] = u) <=> u = t \/ \E i \in 1..Len(w) : w[i] = u
  <2>1. ASSUME NEW i \in 1..Len(x), x[i] = u PROVE u = t \/ \E j \in 1..Len(w) : w[j] = u
    BY <1>1, <2>1
  <2>2. ASSUME u = t PROVE \E i \in 1..Len(x) : x[i] = u
    BY <1>1, <2>2
  <2>3. ASSUME NEW i \in 1..Len(w), w[i] = u PROVE \E j \in 1..Len(x) : x[j] = u
    BY <1>1, <2>3
  <2> QED
    BY <2>1, <2>2, <2>3
<1> HIDE DEF x
<1> QED
  BY <1>1, <1>2, <1>3, <1>4 DEF x

---------------------------------------------------------------------------
(* Permits.                                                                *)

LEMMA DropOK ==
    ASSUME QueueOK, DropPermit
    PROVE  QueueOK' /\ Unused' = Unused + 1
<1>1. CASE waiters = <<>>
  BY <1>1, ServedFinite DEF QueueOK, DropPermit, Unused, Holding
<1>2. CASE waiters # <<>>
  <2> DEFINE h == Head(waiters)
  <2>1. /\ h \in Transports /\ task[h] = "queued" /\ free' = free
        /\ task' = [task EXCEPT ![h] = "accept"] /\ waiters' = Tail(waiters)
    BY <1>2, QueueHead DEF DropPermit
  <2>2. QueueOK'
    BY <1>2, <2>1, QueueHead DEF QueueOK, Tasks
  <2>3. Holding' = Holding \cup {h} /\ h \notin Holding
    BY <2>1 DEF Holding, QueueOK
  <2>4. Cardinality(Holding') = Cardinality(Holding) + 1
    BY <2>3, ServedFinite, FS_AddElement
  <2> QED
    BY <2>1, <2>2, <2>4, ServedFinite DEF Unused, QueueOK
<1> QED
  BY <1>1, <1>2

LEMMA AskOK ==
    ASSUME QueueOK, NEW t \in Transports, task[t] \in {"start", "accept"}, AskPermit(t)
    PROVE  QueueOK' /\ Unused' = IF task[t] = "start" THEN Unused ELSE Unused - 1
<1>1. CASE free > 0
  <2>0. /\ free' = free - 1 /\ waiters' = waiters
        /\ task' = [task EXCEPT ![t] = "accept"]
    BY <1>1 DEF AskPermit
  <2>1. /\ waiters = <<>> /\ free \in Nat
        /\ task' \in [Transports -> Tasks] /\ task'[t] = "accept"
        /\ \A u \in Transports \ {t} : task'[u] = task[u]
    BY <1>1, <2>0 DEF QueueOK, Tasks
  <2>2. QueueOK'
    BY <1>1, <2>0, <2>1 DEF QueueOK
  <2>3. Holding' = Holding \cup {t} /\ (t \in Holding <=> task[t] = "accept")
    BY <2>1 DEF Holding
  <2>4. Cardinality(Holding') = IF t \in Holding THEN Cardinality(Holding)
                                                 ELSE Cardinality(Holding) + 1
    BY <2>3, ServedFinite, FS_AddElement
  <2> QED
    BY <1>1, <2>0, <2>1, <2>2, <2>3, <2>4, ServedFinite DEF Unused
<1>2. CASE free = 0
  <2>1. \A i \in DOMAIN waiters : waiters[i] # t
    BY DEF QueueOK
  <2>2. /\ free' = free /\ free \in Nat /\ waiters' = Append(waiters, t)
        /\ task' \in [Transports -> Tasks] /\ task'[t] = "queued"
        /\ \A u \in Transports \ {t} : task'[u] = task[u]
    BY <1>2 DEF QueueOK, AskPermit, Tasks
  <2>3. /\ waiters' \in Seq(Transports)
        /\ \A i, j \in DOMAIN waiters' : waiters'[i] = waiters'[j] => i = j
        /\ \A u \in Transports : (\E i \in DOMAIN waiters' : waiters'[i] = u)
                                   <=> u = t \/ \E i \in DOMAIN waiters : waiters[i] = u
    BY <2>1, <2>2, QueueLast DEF QueueOK
  <2>4. QueueOK'
    BY <1>2, <2>2, <2>3, SMTT(30) DEF QueueOK
  <2>5. Holding' = Holding \ {t} /\ (t \in Holding <=> task[t] = "accept")
    BY <2>2 DEF Holding
  <2>6. Cardinality(Holding') = IF t \in Holding THEN Cardinality(Holding) - 1
                                                 ELSE Cardinality(Holding)
    BY <2>5, ServedFinite, FS_RemoveElement
  <2> QED
    BY <2>2, <2>4, <2>5, <2>6, ServedFinite DEF Unused
<1> QED
  BY <1>1, <1>2 DEF QueueOK

LEMMA PassOK ==
    ASSUME QueueOK, NEW t \in Transports, t \in Holding, PassPermit(t)
    PROVE  QueueOK' /\ Unused' = Unused
<1>1. CASE waiters = <<>>
  <2>1. QueueOK' /\ Holding' = Holding
    BY <1>1 DEF QueueOK, PassPermit, Holding, Tasks
  <2> QED
    BY <1>1, <2>1 DEF PassPermit, Unused
<1>2. CASE waiters # <<>>
  <2> DEFINE h == Head(waiters)
             r == Tail(waiters)
  <2>1. /\ h \in Transports /\ task[h] = "queued" /\ t # h /\ free' = free
        /\ task' = [task EXCEPT ![t] = "queued", ![h] = "accept"]
        /\ waiters' = Append(r, t)
    BY <1>2, QueueHead DEF PassPermit, Holding
  <2>2. /\ r \in Seq(Transports)
        /\ \A i, j \in DOMAIN r : r[i] = r[j] => i = j
        /\ \A u \in Transports : (\E i \in DOMAIN r : r[i] = u) <=> task[u] = "queued" /\ u # h
    BY <1>2, QueueHead
  <2>3. \A i \in DOMAIN r : r[i] # t
    BY <2>2 DEF Holding
  <2>4. /\ waiters' \in Seq(Transports)
        /\ \A i, j \in DOMAIN waiters' : waiters'[i] = waiters'[j] => i = j
        /\ \A u \in Transports : (\E i \in DOMAIN waiters' : waiters'[i] = u)
                                   <=> u = t \/ \E i \in DOMAIN r : r[i] = u
    BY <2>1, <2>2, <2>3, QueueLast
  <2>5. /\ task' \in [Transports -> Tasks] /\ task'[t] = "queued" /\ task'[h] = "accept"
        /\ \A u \in Transports \ {t, h} : task'[u] = task[u]
    BY <2>1 DEF QueueOK, Tasks
  <2>6. QueueOK'
    BY <1>2, <2>1, <2>2, <2>4, <2>5 DEF QueueOK
  <2>7. Holding' = (Holding \ {t}) \cup {h} /\ h \notin Holding
    BY <2>1, <2>5 DEF Holding
  <2>8. /\ IsFiniteSet(Holding \ {t})
        /\ Cardinality(Holding \ {t}) = Cardinality(Holding) - 1
    BY ServedFinite, FS_RemoveElement
  <2>9. Cardinality((Holding \ {t}) \cup {h}) = Cardinality(Holding \ {t}) + 1
    BY <2>7, <2>8, FS_AddElement
  <2> QED
    BY <2>1, <2>6, <2>7, <2>8, <2>9, ServedFinite DEF Unused
<1> QED
  BY <1>1, <1>2

---------------------------------------------------------------------------
(* The state keeps its types.                                              *)

LEMMA ConstantsOK ==
    /\ Via \in [Clients -> Transports] /\ Kind \in [Clients -> Kinds]
    /\ Capacity \in Nat \ {0} /\ Buffer \in Nat \ {0} /\ MaxConnections \in Nat
    /\ MaxEvents \in Nat /\ MaxTries \in Nat \ {0} /\ MaxFaults \in Nat
  BY ConstantsAssumption DEF ConstantsAssumption

LEMMA CurrentOK ==
    ASSUME StateOK, LinkOK, NEW k \in Clients
    PROVE  /\ Current(k) \in Conns /\ Current(k) = <<k, client[k].try>>
           /\ client[k].try \in 1..MaxTries
<1>1. client[k].try \in 1..MaxTries /\ (client[k].try > 1 => Kind[k] = "retry")
  BY DEF StateOK, LinkOK, Commands
<1> QED
  BY <1>1, ConstantsOK DEF Current, Conns

LEMMA RecordsOK ==
    /\ NoConn \in Connections
    /\ \A e \in Connections : Closed(e) \in Connections /\ Abandoned(e) \in Connections
<1>1. NoConn \in Connections
  BY DEF NoConn, Connections, ConnPcs
<1>2. ASSUME NEW e \in Connections PROVE Closed(e) \in Connections
  BY DEF Closed, NoConn, Connections, ConnPcs
<1>3. ASSUME NEW e \in Connections PROVE Abandoned(e) \in Connections
  <2>1. CASE e.pc = "closed"
    BY <1>1, <1>2, <2>1 DEF Abandoned
  <2>2. CASE e.pc # "closed"
    <3>1. <<>> \in Seq(Nat)
      OBVIOUS
    <3>2. [e EXCEPT !.gone = TRUE, !.out = <<>>] \in Connections
      BY <3>1 DEF Connections
    <3> QED
      BY <2>2, <3>2 DEF Abandoned
  <2> QED
    BY <2>1, <2>2
<1> QED
  BY <1>1, <1>2, <1>3

\* The connection c becomes e, and no other changes.
Becomes(c, e) ==
    /\ conn' \in [Conns -> Connections] /\ conn'[c] = e
    /\ \A d \in Conns : d # c => conn'[d] = conn[d]

LEMMA BecomesOK ==
    ASSUME StateOK, NEW c \in Conns, NEW e \in Connections, conn' = [conn EXCEPT ![c] = e]
    PROVE  Becomes(c, e)
  BY DEF StateOK, Becomes

\* What the steps of a connection make of it.
LEMMA ReadBecomes ==
    ASSUME StateOK, NEW c \in Conns, ReadLine(c)
    PROVE  \E b \in BOOLEAN :
              Becomes(c, [conn[c] EXCEPT !.line = FALSE, !.pc = "run", !.enabled = b])
<1>1. conn[c] \in Connections
  BY DEF StateOK
<1>2. \A b \in BOOLEAN :
         [conn[c] EXCEPT !.line = FALSE, !.pc = "run", !.enabled = b] \in Connections
  BY <1>1 DEF Connections, ConnPcs
<1>3. conn' = [conn EXCEPT ![c] = [@ EXCEPT !.line = FALSE, !.pc = "run",
                                            !.enabled = (Kind[c[1]] = "listen")]]
  BY DEF ReadLine
<1>4. (Kind[c[1]] = "listen") \in BOOLEAN
  OBVIOUS
<1> QED
  BY <1>2, <1>3, <1>4, BecomesOK, Zenon

LEMMA AcceptBecomes ==
    ASSUME StateOK, NEW t \in Transports, Accept(t)
    PROVE  LET c == Head(backlog[t]) IN
           /\ c \in Conns /\ c = backlog[t][1]
           /\ \/ Becomes(c, Closed(conn[c])) /\ PassPermit(t)
              \/ /\ Becomes(c, [conn[c] EXCEPT !.pc = "read", !.birth = sent, !.cursor = sent])
                 /\ AskPermit(t)
<1> DEFINE c == Head(backlog[t])
<1>1. c \in Conns /\ c = backlog[t][1]
  BY DEF StateOK, Accept
<1>2. conn[c] \in Connections /\ sent \in Nat
  BY <1>1 DEF StateOK
<1>3. [conn[c] EXCEPT !.pc = "read", !.birth = sent, !.cursor = sent] \in Connections
  BY <1>2 DEF Connections, ConnPcs
<1> QED
  BY <1>1, <1>2, <1>3, RecordsOK, BecomesOK, Zenon DEF Accept

LEMMA CloseBecomes ==
    ASSUME StateOK, NEW c \in Conns, Close(c)
    PROVE  Becomes(c, Closed(conn[c])) /\ DropPermit
<1>1. Closed(conn[c]) \in Connections
  BY RecordsOK DEF StateOK
<1> QED
  BY <1>1, BecomesOK, Zenon DEF Close

LEMMA SendBecomes ==
    ASSUME StateOK, NEW c \in Conns, NEW n \in Nat, Send(c, n)
    PROVE  \/ Becomes(c, Closed(conn[c])) /\ DropPermit
           \/ /\ ~conn[c].gone
              /\ Becomes(c, [conn[c] EXCEPT !.pc = "read", !.out = Append(@, n)])
              /\ UNCHANGED <<free, waiters, task>>
<1>1. conn[c] \in Connections
  BY DEF StateOK
<1>2. Append(conn[c].out, n) \in Seq(Nat)
  BY <1>1, AppendProperties DEF Connections
<1>3. [conn[c] EXCEPT !.pc = "read", !.out = Append(conn[c].out, n)] \in Connections
  BY <1>1, <1>2 DEF Connections, ConnPcs
<1> QED
  BY <1>3, CloseBecomes, BecomesOK, Zenon DEF Send

LEMMA RecvBecomes ==
    ASSUME StateOK, NEW c \in Conns, Recv(c)
    PROVE  \/ /\ sent - conn[c].cursor > Capacity
              /\ Becomes(c, [conn[c] EXCEPT !.cursor = sent - Capacity, !.lost = TRUE])
           \/ /\ sent - conn[c].cursor <= Capacity
              /\ Becomes(c, [conn[c] EXCEPT !.cursor = conn[c].cursor + 1, !.pc = "push"])
<1>1. conn[c] \in Connections /\ conn[c].cursor \in Nat /\ sent \in Nat
  BY DEF StateOK, Connections
<1>2. CASE sent - conn[c].cursor > Capacity
  <2>1. sent - Capacity \in Nat
    BY <1>1, <1>2, ConstantsOK
  <2>2. [conn[c] EXCEPT !.cursor = sent - Capacity, !.lost = TRUE] \in Connections
    BY <1>1, <2>1 DEF Connections
  <2>3. conn' = [conn EXCEPT ![c] = [@ EXCEPT !.cursor = sent - Capacity, !.lost = TRUE]]
    BY <1>1, <1>2, ConstantsOK DEF Recv
  <2> QED
    BY <1>2, <2>2, <2>3, BecomesOK, Zenon
<1>3. CASE ~(sent - conn[c].cursor > Capacity)
  <2>1. conn[c].cursor + 1 \in Nat /\ sent - conn[c].cursor <= Capacity
    BY <1>1, <1>3, ConstantsOK
  <2>2. [conn[c] EXCEPT !.cursor = conn[c].cursor + 1, !.pc = "push"] \in Connections
    BY <1>1, <2>1 DEF Connections, ConnPcs
  <2>3. conn' = [conn EXCEPT ![c] = [@ EXCEPT !.cursor = conn[c].cursor + 1, !.pc = "push"]]
    BY <1>1, <1>3 DEF Recv
  <2> QED
    BY <2>1, <2>2, <2>3, BecomesOK, Zenon
<1> QED
  BY <1>2, <1>3

\* The command k becomes e, and no other changes.
Turns(k, e) ==
    /\ client' \in [Clients -> Commands] /\ client'[k] = e
    /\ \A j \in Clients : j # k => client'[j] = client[j]

LEMMA TurnsOK ==
    ASSUME StateOK, NEW k \in Clients, NEW e \in Commands, client' = [client EXCEPT ![k] = e]
    PROVE  Turns(k, e)
  BY DEF StateOK, Turns

LEMMA FailsTurns ==
    ASSUME StateOK, NEW k \in Clients, AttemptFails(k)
    PROVE  \/ Turns(k, [client[k] EXCEPT !.pc = "failed"])
           \/ Turns(k, [client[k] EXCEPT !.pc = "expired"])
           \/ /\ Kind[k] = "retry"
              /\ Turns(k, [pc |-> "connect", try |-> client[k].try + 1, got |-> <<>>])
<1>1. client[k] \in Commands /\ client[k].try \in 1..MaxTries
  BY DEF StateOK, Commands
<1>2. CASE Kind[k] # "retry"
  <2>1. [client[k] EXCEPT !.pc = "failed"] \in Commands
    BY <1>1 DEF Commands, ClientPcs
  <2> QED
    BY <1>2, <2>1, TurnsOK DEF AttemptFails
<1>3. CASE Kind[k] = "retry" /\ client[k].try = MaxTries
  <2>1. [client[k] EXCEPT !.pc = "expired"] \in Commands
    BY <1>1 DEF Commands, ClientPcs
  <2> QED
    BY <1>3, <2>1, TurnsOK DEF AttemptFails
<1>4. CASE Kind[k] = "retry" /\ client[k].try # MaxTries
  <2>1. client[k].try + 1 \in 1..MaxTries /\ <<>> \in Seq(Nat)
    BY <1>1, <1>4, ConstantsOK
  <2>2. [pc |-> "connect", try |-> client[k].try + 1, got |-> <<>>] \in Commands
    BY <2>1 DEF Commands, ClientPcs
  <2> QED
    BY <1>4, <2>2, TurnsOK DEF AttemptFails
<1> QED
  BY <1>2, <1>3, <1>4

LEMMA ConnectBecomes ==
    ASSUME StateOK, LinkOK, NEW k \in Clients, Connect(k)
    PROVE  \/ /\ Becomes(Current(k), [NoConn EXCEPT !.pc = "backlog", !.line = TRUE])
              /\ Turns(k, [client[k] EXCEPT !.pc = "wait"])
              /\ backlog' = [backlog EXCEPT ![Via[k]] = Append(@, Current(k))]
           \/ AttemptFails(k) /\ UNCHANGED <<conn, backlog>>
<1>1. [NoConn EXCEPT !.pc = "backlog", !.line = TRUE] \in Connections
  BY RecordsOK DEF Connections, ConnPcs
<1>2. client[k] \in Commands /\ Current(k) \in Conns
  BY CurrentOK DEF StateOK
<1>3. [client[k] EXCEPT !.pc = "wait"] \in Commands
  BY <1>2 DEF Commands, ClientPcs
<1>4. CASE ~up
  BY <1>4 DEF Connect
<1>5. CASE up
  <2>1. /\ conn' = [conn EXCEPT ![Current(k)] = [NoConn EXCEPT !.pc = "backlog", !.line = TRUE]]
        /\ backlog' = [backlog EXCEPT ![Via[k]] = Append(@, Current(k))]
        /\ client' = [client EXCEPT ![k] = [@ EXCEPT !.pc = "wait"]]
    BY <1>5 DEF Connect
  <2>2. Becomes(Current(k), [NoConn EXCEPT !.pc = "backlog", !.line = TRUE])
    BY <1>1, <1>2, <2>1, BecomesOK, Zenon
  <2> QED
    BY <1>3, <2>1, <2>2, TurnsOK, Zenon
<1> QED
  BY <1>4, <1>5

LEMMA ReadLinesBecomes ==
    ASSUME StateOK, LinkOK, NEW k \in Clients, ReadLines(k)
    PROVE  LET e == conn[Current(k)] IN
           /\ e.out \in Seq(Nat) /\ e.out # <<>>
           /\ \/ Becomes(Current(k), [e EXCEPT !.out = Tail(e.out)])
              \/ Becomes(Current(k), Abandoned(e))
           /\ \E pc \in {"listen", "done"} :
                Turns(k, [client[k] EXCEPT !.got = Append(client[k].got, Head(e.out)), !.pc = pc])
<1> DEFINE e == conn[Current(k)]
           got == Append(client[k].got, Head(e.out))
<1>1. Current(k) \in Conns /\ e \in Connections /\ client[k] \in Commands
  BY CurrentOK DEF StateOK
<1>2. e.out \in Seq(Nat) /\ e.out # <<>> /\ client[k].got \in Seq(Nat)
  BY <1>1 DEF ReadLines, Connections, Commands
<1>3. Head(e.out) \in Nat /\ Tail(e.out) \in Seq(Nat)
  BY <1>2, HeadTailProperties
<1>4. got \in Seq(Nat)
  BY <1>2, <1>3, AppendProperties
<1>5. /\ [e EXCEPT !.out = Tail(e.out)] \in Connections /\ Abandoned(e) \in Connections
      /\ \A pc \in {"listen", "done"} : [client[k] EXCEPT !.got = got, !.pc = pc] \in Commands
  <2>1. [e EXCEPT !.out = Tail(e.out)] \in Connections
    BY <1>1, <1>3 DEF Connections
  <2>2. Abandoned(e) \in Connections
    BY <1>1, RecordsOK
  <2>3. \A pc \in {"listen", "done"} : [client[k] EXCEPT !.got = got, !.pc = pc] \in Commands
    BY <1>1, <1>4 DEF Commands, ClientPcs
  <2> QED
    BY <2>1, <2>2, <2>3
<1>6. \/ conn' = [conn EXCEPT ![Current(k)] = [e EXCEPT !.out = Tail(e.out)]]
      \/ conn' = [conn EXCEPT ![Current(k)] = Abandoned(e)]
  BY DEF ReadLines
<1>7. \E pc \in {"listen", "done"} :
         client' = [client EXCEPT ![k] = [client[k] EXCEPT !.got = got, !.pc = pc]]
  BY DEF ReadLines
<1> QED
  BY <1>1, <1>2, <1>5, <1>6, <1>7, BecomesOK, TurnsOK, Zenon

LEMMA DeadlineBecomes ==
    ASSUME StateOK, LinkOK, NEW k \in Clients, Deadline(k)
    PROVE  /\ Becomes(Current(k), Abandoned(conn[Current(k)]))
           /\ Turns(k, [client[k] EXCEPT !.pc = "expired"])
<1>1. /\ Current(k) \in Conns /\ Abandoned(conn[Current(k)]) \in Connections
      /\ client[k] \in Commands
  BY CurrentOK, RecordsOK DEF StateOK
<1>2. [client[k] EXCEPT !.pc = "expired"] \in Commands
  BY <1>1 DEF Commands, ClientPcs
<1> QED
  BY <1>1, <1>2, BecomesOK, TurnsOK, Zenon DEF Deadline

LEMMA StepState == StateOK /\ LinkOK /\ [Next]_vars => StateOK'
<1> SUFFICES ASSUME StateOK, LinkOK, [Next]_vars PROVE StateOK'
  OBVIOUS
<1> USE ConstantsOK DEF StateOK
<1>1. ASSUME NEW t \in Transports, Begin(t) \/ AcceptFails(t) \/ Backoff(t) PROVE StateOK'
  BY <1>1 DEF Begin, AcceptFails, Backoff
<1>2. ASSUME NEW t \in Transports, Accept(t) PROVE StateOK'
  <2>1. conn' \in [Conns -> Connections]
    BY <1>2, AcceptBecomes DEF Becomes
  <2>2. /\ backlog[t] \in Seq(Conns) /\ backlog[t] # <<>>
        /\ backlog' = [backlog EXCEPT ![t] = Tail(backlog[t])]
    BY <1>2 DEF Accept
  <2>3. Tail(backlog[t]) \in Seq(Conns)
    BY <2>2, HeadTailProperties
  <2>4. backlog' \in [Transports -> Seq(Conns)]
    BY <2>2, <2>3
  <2> QED
    BY <1>2, <2>1, <2>4 DEF Accept
<1>3. ASSUME NEW c \in Conns, ConnNext(c) PROVE StateOK'
  <2>1. UNCHANGED <<up, backlog, client, sent, faults>>
    BY <1>3 DEF ConnNext, ReadLine, Reply, Recv, Push, EndOfFile, Conn
  <2>2. CASE ReadLine(c)
    BY <2>1, <2>2, ReadBecomes DEF Becomes
  <2>3. CASE Reply(c)
    <3>1. Send(c, Answer) /\ Answer \in Nat
      BY <2>3 DEF Reply, Answer
    <3> QED
      BY <2>1, <3>1, SendBecomes DEF Becomes
  <2>4. CASE Recv(c)
    BY <2>1, <2>4, RecvBecomes DEF Becomes
  <2>5. CASE Push(c)
    <3>1. Send(c, conn[c].cursor) /\ conn[c].cursor \in Nat
      BY <2>5 DEF Push, Connections
    <3> QED
      BY <2>1, <3>1, SendBecomes DEF Becomes
  <2>6. CASE EndOfFile(c)
    <3>1. Close(c)
      BY <2>6 DEF EndOfFile
    <3> QED
      BY <2>1, <3>1, CloseBecomes DEF Becomes
  <2> QED
    BY <1>3, <2>2, <2>3, <2>4, <2>5, <2>6 DEF ConnNext
<1>4. ASSUME NEW k \in Clients, AttemptFails(k) PROVE client' \in [Clients -> Commands]
  BY <1>4, FailsTurns DEF Turns
<1>5. ASSUME NEW k \in Clients, Connect(k) PROVE StateOK'
  <2>1. UNCHANGED <<up, sent, faults>>
    BY <1>5 DEF Connect, Client
  <2>2. CASE AttemptFails(k) /\ UNCHANGED <<conn, backlog>>
    BY <1>4, <2>1, <2>2
  <2>3. CASE ~(AttemptFails(k) /\ UNCHANGED <<conn, backlog>>)
    <3>1. /\ conn' \in [Conns -> Connections] /\ client' \in [Clients -> Commands]
          /\ backlog' = [backlog EXCEPT ![Via[k]] = Append(@, Current(k))]
      BY <1>5, <2>3, ConnectBecomes DEF Becomes, Turns
    <3>2. Via[k] \in Transports /\ Current(k) \in Conns /\ backlog[Via[k]] \in Seq(Conns)
      BY CurrentOK
    <3>3. Append(backlog[Via[k]], Current(k)) \in Seq(Conns)
      BY <3>2, AppendProperties
    <3> QED
      BY <2>1, <3>1, <3>2, <3>3
  <2> QED
    BY <2>2, <2>3
<1>6. ASSUME NEW k \in Clients, ReadLines(k) PROVE StateOK'
  BY <1>6, ReadLinesBecomes DEF Becomes, Turns, ReadLines, serverVars
<1>7. ASSUME NEW k \in Clients, HungUp(k) PROVE StateOK'
  BY <1>4, <1>7 DEF HungUp, serverVars
<1>8. ASSUME NEW k \in Clients, Deadline(k) PROVE StateOK'
  BY <1>8, DeadlineBecomes DEF Becomes, Turns, Deadline, serverVars
<1>9. CASE Publish
  <2>1. UNCHANGED <<up, serverVars, conn, client, faults>>
    BY <1>9 DEF Publish
  <2>2. sent' \in 0..MaxEvents
    BY <1>9 DEF Publish
  <2> QED
    BY <2>1, <2>2 DEF serverVars
<1>12. CASE Start
  BY <1>12, Zenon DEF Start, serverVars
<1>10. CASE Crash
  <2>1. conn' \in [Conns -> Connections]
    BY <1>10, RecordsOK DEF Crash
  <2>2. backlog' \in [Transports -> Seq(Conns)]
    BY <1>10 DEF Crash
  <2>3. faults' \in 0..MaxFaults
    BY <1>10 DEF Crash
  <2>4. up' \in BOOLEAN /\ UNCHANGED <<client, sent>>
    BY <1>10, Zenon DEF Crash
  <2> QED
    BY <2>1, <2>2, <2>3, <2>4
<1>11. CASE UNCHANGED vars
  BY <1>11 DEF vars, serverVars
<1> QED
  BY <1>1, <1>2, <1>3, <1>5, <1>6, <1>7, <1>8, <1>9, <1>10, <1>11,
     <1>12 DEF Next, TaskNext, ClientNext

---------------------------------------------------------------------------
(* Connections begin once.                                                 *)

Busy == {"read", "run", "push"}

LEMMA StepPcs ==
    /\ \A e \in Connections : Closed(e).pc = "closed" /\ Abandoned(e).pc = e.pc
    /\ \A e \in Connections : Closed(e).out = e.out /\ Abandoned(e).out = <<>>
  BY DEF Closed, Abandoned, NoConn, Connections

\* A connection at work goes on or ends.
LEMMA LinkBusy ==
    ASSUME StateOK, LinkOK, NEW c \in Conns, conn[c].pc \in Busy,
           NEW e \in Connections, Becomes(c, e), UNCHANGED <<backlog, client>>
    PROVE  LinkOK'
<1>1. \A d \in Conns : conn[d].pc \in {"none", "backlog"} => conn'[d] = conn[d]
  BY DEF Becomes, Busy
<1>2. \A t \in Transports : \A i \in DOMAIN backlog[t] : backlog[t][i] \in Conns
  BY DEF StateOK
<1> QED
  BY <1>1, <1>2 DEF LinkOK

\* The client k goes on, and no connection begins.
LEMMA LinkClient ==
    ASSUME StateOK, LinkOK, NEW k \in Clients, NEW e \in Commands, Turns(k, e),
           \/ e.try = client[k].try /\ e.pc # "connect"
           \/ e.try = client[k].try + 1 /\ Kind[k] = "retry",
           \A d \in Conns : conn'[d].pc = conn[d].pc, UNCHANGED backlog
    PROVE  LinkOK'
<1>1. client[k].try \in Nat /\ \A c \in Conns : c[1] \in Clients /\ c[2] \in Nat
  BY DEF StateOK, Commands, Conns
<1>2. \A j \in Clients : client'[j].try > 1 => Kind[j] = "retry"
  BY DEF LinkOK, Turns
<1>3. \A t \in Transports : \A i \in DOMAIN backlog[t] : backlog[t][i] \in Conns
  BY DEF StateOK
<1>4. \A c \in Conns :
          \/ c[2] > client'[c[1]].try
          \/ c[2] = client'[c[1]].try /\ client'[c[1]].pc = "connect"
          => conn[c].pc = "none"
  BY <1>1 DEF LinkOK, Turns
<1> QED
  BY <1>2, <1>3, <1>4 DEF LinkOK

\* Reading and hanging up are not seen by the daemon at once.
LEMMA PcKept ==
    ASSUME StateOK, LinkOK, NEW k \in Clients, ReadLines(k) \/ Deadline(k)
    PROVE  \A d \in Conns : conn'[d].pc = conn[d].pc
<1> DEFINE c == Current(k)
<1>1. c \in Conns /\ conn[c] \in Connections
  BY CurrentOK DEF StateOK
<1>2. CASE Becomes(c, [conn[c] EXCEPT !.out = Tail(conn[c].out)])
  <2>1. conn'[c].pc = conn[c].pc
    BY <1>1, <1>2 DEF Becomes, Connections
  <2> QED
    BY <1>2, <2>1 DEF Becomes
<1>3. CASE Becomes(c, Abandoned(conn[c]))
  BY <1>1, <1>3, StepPcs DEF Becomes
<1> QED
  BY <1>2, <1>3, ReadLinesBecomes, DeadlineBecomes

LEMMA StepLink == StateOK /\ LinkOK /\ [Next]_vars => LinkOK'
<1> SUFFICES ASSUME StateOK, LinkOK, [Next]_vars PROVE LinkOK'
  OBVIOUS
<1> USE ConstantsOK
<1>1. ASSUME NEW t \in Transports, Begin(t) \/ AcceptFails(t) \/ Backoff(t) PROVE LinkOK'
  BY <1>1 DEF Begin, AcceptFails, Backoff, LinkOK
<1>2. ASSUME NEW t \in Transports, Accept(t) PROVE LinkOK'
  <2> DEFINE c == Head(backlog[t])
             b == backlog[t]
             r == Tail(backlog[t])
  <2>1. /\ c \in Conns /\ c = b[1] /\ backlog' = [backlog EXCEPT ![t] = r]
        /\ UNCHANGED client /\ \A d \in Conns : d # c => conn'[d] = conn[d]
    BY <1>2, AcceptBecomes DEF Accept, Becomes
  <2>2. /\ b \in Seq(Conns) /\ b # <<>>
        /\ backlog \in [Transports -> Seq(Conns)]
    BY <1>2 DEF Accept, StateOK
  <2>3. /\ Len(b) \in Nat \ {0} /\ DOMAIN b = 1..Len(b) /\ r \in Seq(Conns)
        /\ Len(r) = Len(b) - 1 /\ DOMAIN r = 1..Len(r)
        /\ \A i \in 1..Len(r) : r[i] = b[i + 1]
    BY <2>2, EmptySeq, LenProperties, HeadTailProperties
  <2>4. conn[c].pc = "backlog" /\ Via[c[1]] = t
    BY <2>1, <2>3 DEF LinkOK
  <2>5. \A i \in 1..Len(r) : r[i] # c /\ r[i] \in Conns /\ i + 1 \in DOMAIN b
    BY <2>1, <2>3 DEF LinkOK
  <2>6. \A i \in DOMAIN r : /\ conn'[r[i]].pc = "backlog" /\ Via[r[i][1]] = t
                            /\ \A j \in DOMAIN r : r[i] = r[j] => i = j
    <3> SUFFICES ASSUME NEW i \in DOMAIN r
                 PROVE  /\ conn'[r[i]].pc = "backlog" /\ Via[r[i][1]] = t
                        /\ \A j \in DOMAIN r : r[i] = r[j] => i = j
      OBVIOUS
    <3>1. /\ conn[b[i + 1]].pc = "backlog" /\ Via[b[i + 1][1]] = t
          /\ \A j \in DOMAIN b : b[i + 1] = b[j] => i + 1 = j
      BY <2>3, <2>5 DEF LinkOK
    <3>2. conn'[r[i]].pc = "backlog" /\ Via[r[i][1]] = t
      BY <2>1, <2>3, <2>5, <3>1
    <3>3. ASSUME NEW j \in DOMAIN r, r[i] = r[j] PROVE i = j
      <4>1. b[i + 1] = b[j + 1] /\ j + 1 \in DOMAIN b /\ j \in Int /\ i \in Int
        BY <2>3, <2>5, <3>3
      <4>2. i + 1 = j + 1
        BY <3>1, <4>1
      <4> QED
        BY <4>1, <4>2
    <3> QED
      BY <3>2, <3>3
  <2>7. ASSUME NEW u \in Transports, u # t, NEW i \in DOMAIN backlog[u]
        PROVE  conn'[backlog[u][i]] = conn[backlog[u][i]]
    <3>1. backlog[u][i] \in Conns /\ Via[backlog[u][i][1]] = u
      BY <2>2, <2>7 DEF LinkOK
    <3> QED
      BY <2>1, <2>4, <2>7, <3>1
  <2>8. \A d \in Conns : conn[d].pc = "none" => conn'[d] = conn[d]
    BY <2>1, <2>4
  <2>9. \A u \in Transports : u # t => backlog'[u] = backlog[u]
    BY <2>1, <2>2
  <2>10. backlog'[t] = r
    BY <2>1, <2>2
  <2> HIDE DEF c, b, r
  <2> QED
    BY <2>1, <2>6, <2>7, <2>8, <2>9, <2>10 DEF LinkOK
<1>3. ASSUME NEW c \in Conns, ConnNext(c) PROVE LinkOK'
  <2>1. UNCHANGED <<backlog, client>> /\ conn[c].pc \in Busy
    BY <1>3 DEF ConnNext, ReadLine, Reply, Recv, Push, EndOfFile, Conn, Busy
  <2>2. conn'[c] \in Connections /\ \A d \in Conns : d # c => conn'[d] = conn[d]
    <3>1. CASE ReadLine(c)
      BY <3>1, ReadBecomes DEF Becomes
    <3>2. CASE Reply(c)
      BY <3>2, SendBecomes DEF Becomes, Reply, Answer
    <3>3. CASE Recv(c)
      BY <3>3, RecvBecomes DEF Becomes
    <3>4. CASE Push(c)
      <4>1. Send(c, conn[c].cursor) /\ conn[c].cursor \in Nat
        BY <3>4 DEF Push, Connections, StateOK
      <4> QED
        BY <4>1, SendBecomes DEF Becomes
    <3>5. CASE EndOfFile(c)
      BY <3>5, CloseBecomes DEF Becomes, EndOfFile
    <3> QED
      BY <1>3, <3>1, <3>2, <3>3, <3>4, <3>5 DEF ConnNext
  <2>3. conn' \in [Conns -> Connections]
    BY <1>3, StepState DEF StateOK, Next
  <2> QED
    BY <2>1, <2>2, <2>3, LinkBusy DEF Becomes
<1>4. ASSUME NEW k \in Clients, AttemptFails(k), UNCHANGED <<conn, backlog>> PROVE LinkOK'
  <2>1. client[k] \in Commands
    BY DEF StateOK
  <2>2. PICK e \in Commands : /\ Turns(k, e)
                              /\ \/ e.try = client[k].try /\ e.pc # "connect"
                                 \/ e.try = client[k].try + 1 /\ Kind[k] = "retry"
    <3>1. client'[k] \in Commands /\ Turns(k, client'[k])
      BY <1>4, FailsTurns DEF Turns
    <3>2. CASE Turns(k, [client[k] EXCEPT !.pc = "failed"])
      <4>1. client'[k].try = client[k].try /\ client'[k].pc = "failed"
        BY <2>1, <3>2 DEF Turns, Commands
      <4> QED
        BY <3>1, <4>1
    <3>3. CASE Turns(k, [client[k] EXCEPT !.pc = "expired"])
      <4>1. client'[k].try = client[k].try /\ client'[k].pc = "expired"
        BY <2>1, <3>3 DEF Turns, Commands
      <4> QED
        BY <3>1, <4>1
    <3>4. CASE /\ Kind[k] = "retry"
               /\ Turns(k, [pc |-> "connect", try |-> client[k].try + 1, got |-> <<>>])
      <4>1. client'[k].try = client[k].try + 1
        BY <3>4 DEF Turns
      <4> QED
        BY <3>1, <3>4, <4>1
    <3> QED
      BY <1>4, <3>2, <3>3, <3>4, FailsTurns
  <2> QED
    BY <1>4, <2>2, LinkClient
<1>5. ASSUME NEW k \in Clients, Connect(k) PROVE LinkOK'
  <2>1. CASE AttemptFails(k) /\ UNCHANGED <<conn, backlog>>
    BY <1>4, <2>1
  <2>2. CASE ~(AttemptFails(k) /\ UNCHANGED <<conn, backlog>>)
    <3> DEFINE c == Current(k)
               v == Via[k]
               b == backlog[v]
               x == Append(b, c)
    <3>1. /\ Becomes(c, [NoConn EXCEPT !.pc = "backlog", !.line = TRUE])
          /\ Turns(k, [client[k] EXCEPT !.pc = "wait"])
          /\ backlog' = [backlog EXCEPT ![v] = x]
      BY <1>5, <2>2, ConnectBecomes
    <3>2. /\ c \in Conns /\ c[1] = k /\ c[2] = client[k].try /\ v \in Transports
          /\ b \in Seq(Conns) /\ backlog \in [Transports -> Seq(Conns)]
      BY CurrentOK DEF StateOK
    <3>3. conn[c].pc = "none" /\ conn'[c].pc = "backlog"
      BY <1>5, <3>1, <3>2 DEF Connect, Client, LinkOK, Becomes, NoConn
    <3>4. /\ client'[k].try = client[k].try /\ client'[k].pc = "wait"
          /\ \A j \in Clients : j # k => client'[j] = client[j]
      BY <3>1 DEF Turns, StateOK, Commands
    <3>5. \A d \in Conns : d # c => conn'[d] = conn[d]
      BY <3>1 DEF Becomes
    <3>6. \A u \in Transports : \A i \in DOMAIN backlog[u] :
             backlog[u][i] \in Conns /\ backlog[u][i] # c
      BY <3>2, <3>3 DEF LinkOK
    <3>7. /\ Len(b) \in Nat /\ DOMAIN b = 1..Len(b) /\ DOMAIN x = 1..(Len(b) + 1)
          /\ x[Len(b) + 1] = c /\ \A i \in 1..Len(b) : x[i] = b[i]
      BY <3>2, LenProperties, AppendProperties
    <3>8. backlog'[v] = x /\ \A u \in Transports : u # v => backlog'[u] = backlog[u]
      BY <3>1, <3>2
    <3>9. \A i \in DOMAIN x : /\ conn'[x[i]].pc = "backlog" /\ Via[x[i][1]] = v
                              /\ \A j \in DOMAIN x : x[i] = x[j] => i = j
      <4> SUFFICES ASSUME NEW i \in 1..(Len(b) + 1)
                   PROVE  /\ conn'[x[i]].pc = "backlog" /\ Via[x[i][1]] = v
                          /\ \A j \in 1..(Len(b) + 1) : x[i] = x[j] => i = j
        BY <3>7
      <4>1. \A j \in 1..Len(b) : x[j] = b[j] /\ b[j] # c
        BY <3>2, <3>6, <3>7
      <4>2. CASE i = Len(b) + 1
        BY <3>2, <3>3, <3>7, <4>1, <4>2
      <4>3. CASE i \in 1..Len(b)
        <5>0. v \in Transports /\ b = backlog[v] /\ i \in DOMAIN b
          BY <3>2, <3>7, <4>3
        <5> HIDE DEF b, v
        <5>1. /\ conn[b[i]].pc = "backlog" /\ Via[b[i][1]] = v
              /\ \A j \in 1..Len(b) : b[i] = b[j] => i = j
          BY <3>7, <5>0 DEF LinkOK
        <5>2. b[i] \in Conns /\ b[i] # c
          BY <3>6, <5>0
        <5>3. conn'[b[i]] = conn[b[i]]
          BY <3>5, <5>2
        <5> QED
          BY <3>7, <4>1, <4>3, <5>1, <5>2, <5>3
      <4> QED
        BY <3>7, <4>2, <4>3
    <3>10. \A u \in Transports : u # v => \A i \in DOMAIN backlog[u] :
              conn'[backlog[u][i]].pc = "backlog"
      BY <3>5, <3>6 DEF LinkOK
    <3>11. \A d \in Conns :
              \/ d[2] > client'[d[1]].try
              \/ d[2] = client'[d[1]].try /\ client'[d[1]].pc = "connect"
              => conn'[d].pc = "none"
      <4> SUFFICES ASSUME NEW d \in Conns,
                          \/ d[2] > client'[d[1]].try
                          \/ d[2] = client'[d[1]].try /\ client'[d[1]].pc = "connect"
                   PROVE  conn'[d].pc = "none"
        OBVIOUS
      <4>1. d[1] \in Clients /\ d[2] \in Nat /\ client[k].try \in Nat
        BY DEF Conns, StateOK, Commands
      <4>2. d # c
        BY <3>2, <3>4, <4>1
      <4>3. \/ d[2] > client[d[1]].try
            \/ d[2] = client[d[1]].try /\ client[d[1]].pc = "connect"
        BY <3>4, <4>1
      <4> QED
        BY <3>5, <4>2, <4>3 DEF LinkOK
    <3>12. \A j \in Clients : client'[j].try > 1 => Kind[j] = "retry"
      BY <3>4 DEF LinkOK
    <3> HIDE DEF c, v, b, x
    <3> QED
      BY <3>8, <3>9, <3>10, <3>11, <3>12 DEF LinkOK
  <2> QED
    BY <2>1, <2>2
<1>6. ASSUME NEW k \in Clients, ReadLines(k) \/ Deadline(k) PROVE LinkOK'
  <2>1. Current(k) \in Conns /\ conn[Current(k)] \in Connections /\ client[k] \in Commands
    BY CurrentOK DEF StateOK
  <2>2. UNCHANGED backlog
    BY <1>6 DEF ReadLines, Deadline, serverVars
  <2>3. \A d \in Conns : conn'[d].pc = conn[d].pc
    BY <1>6, PcKept
  <2>4. PICK e \in Commands : Turns(k, e) /\ e.try = client[k].try /\ e.pc # "connect"
    <3>1. client'[k] \in Commands
      BY <1>6, ReadLinesBecomes, DeadlineBecomes DEF Turns
    <3>2. CASE ReadLines(k)
      <4> DEFINE got == Append(client[k].got, Head(conn[Current(k)].out))
      <4>1. PICK pc \in {"listen", "done"} : Turns(k, [client[k] EXCEPT !.got = got, !.pc = pc])
        BY <3>2, ReadLinesBecomes
      <4> DEFINE e == [client[k] EXCEPT !.got = got, !.pc = pc]
      <4>2. e = client'[k]
        BY <4>1 DEF Turns
      <4>3. e.try = client[k].try /\ e.pc # "connect"
        BY <2>1, <4>1 DEF Commands
      <4> HIDE DEF e
      <4> QED
        BY <3>1, <4>1, <4>2, <4>3 DEF e
    <3>3. CASE Deadline(k)
      <4> DEFINE e == [client[k] EXCEPT !.pc = "expired"]
      <4>1. Turns(k, e)
        BY <3>3, DeadlineBecomes
      <4>2. e \in Commands /\ e.try = client[k].try /\ e.pc # "connect"
        BY <2>1 DEF Commands, ClientPcs
      <4> HIDE DEF e
      <4> QED
        BY <4>1, <4>2
    <3> QED
      BY <1>6, <3>2, <3>3
  <2> QED
    BY <2>2, <2>3, <2>4, LinkClient
<1>7. ASSUME NEW k \in Clients, HungUp(k) PROVE LinkOK'
  BY <1>4, <1>7 DEF HungUp, serverVars
<1>8. CASE Publish \/ Start \/ UNCHANGED vars
  BY <1>8 DEF Publish, Start, vars, serverVars, LinkOK
<1>9. CASE Crash
  <2>1. \A c \in Conns : conn[c].pc = "none" => conn'[c].pc = "none"
    BY <1>9 DEF Crash, NoConn
  <2>2. \A t \in Transports : DOMAIN backlog'[t] = {}
    BY <1>9 DEF Crash
  <2> QED
    BY <1>9, <2>1, <2>2 DEF Crash, LinkOK
<1> QED
  BY <1>1, <1>2, <1>3, <1>5, <1>6, <1>7, <1>8, <1>9 DEF Next, TaskNext, ClientNext

---------------------------------------------------------------------------
(* The permits of the connections.                                         *)

\* A connection that becomes e takes or gives back a permit, or neither.
LEMMA ServedCount ==
    ASSUME StateOK, NEW c \in Conns, NEW e \in Connections, Becomes(c, e)
    PROVE  /\ conn[c].pc \in Busy /\ e.pc \notin Busy
                => Cardinality(Served') = Cardinality(Served) - 1
           /\ conn[c].pc \notin Busy /\ e.pc \in Busy
                => Cardinality(Served') = Cardinality(Served) + 1
           /\ (conn[c].pc \in Busy <=> e.pc \in Busy) => Served' = Served
<1>1. Served' = {d \in Conns : conn'[d].pc \in Busy} /\ Served = {d \in Conns : conn[d].pc \in Busy}
  BY DEF Served, Busy
<1>2. CASE conn[c].pc \in Busy /\ e.pc \notin Busy
  <2>1. Served' = Served \ {c} /\ c \in Served
    BY <1>1, <1>2 DEF Becomes
  <2> QED
    BY <1>2, <2>1, ServedFinite, FS_RemoveElement
<1>3. CASE conn[c].pc \notin Busy /\ e.pc \in Busy
  <2>1. Served' = Served \cup {c} /\ c \notin Served
    BY <1>1, <1>3 DEF Becomes
  <2> QED
    BY <1>3, <2>1, ServedFinite, FS_AddElement
<1>4. CASE conn[c].pc \in Busy <=> e.pc \in Busy
  BY <1>1, <1>4 DEF Becomes
<1> QED
  BY <1>2, <1>3, <1>4

\* What is not with a connection is free or with a task.
Balanced == QueueOK /\ Unused + Cardinality(Served) = MaxConnections

LEMMA Unmoved ==
    ASSUME Balanced, UNCHANGED <<free, waiters, task>>, Cardinality(Served') = Cardinality(Served)
    PROVE  Balanced'
<1>1. Holding' = Holding
  BY DEF Holding
<1> QED
  BY <1>1 DEF Balanced, QueueOK, Unused

LEMMA StepBalanced == StateOK /\ LinkOK /\ Balanced /\ [Next]_vars => Balanced'
<1> SUFFICES ASSUME StateOK, LinkOK, Balanced, [Next]_vars PROVE Balanced'
  OBVIOUS
<1> USE ConstantsOK
<1>0. /\ QueueOK /\ Unused + Cardinality(Served) = MaxConnections
      /\ free \in Nat /\ Cardinality(Holding) \in Nat /\ Unused \in Nat
      /\ Cardinality(Served) \in Nat
  BY ServedFinite DEF Balanced, Unused, QueueOK
<1>1. ASSUME UNCHANGED <<conn>> PROVE Served' = Served
  BY <1>1 DEF Served
<1>2. ASSUME NEW t \in Transports, Begin(t) PROVE Balanced'
  <2>1. UNCHANGED <<conn>> /\ task[t] = "start" /\ AskPermit(t)
    BY <1>2 DEF Begin
  <2> QED
    BY <1>0, <1>1, <2>1, AskOK DEF Balanced
<1>3. ASSUME NEW t \in Transports, Backoff(t) PROVE Balanced'
  <2>1. UNCHANGED <<conn>> /\ t \in Holding /\ PassPermit(t)
    BY <1>3 DEF Backoff, Holding
  <2> QED
    BY <1>0, <1>1, <2>1, PassOK DEF Balanced
<1>4. ASSUME NEW t \in Transports, AcceptFails(t) PROVE Balanced'
  <2>1. /\ UNCHANGED <<conn, free, waiters>> /\ task[t] = "accept"
        /\ task' = [task EXCEPT ![t] = "backoff"]
    BY <1>4 DEF AcceptFails
  <2>2. Holding' = Holding
    BY <2>1 DEF Holding, Balanced, QueueOK
  <2>3. QueueOK'
    BY <2>1 DEF Balanced, QueueOK, Tasks
  <2> QED
    BY <1>0, <1>1, <2>1, <2>2, <2>3 DEF Balanced, Unused
<1>5. ASSUME NEW t \in Transports, Accept(t) PROVE Balanced'
  <2> DEFINE c == Head(backlog[t])
  <2>1. c \in Conns /\ conn[c].pc = "backlog" /\ conn[c] \in Connections
    <3>1. c \in Conns /\ c = backlog[t][1]
      BY <1>5, AcceptBecomes
    <3>2. backlog[t] \in Seq(Conns) /\ backlog[t] # <<>>
      BY <1>5 DEF Accept, StateOK
    <3>3. 1 \in DOMAIN backlog[t]
      BY <3>2, EmptySeq, LenProperties
    <3> QED
      BY <3>1, <3>3 DEF LinkOK, StateOK
  <2>2. task[t] = "accept" /\ t \in Holding
    BY <1>5 DEF Accept, Holding
  <2>3. CASE Becomes(c, Closed(conn[c])) /\ PassPermit(t)
    <3>1. Closed(conn[c]) \in Connections /\ Closed(conn[c]).pc = "closed"
      BY <2>1, RecordsOK, StepPcs
    <3>2. Served' = Served
      BY <2>1, <2>3, <3>1, ServedCount DEF Busy
    <3> QED
      BY <1>0, <2>2, <2>3, <3>2, PassOK DEF Balanced
  <2>4. CASE Becomes(c, [conn[c] EXCEPT !.pc = "read", !.birth = sent, !.cursor = sent])
             /\ AskPermit(t)
    <3> DEFINE e == [conn[c] EXCEPT !.pc = "read", !.birth = sent, !.cursor = sent]
    <3>1. e.pc = "read" /\ e \in Connections
      <4>1. sent \in Nat
        BY DEF StateOK
      <4> QED
        BY <2>1, <4>1 DEF Connections, ConnPcs
    <3>2. Becomes(c, e)
      BY <2>4
    <3> HIDE DEF e, c
    <3>3. Cardinality(Served') = Cardinality(Served) + 1
      BY <2>1, <3>1, <3>2, ServedCount DEF Busy
    <3> QED
      BY <1>0, <2>2, <2>4, <3>3, AskOK DEF Balanced
  <2> QED
    BY <1>5, <2>3, <2>4, AcceptBecomes
<1>6. ASSUME NEW c \in Conns, conn[c].pc \in Busy, Becomes(c, Closed(conn[c])), DropPermit
      PROVE  Balanced'
  <2>1. Closed(conn[c]) \in Connections /\ Closed(conn[c]).pc = "closed"
    BY RecordsOK, StepPcs DEF StateOK
  <2>2. Cardinality(Served') = Cardinality(Served) - 1
    BY <1>6, <2>1, ServedCount DEF Busy
  <2> QED
    BY <1>0, <1>6, <2>2, DropOK DEF Balanced
<1>7. ASSUME NEW c \in Conns, NEW n \in Nat, conn[c].pc \in Busy, Send(c, n) PROVE Balanced'
  <2>1. CASE Becomes(c, Closed(conn[c])) /\ DropPermit
    BY <1>6, <1>7, <2>1
  <2>2. CASE Becomes(c, [conn[c] EXCEPT !.pc = "read", !.out = Append(@, n)])
             /\ UNCHANGED <<free, waiters, task>>
    <3>1. conn'[c] \in Connections /\ Becomes(c, conn'[c]) /\ conn[c] \in Connections
      BY <2>2 DEF Becomes, StateOK
    <3>2. conn'[c].pc = "read"
      BY <2>2, <3>1 DEF Becomes, Connections
    <3> QED
      BY <1>7, <2>2, <3>1, <3>2, ServedCount, Unmoved DEF Busy
  <2> QED
    BY <1>7, <2>1, <2>2, SendBecomes
<1>8. ASSUME NEW c \in Conns, ConnNext(c) PROVE Balanced'
  <2>1. conn[c].pc \in Busy /\ conn[c] \in Connections
    BY <1>8 DEF ConnNext, ReadLine, Reply, Recv, Push, EndOfFile, Conn, Busy, StateOK
  <2>2. CASE ReadLine(c) \/ Recv(c)
    <3>1. UNCHANGED <<free, waiters, task>>
      BY <2>2 DEF ReadLine, Recv
    <3>2. conn'[c] \in Connections /\ Becomes(c, conn'[c])
      BY <2>2, ReadBecomes, RecvBecomes DEF Becomes
    <3>3. conn'[c].pc \in Busy
      <4>1. CASE ReadLine(c)
        <5>1. PICK b \in BOOLEAN :
                 Becomes(c, [conn[c] EXCEPT !.line = FALSE, !.pc = "run", !.enabled = b])
          BY <4>1, ReadBecomes
        <5> QED
          BY <2>1, <5>1 DEF Becomes, Connections, Busy
      <4>2. CASE Recv(c)
        <5>1. conn[c].pc = "read"
          BY <4>2 DEF Recv, Conn
        <5> QED
          BY <2>1, <4>2, <5>1, RecvBecomes DEF Becomes, Connections, Busy
      <4> QED
        BY <2>2, <4>1, <4>2
    <3> QED
      BY <2>1, <3>1, <3>2, <3>3, ServedCount, Unmoved
  <2>3. CASE Reply(c)
    BY <1>7, <2>1, <2>3 DEF Reply, Answer
  <2>4. CASE Push(c)
    <3>1. Send(c, conn[c].cursor) /\ conn[c].cursor \in Nat
      BY <2>1, <2>4 DEF Push, Connections
    <3> QED
      BY <1>7, <2>1, <3>1
  <2>5. CASE EndOfFile(c)
    <3>1. Close(c)
      BY <2>5 DEF EndOfFile
    <3> QED
      BY <1>6, <2>1, <3>1, CloseBecomes
  <2> QED
    BY <1>8, <2>2, <2>3, <2>4, <2>5 DEF ConnNext
<1>9. ASSUME NEW k \in Clients, Connect(k) PROVE Balanced'
  <2>1. UNCHANGED <<free, waiters, task>> /\ Current(k) \in Conns
    BY <1>9, CurrentOK DEF Connect, Client
  <2>2. CASE UNCHANGED conn
    BY <1>1, <2>1, <2>2, Unmoved
  <2>3. CASE Becomes(Current(k), [NoConn EXCEPT !.pc = "backlog", !.line = TRUE])
    <3>1. conn[Current(k)].pc = "none"
      BY <1>9, CurrentOK DEF LinkOK, Connect, Client
    <3>2. /\ conn'[Current(k)] \in Connections /\ conn'[Current(k)].pc = "backlog"
          /\ Becomes(Current(k), conn'[Current(k)])
      BY <2>1, <2>3 DEF Becomes, NoConn
    <3> QED
      BY <2>1, <3>1, <3>2, ServedCount, Unmoved DEF Busy
  <2> QED
    BY <1>9, <2>2, <2>3, ConnectBecomes
<1>10. ASSUME NEW k \in Clients, ReadLines(k) \/ Deadline(k) PROVE Balanced'
  <2>1. UNCHANGED <<free, waiters, task>> /\ Current(k) \in Conns
    BY <1>10, CurrentOK DEF ReadLines, Deadline, serverVars
  <2> DEFINE c == Current(k)
  <2>2. conn'[c] \in Connections /\ Becomes(c, conn'[c]) /\ conn[c] \in Connections
    BY <1>10, <2>1, ReadLinesBecomes, DeadlineBecomes DEF Becomes, StateOK
  <2>3. conn'[c].pc = conn[c].pc
    BY <1>10, <2>1, PcKept
  <2> QED
    BY <2>1, <2>2, <2>3, ServedCount, Unmoved
<1>11. ASSUME NEW k \in Clients, HungUp(k) PROVE Balanced'
  BY <1>1, <1>11, Unmoved DEF HungUp, serverVars
<1>12. CASE Publish \/ Start \/ UNCHANGED vars
  BY <1>1, <1>12, Unmoved DEF Publish, Start, vars, serverVars
<1>13. CASE Crash
  <2>1. /\ free' = MaxConnections /\ waiters' = <<>>
        /\ task' = [t \in Transports |-> "start"]
        /\ conn' = [c \in Conns |-> IF conn[c].pc = "none" THEN NoConn ELSE Closed(conn[c])]
    BY <1>13 DEF Crash
  <2>2. QueueOK'
    BY <2>1 DEF QueueOK, Tasks
  <2>3. Holding' = {}
    BY <2>1 DEF Holding
  <2>4. \A c \in Conns : conn'[c].pc \in {"none", "closed"}
    BY <2>1, StepPcs DEF NoConn, StateOK
  <2>5. Served' = {}
    BY <2>4 DEF Served
  <2> QED
    BY <2>1, <2>2, <2>3, <2>5, FS_EmptySet DEF Balanced, Unused
<1> QED
  BY <1>2, <1>3, <1>4, <1>5, <1>8, <1>9, <1>10, <1>11, <1>12, <1>13
     DEF Next, TaskNext, ClientNext

---------------------------------------------------------------------------
(* What a client reads.                                                    *)

\* What a connection has handed to its client, read or not.
Lines(k) == client[k].got \o conn[Current(k)].out

\* The last notification that e has handed over, or skipped.
Hand(e) == IF e.pc = "push" THEN e.cursor - 1 ELSE e.cursor

\* e has received a part of the first s notifications, from its birth on.
GoodConn(e, s) ==
    /\ e.gone \/ e.pc = "none" => e.out = <<>>
    /\ e.enabled => ~e.line /\ e.pc \in {"read", "run", "push"}
    /\ e.line \/ e.pc = "run" => e.cursor = e.birth
    /\ e.pc = "run" => ~e.line
    /\ e.pc \in {"read", "run", "push"} => e.birth <= e.cursor /\ e.cursor <= s
    /\ e.pc = "push" => e.enabled /\ e.birth < e.cursor

\* The lines of e are the answer and then the notifications it has received.
Ordered(l) == /\ \A i \in 1..Len(l) : l[i] = 0 <=> i = 1
              /\ \A i, j \in 2..Len(l) : i < j => l[i] < l[j]

GoodLines(e, l) ==
    /\ Ordered(l)
    /\ e.line \/ e.pc \in {"none", "backlog", "run"} => l = <<>>
    /\ e.pc \in {"read", "push"} =>
          /\ \A i \in 2..Len(l) : l[i] <= Hand(e)
          /\ e.enabled /\ ~e.gone =>
                l # <<>> /\ (~e.lost => Len(l) = 1 + Hand(e) - e.birth)

FeedOK == /\ \A c \in Conns : GoodConn(conn[c], sent)
          /\ \A k \in Clients : GoodLines(conn[Current(k)], Lines(k))

LEMMA LinesAssociative ==
    ASSUME NEW s \in Seq(Nat), NEW t \in Seq(Nat), NEW u \in Seq(Nat)
    PROVE  (s \o t) \o u = s \o (t \o u)
  BY ConcatAssociative, SMTT(30)

\* A client reads the lines in the order of the connection.
LEMMA LinesMove ==
    ASSUME NEW s \in Seq(Nat), NEW t \in Seq(Nat)
    PROVE  /\ s \o t \in Seq(Nat)
           /\ \A n \in Nat : s \o Append(t, n) = Append(s \o t, n)
           /\ t # <<>> => Append(s, Head(t)) \o Tail(t) = s \o t
<1>1. s \o t \in Seq(Nat)
  BY ConcatProperties
<1>2. ASSUME NEW n \in Nat PROVE s \o Append(t, n) = Append(s \o t, n)
  <2> DEFINE h == <<n>>
  <2>1. h \in Seq(Nat)
    OBVIOUS
  <2>2. Append(t, n) = t \o h
    BY AppendIsConcat
  <2>3. Append(s \o t, n) = (s \o t) \o h
    BY <1>1, AppendIsConcat
  <2> HIDE DEF h
  <2>4. (s \o t) \o h = s \o (t \o h)
    BY <2>1, LinesAssociative
  <2> QED
    BY <2>2, <2>3, <2>4, Zenon
<1>3. ASSUME t # <<>> PROVE Append(s, Head(t)) \o Tail(t) = s \o t
  <2> DEFINE h == <<Head(t)>>
             r == Tail(t)
  <2>1. Head(t) \in Nat /\ r \in Seq(Nat) /\ h \in Seq(Nat)
    BY <1>3, HeadTailProperties
  <2>2. Len(t) \in Nat \ {0} /\ Head(t) = t[1]
    BY <1>3, EmptySeq
  <2>3. 1 \in 1..Len(t) /\ Len(t) \in 1..Len(t)
    BY <2>2
  <2>4. SubSeq(t, 1, Len(t)) = <<t[1]>> \o SubSeq(t, 1 + 1, Len(t))
    BY <2>3, SubSeqRecursiveFirst
  <2>5. t = h \o r
    BY <1>3, <2>2, <2>4, SubSeqFull, TailIsSubSeq
  <2>6. Append(s, Head(t)) = s \o h
    <3> DEFINE e == Head(t)
    <3>1. e \in Nat
      BY <2>1
    <3> HIDE DEF e
    <3>2. Append(s, e) = s \o <<e>>
      BY <3>1, AppendIsConcat
    <3> QED
      BY <3>2 DEF e
  <2> HIDE DEF h, r
  <2>7. (s \o h) \o r = s \o (h \o r)
    <3>1. s \in Seq(Nat) /\ h \in Seq(Nat) /\ r \in Seq(Nat)
      BY <2>1
    <3> QED
      BY <3>1, LinesAssociative
  <2>8. Append(s, Head(t)) \o r = s \o t
    BY <2>5, <2>6, <2>7, Zenon
  <2> QED
    BY <2>8 DEF r
<1> QED
  BY <1>1, <1>2, <1>3

Prefix(p, l) == Len(p) <= Len(l) /\ \A i \in 1..Len(p) : p[i] = l[i]

LEMMA PrefixOfLines ==
    ASSUME NEW s \in Seq(Nat), NEW t \in Seq(Nat)
    PROVE  Prefix(s, s \o t) /\ (t # <<>> => Prefix(Append(s, Head(t)), s \o t))
<1>1. ASSUME NEW u \in Seq(Nat), NEW v \in Seq(Nat) PROVE Prefix(u, u \o v)
  BY ConcatProperties, LenProperties DEF Prefix
<1>2. ASSUME t # <<>> PROVE Prefix(Append(s, Head(t)), s \o t)
  <2>1. Append(s, Head(t)) \in Seq(Nat) /\ Tail(t) \in Seq(Nat)
    BY <1>2, HeadTailProperties, AppendProperties
  <2>2. Append(s, Head(t)) \o Tail(t) = s \o t
    BY <1>2, LinesMove
  <2> QED
    BY <1>1, <2>1, <2>2
<1> QED
  BY <1>1, <1>2

\* The client's end is closed, and it has read p of the lines l.
LEMMA AbandonedGood ==
    ASSUME NEW e \in Connections, NEW s \in Nat, GoodConn(e, s),
           NEW l \in Seq(Nat), GoodLines(e, l), NEW p \in Seq(Nat), Prefix(p, l)
    PROVE  GoodConn(Abandoned(e), s) /\ GoodLines(Abandoned(e), p)
<1>1. Ordered(p)
  <2>1. /\ Len(p) <= Len(l) /\ Len(p) \in Nat /\ Len(l) \in Nat
        /\ \A i \in 1..Len(p) : p[i] = l[i]
    BY LenProperties DEF Prefix
  <2>2. \A i \in 1..Len(p) : p[i] = 0 <=> i = 1
    BY <2>1, SMTT(30) DEF GoodLines, Ordered
  <2>3. ASSUME NEW i \in 2..Len(p), NEW j \in 2..Len(p), i < j PROVE p[i] < p[j]
    <3>1. p[i] = l[i] /\ p[j] = l[j] /\ i \in 2..Len(l) /\ j \in 2..Len(l)
      BY <2>1, SMTT(30)
    <3> QED
      BY <2>3, <3>1, SMTT(30) DEF GoodLines, Ordered
  <2> QED
    BY <2>2, <2>3, SMTT(30) DEF Ordered
<1>2. l = <<>> => p = <<>>
  <2> SUFFICES ASSUME l = <<>>, p # <<>> PROVE FALSE
    OBVIOUS
  <2>1. Len(l) = 0 /\ Len(p) \in Nat \ {0}
    BY EmptySeq
  <2> QED
    BY <2>1 DEF Prefix
<1>3. CASE e.pc = "closed"
  <2>1. Abandoned(e) = [NoConn EXCEPT !.pc = "closed", !.out = <<>>]
    BY <1>3 DEF Abandoned, Closed, NoConn
  <2>2. /\ Abandoned(e).pc = "closed" /\ Abandoned(e).out = <<>>
        /\ ~Abandoned(e).line /\ ~Abandoned(e).enabled /\ ~Abandoned(e).gone
    BY <2>1 DEF NoConn
  <2> QED
    BY <1>1, <2>2 DEF GoodConn, GoodLines
<1>4. CASE e.pc # "closed"
  <2> DEFINE a == Abandoned(e)
  <2>1. a = [e EXCEPT !.gone = TRUE, !.out = <<>>]
    BY <1>4 DEF Abandoned
  <2>2. /\ a.pc = e.pc /\ a.out = <<>> /\ a.gone /\ a.line = e.line /\ a.enabled = e.enabled
        /\ a.birth = e.birth /\ a.cursor = e.cursor /\ a.lost = e.lost
    BY <2>1 DEF Connections
  <2>3. Hand(a) = Hand(e)
    BY <2>2 DEF Hand
  <2> HIDE DEF a
  <2>4. GoodConn(a, s)
    BY <2>2 DEF GoodConn
  <2>5. Len(p) <= Len(l) /\ Len(p) \in Nat /\ Len(l) \in Nat /\ \A i \in 1..Len(p) : p[i] = l[i]
    BY LenProperties DEF Prefix
  <2>6. GoodLines(a, p)
    BY <1>1, <1>2, <2>2, <2>3, <2>5, SMTT(30) DEF GoodLines
  <2> QED
    BY <2>4, <2>6 DEF a
<1> QED
  BY <1>3, <1>4

\* The daemon's end is closed.
LEMMA ClosedGood ==
    ASSUME NEW e \in Connections, NEW s \in Nat
    PROVE  /\ GoodConn(Closed(e), s)
           /\ \A l : GoodLines(e, l) => GoodLines(Closed(e), l)
<1>1. /\ Closed(e).pc = "closed" /\ ~Closed(e).line /\ ~Closed(e).enabled /\ ~Closed(e).gone
      /\ Closed(e).out = e.out
  BY DEF Closed, NoConn, Connections
<1> QED
  BY <1>1 DEF GoodConn, GoodLines

\* A line is appended: the answer, or the next notification.
LEMMA SentGood ==
    ASSUME NEW e \in Connections, NEW s \in Nat, GoodConn(e, s),
           NEW l \in Seq(Nat), GoodLines(e, l), NEW n \in Nat, ~e.gone,
           \/ e.pc = "run" /\ n = 0
           \/ e.pc = "push" /\ n = e.cursor,
           NEW o \in Seq(Nat)
    PROVE  LET f == [e EXCEPT !.pc = "read", !.out = o]
           IN  GoodConn(f, s) /\ GoodLines(f, Append(l, n))
<1> DEFINE f == [e EXCEPT !.pc = "read", !.out = o]
           x == Append(l, n)
<1>1. /\ f.pc = "read" /\ f.out = o /\ ~f.gone /\ f.line = e.line /\ f.enabled = e.enabled
      /\ f.birth = e.birth /\ f.cursor = e.cursor /\ f.lost = e.lost
  BY DEF Connections
<1>2. /\ Len(l) \in Nat /\ Len(x) = Len(l) + 1 /\ x # <<>> /\ x[Len(l) + 1] = n
      /\ \A i \in 1..Len(l) : x[i] = l[i]
  BY AppendProperties, LenProperties
<1>3. e.birth \in Nat /\ e.cursor \in Nat /\ Hand(f) = e.cursor
  BY <1>1 DEF Connections, Hand
<1>4. (l = <<>> => Len(l) = 0) /\ (l # <<>> => Len(l) > 0)
  BY EmptySeq
<1> HIDE DEF f, x
<1>5. GoodConn(f, s)
  BY <1>1, <1>3 DEF GoodConn
<1>6. CASE e.pc = "run" /\ n = 0
  <2>1. Len(l) = 0 /\ ~f.line /\ e.cursor = e.birth
    BY <1>1, <1>4, <1>6 DEF GoodLines, GoodConn
  <2>2. Len(x) = 1 /\ x[1] = 0
    BY <1>2, <1>6, <2>1
  <2>3. Ordered(x)
    BY <2>2 DEF Ordered
  <2>4. GoodLines(f, x)
    BY <1>1, <1>2, <1>3, <2>1, <2>2, <2>3 DEF GoodLines
  <2> QED
    BY <1>5, <2>4 DEF f, x
<1>7. CASE e.pc = "push" /\ n = e.cursor
  <2>1. /\ e.enabled /\ ~e.line /\ e.birth < e.cursor /\ l # <<>> /\ Len(l) > 0
        /\ (~e.lost => Len(l) = 1 + (e.cursor - 1) - e.birth)
        /\ \A i \in 2..Len(l) : l[i] <= e.cursor - 1
    BY <1>4, <1>7 DEF GoodLines, GoodConn, Hand
  <2>2. \A i \in 1..Len(x) : x[i] = 0 <=> i = 1
    <3> SUFFICES ASSUME NEW i \in 1..Len(x) PROVE x[i] = 0 <=> i = 1
      OBVIOUS
    <3>1. CASE i \in 1..Len(l)
      BY <1>2, <3>1, SMTT(30) DEF GoodLines, Ordered
    <3>2. CASE i = Len(l) + 1
      <4>1. x[i] = e.cursor /\ i # 1 /\ e.cursor # 0
        BY <1>2, <1>3, <1>7, <2>1, <3>2
      <4> QED
        BY <4>1
    <3> QED
      BY <1>2, <3>1, <3>2, SMTT(30)
  <2>3. ASSUME NEW i \in 2..Len(x), NEW j \in 2..Len(x), i < j PROVE x[i] < x[j]
    <3>1. i \in 2..Len(l) /\ x[i] = l[i]
      BY <1>2, <2>3
    <3>2. CASE j \in 2..Len(l)
      BY <1>2, <2>3, <3>1, <3>2 DEF GoodLines, Ordered
    <3>3. CASE j = Len(l) + 1
      <4>1. l[i] <= e.cursor - 1 /\ l[i] \in Nat /\ x[j] = e.cursor
        BY <1>2, <1>7, <2>1, <3>1, <3>3, SMTT(30)
      <4> QED
        BY <1>3, <3>1, <4>1
    <3>4. j \in 2..Len(l) \/ j = Len(l) + 1
      BY <1>2
    <3> QED
      BY <3>2, <3>3, <3>4
  <2>4. \A i \in 2..Len(x) : x[i] <= Hand(f)
    <3> SUFFICES ASSUME NEW i \in 2..Len(x) PROVE x[i] <= Hand(f)
      OBVIOUS
    <3>1. CASE i \in 2..Len(l)
      <4>1. l[i] <= e.cursor - 1 /\ l[i] \in Nat /\ x[i] = l[i]
        BY <1>2, <2>1, <3>1
      <4> QED
        BY <1>3, <4>1
    <3>2. CASE i = Len(l) + 1
      BY <1>2, <1>3, <1>7, <3>2
    <3> QED
      BY <1>2, <3>1, <3>2
  <2>5. ~f.lost => Len(x) = 1 + Hand(f) - f.birth
    BY <1>1, <1>2, <1>3, <2>1, SMTT(30)
  <2>6. Ordered(x)
    BY <2>2, <2>3 DEF Ordered
  <2>7. GoodLines(f, x)
    BY <1>1, <1>2, <2>1, <2>4, <2>5, <2>6 DEF GoodLines
  <2> QED
    BY <1>5, <2>7 DEF f, x
<1> QED
  BY <1>6, <1>7

\* The other steps of a connection leave the lines alone.
LEMMA ReceivedGood ==
    ASSUME NEW e \in Connections, NEW s \in Nat, GoodConn(e, s)
    PROVE  /\ e.line /\ e.pc = "read" => \A b \in BOOLEAN :
                LET f == [e EXCEPT !.line = FALSE, !.pc = "run", !.enabled = b]
                IN  GoodConn(f, s) /\ \A l : GoodLines(e, l) => GoodLines(f, l)
           /\ e.pc = "read" /\ e.enabled /\ s - e.cursor > Capacity =>
                LET f == [e EXCEPT !.cursor = s - Capacity, !.lost = TRUE]
                IN  GoodConn(f, s) /\ \A l \in Seq(Nat) : GoodLines(e, l) => GoodLines(f, l)
           /\ e.pc = "read" /\ e.enabled /\ s > e.cursor =>
                LET f == [e EXCEPT !.cursor = e.cursor + 1, !.pc = "push"]
                IN  GoodConn(f, s) /\ \A l : GoodLines(e, l) => GoodLines(f, l)
           /\ e.pc = "backlog" =>
                LET f == [e EXCEPT !.pc = "read", !.birth = s, !.cursor = s]
                IN  GoodConn(f, s) /\ \A l : GoodLines(e, l) => GoodLines(f, l)
<1> USE ConstantsOK
<1>0. e.birth \in Nat /\ e.cursor \in Nat
  BY DEF Connections
<1>1. ASSUME e.line, e.pc = "read", NEW b \in BOOLEAN
      PROVE  LET f == [e EXCEPT !.line = FALSE, !.pc = "run", !.enabled = b]
             IN  GoodConn(f, s) /\ \A l : GoodLines(e, l) => GoodLines(f, l)
  <2> DEFINE f == [e EXCEPT !.line = FALSE, !.pc = "run", !.enabled = b]
  <2>1. /\ f.pc = "run" /\ ~f.line /\ f.gone = e.gone /\ f.out = e.out
        /\ f.birth = e.birth /\ f.cursor = e.cursor
    BY DEF Connections
  <2> HIDE DEF f
  <2>2. GoodConn(f, s)
    BY <1>0, <1>1, <2>1 DEF GoodConn
  <2>3. \A l : GoodLines(e, l) => GoodLines(f, l)
    BY <1>1, <2>1 DEF GoodLines
  <2> QED
    BY <2>2, <2>3 DEF f
<1>2. ASSUME e.pc = "read", e.enabled, s - e.cursor > Capacity
      PROVE  LET f == [e EXCEPT !.cursor = s - Capacity, !.lost = TRUE]
             IN  GoodConn(f, s) /\ \A l \in Seq(Nat) : GoodLines(e, l) => GoodLines(f, l)
  <2> DEFINE f == [e EXCEPT !.cursor = s - Capacity, !.lost = TRUE]
  <2>1. /\ f.pc = "read" /\ f.line = e.line /\ f.enabled = e.enabled /\ f.gone = e.gone
        /\ f.out = e.out /\ f.birth = e.birth /\ f.cursor = s - Capacity /\ f.lost
    BY <1>2 DEF Connections
  <2>2. s - Capacity > e.cursor /\ s - Capacity <= s /\ s - Capacity \in Int
    BY <1>0, <1>2
  <2> HIDE DEF f
  <2>3. GoodConn(f, s)
    BY <1>0, <1>2, <2>1, <2>2 DEF GoodConn
  <2>4. ASSUME NEW l \in Seq(Nat), GoodLines(e, l) PROVE GoodLines(f, l)
    <3>1. Hand(f) = s - Capacity /\ Hand(e) = e.cursor
      BY <1>2, <2>1 DEF Hand
    <3>2. ASSUME NEW i \in 2..Len(l) PROVE l[i] <= Hand(f)
      <4>1. l[i] <= e.cursor /\ l[i] \in Nat
        BY <1>2, <2>4, <3>1, LenProperties DEF GoodLines
      <4> QED
        BY <1>0, <2>2, <3>1, <4>1
    <3> QED
      BY <1>2, <2>1, <2>4, <3>2 DEF GoodLines
  <2> QED
    BY <2>3, <2>4 DEF f
<1>3. ASSUME e.pc = "read", e.enabled, s > e.cursor
      PROVE  LET f == [e EXCEPT !.cursor = e.cursor + 1, !.pc = "push"]
             IN  GoodConn(f, s) /\ \A l : GoodLines(e, l) => GoodLines(f, l)
  <2> DEFINE f == [e EXCEPT !.cursor = e.cursor + 1, !.pc = "push"]
  <2>1. /\ f.pc = "push" /\ f.line = e.line /\ f.enabled = e.enabled /\ f.gone = e.gone
        /\ f.out = e.out /\ f.birth = e.birth /\ f.cursor = e.cursor + 1 /\ f.lost = e.lost
    BY <1>3 DEF Connections
  <2>2. Hand(f) = e.cursor /\ Hand(e) = e.cursor
    BY <1>0, <1>3, <2>1 DEF Hand
  <2> HIDE DEF f
  <2>3. GoodConn(f, s)
    BY <1>0, <1>3, <2>1 DEF GoodConn
  <2>4. \A l : GoodLines(e, l) => GoodLines(f, l)
    BY <1>3, <2>1, <2>2 DEF GoodLines
  <2> QED
    BY <2>3, <2>4 DEF f
<1>4. ASSUME e.pc = "backlog"
      PROVE  LET f == [e EXCEPT !.pc = "read", !.birth = s, !.cursor = s]
             IN  GoodConn(f, s) /\ \A l : GoodLines(e, l) => GoodLines(f, l)
  <2> DEFINE f == [e EXCEPT !.pc = "read", !.birth = s, !.cursor = s]
  <2>1. /\ f.pc = "read" /\ f.line = e.line /\ f.enabled = e.enabled /\ f.gone = e.gone
        /\ f.out = e.out /\ f.birth = s /\ f.cursor = s /\ ~e.enabled
    BY <1>4 DEF Connections, GoodConn
  <2> HIDE DEF f
  <2>2. GoodConn(f, s)
    BY <1>4, <2>1 DEF GoodConn
  <2>3. Len(<<>>) = 0
    OBVIOUS
  <2>4. \A l : GoodLines(e, l) => GoodLines(f, l)
    BY <1>4, <2>1, <2>3 DEF GoodLines
  <2> QED
    BY <2>2, <2>4 DEF f
<1> QED
  BY <1>1, <1>2, <1>3, <1>4

\* The connection c becomes e, whose lines go on as those of c.
LEMMA FeedConn ==
    ASSUME StateOK, LinkOK, FeedOK, NEW c \in Conns, NEW e \in Connections, Becomes(c, e),
           UNCHANGED <<client, sent>>, GoodConn(e, sent),
           \A k \in Clients : Current(k) = c => GoodLines(e, client[k].got \o e.out)
    PROVE  FeedOK'
<1>1. \A d \in Conns : GoodConn(conn'[d], sent')
  BY DEF FeedOK, Becomes
<1>2. ASSUME NEW k \in Clients PROVE GoodLines(conn'[Current(k)'], Lines(k)')
  <2>1. Current(k)' = Current(k) /\ Current(k) \in Conns /\ client'[k].got = client[k].got
    BY CurrentOK DEF Current
  <2>2. CASE Current(k) = c
    BY <2>1, <2>2 DEF Lines, Becomes
  <2>3. CASE Current(k) # c
    BY <2>1, <2>3 DEF Lines, Becomes, FeedOK
  <2> QED
    BY <2>2, <2>3
<1> QED
  BY <1>1, <1>2 DEF FeedOK

\* Neither the connections nor what was read change.
LEMMA FeedSame ==
    ASSUME StateOK, LinkOK, FeedOK, UNCHANGED conn, sent' \in Nat, sent <= sent',
           \A k \in Clients : client'[k].got = client[k].got /\ client'[k].try = client[k].try
    PROVE  FeedOK'
<1>1. \A c \in Conns : conn[c].birth \in Nat /\ conn[c].cursor \in Nat /\ sent \in Nat
  BY DEF StateOK, Connections
<1>2. \A c \in Conns : GoodConn(conn'[c], sent')
  BY <1>1 DEF FeedOK, GoodConn
<1>3. \A k \in Clients : Current(k)' = Current(k)
  BY DEF Current
<1>4. \A k \in Clients : Lines(k)' = Lines(k)
  BY <1>3 DEF Lines
<1> QED
  BY <1>2, <1>3, <1>4 DEF FeedOK

LEMMA StepFeed == StateOK /\ LinkOK /\ FeedOK /\ [Next]_vars => FeedOK'
<1> SUFFICES ASSUME StateOK, LinkOK, FeedOK, [Next]_vars PROVE FeedOK'
  OBVIOUS
<1> USE ConstantsOK
<1>0. /\ sent \in Nat
      /\ \A c \in Conns : conn[c] \in Connections /\ conn[c].out \in Seq(Nat)
                          /\ GoodConn(conn[c], sent)
      /\ \A k \in Clients : /\ Current(k) \in Conns /\ client[k].got \in Seq(Nat)
                            /\ client[k] \in Commands
                            /\ Lines(k) \in Seq(Nat) /\ GoodLines(conn[Current(k)], Lines(k))
  <2>1. /\ sent \in Nat
        /\ \A c \in Conns : conn[c] \in Connections /\ conn[c].out \in Seq(Nat)
                            /\ GoodConn(conn[c], sent)
    BY DEF StateOK, Connections, FeedOK
  <2>2. ASSUME NEW k \in Clients
        PROVE  /\ Current(k) \in Conns /\ client[k].got \in Seq(Nat) /\ client[k] \in Commands
               /\ Lines(k) \in Seq(Nat) /\ GoodLines(conn[Current(k)], Lines(k))
    <3>1. Current(k) \in Conns /\ client[k].got \in Seq(Nat) /\ client[k] \in Commands
      BY CurrentOK DEF StateOK, Commands
    <3>2. Lines(k) \in Seq(Nat)
      BY <2>1, <3>1, LinesMove DEF Lines
    <3> QED
      BY <3>1, <3>2 DEF FeedOK
  <2> QED
    BY <2>1, <2>2
\* A step that leaves what c has handed over as it is.
<1>1. ASSUME NEW c \in Conns, NEW e \in Connections, Becomes(c, e), UNCHANGED <<client, sent>>,
             GoodConn(e, sent), e.out = conn[c].out,
             \A l \in Seq(Nat) : GoodLines(conn[c], l) => GoodLines(e, l)
      PROVE  FeedOK'
  <2>1. \A k \in Clients : Current(k) = c => GoodLines(e, client[k].got \o e.out)
    BY <1>0, <1>1 DEF Lines
  <2> QED
    BY <1>1, <2>1, FeedConn
<1>2. ASSUME NEW c \in Conns, Becomes(c, Closed(conn[c])), UNCHANGED <<client, sent>>
      PROVE  FeedOK'
  <2>1. Closed(conn[c]) \in Connections /\ Closed(conn[c]).out = conn[c].out
    BY <1>0, RecordsOK, StepPcs
  <2>2. /\ GoodConn(Closed(conn[c]), sent)
        /\ \A l : GoodLines(conn[c], l) => GoodLines(Closed(conn[c]), l)
    BY <1>0, ClosedGood
  <2> QED
    BY <1>1, <1>2, <2>1, <2>2
<1>3. ASSUME NEW t \in Transports, Accept(t) PROVE FeedOK'
  <2> DEFINE c == Head(backlog[t])
             e == [conn[c] EXCEPT !.pc = "read", !.birth = sent, !.cursor = sent]
  <2>1. UNCHANGED <<client, sent>> /\ c \in Conns
    BY <1>3, AcceptBecomes DEF Accept
  <2>2. CASE Becomes(c, Closed(conn[c]))
    BY <1>2, <2>1, <2>2
  <2>3. CASE Becomes(c, e)
    <3>1. conn[c].pc = "backlog"
      <4>1. c = backlog[t][1] /\ backlog[t] \in Seq(Conns) /\ backlog[t] # <<>>
        BY <1>3, AcceptBecomes DEF Accept, StateOK
      <4>2. 1 \in DOMAIN backlog[t]
        BY <4>1, EmptySeq, LenProperties
      <4> QED
        BY <4>1, <4>2 DEF LinkOK
    <3>2. e \in Connections
      BY <1>0, <2>1, <2>3 DEF Connections, ConnPcs
    <3>3. e.out = conn[c].out
      BY <1>0, <2>1 DEF Connections
    <3>4. GoodConn(e, sent) /\ \A l : GoodLines(conn[c], l) => GoodLines(e, l)
      BY <1>0, <2>1, <3>1, ReceivedGood
    <3> HIDE DEF c, e
    <3> QED
      BY <1>1, <2>1, <2>3, <3>2, <3>3, <3>4
  <2> QED
    BY <1>3, <2>2, <2>3, AcceptBecomes
<1>4. ASSUME NEW c \in Conns, ReadLine(c) PROVE FeedOK'
  <2>1. conn[c].line /\ conn[c].pc = "read" /\ UNCHANGED <<client, sent>>
    BY <1>4 DEF ReadLine, Conn
  <2>2. PICK b \in BOOLEAN :
           Becomes(c, [conn[c] EXCEPT !.line = FALSE, !.pc = "run", !.enabled = b])
    BY <1>4, ReadBecomes
  <2> DEFINE e == [conn[c] EXCEPT !.line = FALSE, !.pc = "run", !.enabled = b]
  <2>3. e \in Connections /\ e.out = conn[c].out
    BY <1>0 DEF Connections, ConnPcs
  <2>4. GoodConn(e, sent) /\ \A l : GoodLines(conn[c], l) => GoodLines(e, l)
    BY <1>0, <2>1, ReceivedGood
  <2>5. Becomes(c, e)
    BY <2>2
  <2> HIDE DEF e
  <2> QED
    BY <1>1, <2>1, <2>3, <2>4, <2>5
<1>5. ASSUME NEW c \in Conns, Recv(c) PROVE FeedOK'
  <2>1. /\ conn[c].enabled /\ conn[c].pc = "read" /\ sent > conn[c].cursor
        /\ UNCHANGED <<client, sent>> /\ conn[c].cursor \in Nat
    BY <1>0, <1>5 DEF Recv, Conn, Connections
  <2>2. CASE /\ sent - conn[c].cursor > Capacity
             /\ Becomes(c, [conn[c] EXCEPT !.cursor = sent - Capacity, !.lost = TRUE])
    <3> DEFINE e == [conn[c] EXCEPT !.cursor = sent - Capacity, !.lost = TRUE]
    <3>1. e \in Connections /\ e.out = conn[c].out
      <4>1. sent - Capacity \in Nat
        BY <1>0, <2>1, <2>2
      <4> QED
        BY <1>0, <4>1 DEF Connections
    <3>2. GoodConn(e, sent) /\ \A l \in Seq(Nat) : GoodLines(conn[c], l) => GoodLines(e, l)
      BY <1>0, <2>1, <2>2, ReceivedGood
    <3>3. Becomes(c, e)
      BY <2>2
    <3> HIDE DEF e
    <3> QED
      BY <1>1, <2>1, <3>1, <3>2, <3>3
  <2>3. CASE Becomes(c, [conn[c] EXCEPT !.cursor = conn[c].cursor + 1, !.pc = "push"])
    <3> DEFINE e == [conn[c] EXCEPT !.cursor = conn[c].cursor + 1, !.pc = "push"]
    <3>1. e \in Connections /\ e.out = conn[c].out
      <4> DEFINE n == conn[c].cursor + 1
      <4>1. n \in Nat /\ "push" \in ConnPcs
        BY <2>1 DEF ConnPcs
      <4> HIDE DEF n
      <4>2. [conn[c] EXCEPT !.cursor = n, !.pc = "push"] \in Connections
        BY <1>0, <4>1 DEF Connections
      <4>3. [conn[c] EXCEPT !.cursor = n, !.pc = "push"].out = conn[c].out
        BY <1>0 DEF Connections
      <4> QED
        BY <4>2, <4>3 DEF n
    <3>2. GoodConn(e, sent) /\ \A l : GoodLines(conn[c], l) => GoodLines(e, l)
      BY <1>0, <2>1, ReceivedGood
    <3>3. Becomes(c, e)
      BY <2>3
    <3> HIDE DEF e
    <3> QED
      BY <1>1, <2>1, <3>1, <3>2, <3>3
  <2> QED
    BY <1>5, <2>2, <2>3, RecvBecomes
<1>6. ASSUME NEW c \in Conns, NEW n \in Nat, Send(c, n), UNCHANGED <<client, sent>>,
             \/ conn[c].pc = "run" /\ n = 0
             \/ conn[c].pc = "push" /\ n = conn[c].cursor
      PROVE  FeedOK'
  <2>1. CASE Becomes(c, Closed(conn[c]))
    BY <1>2, <1>6, <2>1
  <2>2. CASE ~conn[c].gone
             /\ Becomes(c, [conn[c] EXCEPT !.pc = "read", !.out = Append(conn[c].out, n)])
    <3> DEFINE o == Append(conn[c].out, n)
               e == [conn[c] EXCEPT !.pc = "read", !.out = o]
    <3>1. o \in Seq(Nat)
      BY <1>0, AppendProperties
    <3>2. e \in Connections /\ e.out = o
      <4> HIDE DEF o
      <4> QED
        BY <1>0, <3>1 DEF Connections, ConnPcs
    <3>3. ASSUME NEW l \in Seq(Nat), GoodLines(conn[c], l)
          PROVE  GoodConn(e, sent) /\ GoodLines(e, Append(l, n))
      <4> HIDE DEF o
      <4> QED
        BY <1>0, <1>6, <2>2, <3>1, <3>3, SentGood
    <3>4. GoodConn(e, sent)
      <4>1. /\ e.pc = "read" /\ e.out = o /\ ~e.gone /\ e.line = conn[c].line
            /\ e.enabled = conn[c].enabled /\ e.birth = conn[c].birth
            /\ e.cursor = conn[c].cursor
        <5> HIDE DEF o
        <5> QED
          BY <1>0, <2>2 DEF Connections
      <4>2. conn[c].birth \in Nat /\ conn[c].cursor \in Nat
        BY <1>0 DEF Connections
      <4> HIDE DEF e
      <4> QED
        BY <1>0, <1>6, <4>1, <4>2 DEF GoodConn
    <3>5. ASSUME NEW k \in Clients, Current(k) = c PROVE GoodLines(e, client[k].got \o e.out)
      <4>1. client[k].got \o o = Append(Lines(k), n)
        BY <1>0, <3>5, LinesMove DEF Lines
      <4>2. GoodLines(e, Append(Lines(k), n))
        BY <1>0, <3>3, <3>5
      <4> HIDE DEF e, o
      <4> QED
        BY <3>2, <4>1, <4>2
    <3>6. Becomes(c, e)
      BY <2>2
    <3> HIDE DEF e, o
    <3> QED
      BY <1>6, <3>2, <3>4, <3>5, <3>6, FeedConn
  <2> QED
    BY <1>6, <2>1, <2>2, SendBecomes
<1>7. ASSUME NEW c \in Conns, ConnNext(c) PROVE FeedOK'
  <2>1. UNCHANGED <<client, sent>>
    BY <1>7 DEF ConnNext, ReadLine, Reply, Recv, Push, EndOfFile, Conn
  <2>2. CASE Reply(c)
    BY <1>6, <2>1, <2>2 DEF Reply, Conn, Answer
  <2>3. CASE Push(c)
    <3>1. Send(c, conn[c].cursor) /\ conn[c].cursor \in Nat /\ conn[c].pc = "push"
      BY <1>0, <2>3 DEF Push, Conn, Connections
    <3> QED
      BY <1>6, <2>1, <3>1
  <2>4. CASE EndOfFile(c)
    <3>1. Becomes(c, Closed(conn[c]))
      BY <2>4, CloseBecomes DEF EndOfFile
    <3> QED
      BY <1>2, <2>1, <3>1
  <2> QED
    BY <1>4, <1>5, <1>7, <2>2, <2>3, <2>4 DEF ConnNext
\* The clients.
<1>8. ASSUME NEW k \in Clients, AttemptFails(k), UNCHANGED <<conn, sent>> PROVE FeedOK'
  <2>1. CASE \/ Turns(k, [client[k] EXCEPT !.pc = "failed"])
             \/ Turns(k, [client[k] EXCEPT !.pc = "expired"])
    <3>1. client'[k].got = client[k].got /\ client'[k].try = client[k].try
      BY <1>0, <2>1 DEF Turns, Commands
    <3>2. \A j \in Clients : client'[j].got = client[j].got /\ client'[j].try = client[j].try
      BY <2>1, <3>1 DEF Turns
    <3> QED
      BY <1>0, <1>8, <3>2, FeedSame
  <2>2. CASE /\ Kind[k] = "retry"
             /\ Turns(k, [pc |-> "connect", try |-> client[k].try + 1, got |-> <<>>])
    <3>1. /\ client'[k].pc = "connect" /\ client'[k].try = client[k].try + 1
          /\ client'[k].got = <<>> /\ client' \in [Clients -> Commands]
          /\ \A j \in Clients : j # k => client'[j] = client[j]
      BY <2>2 DEF Turns
    <3>2. client'[k].try \in 1..MaxTries /\ client[k].try \in Nat
      BY <1>0, <3>1 DEF Commands
    <3>3. Current(k)' = <<k, client[k].try + 1>> /\ Current(k)' \in Conns
      BY <2>2, <3>1, <3>2 DEF Current, Conns
    <3>4. conn[Current(k)'].pc = "none"
      <4> DEFINE d == <<k, client[k].try + 1>>
      <4>1. d \in Conns /\ d[1] = k /\ d[2] > client[k].try
        BY <3>2, <3>3
      <4> HIDE DEF d
      <4>2. conn[d].pc = "none"
        BY <4>1 DEF LinkOK
      <4> QED
        BY <3>3, <4>2 DEF d
    <3>5. conn[Current(k)'].out = <<>>
      BY <1>0, <3>3, <3>4 DEF GoodConn
    <3>6. Lines(k)' = <<>>
      <4>1. <<>> \o <<>> = <<>>
        OBVIOUS
      <4> QED
        BY <1>8, <3>1, <3>5, <4>1 DEF Lines
    <3>7. GoodLines(conn[Current(k)'], <<>>)
      BY <3>4 DEF GoodLines, Ordered
    <3>8. \A j \in Clients : j # k => Current(j)' = Current(j) /\ Lines(j)' = Lines(j)
      BY <1>8, <3>1 DEF Current, Lines
    <3> QED
      BY <1>0, <1>8, <3>6, <3>7, <3>8 DEF FeedOK
  <2> QED
    BY <1>8, <2>1, <2>2, FailsTurns
\* What k has read, and its connection, change to p and e.
<1>9. ASSUME NEW k \in Clients, NEW e \in Connections, NEW a \in Commands,
             Becomes(Current(k), e), Turns(k, a), a.try = client[k].try, UNCHANGED sent,
             GoodConn(e, sent), GoodLines(e, a.got \o e.out)
      PROVE  FeedOK'
  <2>1. \A c \in Conns : GoodConn(conn'[c], sent')
    BY <1>0, <1>9 DEF Becomes
  <2>2. Current(k)' = Current(k) /\ Lines(k)' = a.got \o e.out
    BY <1>9 DEF Current, Lines, Turns, Becomes
  <2>3. ASSUME NEW j \in Clients, j # k
        PROVE  Current(j)' = Current(j) /\ Lines(j)' = Lines(j)
               /\ conn'[Current(j)] = conn[Current(j)]
    <3>1. Current(j)' = Current(j) /\ Current(j) # Current(k)
      BY <1>9, <2>3 DEF Current, Turns
    <3> QED
      BY <1>0, <1>9, <2>3, <3>1 DEF Lines, Turns, Becomes
  <2> QED
    BY <1>0, <1>9, <2>1, <2>2, <2>3 DEF FeedOK, Becomes
<1>10. ASSUME NEW k \in Clients, Connect(k) PROVE FeedOK'
  <2>1. UNCHANGED sent /\ client[k].pc = "connect"
    BY <1>10 DEF Connect, Client
  <2>2. CASE AttemptFails(k) /\ UNCHANGED <<conn, backlog>>
    BY <1>8, <2>1, <2>2
  <2>3. CASE /\ Becomes(Current(k), [NoConn EXCEPT !.pc = "backlog", !.line = TRUE])
             /\ Turns(k, [client[k] EXCEPT !.pc = "wait"])
    <3> DEFINE e == [NoConn EXCEPT !.pc = "backlog", !.line = TRUE]
               a == [client[k] EXCEPT !.pc = "wait"]
    <3>1. /\ e \in Connections /\ e.out = <<>> /\ e.pc = "backlog" /\ ~e.gone /\ ~e.enabled
          /\ e.line /\ e.cursor = e.birth
      <4>1. /\ NoConn \in Connections /\ NoConn.out = <<>> /\ ~NoConn.gone /\ ~NoConn.enabled
            /\ NoConn.cursor = NoConn.birth
        BY RecordsOK DEF NoConn
      <4>2. "backlog" \in ConnPcs
        BY DEF ConnPcs
      <4>3. e \in Connections
        BY <4>1, <4>2 DEF Connections
      <4>4. /\ e.out = NoConn.out /\ e.pc = "backlog" /\ e.gone = NoConn.gone
            /\ e.enabled = NoConn.enabled /\ e.line = TRUE
            /\ e.cursor = NoConn.cursor /\ e.birth = NoConn.birth
        BY <4>1, Zenon DEF Connections
      <4> HIDE DEF e
      <4> QED
        BY <4>1, <4>3, <4>4
    <3>2. a \in Commands /\ a.try = client[k].try /\ a.got = client[k].got
      BY <1>0 DEF Commands, ClientPcs
    <3>3. client[k].got = <<>>
      <4>1. conn[Current(k)].pc = "none"
        BY <1>0, <2>1 DEF LinkOK, Current
      <4>2. Lines(k) = <<>> /\ conn[Current(k)].out = <<>>
        BY <1>0, <4>1 DEF GoodLines, GoodConn
      <4>3. client[k].got \o <<>> = <<>>
        BY <4>2 DEF Lines
      <4> QED
        BY <1>0, <4>3, ConcatEmptySeq
    <3> HIDE DEF e, a
    <3>4. a.got \o e.out = <<>>
      BY <3>1, <3>2, <3>3
    <3>5. GoodConn(e, sent) /\ GoodLines(e, <<>>)
      BY <3>1 DEF GoodConn, GoodLines, Ordered
    <3> QED
      BY <1>9, <2>1, <2>3, <3>1, <3>2, <3>4, <3>5 DEF e, a
  <2> QED
    BY <1>10, <2>2, <2>3, ConnectBecomes
<1>11. ASSUME NEW k \in Clients, ReadLines(k) PROVE FeedOK'
  <2> DEFINE c == Current(k)
             out == conn[c].out
             got == Append(client[k].got, Head(out))
  <2>1. /\ out \in Seq(Nat) /\ out # <<>> /\ UNCHANGED sent
        /\ Head(out) \in Nat /\ Tail(out) \in Seq(Nat) /\ got \in Seq(Nat)
    <3>1. out \in Seq(Nat) /\ out # <<>> /\ UNCHANGED sent
      BY <1>11, ReadLinesBecomes DEF ReadLines
    <3>2. Head(out) \in Nat /\ Tail(out) \in Seq(Nat)
      BY <3>1, HeadTailProperties
    <3> QED
      BY <1>0, <3>1, <3>2, AppendProperties
  <2>2. PICK pc \in {"listen", "done"} : Turns(k, [client[k] EXCEPT !.got = got, !.pc = pc])
    BY <1>11, ReadLinesBecomes
  <2> DEFINE a == [client[k] EXCEPT !.got = got, !.pc = pc]
  <2>3. a \in Commands /\ a.try = client[k].try /\ a.got = got
    <3> HIDE DEF got
    <3> QED
      BY <1>0, <2>1 DEF Commands, ClientPcs
  <2>4. got \o Tail(out) = Lines(k) /\ Prefix(got, Lines(k))
    BY <1>0, <2>1, LinesMove, PrefixOfLines DEF Lines
  <2>5. Turns(k, a)
    BY <2>2
  <2> HIDE DEF a, got
  <2>6. CASE Becomes(c, [conn[c] EXCEPT !.out = Tail(out)])
    <3> DEFINE e == [conn[c] EXCEPT !.out = Tail(out)]
    <3>1. /\ e \in Connections /\ e.out = Tail(out) /\ e.pc = conn[c].pc /\ e.line = conn[c].line
          /\ e.enabled = conn[c].enabled /\ e.birth = conn[c].birth
          /\ e.cursor = conn[c].cursor /\ e.lost = conn[c].lost /\ e.gone = conn[c].gone
      BY <1>0, <2>1 DEF Connections
    <3>2. Hand(e) = Hand(conn[c])
      BY <3>1 DEF Hand
    <3>3. Becomes(c, e)
      BY <2>6
    <3> HIDE DEF e
    <3>4. GoodConn(e, sent)
      BY <1>0, <2>1, <3>1 DEF GoodConn
    <3>5. GoodLines(e, Lines(k))
      BY <1>0, <3>1, <3>2 DEF GoodLines
    <3> QED
      BY <1>9, <2>1, <2>3, <2>4, <2>5, <3>1, <3>3, <3>4, <3>5
  <2>7. CASE Becomes(c, Abandoned(conn[c]))
    <3>1. Abandoned(conn[c]) \in Connections /\ Abandoned(conn[c]).out = <<>>
      BY <1>0, RecordsOK, StepPcs
    <3>2. GoodConn(Abandoned(conn[c]), sent) /\ GoodLines(Abandoned(conn[c]), got)
      BY <1>0, <2>1, <2>4, AbandonedGood
    <3>3. got \o <<>> = got
      BY <2>1, ConcatEmptySeq
    <3> QED
      BY <1>9, <2>1, <2>3, <2>5, <2>7, <3>1, <3>2, <3>3
  <2> QED
    BY <1>11, <2>6, <2>7, ReadLinesBecomes
<1>12. ASSUME NEW k \in Clients, Deadline(k) PROVE FeedOK'
  <2> DEFINE e == conn[Current(k)]
             a == [client[k] EXCEPT !.pc = "expired"]
  <2>1. Becomes(Current(k), Abandoned(e)) /\ Turns(k, a) /\ UNCHANGED sent
    BY <1>12, DeadlineBecomes DEF Deadline
  <2>2. a \in Commands /\ a.try = client[k].try /\ a.got = client[k].got
    BY <1>0 DEF Commands, ClientPcs
  <2>3. Abandoned(e) \in Connections /\ Abandoned(e).out = <<>>
    BY <1>0, RecordsOK, StepPcs
  <2>4. Prefix(client[k].got, Lines(k))
    BY <1>0, PrefixOfLines DEF Lines
  <2>5. GoodConn(Abandoned(e), sent) /\ GoodLines(Abandoned(e), client[k].got)
    BY <1>0, <2>4, AbandonedGood
  <2>6. client[k].got \o <<>> = client[k].got
    BY <1>0, ConcatEmptySeq
  <2> HIDE DEF a
  <2> QED
    BY <1>9, <2>1, <2>2, <2>3, <2>5, <2>6
<1>13. ASSUME NEW k \in Clients, HungUp(k) PROVE FeedOK'
  BY <1>8, <1>13 DEF HungUp, serverVars
<1>14. CASE Publish
  <2>1. sent' = sent + 1 /\ UNCHANGED <<conn, client>>
    BY <1>14 DEF Publish
  <2> QED
    BY <1>0, <2>1, FeedSame
<1>15. CASE Crash
  <2>1. /\ conn' = [c \in Conns |-> IF conn[c].pc = "none" THEN NoConn ELSE Closed(conn[c])]
        /\ UNCHANGED <<client, sent>>
    BY <1>15 DEF Crash
  <2>2. ASSUME NEW c \in Conns
        PROVE  /\ GoodConn(conn'[c], sent) /\ conn'[c].out = conn[c].out
               /\ \A l : GoodLines(conn[c], l) => GoodLines(conn'[c], l)
    <3>1. CASE conn[c].pc = "none"
      <4>1. conn'[c] = NoConn /\ conn[c].out = <<>>
        BY <1>0, <2>1, <3>1 DEF GoodConn
      <4>2. GoodConn(NoConn, sent) /\ NoConn.out = <<>>
        BY DEF GoodConn, NoConn
      <4>3. \A l : GoodLines(conn[c], l) => GoodLines(NoConn, l)
        BY <3>1 DEF GoodLines, NoConn
      <4> QED
        BY <4>1, <4>2, <4>3
    <3>2. CASE conn[c].pc # "none"
      BY <1>0, <2>1, <3>2, ClosedGood, StepPcs
    <3> QED
      BY <3>1, <3>2
  <2>3. \A k \in Clients : Current(k)' = Current(k) /\ Lines(k)' = Lines(k)
    BY <1>0, <2>1, <2>2 DEF Current, Lines
  <2> QED
    BY <1>0, <2>1, <2>2, <2>3 DEF FeedOK
<1>16. ASSUME UNCHANGED <<conn, client, sent>> PROVE FeedOK'
  BY <1>0, <1>16, FeedSame
<1>17. ASSUME NEW t \in Transports, Begin(t) \/ AcceptFails(t) \/ Backoff(t) PROVE FeedOK'
  BY <1>16, <1>17 DEF Begin, AcceptFails, Backoff
<1>18. CASE Start \/ UNCHANGED vars
  BY <1>16, <1>18 DEF Start, vars
<1> QED
  BY <1>3, <1>7, <1>10, <1>11, <1>12, <1>13, <1>14, <1>15, <1>17, <1>18
     DEF Next, TaskNext, ClientNext

---------------------------------------------------------------------------
(* The invariant.                                                          *)

IInv == StateOK /\ LinkOK /\ Balanced /\ FeedOK

LEMMA InitIInv == Init => IInv
<1> SUFFICES ASSUME Init PROVE IInv
  OBVIOUS
<1> USE ConstantsOK DEF Init
<1>1. NoConn \in Connections /\ NoConn.pc = "none" /\ NoConn.out = <<>>
  BY RecordsOK DEF NoConn
<1>2. \A k \in Clients : client[k] \in Commands
  BY DEF Commands, ClientPcs
<1>3. StateOK
  <2>1. up \in BOOLEAN /\ sent \in 0..MaxEvents /\ faults \in 0..MaxFaults
    OBVIOUS
  <2>2. backlog \in [Transports -> Seq(Conns)]
    OBVIOUS
  <2> QED
    BY <1>1, <1>2, <2>1, <2>2 DEF StateOK
<1>4. LinkOK
  <2>1. \A t \in Transports : DOMAIN backlog[t] = {}
    OBVIOUS
  <2> QED
    BY <1>1, <2>1 DEF LinkOK
<1>5. Balanced
  <2>1. Holding = {} /\ Served = {}
    BY <1>1 DEF Holding, Served
  <2>2. QueueOK
    BY DEF QueueOK, Tasks
  <2> QED
    BY <2>1, <2>2, FS_EmptySet DEF Balanced, Unused
<1>6. FeedOK
  <2>1. GoodConn(NoConn, sent) /\ GoodLines(NoConn, <<>>)
    BY DEF GoodConn, GoodLines, Ordered, NoConn
  <2>2. \A k \in Clients : Current(k) \in Conns
    BY <1>3, <1>4, CurrentOK
  <2>3. <<>> \o <<>> = <<>>
    OBVIOUS
  <2>4. \A k \in Clients : Lines(k) = <<>> /\ conn[Current(k)] = NoConn
    BY <1>1, <2>2, <2>3 DEF Lines
  <2> QED
    BY <2>1, <2>4 DEF FeedOK
<1> QED
  BY <1>3, <1>4, <1>5, <1>6 DEF IInv

LEMMA StepIInv == IInv /\ [Next]_vars => IInv'
  BY StepState, StepLink, StepBalanced, StepFeed DEF IInv

THEOREM Invariance == Spec => []IInv
  BY InitIInv, StepIInv, PTL DEF Spec

\* The state keeps its types; nobody waits for a permit while one is free
\* (serve, take_permit).
THEOREM TypeCorrect == Spec => []TypeOK
<1>1. IInv => TypeOK
  <2> SUFFICES ASSUME IInv PROVE TypeOK
    OBVIOUS
  <2>1. free \in 0..MaxConnections
    BY ServedFinite, ConstantsOK DEF IInv, Balanced, Unused, QueueOK
  <2> QED
    BY <2>1 DEF IInv, StateOK, Balanced, QueueOK, TypeOK
<1> QED
  BY <1>1, Invariance, PTL

\* However connections and accepts end, no permit is lost or made, so serve
\* never stops accepting for good and never serves more than MAX_CONNECTIONS.
THEOREM NoPermitLost == Spec => []PermitsAccounted
<1>1. IInv => PermitsAccounted
  BY ServedFinite DEF IInv, Balanced, Unused, QueueOK, PermitsAccounted
<1> QED
  BY <1>1, Invariance, PTL

\* exchange() takes the first line for the answer, and it is: a connection
\* forwards no notification before it has answered.
THEOREM AnswersComeFirst == Spec => []AnswerFirst
<1>1. IInv => AnswerFirst
  <2> SUFFICES ASSUME IInv, NEW k \in Clients
               PROVE  \A i \in DOMAIN Lines(k) : Lines(k)[i] = Answer <=> i = 1
    BY DEF AnswerFirst, Lines
  <2>1. Current(k) \in Conns
    BY CurrentOK DEF IInv
  <2>2. client[k].got \in Seq(Nat) /\ conn[Current(k)].out \in Seq(Nat)
    BY <2>1 DEF IInv, StateOK, Commands, Connections
  <2>3. Lines(k) \in Seq(Nat)
    BY <2>2, LinesMove DEF Lines
  <2>4. DOMAIN Lines(k) = 1..Len(Lines(k))
    BY <2>3, LenProperties
  <2> QED
    BY <2>4 DEF IInv, FeedOK, GoodLines, Ordered, Answer
<1> QED
  BY <1>1, Invariance, PTL

\* What a listener gets are the notifications since it connected, in order and
\* without a gap unless it lagged (connection, the arm of the select! that
\* receives).
THEOREM FeedsComplete == Spec => []FeedComplete
<1>1. IInv => FeedComplete
  <2> SUFFICES ASSUME IInv, NEW k \in Clients
               PROVE  /\ \A i, j \in 2..Len(Lines(k)) : i < j => Lines(k)[i] < Lines(k)[j]
                      /\ (/\ conn[Current(k)].pc = "read" /\ conn[Current(k)].enabled
                          /\ ~conn[Current(k)].lost /\ ~conn[Current(k)].gone)
                         => Len(Lines(k)) = 1 + conn[Current(k)].cursor - conn[Current(k)].birth
    BY DEF FeedComplete, Lines
  <2>1. GoodLines(conn[Current(k)], Lines(k))
    BY DEF IInv, FeedOK
  <2> QED
    BY <2>1 DEF GoodLines, Ordered, Hand
<1> QED
  BY <1>1, Invariance, PTL
=============================================================================
