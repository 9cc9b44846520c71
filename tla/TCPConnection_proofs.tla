------------------------ MODULE TCPConnection_proofs ------------------------
(***************************************************************************)
(* Proofs about the two threads of a TCPConnection: the types of what they *)
(* share, that the destructor waits for a worker that has started, that    *)
(* packets come in order, and that the outbound side implements            *)
(* ByteChannel.                                                            *)
(***************************************************************************)
EXTENDS TCPConnection, SequenceTheorems, TLAPS

InLoop == {"loop", "recv", "sendData", "ending", "unlock", "pureVirtual"}

\* While the worker is in TCPConnectionLoop, mMLoopRunning is the worker's.
LoopLocked == workerPc \in InLoop => loopLock = "worker"

\* The derived object is whole only before the destructor, and freed only
\* after it; only a freed object can be touched too late.
Stages ==
    /\ object = "alive" => mainPc \notin {"destructor", "wait", "clear", "gone"}
    /\ object = "freed" <=> mainPc = "gone"
    /\ workerPc = "useAfterFree" => object = "freed"

\* Where the two mutexes, the two threads and the object are.
ThreadTypes ==
    /\ loopLock \in Thread
    /\ object \in Object
    /\ mainPc \in MainPc
    /\ workerPc \in WorkerPc

Inv == ThreadTypes /\ LoopLocked /\ Stages

\* Once the worker has started, the main thread is past WaitLoop only when the
\* worker is done.
Joined ==
    /\ workerPc # "new"
    /\ workerPc # "useAfterFree"
    /\ mainPc \in {"clear", "gone"} => workerPc = "done"

-----------------------------------------------------------------------------
\* TypeOK is inductive by itself: TCPConnection's states, lock owners, program
\* counters and counters stay in their sets, whatever the sizes.
THEOREM TypeCorrect == Spec => []TypeOK
<1>1. Init => TypeOK
  <2>1. Init => /\ unread \in 0..SocketRoom
                /\ sends \in 0..MaxSends
                /\ arrived \in 0..MaxPackets
                /\ received \in 0..MaxPackets
    BY TCPAssumption DEF TCPAssumption, Init
  <2>2. Init => failed \in BOOLEAN
    BY DEF Init
  <2> QED
    BY <2>1, <2>2 DEF Init, TypeOK, SockState, Thread, Object, MainPc, WorkerPc
<1>2. TypeOK /\ [Next]_vars => TypeOK'
  <2> SUFFICES ASSUME TypeOK, [Next]_vars PROVE TypeOK'
    OBVIOUS
  <2> USE TCPAssumption DEF TCPAssumption, TypeOK, SockState, Thread, Object, MainPc, WorkerPc
  <2>1. CASE Main
    <3>1. CASE CallSend \/ Send \/ CallDisconnect \/ Disconnect
      BY <3>1 DEF CallSend, Send, CallDisconnect, Disconnect, sockVars, peerVars
    <3>2. CASE PopRep \/ Delete \/ WaitLoop
      BY <3>2 DEF PopRep, Delete, WaitLoop, sockVars, peerVars
    <3>3. CASE Free
      <4>1. failed' \in BOOLEAN
        BY <3>3 DEF Free, Live
      <4> QED
        BY <3>3, <4>1 DEF Free, sockVars, peerVars
    <3> QED
      BY <2>1, <3>1, <3>2, <3>3 DEF Main
  <2>2. CASE Worker
    <3>1. CASE StartLoop
      BY <3>1 DEF StartLoop, peerVars
    <3>2. CASE Process
      BY <3>2 DEF Process, peerVars
    <3>3. CASE RecvData
      BY <3>3 DEF RecvData, sockVars, peerVars
    <3>7. CASE RecvWouldBlock
      BY <3>7 DEF RecvWouldBlock, sockVars, peerVars
    <3>8. CASE RecvFails
      BY <3>8 DEF RecvFails, sockVars, peerVars
    <3>4. CASE SendData
      BY <3>4 DEF SendData, sockVars, peerVars
    <3>5. CASE SendFails \/ SendDone
      BY <3>5, SMTT(30), ZenonT(30) DEF SendFails, SendDone, peerVars
    <3>6. CASE DoDisconnect \/ EndLoop \/ TouchFreed
      BY <3>6 DEF DoDisconnect, EndLoop, TouchFreed, sockVars, peerVars
    <3> QED
      BY <2>2, <3>1, <3>2, <3>3, <3>4, <3>5, <3>6, <3>7, <3>8 DEF Worker
  <2>3. CASE Peer
    BY <2>3 DEF Peer, PeerSends, PeerReads, PeerCloses, sockVars, peerVars
  <2>4. CASE UNCHANGED vars
    BY <2>4 DEF vars, sockVars, peerVars
  <2> QED
    BY <2>1, <2>2, <2>3, <2>4 DEF Next
<1> QED
  BY <1>1, <1>2, PTL DEF Spec

\* The invariant that ties the loop lock to the worker and the object to the
\* main thread.
LEMMA Invariant == Spec => []Inv
<1> USE DEF Inv, ThreadTypes, LoopLocked, Stages, InLoop,
            Thread, Object, MainPc, WorkerPc
<1>1. Init => Inv
  BY DEF Init
<1>2. Inv /\ [Next]_vars => Inv'
  <2> SUFFICES ASSUME Inv, [Next]_vars PROVE Inv'
    OBVIOUS
  <2>1. CASE Main
    BY <2>1 DEF Main, CallSend, Send, CallDisconnect, Disconnect, PopRep,
                Delete, WaitLoop, Free, sockVars
  <2>2. CASE Worker
    <3>1. CASE TouchFreed
      BY <3>1 DEF TouchFreed, sockVars
    <3>2. CASE object # "freed" /\ (StartLoop \/ Process \/ DoDisconnect \/ EndLoop)
      BY <3>2 DEF StartLoop, Process, DoDisconnect, EndLoop
    <3>3. CASE object # "freed" /\ (RecvData \/ RecvWouldBlock \/ RecvFails)
      BY <3>3 DEF RecvData, RecvWouldBlock, RecvFails, sockVars
    <3>4. CASE object # "freed" /\ (SendData \/ SendFails \/ SendDone)
      BY <3>4 DEF SendData, SendFails, SendDone, sockVars
    <3> QED
      BY <2>2, <3>1, <3>2, <3>3, <3>4 DEF Worker
  <2>3. CASE Peer
    BY <2>3 DEF Peer, PeerSends, PeerReads, PeerCloses, sockVars
  <2>4. CASE UNCHANGED vars
    BY <2>4 DEF vars, sockVars
  <2> QED
    BY <2>1, <2>2, <2>3, <2>4 DEF Next
<1> QED
  BY <1>1, <1>2, PTL DEF Spec

\* Joined lasts: no step of either thread ends it.
LEMMA JoinedLasts == Inv /\ Joined /\ [Next]_vars => Joined'
<1> SUFFICES ASSUME Inv, Joined, [Next]_vars PROVE Joined'
  OBVIOUS
<1> USE DEF Inv, ThreadTypes, LoopLocked, Stages, InLoop, Joined,
            Thread, Object, MainPc, WorkerPc
<1>1. CASE Main
  BY <1>1 DEF Main, CallSend, Send, CallDisconnect, Disconnect, PopRep,
              Delete, WaitLoop, Free, sockVars
<1>2. CASE Worker
  <2>1. CASE TouchFreed
    BY <2>1 DEF TouchFreed
  <2>2. CASE object # "freed" /\ (StartLoop \/ Process \/ DoDisconnect \/ EndLoop)
    BY <2>2 DEF StartLoop, Process, DoDisconnect, EndLoop
  <2>3. CASE object # "freed" /\ (RecvData \/ RecvWouldBlock \/ RecvFails)
    BY <2>3 DEF RecvData, RecvWouldBlock, RecvFails
  <2>4. CASE object # "freed" /\ (SendData \/ SendFails \/ SendDone)
    BY <2>4 DEF SendData, SendFails, SendDone
  <2> QED
    BY <1>2, <2>1, <2>2, <2>3, <2>4 DEF Worker
<1>3. CASE Peer
  BY <1>3 DEF Peer, PeerSends, PeerReads, PeerCloses
<1>4. CASE UNCHANGED vars
  BY <1>4 DEF vars
<1> QED
  BY <1>1, <1>2, <1>3, <1>4 DEF Next

\* ~TCPConnection (Disconnect, WaitLoop, ClearBuffers) never frees an object
\* under a worker thread that was running before the destruction began.
THEOREM WorkerJoined == Spec => StartedInTimeIsJoined
<1>1. Inv /\ workerPc # "new" /\ object = "alive" => Joined
  BY DEF Inv, Stages, Joined
<1>2. Joined => workerPc # "useAfterFree"
  BY DEF Joined
<1> QED
  BY <1>1, <1>2, Invariant, JoinedLasts, PTL DEF Spec, StartedInTimeIsJoined

-----------------------------------------------------------------------------
(* Inbound packets.                                                        *)

Inbound ==
    /\ received \in Nat
    /\ popped \in Seq(Nat)
    /\ inQueue \in Seq(Nat)
    /\ InboundOrder

\* PopRep moves the border between what was popped and what waits.
LEMMA PopMovesBorder ==
    ASSUME NEW p \in Seq(Nat), NEW q \in Seq(Nat), q # <<>>
    PROVE  /\ Head(q) \in Nat
           /\ Tail(q) \in Seq(Nat)
           /\ Append(p, Head(q)) \o Tail(q) = p \o q
<1>1. /\ Head(q) \in Nat
      /\ Tail(q) \in Seq(Nat)
      /\ Len(Tail(q)) = Len(q) - 1
      /\ \A i \in 1..Len(Tail(q)) : Tail(q)[i] = q[i + 1]
      /\ Head(q) = q[1]
  BY HeadTailProperties
<1> DEFINE pp == Append(p, Head(q))
           t == Tail(q)
<1>2. /\ pp \in Seq(Nat)
      /\ Len(pp) = Len(p) + 1
      /\ \A i \in 1..Len(p) : pp[i] = p[i]
      /\ pp[Len(p) + 1] = q[1]
  BY <1>1, AppendProperties
<1>3. Len(q) \in Nat /\ Len(q) > 0 /\ Len(p) \in Nat
  BY EmptySeq, LenProperties
<1>4. /\ pp \o t \in Seq(Nat)
      /\ Len(pp \o t) = Len(pp) + Len(t)
      /\ \A i \in 1..Len(pp) + Len(t) :
            (pp \o t)[i] = IF i <= Len(pp) THEN pp[i] ELSE t[i - Len(pp)]
  BY <1>1, <1>2, ConcatProperties
<1>5. /\ p \o q \in Seq(Nat)
      /\ Len(p \o q) = Len(p) + Len(q)
      /\ \A i \in 1..Len(p) + Len(q) :
            (p \o q)[i] = IF i <= Len(p) THEN p[i] ELSE q[i - Len(p)]
  BY ConcatProperties
<1> HIDE DEF pp, t
<1>6. Len(pp \o t) = Len(p \o q)
  BY <1>1, <1>2, <1>3, <1>4, <1>5 DEF t
<1>7. ASSUME NEW i \in 1..Len(pp \o t) PROVE (pp \o t)[i] = (p \o q)[i]
  <2> USE <1>1, <1>2, <1>3, <1>4, <1>5, <1>6
  <2>0. i \in Nat
    OBVIOUS
  <2>1. CASE i <= Len(p)
    BY <2>1
  <2>2. CASE i = Len(p) + 1
    BY <2>2
  <2>3. CASE i > Len(p) + 1
    <3>1. i - Len(pp) \in 1..Len(t) /\ i - Len(p) = (i - Len(pp)) + 1
      BY <2>3 DEF t
    <3> QED
      BY <2>3, <3>1 DEF t
  <2>4. i <= Len(p) \/ i = Len(p) + 1 \/ i > Len(p) + 1
    BY <2>0, <1>3
  <2> QED
    BY <2>1, <2>2, <2>3, <2>4
<1>8. pp \o t = p \o q
  BY <1>4, <1>5, <1>6, <1>7, SeqEqual
<1> QED
  BY <1>1, <1>8 DEF pp, t

\* RecvData adds the next number at the end.
LEMMA NextAtEnd ==
    ASSUME NEW n \in Nat, NEW p \in Seq(Nat), NEW q \in Seq(Nat),
           p \o q = [i \in 1..n |-> i]
    PROVE  p \o Append(q, n + 1) = [i \in 1..(n + 1) |-> i]
<1>0. \A i \in 1..n : (p \o q)[i] = i
  OBVIOUS
<1> DEFINE r == [i \in 1..(n + 1) |-> i]
           w == Append(q, n + 1)
           a == p \o w
<1>1. /\ w \in Seq(Nat)
      /\ Len(w) = Len(q) + 1
      /\ \A i \in 1..Len(q) : w[i] = q[i]
      /\ w[Len(q) + 1] = n + 1
  BY AppendProperties
<1> HIDE DEF w
<1>2. /\ p \o q \in Seq(Nat)
      /\ Len(p \o q) = Len(p) + Len(q)
      /\ \A i \in 1..Len(p) + Len(q) :
            (p \o q)[i] = IF i <= Len(p) THEN p[i] ELSE q[i - Len(p)]
  BY ConcatProperties, ZenonT(30)
<1>3. Len(p) \in Nat /\ Len(q) \in Nat
  BY LenProperties
<1>4. Len(p) + Len(q) = n
  <2>1. DOMAIN (p \o q) = 1..n
    OBVIOUS
  <2>2. DOMAIN (p \o q) = 1..Len(p \o q)
    BY <1>2, LenProperties
  <2> QED
    BY <1>2, <1>3, <2>1, <2>2
<1>5. /\ a \in Seq(Nat)
      /\ Len(a) = Len(p) + Len(w)
      /\ \A i \in 1..Len(p) + Len(w) :
            a[i] = IF i <= Len(p) THEN p[i] ELSE w[i - Len(p)]
  BY <1>1, ConcatProperties
<1>6. r \in Seq(Nat) /\ Len(r) = n + 1
  OBVIOUS
<1> HIDE DEF a
<1>7. ASSUME NEW i \in 1..Len(a) PROVE a[i] = i
  <2>1. i \in 1..(n + 1)
    BY <1>1, <1>3, <1>4, <1>5
  <2>2. CASE i <= Len(p)
    <3>1. i \in 1..n
      BY <1>3, <1>4, <2>1, <2>2
    <3>2. (p \o q)[i] = p[i]
      BY <1>2, <1>4, <2>2, <3>1
    <3>3. a[i] = p[i]
      BY <1>5, <2>2
    <3> QED
      BY <1>0, <3>1, <3>2, <3>3
  <2>3. CASE ~ (i <= Len(p)) /\ i <= n
    <3>1. i \in 1..n /\ i - Len(p) \in 1..Len(q)
      BY <1>3, <1>4, <2>1, <2>3
    <3>2. (p \o q)[i] = q[i - Len(p)]
      BY <1>2, <1>4, <2>3, <3>1
    <3>3. a[i] = w[i - Len(p)]
      BY <1>5, <2>3
    <3> QED
      BY <1>0, <1>1, <3>1, <3>2, <3>3
  <2>4. CASE ~ (i <= Len(p)) /\ ~ (i <= n)
    <3>1. i = n + 1 /\ i - Len(p) = Len(q) + 1
      BY <1>3, <1>4, <2>1, <2>4, SMTT(30)
    <3>2. a[i] = w[i - Len(p)]
      BY <1>5, <2>4
    <3> QED
      BY <1>1, <3>1, <3>2
  <2> QED
    BY <2>2, <2>3, <2>4
<1>8. a = r
  <2>1. Len(a) = n + 1
    <3>1. Len(a) = Len(p) + Len(w)
      BY <1>5
    <3>2. Len(w) = Len(q) + 1
      BY <1>1
    <3> QED
      BY <1>3, <1>4, <3>1, <3>2
  <2>2. \A i \in 1..Len(a) : a[i] = r[i]
    BY <1>7, <2>1
  <2> HIDE DEF r
  <2> QED
    BY <1>5, <1>6, <2>1, <2>2, SeqEqual
<1> QED
  BY <1>8 DEF a, w

\* The queue of received packets (RecvData, PopRep, and the two ClearBuffers
\* of DoDisconnect and the destructor) gives the main thread every packet of a
\* standing connection, in the order it came.
THEOREM PacketsInOrder == Spec => []InboundOrder
<1>1. Init => Inbound
  BY DEF Init, Inbound, InboundOrder
<1>2. Inbound /\ [Next]_vars => Inbound'
  <2> SUFFICES ASSUME Inbound, [Next]_vars PROVE Inbound'
    OBVIOUS
  <2> USE DEF Inbound, InboundOrder, Live
  <2>1. CASE PopRep
    <3>1. /\ popped' \in Seq(Nat)
          /\ inQueue' \in Seq(Nat)
          /\ popped' \o inQueue' = popped \o inQueue
      BY <2>1, PopMovesBorder, AppendProperties DEF PopRep
    <3> QED
      BY <2>1, <3>1 DEF PopRep, sockVars
  <2>2. CASE RecvData
    <3>1. received + 1 \in Nat /\ Append(inQueue, received + 1) \in Seq(Nat)
      BY AppendProperties
    <3>2. CASE object = "alive" /\ Live /\ inQueue' = Append(inQueue, received + 1)
      <4>1. popped \o Append(inQueue, received + 1) = [i \in 1..(received + 1) |-> i]
        BY <3>2, NextAtEnd
      <4> QED
        BY <2>2, <3>1, <3>2, <4>1 DEF RecvData, sockVars
    <3>3. CASE ~ (object = "alive" /\ Live)
      BY <2>2, <3>1, <3>3 DEF RecvData, sockVars
    <3> QED
      BY <2>2, <3>2, <3>3 DEF RecvData
  <2>3. CASE CallSend \/ Send \/ CallDisconnect \/ Disconnect \/ WaitLoop \/ Free
    BY <2>3 DEF CallSend, Send, CallDisconnect, Disconnect, WaitLoop, Free, sockVars
  <2>4. CASE Delete
    <3>1. <<>> \in Seq(Nat)
      BY EmptySeq
    <3> QED
      BY <2>4, <3>1 DEF Delete
  <2>5. CASE StartLoop \/ Process \/ RecvWouldBlock \/ RecvFails \/ SendData
               \/ SendFails \/ EndLoop \/ TouchFreed
    BY <2>5 DEF StartLoop, Process, RecvWouldBlock, RecvFails, SendData,
                SendFails, EndLoop, TouchFreed, sockVars
  <2>6. CASE SendDone \/ DoDisconnect
    <3>1. <<>> \in Seq(Nat)
      BY EmptySeq
    <3> QED
      BY <2>6, <3>1 DEF SendDone, DoDisconnect
  <2>7. CASE Peer
    BY <2>7 DEF Peer, PeerSends, PeerReads, PeerCloses, sockVars
  <2>8. CASE UNCHANGED vars
    BY <2>8 DEF vars, sockVars
  <2> QED
    BY <2>1, <2>2, <2>3, <2>4, <2>5, <2>6, <2>7, <2>8 DEF Next, Main, Worker
<1> QED
  BY <1>1, <1>2, PTL DEF Spec, Inbound

-----------------------------------------------------------------------------
(* The stream of outbound bytes.  Queue q holds the stretch of stream a    *)
(* that begins after its first n bytes; `cut' says where its buffers meet. *)

CutAt(cut, n, q, a) ==
    /\ cut \in [0..Len(q) -> Nat]
    /\ cut[0] = n
    /\ cut[Len(q)] = Len(a)
    /\ \A j \in 1..Len(q) :
         /\ cut[j - 1] + Len(q[j]) = cut[j]
         /\ cut[j] <= Len(a)
         /\ \A i \in 1..Len(q[j]) : q[j][i] = a[cut[j - 1] + i]

Holds(q, n, a) == \E cut : CutAt(cut, n, q, a)

Begins(w, a) == Len(w) <= Len(a) /\ \A i \in 1..Len(w) : w[i] = a[i]

\* Send: the stream and the queue grow by the same buffer.
LEMMA HoldsAppended ==
    ASSUME NEW S, NEW q \in Seq(Seq(S)), NEW a \in Seq(S), NEW b \in Seq(S),
           NEW n, Holds(q, n, a)
    PROVE  Holds(Append(q, b), n, a \o b)
<1> DEFINE q2 == Append(q, b)
           a2 == a \o b
<1>1. PICK cut : CutAt(cut, n, q, a)
  BY DEF Holds
<1>2. /\ Len(q) \in Nat /\ Len(a) \in Nat /\ Len(b) \in Nat
      /\ \A j \in 1..Len(q) : Len(q[j]) \in Nat
  BY LenProperties, ElementOfSeq
<1>3. /\ q2 \in Seq(Seq(S))
      /\ Len(q2) = Len(q) + 1
      /\ \A j \in 1..Len(q) : q2[j] = q[j]
      /\ q2[Len(q) + 1] = b
  BY AppendProperties
<1>4. /\ a2 \in Seq(S)
      /\ Len(a2) = Len(a) + Len(b)
      /\ \A i \in 1..Len(a) + Len(b) :
            a2[i] = IF i <= Len(a) THEN a[i] ELSE b[i - Len(a)]
  BY ConcatProperties
<1> DEFINE cut2 == [j \in 0..(Len(q) + 1) |->
                       IF j <= Len(q) THEN cut[j] ELSE Len(a) + Len(b)]
<1> HIDE DEF q2, a2
<1>5. /\ cut2 \in [0..Len(q2) -> Nat]
      /\ cut2[0] = n
      /\ cut2[Len(q2)] = Len(a2)
  BY <1>1, <1>2, <1>3, <1>4 DEF CutAt
<1>6. ASSUME NEW j \in 1..Len(q2)
      PROVE  /\ cut2[j - 1] + Len(q2[j]) = cut2[j]
             /\ cut2[j] <= Len(a2)
             /\ \A i \in 1..Len(q2[j]) : q2[j][i] = a2[cut2[j - 1] + i]
  <2>1. CASE j \in 1..Len(q)
    <3>1. /\ cut2[j - 1] = cut[j - 1] /\ cut2[j] = cut[j] /\ q2[j] = q[j]
          /\ cut[j - 1] \in Nat /\ cut[j] \in Nat /\ Len(q[j]) \in Nat
      BY <1>1, <1>2, <1>3, <2>1, SMTT(30) DEF CutAt
    <3>2. /\ cut[j - 1] + Len(q[j]) = cut[j]
          /\ cut[j] <= Len(a)
          /\ \A i \in 1..Len(q[j]) : q[j][i] = a[cut[j - 1] + i]
      BY <1>1, <2>1 DEF CutAt
    <3>3. ASSUME NEW i \in 1..Len(q[j]) PROVE a2[cut[j - 1] + i] = a[cut[j - 1] + i]
      <4> HIDE DEF cut2
      <4>0. i \in Nat /\ i >= 1 /\ i <= Len(q[j])
        BY <3>1
      <4> DEFINE c == cut[j - 1]
                 l == Len(q[j])
      <4>2. c \in Nat /\ l \in Nat /\ Len(a) \in Nat /\ c + l <= Len(a)
        BY <1>2, <3>1, <3>2
      <4> HIDE DEF c, l
      <4>3. i >= 1 /\ i <= l
        BY <4>0 DEF l
      <4>4. c + i \in 1..Len(a)
        BY <4>0, <4>2, <4>3
      <4>1. cut[j - 1] + i \in 1..Len(a)
        BY <4>4 DEF c
      <4> QED
        BY <1>2, <1>4, <4>1, SMTT(30)
    <3> HIDE DEF cut2
    <3> QED
      BY <1>2, <1>4, <3>1, <3>2, <3>3, SMTT(30)
  <2>2. CASE j = Len(q) + 1
    <3>1. /\ cut2[j - 1] = Len(a) /\ cut2[j] = Len(a) + Len(b) /\ q2[j] = b
      BY <1>1, <1>2, <1>3, <2>2 DEF CutAt
    <3>2. ASSUME NEW i \in 1..Len(b) PROVE a2[Len(a) + i] = b[i]
      <4>1. Len(a) + i \in 1..Len(a) + Len(b) /\ ~ (Len(a) + i <= Len(a))
            /\ (Len(a) + i) - Len(a) = i
        BY <1>2
      <4> QED
        BY <1>4, <4>1
    <3> HIDE DEF cut2
    <3> QED
      BY <1>2, <1>4, <3>1, <3>2
  <2>3. j \in 1..Len(q) \/ j = Len(q) + 1
    BY <1>2, <1>3
  <2> QED
    BY <2>1, <2>2, <2>3
<1>7. CutAt(cut2, n, q2, a2)
  <2> HIDE DEF cut2
  <2> QED
    BY <1>5, <1>6 DEF CutAt
<1> QED
  BY <1>7 DEF Holds, q2, a2

\* SendData: k bytes of the front buffer go, the rest of it stays in front.
LEMMA HoldsShortened ==
    ASSUME NEW S, NEW q \in Seq(Seq(S)), NEW a \in Seq(S), NEW n \in Nat,
           q # <<>>, NEW k \in 1..Len(Head(q)), Holds(q, n, a)
    PROVE  /\ n + k <= Len(a)
           /\ \A i \in 1..k : Head(q)[i] = a[n + i]
           /\ k = Len(Head(q)) =>
                 Tail(q) \in Seq(Seq(S)) /\ Holds(Tail(q), n + k, a)
           /\ LET rest == <<SubSeq(Head(q), k + 1, Len(Head(q)))>> \o Tail(q)
              IN  rest \in Seq(Seq(S)) /\ Holds(rest, n + k, a)
<1> DEFINE h == Head(q)
           t == Tail(q)
           r == SubSeq(h, k + 1, Len(h))
           q2 == <<r>> \o t
<1>1. PICK cut : CutAt(cut, n, q, a)
  BY DEF Holds
<1>2. /\ Len(q) \in Nat /\ Len(q) > 0 /\ Len(a) \in Nat
      /\ \A j \in 1..Len(q) : q[j] \in Seq(S) /\ Len(q[j]) \in Nat
  BY LenProperties, ElementOfSeq, EmptySeq
<1>3. /\ h \in Seq(S) /\ h = q[1]
      /\ t \in Seq(Seq(S))
      /\ Len(t) = Len(q) - 1
      /\ \A j \in 1..Len(t) : t[j] = q[j + 1]
  BY HeadTailProperties
<1>4. Len(h) \in Nat /\ k \in Nat /\ k >= 1 /\ k <= Len(h)
  BY <1>3, LenProperties
<1>5. /\ r \in Seq(S)
      /\ Len(r) = Len(h) - k
      /\ \A i \in 1..Len(r) : r[i] = h[k + i]
  <2>1. \A i \in (k + 1)..Len(h) : h[i] \in S
    BY <1>3, <1>4, ElementOfSeq
  <2>2. /\ SubSeq(h, k + 1, Len(h)) \in Seq(S)
        /\ Len(SubSeq(h, k + 1, Len(h)))
             = IF k + 1 <= Len(h) THEN Len(h) - (k + 1) + 1 ELSE 0
        /\ \A i \in 1..(Len(h) - (k + 1) + 1) :
             SubSeq(h, k + 1, Len(h))[i] = h[(k + 1) + i - 1]
    <3> HIDE DEF h
    <3>1. k + 1 \in Int /\ Len(h) \in Int
      BY <1>4
    <3> QED
      BY <2>1, <3>1, SubSeqProperties
  <2> HIDE DEF h, r
  <2>3. Len(SubSeq(h, k + 1, Len(h))) = Len(h) - k
    BY <1>4, <2>2
  <2>4. ASSUME NEW i \in 1..(Len(h) - k)
        PROVE  SubSeq(h, k + 1, Len(h))[i] = h[k + i]
    <3>1. i \in 1..(Len(h) - (k + 1) + 1) /\ (k + 1) + i - 1 = k + i
      BY <1>4
    <3> QED
      BY <2>2, <3>1
  <2> QED
    BY <2>2, <2>3, <2>4 DEF r
<1>6. /\ q2 \in Seq(Seq(S))
      /\ Len(q2) = Len(q)
      /\ q2[1] = r
      /\ \A j \in 2..Len(q) : q2[j] = q[j]
  <2> HIDE DEF r, t, h
  <2>1. <<r>> \in Seq(Seq(S)) /\ Len(<<r>>) = 1 /\ <<r>>[1] = r
    BY <1>5
  <2>2. /\ q2 \in Seq(Seq(S))
        /\ Len(q2) = 1 + Len(t)
        /\ \A j \in 1..1 + Len(t) : q2[j] = IF j <= 1 THEN <<r>>[j] ELSE t[j - 1]
    BY <1>3, <2>1, ConcatProperties
  <2> HIDE DEF q2
  <2>3. Len(q2) = Len(q)
    BY <1>2, <1>3, <2>2
  <2>4. q2[1] = r
    BY <1>2, <1>3, <2>1, <2>2
  <2>5. ASSUME NEW j \in 2..Len(q) PROVE q2[j] = q[j]
    <3>1. /\ j \in 1..1 + Len(t) /\ ~ (j <= 1)
          /\ j - 1 \in 1..Len(t) /\ (j - 1) + 1 = j
      BY <1>2, <1>3
    <3> QED
      BY <1>3, <2>2, <3>1
  <2> QED
    BY <2>2, <2>3, <2>4, <2>5
<1> HIDE DEF h, t, r, q2
<1>7. /\ cut \in [0..Len(q) -> Nat]
      /\ cut[0] = n
      /\ cut[Len(q)] = Len(a)
      /\ n + Len(h) = cut[1] /\ cut[1] \in Nat
      /\ cut[1] <= Len(a)
      /\ \A i \in 1..Len(h) : h[i] = a[n + i]
  <2>1. 1 \in 1..Len(q) /\ 1 - 1 = 0
    BY <1>2
  <2> QED
    BY <1>1, <1>3, <2>1, SMTT(30) DEF CutAt
<1>8. n + k <= Len(a) /\ \A i \in 1..k : h[i] = a[n + i]
  BY <1>2, <1>4, <1>7
<1>9. ASSUME k = Len(h) PROVE Holds(t, n + k, a)
  <2> DEFINE cut2 == [j \in 0..(Len(q) - 1) |-> cut[j + 1]]
  <2>1. /\ cut2 \in [0..Len(t) -> Nat]
        /\ cut2[0] = n + k
        /\ cut2[Len(t)] = Len(a)
    BY <1>2, <1>3, <1>7, <1>9
  <2>2. ASSUME NEW j \in 1..Len(t)
        PROVE  /\ cut2[j - 1] + Len(t[j]) = cut2[j]
               /\ cut2[j] <= Len(a)
               /\ \A i \in 1..Len(t[j]) : t[j][i] = a[cut2[j - 1] + i]
    <3>1. j + 1 \in 1..Len(q) /\ (j + 1) - 1 = j
      BY <1>2, <1>3
    <3>2. /\ cut[j] + Len(q[j + 1]) = cut[j + 1]
          /\ cut[j + 1] <= Len(a)
          /\ \A i \in 1..Len(q[j + 1]) : q[j + 1][i] = a[cut[j] + i]
      BY <1>1, <3>1 DEF CutAt
    <3>3. t[j] = q[j + 1] /\ cut2[j - 1] = cut[j] /\ cut2[j] = cut[j + 1]
      BY <1>2, <1>3, SMTT(30)
    <3> HIDE DEF cut2
    <3> QED
      BY <3>2, <3>3
  <2>3. CutAt(cut2, n + k, t, a)
    <3> HIDE DEF cut2
    <3> QED
      BY <2>1, <2>2 DEF CutAt
  <2> QED
    BY <2>3 DEF Holds
<1>10. Holds(q2, n + k, a)
  <2> DEFINE cut2 == [j \in 0..Len(q) |-> IF j = 0 THEN n + k ELSE cut[j]]
  <2>1. /\ cut2 \in [0..Len(q2) -> Nat]
        /\ cut2[0] = n + k
        /\ cut2[Len(q2)] = Len(a)
    BY <1>2, <1>4, <1>6, <1>7
  <2>2. ASSUME NEW j \in 1..Len(q2)
        PROVE  /\ cut2[j - 1] + Len(q2[j]) = cut2[j]
               /\ cut2[j] <= Len(a)
               /\ \A i \in 1..Len(q2[j]) : q2[j][i] = a[cut2[j - 1] + i]
    <3>1. CASE j = 1
      <4>1. cut2[j - 1] = n + k /\ cut2[j] = cut[1] /\ q2[j] = r
        BY <1>2, <1>6, <3>1
      <4>2. ASSUME NEW i \in 1..Len(r) PROVE r[i] = a[(n + k) + i]
        <5>1. k + i \in 1..Len(h) /\ n + (k + i) = (n + k) + i
          BY <1>4, <1>5
        <5> QED
          BY <1>5, <1>7, <5>1
      <4>3. (n + k) + Len(r) = cut[1] /\ cut[1] <= Len(a)
        BY <1>4, <1>5, <1>7
      <4> HIDE DEF cut2
      <4> QED
        BY <4>1, <4>2, <4>3
    <3>2. CASE j \in 2..Len(q)
      <4>1. cut2[j - 1] = cut[j - 1] /\ cut2[j] = cut[j] /\ q2[j] = q[j]
        BY <1>2, <1>6, <3>2
      <4>2. /\ cut[j - 1] + Len(q[j]) = cut[j]
            /\ cut[j] <= Len(a)
            /\ \A i \in 1..Len(q[j]) : q[j][i] = a[cut[j - 1] + i]
        <5>1. j \in 1..Len(q)
          BY <3>2
        <5> QED
          BY <1>1, <5>1 DEF CutAt
      <4> HIDE DEF cut2
      <4> QED
        BY <4>1, <4>2
    <3>3. j = 1 \/ j \in 2..Len(q)
      BY <1>2, <1>6
    <3> QED
      BY <3>1, <3>2, <3>3
  <2>3. CutAt(cut2, n + k, q2, a)
    <3> HIDE DEF cut2
    <3> QED
      BY <2>1, <2>2 DEF CutAt
  <2> QED
    BY <2>3 DEF Holds
<1> QED
  BY <1>3, <1>6, <1>8, <1>9, <1>10 DEF h, t, r, q2

-----------------------------------------------------------------------------
(* The two threads as a channel of bytes.                                  *)

Byte == Nat \X Nat

StreamTypes ==
    /\ sendQueue \in Seq(Seq(Byte))
    /\ accepted \in Seq(Byte)
    /\ wire \in Seq(Byte)
    /\ failed \in BOOLEAN
    /\ sends \in 0..MaxSends
    /\ mainPc = "send" => sends \in 1..MaxSends

\* Until something fails, what was accepted and not yet written is in the
\* queue.  The worker works at the queue only while nothing has failed, and
\* comes to DoDisconnect with a live socket only when something has.
Stream ==
    /\ object = "freed" <=> mainPc = "gone"
    /\ Begins(wire, accepted)
    /\ Live /\ ~ failed => Holds(sendQueue, Len(wire), accepted)
    /\ workerPc \in {"recv", "sendData"} => Live
    /\ object # "freed" /\ workerPc \in {"new", "loop", "recv", "sendData"} => ~ failed
    /\ workerPc = "ending" /\ Live => failed

LEMMA BufferIsBytes ==
    ASSUME NEW n \in Nat PROVE Buffer(n) \in Seq(Byte)
<1>1. \A i \in 1..BufferSize : <<n, i>> \in Byte
  BY TCPAssumption DEF TCPAssumption, Byte
<1>2. BufferSize \in Nat
  BY TCPAssumption DEF TCPAssumption
<1>3. Buffer(n) \in [1..BufferSize -> Byte]
  BY <1>1 DEF Buffer
<1> QED
  BY <1>2, <1>3, SeqDef

\* What is begun stays begun when more is accepted.
LEMMA BeginsLonger ==
    ASSUME NEW w \in Seq(Byte), NEW a \in Seq(Byte), NEW b \in Seq(Byte),
           Begins(w, a)
    PROVE  /\ a \o b \in Seq(Byte)
           /\ Begins(w, a \o b)
<1>1. /\ a \o b \in Seq(Byte)
      /\ Len(a \o b) = Len(a) + Len(b)
      /\ \A i \in 1..Len(a) + Len(b) :
           (a \o b)[i] = IF i <= Len(a) THEN a[i] ELSE b[i - Len(a)]
  BY ConcatProperties
<1>2. Len(w) \in Nat /\ Len(a) \in Nat /\ Len(b) \in Nat
  BY LenProperties
<1>3. Len(w) <= Len(a) /\ \A i \in 1..Len(w) : w[i] = a[i]
  BY DEF Begins
<1>4. ASSUME NEW i \in 1..Len(w) PROVE w[i] = (a \o b)[i]
  <2>1. i \in 1..Len(a) + Len(b) /\ i <= Len(a)
    BY <1>2, <1>3
  <2> QED
    BY <1>1, <1>3, <2>1
<1> QED
  BY <1>1, <1>2, <1>3, <1>4 DEF Begins

\* The next k bytes of the stream are written behind the first ones.
LEMMA BeginsFurther ==
    ASSUME NEW w \in Seq(Byte), NEW a \in Seq(Byte), NEW h \in Seq(Byte),
           NEW k \in 1..Len(h), Begins(w, a), Len(w) + k <= Len(a),
           \A i \in 1..k : h[i] = a[Len(w) + i]
    PROVE  LET w2 == w \o SubSeq(h, 1, k)
           IN  /\ w2 \in Seq(Byte)
               /\ Len(w2) = Len(w) + k
               /\ w2 # w
               /\ Begins(w, w2)
               /\ Begins(w2, a)
<1> DEFINE g == SubSeq(h, 1, k)
           w2 == w \o g
<1>1. Len(w) \in Nat /\ Len(a) \in Nat /\ Len(h) \in Nat
  BY LenProperties
<1>2. k \in Nat /\ k >= 1 /\ k <= Len(h)
  BY <1>1
<1>3. /\ g \in Seq(Byte)
      /\ Len(g) = k
      /\ \A i \in 1..k : g[i] = h[i]
  <2>1. \A i \in 1..k : h[i] \in Byte
    BY <1>1, <1>2, ElementOfSeq
  <2>2. /\ SubSeq(h, 1, k) \in Seq(Byte)
        /\ Len(SubSeq(h, 1, k)) = IF 1 <= k THEN k - 1 + 1 ELSE 0
        /\ \A i \in 1..(k - 1 + 1) : SubSeq(h, 1, k)[i] = h[1 + i - 1]
    <3>1. 1 \in Int /\ k \in Int
      BY <1>2
    <3> QED
      BY <2>1, <3>1, SubSeqProperties
  <2> HIDE DEF g
  <2>3. Len(SubSeq(h, 1, k)) = k
    BY <1>2, <2>2
  <2>4. ASSUME NEW i \in 1..k PROVE SubSeq(h, 1, k)[i] = h[i]
    <3>1. i \in 1..(k - 1 + 1) /\ 1 + i - 1 = i
      BY <1>2
    <3> QED
      BY <2>2, <3>1
  <2> QED
    BY <2>2, <2>3, <2>4 DEF g
<1> HIDE DEF g
<1>4. /\ w2 \in Seq(Byte)
      /\ Len(w2) = Len(w) + Len(g)
      /\ \A i \in 1..Len(w) + Len(g) :
           w2[i] = IF i <= Len(w) THEN w[i] ELSE g[i - Len(w)]
  BY <1>3, ConcatProperties
<1> HIDE DEF w2
<1>5. Len(w2) = Len(w) + k
  BY <1>3, <1>4
<1>6. w2 # w
  BY <1>1, <1>2, <1>5
<1>7. Begins(w, w2)
  <2>1. ASSUME NEW i \in 1..Len(w) PROVE w[i] = w2[i]
    <3>1. i \in 1..Len(w) + Len(g) /\ i <= Len(w)
      BY <1>1, <1>2, <1>3
    <3> QED
      BY <1>4, <3>1
  <2> QED
    BY <1>1, <1>2, <1>5, <2>1 DEF Begins
<1>8. Begins(w2, a)
  <2>1. ASSUME NEW i \in 1..Len(w2) PROVE w2[i] = a[i]
    <3>1. i \in 1..Len(w) + k /\ i \in 1..Len(w) + Len(g)
      BY <1>3, <1>5
    <3>2. CASE i <= Len(w)
      <4>1. w2[i] = w[i] /\ i \in 1..Len(w)
        BY <1>1, <1>4, <3>1, <3>2
      <4> QED
        BY <4>1 DEF Begins
    <3>3. CASE ~ (i <= Len(w))
      <4>1. i - Len(w) \in 1..k /\ Len(w) + (i - Len(w)) = i
        BY <1>1, <1>2, <3>1, <3>3
      <4>2. w2[i] = g[i - Len(w)]
        BY <1>4, <3>1, <3>3
      <4> QED
        BY <1>3, <4>1, <4>2
    <3> QED
      BY <3>2, <3>3
  <2> QED
    BY <1>1, <1>2, <1>5, <2>1 DEF Begins
<1> QED
  BY <1>4, <1>5, <1>6, <1>7, <1>8 DEF w2, g

LEMMA BeginsIsPrefix ==
    ASSUME NEW v \in Seq(Byte), NEW w \in Seq(Byte), Begins(v, w)
    PROVE  IsPrefix(v, w)
<1>1. /\ Len(v) \in Nat /\ Len(w) \in Nat /\ Len(v) <= Len(w)
      /\ \A i \in 1..Len(v) : v[i] = w[i]
  BY LenProperties DEF Begins
<1>2. SubSeq(v, 1, Len(v)) = v
  BY SubSeqFull
<1>3. /\ SubSeq(w, 1, Len(v)) \in Seq(Byte)
      /\ Len(SubSeq(w, 1, Len(v))) = IF 1 <= Len(v) THEN Len(v) - 1 + 1 ELSE 0
      /\ \A i \in 1..(Len(v) - 1 + 1) : SubSeq(w, 1, Len(v))[i] = w[1 + i - 1]
  <2>1. \A i \in 1..Len(v) : w[i] \in Byte
    BY <1>1, ElementOfSeq
  <2>2. 1 \in Int /\ Len(v) \in Int
    BY <1>1
  <2> QED
    BY <2>1, <2>2, SubSeqProperties
<1> DEFINE s == SubSeq(w, 1, Len(v))
<1> HIDE DEF s
<1>4. s \in Seq(Byte) /\ Len(s) = Len(v)
  BY <1>1, <1>3 DEF s
<1>5. ASSUME NEW i \in 1..Len(v) PROVE v[i] = s[i]
  <2>1. i \in 1..(Len(v) - 1 + 1) /\ 1 + i - 1 = i
    BY <1>1
  <2> QED
    BY <1>1, <1>3, <2>1 DEF s
<1>6. v = s
  BY <1>4, <1>5, SeqEqual
<1> QED
  BY <1>1, <1>2, <1>6 DEF IsPrefix, s

\* A stream whose queue is empty has been written to its end.
LEMMA EmptyQueueAllWritten ==
    ASSUME NEW w \in Seq(Byte), NEW a \in Seq(Byte), Begins(w, a),
           Holds(<<>>, Len(w), a)
    PROVE  w = a
<1>1. PICK cut : CutAt(cut, Len(w), <<>>, a)
  BY DEF Holds
<1>2. Len(w) = Len(a)
  BY <1>1, EmptySeq DEF CutAt
<1>3. \A i \in 1..Len(w) : w[i] = a[i]
  BY DEF Begins
<1> QED
  BY <1>2, <1>3, SeqEqual

\* What SendData does to the stream, whatever number of bytes the socket took.
LEMMA SendDataWrites ==
    ASSUME StreamTypes, Stream, object # "freed", SendData
    PROVE  /\ StreamTypes'
           /\ wire' # wire
           /\ Begins(wire, wire')
           /\ Begins(wire', accepted)
           /\ Holds(sendQueue', Len(wire'), accepted)
<1> USE DEF StreamTypes
<1>1. Live /\ ~ failed /\ sendQueue # <<>>
  BY DEF Stream, SendData
<1>2. PICK k \in 1..(SocketRoom - unread) :
        /\ k <= Len(Head(sendQueue))
        /\ wire' = wire \o SubSeq(Head(sendQueue), 1, k)
        /\ sendQueue' = IF k = Len(Head(sendQueue)) THEN Tail(sendQueue)
                        ELSE <<SubSeq(Head(sendQueue), k + 1, Len(Head(sendQueue)))>>
                               \o Tail(sendQueue)
  BY DEF SendData
<1>3. Head(sendQueue) \in Seq(Byte)
  BY <1>1, HeadTailProperties
<1>4. k \in 1..Len(Head(sendQueue))
  BY <1>2, <1>3, LenProperties
<1>5. /\ Begins(wire, accepted)
      /\ Holds(sendQueue, Len(wire), accepted)
  BY <1>1 DEF Stream
<1>6. Len(wire) \in Nat
  BY LenProperties
<1>7. /\ Len(wire) + k <= Len(accepted)
      /\ \A i \in 1..k : Head(sendQueue)[i] = accepted[Len(wire) + i]
      /\ sendQueue' \in Seq(Seq(Byte))
      /\ Holds(sendQueue', Len(wire) + k, accepted)
  <2> DEFINE rest == <<SubSeq(Head(sendQueue), k + 1, Len(Head(sendQueue)))>>
                       \o Tail(sendQueue)
  <2>1. /\ Len(wire) + k <= Len(accepted)
        /\ \A i \in 1..k : Head(sendQueue)[i] = accepted[Len(wire) + i]
        /\ k = Len(Head(sendQueue)) =>
              /\ Tail(sendQueue) \in Seq(Seq(Byte))
              /\ Holds(Tail(sendQueue), Len(wire) + k, accepted)
        /\ rest \in Seq(Seq(Byte))
        /\ Holds(rest, Len(wire) + k, accepted)
    BY <1>1, <1>4, <1>5, <1>6, HoldsShortened
  <2>2. sendQueue' = IF k = Len(Head(sendQueue)) THEN Tail(sendQueue) ELSE rest
    BY <1>2
  <2> HIDE DEF rest
  <2> QED
    BY <2>1, <2>2
<1>8. /\ wire' \in Seq(Byte)
      /\ Len(wire') = Len(wire) + k
      /\ wire' # wire
      /\ Begins(wire, wire')
      /\ Begins(wire', accepted)
  <2> DEFINE w2 == wire \o SubSeq(Head(sendQueue), 1, k)
  <2>1. /\ w2 \in Seq(Byte)
        /\ Len(w2) = Len(wire) + k
        /\ w2 # wire
        /\ Begins(wire, w2)
        /\ Begins(w2, accepted)
    BY <1>3, <1>4, <1>5, <1>7, BeginsFurther
  <2>2. wire' = w2
    BY <1>2
  <2> HIDE DEF w2
  <2> QED
    BY <2>1, <2>2
<1>9. UNCHANGED <<accepted, failed, mainPc, sends>>
  BY DEF SendData
<1> QED
  BY <1>7, <1>8, <1>9

StreamInv == StreamTypes /\ Stream

LEMMA StreamStarts == Init => StreamInv
<1> SUFFICES ASSUME Init PROVE StreamInv
  OBVIOUS
<1>1. StreamTypes
  <2>1. <<>> \in Seq(Seq(Byte)) /\ <<>> \in Seq(Byte)
    BY EmptySeq
  <2>2. 0 \in 0..MaxSends
    BY TCPAssumption DEF TCPAssumption
  <2> QED
    BY <2>1, <2>2 DEF Init, StreamTypes
<1>2. Begins(<<>>, <<>>)
  BY DEF Begins
<1>3. Holds(<<>>, 0, <<>>)
  <2>1. CutAt([j \in 0..0 |-> 0], 0, <<>>, <<>>)
    BY DEF CutAt
  <2> QED
    BY <2>1 DEF Holds
<1>4. Len(<<>>) = 0
  OBVIOUS
<1> QED
  BY <1>1, <1>2, <1>3, <1>4 DEF Init, StreamInv, Stream

\* Send: the buffer joins the stream and the queue, or is refused.
LEMMA SendKeepsStream ==
    ASSUME StreamInv, Send
    PROVE  /\ StreamInv'
           /\ sockState = "CONNECTED" =>
                \E n \in 1..MaxSends : accepted' = accepted \o Buffer(n)
           /\ sockState # "CONNECTED" => accepted' = accepted
<1> USE DEF StreamInv
<1>1. CASE sockState = "CONNECTED"
  <2>1. sends \in 1..MaxSends /\ sends \in Nat
    BY DEF Send, StreamTypes
  <2> DEFINE b == Buffer(sends)
  <2>2. b \in Seq(Byte)
    BY <2>1, BufferIsBytes
  <2>3. accepted' = accepted \o b /\ sendQueue' = Append(sendQueue, b)
    BY <1>1 DEF Send
  <2> HIDE DEF b
  <2>4. /\ accepted \in Seq(Byte) /\ wire \in Seq(Byte)
        /\ sendQueue \in Seq(Seq(Byte)) /\ Begins(wire, accepted)
    BY DEF StreamTypes, Stream
  <2>5. accepted' \in Seq(Byte) /\ Begins(wire, accepted')
    BY <2>2, <2>3, <2>4, BeginsLonger
  <2>6. sendQueue' \in Seq(Seq(Byte))
    BY <2>2, <2>3, <2>4, AppendProperties
  <2>7. Holds(sendQueue, Len(wire), accepted) => Holds(sendQueue', Len(wire), accepted')
    BY <2>2, <2>3, <2>4, HoldsAppended
  <2>8. UNCHANGED <<sockState, object, workerPc, sends, wire, failed>> /\ mainPc' = "idle"
        /\ mainPc = "send"
    BY DEF Send, sockVars
  <2>9. StreamTypes'
    BY <2>5, <2>6, <2>8 DEF StreamTypes
  <2>10. Stream'
    BY <2>5, <2>7, <2>8 DEF Stream, Live
  <2> QED
    BY <1>1, <2>1, <2>3, <2>9, <2>10 DEF b
<1>2. CASE sockState # "CONNECTED"
  <2>1. /\ UNCHANGED <<sockState, object, workerPc, sends, wire, failed, sendQueue, accepted>>
        /\ mainPc = "send" /\ mainPc' = "idle"
    BY <1>2 DEF Send, sockVars
  <2> QED
    BY <1>2, <2>1 DEF Stream, StreamTypes, Live
<1> QED
  BY <1>1, <1>2

\* SendFails loses the front buffer: nothing is claimed of the queue any more.
LEMMA SendFailsKeepsStream == StreamInv /\ SendFails => StreamInv'
<1> SUFFICES ASSUME StreamInv, SendFails PROVE StreamInv'
  OBVIOUS
<1> USE DEF StreamInv
<1>1. sendQueue' \in Seq(Seq(Byte))
  BY HeadTailProperties DEF SendFails, StreamTypes
<1>2. UNCHANGED <<sockState, object, mainPc, sends, wire, accepted>>
      /\ failed' = TRUE /\ workerPc' = "ending"
  BY DEF SendFails
<1>3. StreamTypes'
  BY <1>1, <1>2 DEF StreamTypes
<1>4. Stream'
  BY <1>2 DEF Stream, Live
<1> QED
  BY <1>3, <1>4

\* SendDone with a disconnect asked for finds all of the stream written.
LEMMA SendDoneAllWritten ==
    StreamInv /\ object # "freed" /\ SendDone => wire = accepted
<1> SUFFICES ASSUME StreamInv, object # "freed", SendDone PROVE wire = accepted
  OBVIOUS
<1>1. Holds(<<>>, Len(wire), accepted) /\ Begins(wire, accepted)
  BY DEF StreamInv, Stream, SendDone
<1> QED
  BY <1>1, EmptyQueueAllWritten DEF StreamInv, StreamTypes

LEMMA StreamKept == StreamInv /\ [Next]_vars => StreamInv'
<1> SUFFICES ASSUME StreamInv, [Next]_vars PROVE StreamInv'
  OBVIOUS
<1> USE DEF StreamInv
<1>1. CASE CallSend
  <2>1. sends + 1 \in 1..MaxSends /\ sends + 1 \in 0..MaxSends
    BY <1>1, TCPAssumption DEF TCPAssumption, CallSend, StreamTypes
  <2>2. UNCHANGED <<sockState, object, workerPc, wire, accepted, sendQueue, failed>>
        /\ mainPc = "idle" /\ mainPc' = "send" /\ sends' = sends + 1
    BY <1>1 DEF CallSend, sockVars
  <2> QED
    BY <2>1, <2>2 DEF StreamTypes, Stream, Live
<1>2. CASE Send
  BY <1>2, SendKeepsStream
<1>3. CASE CallDisconnect \/ Disconnect \/ PopRep \/ Delete \/ WaitLoop
  BY <1>3 DEF CallDisconnect, Disconnect, PopRep, Delete, WaitLoop, sockVars,
              StreamTypes, Stream, Live
<1>4. CASE Free
  <2>1. <<>> \in Seq(Seq(Byte))
    BY EmptySeq
  <2>2. /\ UNCHANGED <<sockState, workerPc, sends, wire, accepted>>
        /\ sendQueue' = <<>> /\ object' = "freed" /\ mainPc' = "gone"
        /\ failed' = (failed \/ Live)
    BY <1>4 DEF Free, sockVars
  <2>3. failed' \in BOOLEAN /\ (Live' => failed')
    BY <2>2 DEF Live
  <2>4. StreamTypes'
    BY <2>1, <2>2, <2>3 DEF StreamTypes
  <2>5. Stream'
    BY <2>2, <2>3 DEF Stream, Live
  <2> QED
    BY <2>4, <2>5
<1>5. CASE object # "freed" /\ (StartLoop \/ Process \/ RecvData \/ RecvWouldBlock
                                  \/ RecvFails \/ EndLoop)
  <2> USE DEF StreamTypes, Stream, Live, sockVars
  <2>1. CASE object # "freed" /\ StartLoop
    BY <2>1 DEF StartLoop
  <2>2. CASE object # "freed" /\ Process
    BY <2>2 DEF Process
  <2>3. CASE object # "freed" /\ RecvData
    BY <2>3 DEF RecvData
  <2>4. CASE object # "freed" /\ RecvWouldBlock
    BY <2>4 DEF RecvWouldBlock
  <2>5. CASE object # "freed" /\ RecvFails
    BY <2>5 DEF RecvFails
  <2>6. CASE object # "freed" /\ EndLoop
    BY <2>6 DEF EndLoop
  <2> QED
    BY <1>5, <2>1, <2>2, <2>3, <2>4, <2>5, <2>6
<1>6. CASE object # "freed" /\ SendData
  <2>1. /\ StreamTypes'
        /\ Begins(wire', accepted)
        /\ Holds(sendQueue', Len(wire'), accepted)
    BY <1>6, SendDataWrites
  <2>2. UNCHANGED <<sockState, object, mainPc, workerPc, accepted, failed>>
    BY <1>6 DEF SendData, sockVars
  <2> QED
    BY <2>1, <2>2 DEF Stream, Live
<1>7. CASE SendFails
  BY <1>7, SendFailsKeepsStream
<1>8. CASE object # "freed" /\ SendDone
  BY <1>8 DEF SendDone, StreamTypes, Stream, Live
<1>9. CASE DoDisconnect
  <2>1. sendQueue' \in Seq(Seq(Byte))
    <3>1. <<>> \in Seq(Seq(Byte))
      BY EmptySeq
    <3> QED
      BY <1>9, <3>1 DEF DoDisconnect, StreamTypes
  <2>2. UNCHANGED <<object, mainPc, sends, wire, accepted, failed>>
        /\ sockState' = "DISCONNECTED" /\ workerPc' = "unlock"
    BY <1>9 DEF DoDisconnect
  <2> QED
    BY <2>1, <2>2 DEF StreamTypes, Stream, Live
<1>10. CASE TouchFreed
  BY <1>10 DEF TouchFreed, sockVars, StreamTypes, Stream, Live
<1>11. CASE Peer
  BY <1>11 DEF Peer, PeerSends, PeerReads, PeerCloses, sockVars,
               StreamTypes, Stream, Live
<1>12. CASE UNCHANGED vars
  BY <1>12 DEF vars, sockVars, StreamTypes, Stream, Live
<1> QED
  BY <1>1, <1>2, <1>3, <1>4, <1>5, <1>6, <1>7, <1>8, <1>9, <1>10, <1>11, <1>12
     DEF Next, Main, Worker

-----------------------------------------------------------------------------
(* Each step is a step of the channel or none.                             *)

\* A step that leaves the state, the object and the bytes alone.
LEMMA Stutters ==
    ASSUME UNCHANGED <<sockState, accepted, wire, failed>>,
           object' = "freed" <=> object = "freed"
    PROVE  UNCHANGED Channel!vars
  BY DEF Channel!vars, Live

LEMMA ChannelStep == StreamInv /\ [Next]_vars => [Channel!Next]_(Channel!vars)
<1> SUFFICES ASSUME StreamInv, [Next]_vars PROVE [Channel!Next]_(Channel!vars)
  OBVIOUS
<1> USE DEF StreamInv
<1>1. CASE Send
  <2>1. UNCHANGED <<sockState, object, wire, failed>> /\ object # "freed"
    BY <1>1 DEF Send, sockVars, Stream
  <2>2. CASE sockState = "CONNECTED"
    <3>1. \E n \in 1..MaxSends : accepted' = accepted \o Buffer(n)
      BY <1>1, <2>2, SendKeepsStream
    <3>2. \E b \in {Buffer(n) : n \in 1..MaxSends} : accepted' = accepted \o b
      BY <3>1
    <3>3. Channel!Accept
      BY <2>1, <2>2, <3>2 DEF Channel!Accept, Live
    <3> QED
      BY <3>3 DEF Channel!Next
  <2>3. CASE sockState # "CONNECTED"
    <3>1. accepted' = accepted
      BY <1>1, <2>3, SendKeepsStream
    <3> QED
      BY <2>1, <3>1, Stutters
  <2> QED
    BY <2>2, <2>3
<1>2. CASE Disconnect
  <2>1. UNCHANGED <<object, accepted, wire, failed>> /\ object # "freed"
        /\ sockState' = IF sockState = "CONNECTED" THEN "DISCONNECTING" ELSE sockState
    BY <1>2 DEF Disconnect, Stream
  <2>2. CASE sockState = "CONNECTED"
    <3>1. Channel!BeginClose
      BY <2>1, <2>2 DEF Channel!BeginClose, Live
    <3> QED
      BY <3>1 DEF Channel!Next
  <2>3. CASE sockState # "CONNECTED"
    BY <2>1, <2>3, Stutters
  <2> QED
    BY <2>2, <2>3
<1>3. CASE Free
  <2>1. UNCHANGED <<sockState, accepted, wire>> /\ object # "freed"
        /\ object' = "freed" /\ failed' = (failed \/ Live)
    BY <1>3 DEF Free, sockVars, Stream
  <2>2. CASE Live
    <3>1. Channel!Cut
      BY <2>1, <2>2 DEF Channel!Cut, Live
    <3> QED
      BY <3>1 DEF Channel!Next
  <2>3. CASE ~ Live
    <3>1. failed' = failed
      BY <2>1, <2>3 DEF StreamTypes
    <3> QED
      BY <2>1, <2>3, <3>1 DEF Channel!vars, Live
  <2> QED
    BY <2>2, <2>3
<1>4. CASE RecvFails \/ SendFails
  <2>1. UNCHANGED <<sockState, object, accepted, wire>> /\ failed' = TRUE
    BY <1>4 DEF RecvFails, SendFails
  <2>2. CASE failed
    <3>1. failed' = failed
      BY <2>1, <2>2 DEF StreamTypes
    <3> QED
      BY <2>1, <3>1, Stutters
  <2>3. CASE ~ failed
    <3>1. Channel!Fail
      BY <2>1, <2>3 DEF Channel!Fail, Live
    <3> QED
      BY <3>1 DEF Channel!Next
  <2> QED
    BY <2>2, <2>3
<1>5. CASE object # "freed" /\ SendData
  <2>1. wire' # wire /\ Begins(wire, wire') /\ Begins(wire', accepted)
        /\ wire' \in Seq(Byte)
    BY <1>5, SendDataWrites DEF StreamTypes
  <2>2. UNCHANGED <<sockState, object, accepted, failed>> /\ object # "freed" /\ Live
    BY <1>5 DEF SendData, sockVars, Stream
  <2>3. IsPrefix(wire, wire') /\ IsPrefix(wire', accepted)
    BY <2>1, BeginsIsPrefix DEF StreamTypes
  <2>4. Channel!Deliver
    BY <2>1, <2>2, <2>3 DEF Channel!Deliver, Channel!IsPrefix, IsPrefix, Live
  <2> QED
    BY <2>4 DEF Channel!Next
<1>6. CASE object # "freed" /\ SendDone
  <2>1. UNCHANGED <<object, accepted, wire, failed>> /\ wire = accepted
    BY <1>6, SendDoneAllWritten DEF SendDone
  <2>2. CASE sockState = "CONNECTED"
    <3>1. sockState' = sockState
      BY <1>6, <2>2 DEF SendDone
    <3> QED
      BY <2>1, <3>1, Stutters
  <2>3. CASE sockState = "DISCONNECTING"
    <3>1. sockState' = "DISCONNECTED"
      BY <1>6, <2>3 DEF SendDone
    <3>2. Channel!Close
      BY <1>6, <2>1, <2>3, <3>1 DEF Channel!Close, Live
    <3> QED
      BY <3>2 DEF Channel!Next
  <2> QED
    BY <1>6, <2>2, <2>3 DEF SendDone
<1>7. CASE object # "freed" /\ DoDisconnect
  <2>1. UNCHANGED <<object, accepted, wire, failed>>
        /\ sockState' = "DISCONNECTED" /\ workerPc = "ending"
    BY <1>7 DEF DoDisconnect
  <2>2. CASE Live
    <3>1. failed = TRUE
      BY <2>1, <2>2 DEF Stream, StreamTypes
    <3>2. Channel!Cut
      BY <1>7, <2>1, <2>2, <3>1 DEF Channel!Cut, Live
    <3> QED
      BY <3>2 DEF Channel!Next
  <2>3. CASE ~ Live
    BY <2>1, <2>3 DEF Channel!vars, Live
  <2> QED
    BY <2>2, <2>3
<1>8. CASE Delete
  <2>1. UNCHANGED <<sockState, accepted, wire, failed>>
        /\ object # "freed" /\ object' # "freed"
    BY <1>8 DEF Delete, sockVars, Stream
  <2> QED
    BY <2>1, Stutters
<1>9. CASE \/ CallSend \/ CallDisconnect \/ PopRep \/ WaitLoop
           \/ StartLoop \/ Process \/ RecvData \/ RecvWouldBlock \/ EndLoop
           \/ TouchFreed \/ Peer \/ UNCHANGED vars
  <2>1. UNCHANGED <<sockState, object, accepted, wire, failed>>
    BY <1>9 DEF CallSend, CallDisconnect, PopRep, WaitLoop, StartLoop, Process,
                RecvData, RecvWouldBlock, EndLoop, TouchFreed, Peer, PeerSends,
                PeerReads, PeerCloses, vars, sockVars
  <2> QED
    BY <2>1, Stutters
<1> QED
  BY <1>1, <1>2, <1>3, <1>4, <1>5, <1>6, <1>7, <1>8, <1>9 DEF Next, Main, Worker

\* Send, SendData, SendFails, SendDone and DoDisconnect of TCPConnection, with
\* the destructor at any time, are an ordered channel of bytes whose orderly
\* close loses none of them: the detailed specification implements ByteChannel.
THEOREM ChannelImplemented == Spec => ImplementsChannel
<1>1. Init => Channel!Init
  BY DEF Init, Channel!Init, Live
<1> QED
  BY <1>1, StreamStarts, StreamKept, ChannelStep, PTL
     DEF Spec, ImplementsChannel, Channel!Spec
=============================================================================
