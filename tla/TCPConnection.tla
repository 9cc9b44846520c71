--------------------------- MODULE TCPConnection ---------------------------
(***************************************************************************)
(* One accepted connection (eve-core/network/TCPConnection.cpp with        *)
(* eve-common/network/EVETCPConnection.cpp): the main thread sends, pops   *)
(* received packets, disconnects and deletes; a worker thread runs         *)
(* TCPConnectionLoop.  mMSock and mMLoopRunning are modelled; mMSendQueue  *)
(* is only ever taken inside mMSock, and mMInQueue around one step.        *)
(*                                                                         *)
(* A buffer is a sequence of bytes <<buffer number, position>>.  A packet  *)
(* of the peer is its number; how StreamPacketizer cuts the byte stream    *)
(* into packets is left out.                                               *)
(***************************************************************************)
EXTENDS Naturals, Sequences, SequencesExt

CONSTANTS MaxSends,    \* calls of Send the main thread makes
          BufferSize,  \* bytes per buffer
          MaxPackets,  \* packets the peer sends
          SocketRoom   \* bytes the socket takes before send() would block

ASSUME TCPAssumption ==
    /\ MaxSends \in Nat
    /\ BufferSize \in Nat \ {0}
    /\ MaxPackets \in Nat
    /\ SocketRoom \in Nat \ {0}

VARIABLES
    sockState,    \* mSockState
    sockLock,     \* the thread that holds mMSock
    loopLock,     \* the thread that holds mMLoopRunning
    sendQueue,    \* mSendQueue
    inQueue,      \* mInQueue: packets received and not yet popped
    object,       \* what of the EVETCPConnection object is left
    mainPc,       \* what the main thread is doing with the connection
    workerPc,     \* where the worker thread is
    sends,        \* calls of Send so far
    peer,         \* the other end: "open" or "closed"
    unread,       \* bytes in the socket that the peer has not read
    arrived,      \* packets the peer has sent
    received,     \* packets the worker has taken from the socket
    popped,       \* history: the packets PopRep returned
    accepted,     \* history: bytes of the buffers Send accepted
    wire,         \* history: bytes handed to the socket
    failed        \* history: an error, a closed peer, a timeout or the
                  \* destructor ended the connection

sockVars == <<sockState, sockLock, loopLock>>
peerVars == <<peer, arrived>>
vars == <<sockVars, sendQueue, inQueue, object, mainPc, workerPc, sends,
          peerVars, unread, received, popped, accepted, wire, failed>>

SockState == {"CONNECTED", "DISCONNECTING", "DISCONNECTED"}
Thread == {"none", "main", "worker"}

\* "members" of the derived class go first, then the base destructor runs.
Object == {"alive", "baseOnly", "freed"}

MainPc == {"idle", "send", "disconnect", "destructor", "wait", "clear", "gone"}
WorkerPc == {"new", "loop", "recv", "sendData", "ending", "unlock", "done",
             "pureVirtual", "useAfterFree"}

Buffer(n) == [i \in 1..BufferSize |-> <<n, i>>]

Live == sockState \in {"CONNECTED", "DISCONNECTING"}

-----------------------------------------------------------------------------
(* The main thread.                                                        *)

CallSend ==
    /\ mainPc = "idle"
    /\ sends < MaxSends
    /\ sends' = sends + 1
    /\ mainPc' = "send"
    /\ UNCHANGED <<sockVars, sendQueue, inQueue, object, workerPc, peerVars,
                   unread, received, popped, accepted, wire, failed>>

\* Mutant of Send: a buffer is queued whatever the state of the socket.
SendAnyState ==
    /\ mainPc = "send"
    /\ sockLock = "none"
    /\ sendQueue' = Append(sendQueue, Buffer(sends))
    /\ accepted' = accepted \o Buffer(sends)
    /\ mainPc' = "idle"
    /\ UNCHANGED <<sockVars, inQueue, object, workerPc, sends, peerVars,
                   unread, received, popped, wire, failed>>

\* Send, once it has mMSock.
Send ==
    /\ mainPc = "send"
    /\ sockLock = "none"
    /\ \/ /\ sockState = "CONNECTED"
          /\ sendQueue' = Append(sendQueue, Buffer(sends))
          /\ accepted' = accepted \o Buffer(sends)
       \/ /\ sockState # "CONNECTED"
          /\ UNCHANGED <<sendQueue, accepted>>
    /\ mainPc' = "idle"
    /\ UNCHANGED <<sockVars, inQueue, object, workerPc, sends, peerVars,
                   unread, received, popped, wire, failed>>

CallDisconnect ==
    /\ mainPc = "idle"
    /\ mainPc' = "disconnect"
    /\ UNCHANGED <<sockVars, sendQueue, inQueue, object, workerPc, sends,
                   peerVars, unread, received, popped, accepted, wire, failed>>

\* Mutant of Disconnect: back to the state that Connect leaves.
DisconnectToConnecting ==
    /\ mainPc \in {"disconnect", "destructor"}
    /\ sockLock = "none"
    /\ sockState' = IF sockState = "CONNECTED" THEN "CONNECTING" ELSE sockState
    /\ mainPc' = IF mainPc = "destructor" THEN "wait" ELSE "idle"
    /\ UNCHANGED <<sockLock, loopLock, sendQueue, inQueue, object, workerPc,
                   sends, peerVars, unread, received, popped, accepted, wire,
                   failed>>

\* Disconnect, once it has mMSock; the destructor goes on to WaitLoop.
Disconnect ==
    /\ mainPc \in {"disconnect", "destructor"}
    /\ sockLock = "none"
    /\ sockState' = IF sockState = "CONNECTED" THEN "DISCONNECTING" ELSE sockState
    /\ mainPc' = IF mainPc = "destructor" THEN "wait" ELSE "idle"
    /\ UNCHANGED <<sockLock, loopLock, sendQueue, inQueue, object, workerPc,
                   sends, peerVars, unread, received, popped, accepted, wire,
                   failed>>

PopRep ==
    /\ mainPc = "idle"
    /\ inQueue # <<>>
    /\ popped' = Append(popped, Head(inQueue))
    /\ inQueue' = Tail(inQueue)
    /\ UNCHANGED <<sockVars, sendQueue, object, mainPc, workerPc, sends,
                   peerVars, unread, received, accepted, wire, failed>>

\* The client is deleted: ProcessNet saw another state than STATE_CONNECTED,
\* or the server shuts down (EntityMgr::Close), in any state.
Delete ==
    /\ mainPc = "idle"
    /\ object' = "baseOnly"
    /\ inQueue' = <<>>
    /\ mainPc' = "destructor"
    /\ UNCHANGED <<sockVars, sendQueue, workerPc, sends, peerVars, unread,
                   received, popped, accepted, wire, failed>>

\* Mutant of WaitLoop: the destructor does not wait.
WaitLoopSkipped ==
    /\ mainPc = "wait"
    /\ mainPc' = "clear"
    /\ UNCHANGED <<sockVars, sendQueue, inQueue, object, workerPc, sends,
                   peerVars, unread, received, popped, accepted, wire, failed>>

\* WaitLoop: lock and unlock mMLoopRunning.
WaitLoop ==
    /\ mainPc = "wait"
    /\ loopLock = "none"
    /\ mainPc' = "clear"
    /\ UNCHANGED <<sockVars, sendQueue, inQueue, object, workerPc, sends,
                   peerVars, unread, received, popped, accepted, wire, failed>>

\* ClearBuffers of the base class and the end of the object.
Free ==
    /\ mainPc = "clear"
    /\ sendQueue' = <<>>
    /\ object' = "freed"
    /\ mainPc' = "gone"
    /\ failed' = (failed \/ Live)
    /\ UNCHANGED <<sockVars, inQueue, workerPc, sends, peerVars, unread,
                   received, popped, accepted, wire>>

-----------------------------------------------------------------------------
(* The worker thread.                                                      *)

\* The new thread takes mMLoopRunning first.
StartLoop ==
    /\ workerPc = "new"
    /\ loopLock = "none"
    /\ loopLock' = "worker"
    /\ workerPc' = "loop"
    /\ UNCHANGED <<sockState, sockLock, sendQueue, inQueue, object, mainPc,
                   sends, peerVars, unread, received, popped, accepted, wire,
                   failed>>

\* Whatever the worker does next, it does with an object that is no more.
TouchFreed ==
    /\ object = "freed"
    /\ workerPc \notin {"done", "pureVirtual", "useAfterFree"}
    /\ workerPc' = "useAfterFree"
    /\ UNCHANGED <<sockVars, sendQueue, inQueue, object, mainPc, sends,
                   peerVars, unread, received, popped, accepted, wire, failed>>

\* Process: lock mMSock and look at the state.
Process ==
    /\ workerPc = "loop"
    /\ sockLock = "none"
    /\ \/ /\ Live
          /\ sockLock' = "worker"
          /\ workerPc' = IF sockState = "CONNECTED" THEN "recv" ELSE "sendData"
       \/ /\ ~ Live
          /\ workerPc' = "ending"
          /\ UNCHANGED sockLock
    /\ UNCHANGED <<sockState, loopLock, sendQueue, inQueue, object, mainPc,
                   sends, peerVars, unread, received, popped, accepted, wire,
                   failed>>

\* Mutant of RecvData: a packet is put before the ones that wait.
RecvDataInFront ==
    /\ workerPc = "recv"
    /\ object = "alive"
    /\ received < arrived
    /\ received' = received + 1
    /\ inQueue' = <<received + 1>> \o inQueue
    /\ UNCHANGED <<sockVars, sendQueue, object, mainPc, workerPc, sends,
                   peerVars, unread, popped, accepted, wire, failed>>

\* RecvData: a packet goes to the packetizer.  With the derived part of the
\* object gone, ProcessReceivedData is a pure virtual call.
RecvData ==
    /\ workerPc = "recv"
    /\ received < arrived
    /\ received' = received + 1
    /\ \/ /\ object = "alive"
          /\ inQueue' = Append(inQueue, received + 1)
          /\ UNCHANGED workerPc
       \/ /\ object # "alive"
          /\ workerPc' = "pureVirtual"
          /\ UNCHANGED inQueue
    /\ UNCHANGED <<sockVars, sendQueue, object, mainPc, sends, peerVars,
                   unread, popped, accepted, wire, failed>>

\* RecvData: EWOULDBLOCK; on with SendData.
RecvWouldBlock ==
    /\ workerPc = "recv"
    /\ received = arrived
    /\ peer = "open"
    /\ workerPc' = "sendData"
    /\ UNCHANGED <<sockVars, sendQueue, inQueue, object, mainPc, sends,
                   peerVars, unread, received, popped, accepted, wire, failed>>

\* Mutant of RecvFails: the return on an error forgets mMSock.
RecvFailsLocked ==
    /\ workerPc = "recv"
    /\ received = arrived
    /\ workerPc' = "ending"
    /\ failed' = TRUE
    /\ UNCHANGED <<sockVars, sendQueue, inQueue, object, mainPc, sends,
                   peerVars, unread, received, popped, accepted, wire>>

\* RecvData fails: the peer has closed, or nothing came for ten minutes.
RecvFails ==
    /\ workerPc = "recv"
    /\ received = arrived
    /\ workerPc' = "ending"
    /\ sockLock' = "none"
    /\ failed' = TRUE
    /\ UNCHANGED <<sockState, loopLock, sendQueue, inQueue, object, mainPc,
                   sends, peerVars, unread, received, popped, accepted, wire>>

\* Mutant of SendData: the rest of a partly sent buffer goes to the back.
SendDataRestLast ==
    /\ workerPc = "sendData"
    /\ peer = "open"
    /\ sendQueue # <<>>
    /\ \E k \in 1..(SocketRoom - unread) :
         /\ k <= Len(Head(sendQueue))
         /\ wire' = wire \o SubSeq(Head(sendQueue), 1, k)
         /\ unread' = unread + k
         /\ sendQueue' = IF k = Len(Head(sendQueue)) THEN Tail(sendQueue)
                         ELSE Append(Tail(sendQueue),
                                SubSeq(Head(sendQueue), k + 1, Len(Head(sendQueue))))
    /\ UNCHANGED <<sockVars, inQueue, object, mainPc, workerPc, sends,
                   peerVars, received, popped, accepted, failed>>

\* SendData: the socket takes some bytes of the front buffer, and what is left
\* is pushed back to the front.  While the socket takes none the worker turns
\* round in this loop, mMSock in hand.
SendData ==
    /\ workerPc = "sendData"
    /\ peer = "open"
    /\ sendQueue # <<>>
    /\ \E k \in 1..(SocketRoom - unread) :
         /\ k <= Len(Head(sendQueue))
         /\ wire' = wire \o SubSeq(Head(sendQueue), 1, k)
         /\ unread' = unread + k
         /\ sendQueue' = IF k = Len(Head(sendQueue)) THEN Tail(sendQueue)
                         ELSE <<SubSeq(Head(sendQueue), k + 1, Len(Head(sendQueue)))>>
                                \o Tail(sendQueue)
    /\ UNCHANGED <<sockVars, inQueue, object, mainPc, workerPc, sends,
                   peerVars, received, popped, accepted, failed>>

\* SendData: send() fails and the buffer is deleted.
SendFails ==
    /\ workerPc = "sendData"
    /\ peer = "closed"
    /\ sendQueue # <<>>
    /\ sendQueue' = Tail(sendQueue)
    /\ workerPc' = "ending"
    /\ sockLock' = "none"
    /\ failed' = TRUE
    /\ UNCHANGED <<sockState, loopLock, inQueue, object, mainPc, sends,
                   peerVars, unread, received, popped, accepted, wire>>

\* Mutant of SendDone: no DoDisconnect when the queue has run empty.
SendDoneOnly ==
    /\ workerPc = "sendData"
    /\ sendQueue = <<>>
    /\ sockLock' = "none"
    /\ workerPc' = "loop"
    /\ UNCHANGED <<sockState, loopLock, sendQueue, inQueue, object, mainPc,
                   sends, peerVars, unread, received, popped, accepted, wire,
                   failed>>

\* The queue is empty: Process returns, after DoDisconnect if that was asked.
\* ClearBuffers is virtual and empties inQueue as long as there is one.
SendDone ==
    /\ workerPc = "sendData"
    /\ sendQueue = <<>>
    /\ sockLock' = "none"
    /\ workerPc' = "loop"
    /\ \/ /\ sockState = "CONNECTED"
          /\ UNCHANGED <<sockState, inQueue>>
       \/ /\ sockState = "DISCONNECTING"
          /\ sockState' = "DISCONNECTED"
          /\ inQueue' = <<>>
    /\ UNCHANGED <<loopLock, sendQueue, object, mainPc, sends, peerVars,
                   unread, received, popped, accepted, wire, failed>>

\* The loop is over: DoDisconnect.
DoDisconnect ==
    /\ workerPc = "ending"
    /\ sockLock = "none"
    /\ sockState' = "DISCONNECTED"
    /\ sendQueue' = IF Live THEN <<>> ELSE sendQueue
    /\ inQueue' = IF Live THEN <<>> ELSE inQueue
    /\ workerPc' = "unlock"
    /\ UNCHANGED <<sockLock, loopLock, object, mainPc, sends, peerVars,
                   unread, received, popped, accepted, wire, failed>>

EndLoop ==
    /\ workerPc = "unlock"
    /\ loopLock' = "none"
    /\ workerPc' = "done"
    /\ UNCHANGED <<sockState, sockLock, sendQueue, inQueue, object, mainPc,
                   sends, peerVars, unread, received, popped, accepted, wire,
                   failed>>

-----------------------------------------------------------------------------
(* The peer.                                                               *)

PeerSends ==
    /\ peer = "open"
    /\ arrived < MaxPackets
    /\ arrived' = arrived + 1
    /\ UNCHANGED <<sockVars, sendQueue, inQueue, object, mainPc, workerPc,
                   sends, peer, unread, received, popped, accepted, wire, failed>>

PeerReads ==
    /\ peer = "open"
    /\ unread > 0
    /\ unread' = 0
    /\ UNCHANGED <<sockVars, sendQueue, inQueue, object, mainPc, workerPc,
                   sends, peerVars, received, popped, accepted, wire, failed>>

PeerCloses ==
    /\ peer = "open"
    /\ peer' = "closed"
    /\ UNCHANGED <<sockVars, sendQueue, inQueue, object, mainPc, workerPc,
                   sends, arrived, unread, received, popped, accepted, wire,
                   failed>>

-----------------------------------------------------------------------------
Init ==
    /\ sockState = "CONNECTED"
    /\ sockLock = "none"
    /\ loopLock = "none"
    /\ sendQueue = <<>>
    /\ inQueue = <<>>
    /\ object = "alive"
    /\ mainPc = "idle"
    /\ workerPc = "new"
    /\ sends = 0
    /\ peer = "open"
    /\ unread = 0
    /\ arrived = 0
    /\ received = 0
    /\ popped = <<>>
    /\ accepted = <<>>
    /\ wire = <<>>
    /\ failed = FALSE

Main ==
    \/ CallSend \/ Send \/ CallDisconnect \/ Disconnect
    \/ PopRep \/ Delete \/ WaitLoop \/ Free

Worker ==
    \/ /\ object # "freed"
       /\ \/ StartLoop \/ Process
          \/ RecvData \/ RecvWouldBlock \/ RecvFails
          \/ SendData \/ SendFails \/ SendDone
          \/ DoDisconnect \/ EndLoop
    \/ TouchFreed

Peer == PeerSends \/ PeerReads \/ PeerCloses

Next == Main \/ Worker \/ Peer

Spec == Init /\ [][Next]_vars

\* The worker thread is scheduled and gets mMSock whenever it is free for it
\* again and again; so does a main thread that waits for a mutex, because the
\* worker sleeps between two calls of Process.  A peer that leaves data unread
\* reads them or goes away.
Fairness ==
    /\ SF_vars(Worker)
    /\ SF_vars(Send) /\ SF_vars(Disconnect) /\ SF_vars(WaitLoop)
    /\ WF_vars(Free)
    /\ WF_vars(PeerReads)

FairSpec == Spec /\ Fairness

-----------------------------------------------------------------------------
(* Properties.                                                             *)

TypeOK ==
    /\ sockState \in SockState
    /\ sockLock \in Thread
    /\ loopLock \in Thread
    /\ object \in Object
    /\ mainPc \in MainPc
    /\ workerPc \in WorkerPc
    /\ sends \in 0..MaxSends
    /\ peer \in {"open", "closed"}
    /\ unread \in 0..SocketRoom
    /\ arrived \in 0..MaxPackets
    /\ received \in 0..MaxPackets
    /\ failed \in BOOLEAN

\* Packets reach the main thread in the order they came, and as long as the
\* connection stands none is missing.
InboundOrder ==
    Live /\ object = "alive" => popped \o inQueue = [i \in 1..received |-> i]

\* A worker that ran before the object began to go (the destructor's WaitLoop
\* then waits for it) never touches the freed object, wherever it was.
StartedInTimeIsJoined ==
    [](workerPc # "new" /\ object = "alive" => [](workerPc # "useAfterFree"))

\* What WaitLoop says of itself: past it, there is no worker thread any more.
WaitLoopWaits == mainPc \in {"clear", "gone"} => workerPc = "done"

\* The byte stream the two threads make of Send, SendData and Disconnect.
Channel == INSTANCE ByteChannel WITH
    Buffers <- {Buffer(n) : n \in 1..MaxSends},
    delivered <- wire,
    status <- IF object = "freed" \/ ~ Live THEN "closed"
              ELSE IF sockState = "CONNECTED" THEN "open" ELSE "closing"

ImplementsChannel == Channel!Spec

\* Send comes back: mMSock does not stay with the worker.
SendReturns == (mainPc = "send") ~> (mainPc # "send")

\* A disconnect that was asked for comes about, unless the program aborts or
\* the object goes before its worker ever ran.
DisconnectCompletes ==
    (sockState = "DISCONNECTING")
        ~> (sockState = "DISCONNECTED" \/ workerPc = "pureVirtual" \/ object = "freed")
=============================================================================
