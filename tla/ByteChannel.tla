---------------------------- MODULE ByteChannel ----------------------------
(***************************************************************************)
(* What a TCPConnection promises the code that sends through it: the peer  *)
(* gets the bytes of the accepted buffers in order, none of them twice and *)
(* none of them late, and a close that nothing forced loses none of them.  *)
(* (TCPConnection.h, comments on Send and Disconnect.)                     *)
(***************************************************************************)
EXTENDS Sequences, SequencesExt

CONSTANT Buffers    \* what Send may be given, as sequences of bytes

VARIABLES accepted,   \* the bytes of every buffer Send returned true for
          delivered,  \* the bytes handed to the socket
          status,     \* "open", "closing" or "closed"
          failed      \* the socket, the peer or the owner cut it short

vars == <<accepted, delivered, status, failed>>

Init ==
    /\ accepted = <<>>
    /\ delivered = <<>>
    /\ status = "open"
    /\ failed = FALSE

Accept ==
    /\ status = "open"
    /\ \E b \in Buffers : accepted' = accepted \o b
    /\ UNCHANGED <<delivered, status, failed>>

Deliver ==
    /\ status # "closed"
    /\ delivered' # delivered
    /\ IsPrefix(delivered, delivered')
    /\ IsPrefix(delivered', accepted)
    /\ UNCHANGED <<accepted, status, failed>>

BeginClose ==
    /\ status = "open"
    /\ status' = "closing"
    /\ UNCHANGED <<accepted, delivered, failed>>

\* The orderly end: all that was accepted has been delivered.
Close ==
    /\ status = "closing"
    /\ delivered = accepted
    /\ status' = "closed"
    /\ UNCHANGED <<accepted, delivered, failed>>

\* The forced end, which may become known before the channel closes.
Fail ==
    /\ ~ failed
    /\ failed' = TRUE
    /\ UNCHANGED <<accepted, delivered, status>>

Cut ==
    /\ status # "closed"
    /\ status' = "closed"
    /\ failed' = TRUE
    /\ UNCHANGED <<accepted, delivered>>

Next == Accept \/ Deliver \/ BeginClose \/ Close \/ Fail \/ Cut

Spec == Init /\ [][Next]_vars
=============================================================================
