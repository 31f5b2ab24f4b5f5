------------------------------ MODULE PacketChannel ------------------------------
(***************************************************************************)
(* What the packet buffer of the recorder promises to the two sides of it: *)
(* the capture callback offers numbered blocks, the reader of standard     *)
(* output receives some of them.  A block may be refused when it is        *)
(* offered, the oldest of the backlog lost or the whole backlog thrown     *)
(* away, but a block that is delivered is the oldest of the backlog, it is *)
(* delivered once, and the backlog is bounded.                             *)
(***************************************************************************)
EXTENDS Integers, Sequences

CONSTANT Capacity  \* the most blocks that may wait to be delivered

VARIABLES
    offered,    \* how many blocks have been offered, which numbers them
    pending,    \* the backlog, oldest block first
    delivered   \* what the reader has received

chan == <<offered, pending, delivered>>

ChannelInit ==
    /\ offered = 0
    /\ pending = <<>>
    /\ delivered = <<>>

Accept ==
    /\ Len(pending) < Capacity
    /\ offered' = offered + 1
    /\ pending' = Append(pending, offered + 1)
    /\ UNCHANGED delivered

Refuse ==
    /\ offered' = offered + 1
    /\ UNCHANGED <<pending, delivered>>

Deliver ==
    /\ pending # <<>>
    /\ delivered' = Append(delivered, Head(pending))
    /\ pending' = Tail(pending)
    /\ UNCHANGED offered

Lose ==
    /\ pending # <<>>
    /\ pending' = Tail(pending)
    /\ UNCHANGED <<offered, delivered>>

Flush ==
    /\ pending' = <<>>
    /\ UNCHANGED <<offered, delivered>>

ChannelNext == Accept \/ Refuse \/ Deliver \/ Lose \/ Flush

ChannelSpec == ChannelInit /\ [][ChannelNext]_chan
=================================================================================
