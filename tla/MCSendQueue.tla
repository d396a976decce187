---------------------------- MODULE MCSendQueue -----------------------------
EXTENDS SendQueue
(* A created block, a republished one and two messages that are not        *)
(* rebroadcast.                                                            *)
MCRebroadcasts == [created |-> 2, republished |-> 1, keepalive |-> 0, confirm |-> 0]
=============================================================================
