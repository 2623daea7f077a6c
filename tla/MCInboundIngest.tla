--------------------------- MODULE MCInboundIngest ---------------------------
(* Small instances of InboundIngest for TLC.                                 *)
EXTENDS InboundIngest, TLC

CONSTANTS n1, n2, n3,  \* notices
          y1, y2,      \* external ids
          p1           \* a peer

\* n1 and n2 repeat the same message, n3 is an older one of the same sender.
MCExtOf == [n \in Notices |-> IF n = n3 THEN y2 ELSE y1]
MCPeerOf == [y \in Externals |-> p1]
MCAtOf == [y \in Externals |-> IF y = y1 THEN 1 ELSE 0]
=============================================================================
