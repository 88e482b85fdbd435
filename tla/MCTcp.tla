------------------------------- MODULE MCTcp --------------------------------
EXTENDS Tcp
MCPeerIsn == [c \in Peers |-> 14]
MCPeerLen == [c \in Peers |-> IF c \in Clients THEN 3 ELSE 0]
=============================================================================
