----------------------------- MODULE MCTCPSocket -----------------------------
\* One application thread beside the multiplexer's thread, as in the program,
\* with a data socket and a listening socket.
EXTENDS TCPSocket
CONSTANTS app, data, listen
MCOwner == [s \in Sockets |-> app]
==============================================================================
