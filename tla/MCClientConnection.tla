------------------------- MODULE MCClientConnection -------------------------
\* A server that greets with an unknown protocol and has a mute address, one whose
\* name does not resolve, and one that is willing, so that a client that wakes up
\* reconnects to it at once, and has a dead address as well.
EXTENDS ClientConnection

MCHosts == << <<"alien", "mute">>, <<>>, <<"willing", "dead">> >>
=============================================================================
