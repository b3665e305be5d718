-------------------------- MODULE MCClientListener --------------------------
\* Two clients that connect to one listener.
EXTENDS ClientListener
CONSTANTS c1, c2
=============================================================================
