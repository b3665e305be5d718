------------------------- MODULE MCClipboardSharing -------------------------
\* The server's screen, one computer and one phone.
EXTENDS ClipboardSharing

CONSTANTS c, h, p

MCComputers == {c}
MCPhones == {h}
=============================================================================
