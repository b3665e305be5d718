--------------------------- MODULE MCFileTransfer ---------------------------
(* Small instances of FileTransfer.                                         *)
EXTENDS FileTransfer

\* An empty file or a directory; a file of two chunks; one of each kind.
ThreeManifests == {<<0>>, <<2>>, <<0, 1>>}

\* An empty file, and a file of one chunk.
OneManifest == {<<0, 1>>}
=============================================================================
