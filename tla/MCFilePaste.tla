---------------------------- MODULE MCFilePaste ----------------------------
(* Small instances of FilePaste: the two ends are alike.                    *)
EXTENDS FilePaste

PeerSymmetry == Permutations(Peers)
=============================================================================
