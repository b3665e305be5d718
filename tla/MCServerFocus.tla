--------------------------- MODULE MCServerFocus ---------------------------
(* Small instances of ServerFocus: the primary and up to three sessions of  *)
(* two client names, one of which may have an alias.                        *)
EXTENDS ServerFocus, TLC

CONSTANTS s1, s2, s3, desk, left, right

MCNames == {desk, left, right}

Identity == [n \in MCNames |-> n]

\* Configurations without aliases: both clients; one; and one that lacks the
\* primary and is refused.
PlainConfigs ==
    {Identity, [Identity EXCEPT ![right] = NoName], [Identity EXCEPT ![desk] = NoName]}

\* Reloads that change nothing but what is pending.
OneConfig == {Identity}

\* right may also be an alias of left.
AliasConfigs == {Identity, [Identity EXCEPT ![right] = left]}

SessionSymmetry == Permutations(Sessions)
=============================================================================
