----------------------------- MODULE MC_DbProcess -----------------------------
(* Model-checking instances of DbProcess.  For the dispatch runs three       *)
(* sockets share two connection ids, so the "connection already exists"     *)
(* branches are reachable; one configured perspective and one unknown name. *)
(* For the lookup runs a single socket carries the head lookup channel, the *)
(* local writer is autoMerge, and the tree holds one id with two versions.  *)
EXTENDS DbProcess, TLC

CONSTANTS x, v1, v2, s1, s2, s3, cid1, cid2, pe1, pe2, px

MCIds == {x}
MCVersions == {v1, v2}
MCConnsDispatch == {s1, s2, s3}
MCConnsLookup == {s1}
MCConnIds == {cid1, cid2}
MCConnIdOf == (s1 :> cid1) @@ (s2 :> cid2) @@ (s3 :> cid1)
MCConnIdOfLookup == (s1 :> cid1)
MCPerspectives == {pe1}
MCPeNames == {pe1, pe2}
MCPrefixes == {px}
MCPrefixMatch == {<<px, x>>}
=============================================================================
