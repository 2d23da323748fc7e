----------------------------- MODULE MCScopeTable -----------------------------
(***************************************************************************)
(* ScopeTable for TLC.  Nothing but hash tells buckets apart, or symbols,  *)
(* so the bucket of the mark may be called 0 and the symbols be numbered   *)
(* as their buckets are.                                                   *)
(***************************************************************************)
EXTENDS ScopeTable

CONSTANTS x, y

MCHashes == {h \in [Keys -> Buckets] : h[Mark] = 0 /\ h[x] <= h[y]}
===============================================================================
