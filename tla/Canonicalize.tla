---------------------------- MODULE Canonicalize ----------------------------
(***************************************************************************)
(* canonicalize.py: which version of an entity is financially active.      *)
(*                                                                         *)
(* A variant is one observed content of an entity: a record with fields    *)
(* entity, version and hash.  The operators take the set of the variants   *)
(* of ONE entity.  Grouping by identity, version and payload hash in the   *)
(* code is set-building here, so arrival order has no representation: that *)
(* the durable state does not depend on it either is what the properties   *)
(* of DurableIngestion compare with these operators.                       *)
(***************************************************************************)
EXTENDS Integers

CONSTANT NoHash      \* "no canonical record": a conflicted or unseen entity

Versions(V) == {v.version : v \in V}

\* max(versions): the highest source version wins.
WinningVersion(V) == CHOOSE n \in Versions(V) : \A m \in Versions(V) : m <= n

\* The hash buckets at the winning version.
WinningHashes(V) == {v.hash : v \in {u \in V : u.version = WinningVersion(V)}}

\* More than one payload at the winning version: no record is safe to use.
IsConflicted(V) == \E g, h \in WinningHashes(V) : g # h

\* The canonical payload of the entity, if it has one.
CanonicalHash(V) ==
    IF V = {} \/ IsConflicted(V) THEN NoHash
    ELSE CHOOSE h \in WinningHashes(V) : TRUE

\* The evidence disposition of a receipt that carries variant v, when the
\* receipt chosen as representative of its payload is (or is not) this one.
EvidenceDisposition(V, v, isRepresentative) ==
    CASE v.version < WinningVersion(V)  -> "STALE"
      [] v.version >= WinningVersion(V) /\ IsConflicted(V) -> "CONFLICTED"
      [] v.version >= WinningVersion(V) /\ ~IsConflicted(V) ->
            IF isRepresentative THEN "ACCEPTED" ELSE "DUPLICATE"

=============================================================================
