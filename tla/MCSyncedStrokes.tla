-------------------------- MODULE MCSyncedStrokes --------------------------
(* Small instances of SyncedStrokes. *)
EXTENDS SyncedStrokes

CONSTANTS ann, bob, s1, s2

\* Synchronised clocks, and bob's clock one edit ahead of ann's.
SameClocks == [c \in Clients |-> 0]
SkewedClocks == [c \in Clients |-> IF c = bob THEN 1 ELSE 0]

\* Edits per client: ann two and bob one, ann alone, or one each.
TwoAndOne == [c \in Clients |-> IF c = ann THEN 2 ELSE 1]
AnnOnly == [c \in Clients |-> IF c = ann THEN 2 ELSE 0]
OneEach == [c \in Clients |-> 1]
=============================================================================
