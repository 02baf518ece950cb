------------------------------- MODULE NodeCopy -------------------------------
(***************************************************************************)
(* What a subscription to a database node promises: the local copy takes   *)
(* the values of the node in the order in which it had them, skipping none *)
(* while the connection lives, until the stream breaks or a write of a     *)
(* kind that the client does not handle makes the copy go astray.          *)
(***************************************************************************)
EXTENDS Sequences

VARIABLES
    node,     \* the value in the database
    pending,  \* the values that the node has had since, oldest first
    copy,     \* the value that the subscriber sees
    astray    \* such a write was made

vars == <<node, pending, copy, astray>>

Init == pending = <<>> /\ astray = FALSE

\* The node changes; the subscriber will hear of it if it is connected.
Write ==
    /\ \/ pending' = Append(pending, node')
       \/ pending' = pending
    /\ astray => astray'
    /\ UNCHANGED copy

\* The subscriber applies the next value.
Follow ==
    /\ pending # <<>>
    /\ astray \/ copy' = Head(pending)
    /\ pending' = Tail(pending)
    /\ UNCHANGED <<node, astray>>

\* The connection ends: what was on its way is never applied.
Break == pending' = <<>> /\ UNCHANGED <<node, copy, astray>>

\* A new connection starts with the whole value.
Resync == pending' = <<node>> /\ astray' = FALSE /\ UNCHANGED <<node, copy>>

Next == Write \/ Follow \/ Break \/ Resync
Spec == Init /\ [][Next]_vars
=============================================================================
