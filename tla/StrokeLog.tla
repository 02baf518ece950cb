------------------------------ MODULE StrokeLog ------------------------------
(***************************************************************************)
(* What the synchronisation of a drawing's strokes promises about an edit, *)
(* whatever threads and buffers carry it.  An edit waits in the queue of   *)
(* its client until one request takes the queue; an edit made on a stroke  *)
(* that is in a request whose body is still open changes that request too, *)
(* and may be sent by it and again by a later one.  A request is applied   *)
(* at most once, and what was taken, applied or dropped never comes back.  *)
(* SyncedStrokes implements it.                                            *)
(***************************************************************************)
EXTENDS Naturals

CONSTANTS Clients, Strokes, Requests, None

Edit == [by : Clients, at : Nat, gone : BOOLEAN]
Map  == [Strokes -> Edit \cup {None}]

VARIABLES
    db,       \* the shared value of each stroke: an edit or None
    count,    \* count[c]: edits made by c
    queue,    \* queue[c]: c's edits that no request took
    requests, \* requests[c][r]: the edits that c's request r carries
    open      \* open[c]: c's requests whose body is not fixed yet

vars == <<db, count, queue, requests, open>>

Nothing == [s \in Strokes |-> None]

Init ==
    /\ db \in Map
    /\ count = [c \in Clients |-> 0]
    /\ queue = [c \in Clients |-> Nothing]
    /\ requests = [c \in Clients |-> [r \in Requests |-> Nothing]]
    /\ open = [c \in Clients |-> {}]

\* A client edits the touched strokes. The edit is queued for some of them; for the
\* others, and maybe for these too, it is made on the strokes of open requests.
Make(c, touched, gone) ==
    LET e == [by |-> c, at |-> count[c] + 1, gone |-> gone]
    IN  /\ count' = [count EXCEPT ![c] = @ + 1]
        /\ \E queued \in SUBSET touched, stamped \in [Requests -> SUBSET touched] :
              /\ \A r \in Requests : stamped[r] # {} => r \in open[c] /\ ~gone
              /\ \A r \in Requests : \A s \in stamped[r] : requests[c][r][s] # None
              /\ \A s \in touched \ queued : \E r \in Requests : s \in stamped[r]
              /\ queue' = [queue EXCEPT ![c] = [s \in Strokes |->
                    IF s \in queued THEN e ELSE IF s \in touched THEN None ELSE @[s]]]
              /\ requests' = [requests EXCEPT ![c] = [r \in Requests |->
                    [s \in Strokes |-> IF s \in stamped[r] THEN e ELSE @[r][s]]]]
        /\ UNCHANGED <<db, open>>

\* An empty request takes the queue.
Take(c, r) ==
    /\ requests[c][r] = Nothing
    /\ requests' = [requests EXCEPT ![c][r] = queue[c]]
    /\ queue' = [queue EXCEPT ![c] = Nothing]
    /\ open' = [open EXCEPT ![c] = @ \cup {r}]
    /\ UNCHANGED <<db, count>>

\* The body of a request is fixed.
Fix(c, r) ==
    /\ open' = [open EXCEPT ![c] = @ \ {r}]
    /\ UNCHANGED <<db, count, queue, requests>>

\* A request whose body is fixed is applied, and carries nothing any more.
Apply(c, r) ==
    /\ r \notin open[c]
    /\ db' = [s \in Strokes |-> IF requests[c][r][s] # None THEN requests[c][r][s] ELSE db[s]]
    /\ requests' = [requests EXCEPT ![c][r] = Nothing]
    /\ UNCHANGED <<count, queue, open>>

\* The queue of a client is dropped.
DropQueue(c) ==
    /\ queue' = [queue EXCEPT ![c] = Nothing]
    /\ UNCHANGED <<db, count, requests, open>>

\* A request fails.
DropRequest(c, r) ==
    /\ requests' = [requests EXCEPT ![c][r] = Nothing]
    /\ open' = [open EXCEPT ![c] = @ \ {r}]
    /\ UNCHANGED <<db, count, queue>>

\* The client ends, with its queue and its open requests.
End(c) ==
    /\ queue' = [queue EXCEPT ![c] = Nothing]
    /\ requests' = [requests EXCEPT ![c] = [r \in Requests |->
          IF r \in open[c] THEN Nothing ELSE @[r]]]
    /\ open' = [open EXCEPT ![c] = {}]
    /\ UNCHANGED <<db, count>>

Next == \E c \in Clients :
    \/ \E touched \in SUBSET Strokes, gone \in BOOLEAN : Make(c, touched, gone)
    \/ \E r \in Requests : Take(c, r) \/ Fix(c, r) \/ Apply(c, r) \/ DropRequest(c, r)
    \/ DropQueue(c) \/ End(c)

Spec == Init /\ [][Next]_vars
=============================================================================
